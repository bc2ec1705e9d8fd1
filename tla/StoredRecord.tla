---------------------------- MODULE StoredRecord ----------------------------
(***************************************************************************)
(* One stored connection through the code that writes and reads its        *)
(* columns: ValidationService, ConnectionService._merge and                *)
(* _to_persisted_draft, DriverOptionsType, StoredConnectionRecordMapper    *)
(* and ConnectionPublicProjector.  ConnectionService is about requests     *)
(* that interleave; here a request is one step and the columns differ.     *)
(*                                                                         *)
(* The processes that share the table need not be alike: each has its own  *)
(* registry (another release, another set of plugins) and its own key, and *)
(* the row may hold what none of them wrote.  Properties and secrets are   *)
(* objects, values by field, which a process takes in and dumps through    *)
(* its own models; an option value stands for whatever a model accepts.    *)
(***************************************************************************)
CONSTANTS
  Processes,
  Registry,   \* what each process knows of the row's type
  Key,        \* the key of each process's encryption provider
  Keys, Kinds, Drivers, Options, Fields, Values,
  Default,    \* the value a model gives a field left out
  Mappings,   \* the contents of labels, metadata and extra, Empty included
  Stored,     \* the rows the table may hold at first
  Drafts,     \* the payloads clients create
  Patches,    \* the patches clients send
  Empty, Junk, None

MappingColumns == {"labels", "metadata", "extra"}
Columns == {"driver", "driver_options", "properties", "secrets"} \cup MappingColumns

EmptyObject == [f \in {} |-> Default]
NoPatch == [c \in {} |-> None]

Objects == UNION {[F -> Values] : F \in SUBSET Fields}
Ciphertexts == [key : Keys, val : Objects \cup {Junk}]

\* Junk is JSON that is not what the column holds: no mapping, no model_ref.
Rows ==
  [kind : Kinds, driver : Drivers \cup {None}, driver_options : Options \cup {None, Junk},
   properties : Objects \cup {Junk}, secrets : Ciphertexts \cup {None},
   labels : Mappings \cup {Junk}, metadata : Mappings \cup {Junk}, extra : Mappings \cup {Junk}]

\* A ConnectionDraft: what the columns mean.
Payloads ==
  [kind : Kinds, driver : Drivers \cup {None}, driver_options : Options \cup {None},
   properties : Objects, secrets : Objects,
   labels : Mappings, metadata : Mappings, extra : Mappings]

(* A properties or secrets model: what it takes for each of its fields,    *)
(* which of them it requires, and whether it forbids others.               *)
Models ==
  [accepts : UNION {[F -> SUBSET Values] : F \in SUBSET Fields},
   required : SUBSET Fields, strict : BOOLEAN]

(* A TypeSpec, or the absence of one: `options` is what each declared      *)
(* driver takes ({} is NoDriverOptions), `resolves` the stored options     *)
(* whose model_ref this process can import and validate.                   *)
Specs ==
  [known : BOOLEAN, kind : Kinds, properties : Models, secrets : Models \cup {None},
   default : Drivers \cup {None}, options : UNION {[D -> SUBSET Options] : D \in SUBSET Drivers},
   resolves : SUBSET Options]

ASSUME StoredAssumption ==
  /\ Empty \in Mappings
  /\ Default \in Values
  /\ Stored \subseteq Rows
  /\ Drafts \subseteq Payloads
  /\ None \notin Drivers \cup Options \cup Ciphertexts \cup Rows \cup Mappings \cup Models \cup {Junk}
  /\ Junk \notin Options \cup Objects \cup Mappings \cup Ciphertexts

ASSUME PatchAssumption ==
  \A patch \in Patches :
    /\ DOMAIN patch \subseteq Columns
    /\ "driver" \in DOMAIN patch => patch["driver"] \in Drivers \cup {None}
    /\ "driver_options" \in DOMAIN patch => patch["driver_options"] \in Options \cup {None}
    /\ "properties" \in DOMAIN patch => patch["properties"] \in Objects
    /\ "secrets" \in DOMAIN patch => patch["secrets"] \in Objects
    /\ \A c \in MappingColumns \cap DOMAIN patch : patch[c] \in Mappings \cup {None}

\* A model takes the default of every field it does not require.
SoundModel(model) ==
  /\ model.required \subseteq DOMAIN model.accepts
  /\ \A f \in DOMAIN model.accepts \ model.required : Default \in model.accepts[f]

(* What a registration is expected to guarantee: a model takes its own     *)
(* defaults and what it dumped, a public model takes what the model took   *)
(* (each registered one is the model itself), and the options of a driver  *)
(* are imported again by their model_ref (a class of a module, not of a    *)
(* function body).                                                         *)
ASSUME SpecAssumption ==
  /\ Registry \in [Processes -> Specs]
  /\ Key \in [Processes -> Keys]
  /\ \A p \in Processes : LET spec == Registry[p] IN
       /\ SoundModel(spec.properties)
       /\ spec.secrets # None => SoundModel(spec.secrets)
       /\ \A d \in DOMAIN spec.options : spec.options[d] \subseteq spec.resolves
       /\ spec.default = None \/ spec.default \in DOMAIN spec.options

VARIABLES
  row,     \* the stored row, None before create
  req,     \* the request that is being served, and by whom
  answer   \* what the last request ended with

vars == <<row, req, answer>>

-----------------------------------------------------------------------------
(* ValidationService.                                                      *)

EffectiveDriver(p, d) == IF d.driver # None THEN d.driver ELSE Registry[p].default

\* model_validate
Fits(model, object) ==
  /\ model.required \subseteq DOMAIN object
  /\ \A f \in DOMAIN object \cap DOMAIN model.accepts : object[f] \in model.accepts[f]
  /\ model.strict => DOMAIN object \subseteq DOMAIN model.accepts

\* Mutant: the fields the client left out stay left out.
DumpUnset(model, object) == [f \in DOMAIN object \cap DOMAIN model.accepts |-> object[f]]

\* model_dump of what was validated: defaults are filled in, and a field the
\* model does not declare is gone.
Dump(model, object) ==
  [f \in DOMAIN model.accepts |-> IF f \in DOMAIN object THEN object[f] ELSE Default]

PropertiesFit(p, props) == Fits(Registry[p].properties, props)
SecretsFit(p, secrets) == Registry[p].secrets # None => Fits(Registry[p].secrets, secrets)

\* validate_driver_options: no driver and NoDriverOptions take none.
OptionsFit(p, driver, options) ==
  IF driver = None THEN options = None
  ELSE /\ driver \in DOMAIN Registry[p].options
       /\ IF Registry[p].options[driver] = {} THEN options = None
          ELSE options \in Registry[p].options[driver]

DriverFits(p, driver) ==
  driver # None /\ DOMAIN Registry[p].options # {} => driver \in DOMAIN Registry[p].options

Validates(p, d) ==
  /\ Registry[p].known
  /\ d.kind = Registry[p].kind
  /\ DriverFits(p, EffectiveDriver(p, d))
  /\ PropertiesFit(p, d.properties)
  /\ SecretsFit(p, d.secrets)
  /\ OptionsFit(p, EffectiveDriver(p, d), d.driver_options)

-----------------------------------------------------------------------------
(* Reading a row: StoredConnectionRecordMapper.to_record.                  *)

Issue(field, code) == [field |-> field, code |-> code]
Found(condition, field, code) == IF condition THEN {Issue(field, code)} ELSE {}

Coerce(raw) == IF raw = Junk THEN Empty ELSE raw

Readable(p, cipher) == cipher = None \/ cipher.key = Key[p]
NoMapping(p, cipher) == cipher # None /\ cipher.key = Key[p] /\ cipher.val = Junk

Decrypt(p, cipher) ==
  IF cipher = None \/ ~Readable(p, cipher) \/ NoMapping(p, cipher) THEN EmptyObject ELSE cipher.val

Resolves(p, stored) == stored = None \/ stored \in Registry[p].resolves

ToRecord(p) ==
  [kind |-> row.kind, driver |-> row.driver,
   driver_options |-> IF Resolves(p, row.driver_options) THEN row.driver_options ELSE None,
   properties |-> IF row.properties = Junk THEN EmptyObject ELSE row.properties,
   secrets |-> Decrypt(p, row.secrets),
   labels |-> Coerce(row.labels), metadata |-> Coerce(row.metadata), extra |-> Coerce(row.extra)]

ReadIssues(p) ==
  Found(~Resolves(p, row.driver_options), "driver_options", "invalid")
  \cup Found(row.properties = Junk, "properties", "invalid")
  \cup Found(~Readable(p, row.secrets), "secrets", "unreadable")
  \cup Found(NoMapping(p, row.secrets), "secrets", "invalid")
  \cup {Issue(c, "invalid") : c \in {m \in MappingColumns : row[m] = Junk}}

\* Mutant: the projector trusts the secrets that could be decrypted.
ViewIssuesNoSecrets(p) ==
  LET r == ToRecord(p) IN
  ReadIssues(p) \cup
    (IF ~Registry[p].known THEN {Issue("type", "unknown")}
     ELSE UNION {
       Found(r.kind # Registry[p].kind, "kind", "mismatch"),
       Found(row.properties # Junk /\ ~PropertiesFit(p, r.properties), "properties", "invalid"),
       Found(Resolves(p, row.driver_options) /\ ~OptionsFit(p, EffectiveDriver(p, r), r.driver_options),
             "driver_options", "invalid")})

\* Mutant: a column that reads as empty is not an issue.
ViewIssuesQuiet(p) ==
  LET r == ToRecord(p) IN
    IF ~Registry[p].known THEN {Issue("type", "unknown")}
    ELSE UNION {
       Found(~Readable(p, row.secrets), "secrets", "unreadable"),
       Found(r.kind # Registry[p].kind, "kind", "mismatch"),
       Found(~PropertiesFit(p, r.properties), "properties", "invalid"),
       Found(~OptionsFit(p, EffectiveDriver(p, r), r.driver_options), "driver_options", "invalid"),
       Found(~SecretsFit(p, r.secrets), "secrets", "invalid")}

\* ConnectionPublicProjector.build_any: the issues of the broken view, none for
\* a row it shows as a valid connection.
ViewIssues(p) ==
  LET r == ToRecord(p) IN
  ReadIssues(p) \cup
    (IF ~Registry[p].known THEN {Issue("type", "unknown")}
     ELSE UNION {
       Found(r.kind # Registry[p].kind, "kind", "mismatch"),
       Found(row.properties # Junk /\ ~PropertiesFit(p, r.properties), "properties", "invalid"),
       Found(Resolves(p, row.driver_options) /\ ~OptionsFit(p, EffectiveDriver(p, r), r.driver_options),
             "driver_options", "invalid"),
       Found(/\ Readable(p, row.secrets) /\ ~NoMapping(p, row.secrets)
             /\ ~SecretsFit(p, r.secrets), "secrets", "invalid")})

\* ConnectionPublicProjector.build, which the create route answers with.
Builds(p) ==
  LET r == ToRecord(p) IN
  /\ Registry[p].known
  /\ PropertiesFit(p, r.properties)
  /\ OptionsFit(p, EffectiveDriver(p, r), r.driver_options)

-----------------------------------------------------------------------------
(* The requests.                                                           *)

Merge(p, patch) ==
  LET r == ToRecord(p) IN
  [c \in Columns \cup {"kind"} |-> IF c \in DOMAIN patch THEN patch[c] ELSE r[c]]

\* Mutant: the patch need only name something.
MustRepairAny(p, patch) == ~Readable(p, row.secrets)

MustRepair(p, patch) == ~Readable(p, row.secrets) /\ "secrets" \notin DOMAIN patch

\* No secrets are stored for a type that has no model of them.
KeptSecrets(p, secrets) ==
  IF Registry[p].secrets = None THEN EmptyObject ELSE Dump(Registry[p].secrets, secrets)

\* _to_persisted_draft and the columns create() and replace() write: the driver
\* as it was given, not the default it stands for.
Persisted(p, d) ==
  [kind |-> d.kind, driver |-> d.driver, driver_options |-> d.driver_options,
   properties |-> Dump(Registry[p].properties, d.properties),
   secrets |-> [key |-> Key[p], val |-> KeptSecrets(p, d.secrets)],
   labels |-> d.labels, metadata |-> d.metadata, extra |-> d.extra]

\* What a connector is handed: the driver with its default, and model objects.
Handed(p, d) ==
  [driver |-> EffectiveDriver(p, d), driver_options |-> d.driver_options,
   properties |-> Dump(Registry[p].properties, d.properties),
   secrets |-> IF Registry[p].secrets = None THEN None ELSE KeptSecrets(p, d.secrets)]

\* Mutant: an explicit null is taken for an empty mapping.
RefusalNulls(p, patch) ==
  IF MustRepair(p, patch) THEN "repair"
  ELSE IF ~Validates(p, Merge(p, patch)) THEN "invalid" ELSE "ok"

\* Why update or check_stored raises, "ok" when it does not: an explicit null
\* for labels, metadata or extra is no mapping.
Refusal(p, patch) ==
  IF MustRepair(p, patch) THEN "repair"
  ELSE IF ~Validates(p, Merge(p, patch)) THEN "invalid"
  ELSE IF \E c \in MappingColumns \cap DOMAIN patch : patch[c] = None THEN "error"
  ELSE "ok"

Receive(op, p, payload) ==
  /\ req' = [op |-> op, by |-> p, payload |-> payload]
  /\ answer' = None
  /\ UNCHANGED row

ReceiveCreate(p) ==
  /\ req = None /\ row = None
  /\ \E draft \in Drafts : Receive("create", p, draft)

ReceivePatch(p) ==
  /\ req = None /\ row # None
  /\ \E op \in {"update", "check"}, patch \in Patches : Receive(op, p, patch)

Answer(o) == answer' = o /\ req' = None

Create ==
  /\ req # None /\ req.op = "create"
  /\ IF Validates(req.by, req.payload)
     THEN Answer("ok") /\ row' = Persisted(req.by, req.payload)
     ELSE Answer("invalid") /\ UNCHANGED row

Update ==
  /\ req # None /\ req.op = "update"
  /\ Answer(Refusal(req.by, req.payload))
  /\ IF Refusal(req.by, req.payload) = "ok"
     THEN row' = Persisted(req.by, Merge(req.by, req.payload))
     ELSE UNCHANGED row

\* check_stored, and get_client of the stored record with an empty patch: the
\* connector gets what Handed says, the row stays.
Check ==
  /\ req # None /\ req.op = "check"
  /\ Answer(Refusal(req.by, req.payload))
  /\ UNCHANGED row

StoredInit == row \in Stored \cup {None} /\ req = None /\ answer = None

StoredNext ==
  \/ \E p \in Processes : ReceiveCreate(p) \/ ReceivePatch(p)
  \/ Create \/ Update \/ Check

StoredSpec == StoredInit /\ [][StoredNext]_vars

-----------------------------------------------------------------------------
(* Properties.                                                             *)

StoredTypeOK ==
  /\ row \in Rows \cup {None}
  /\ \/ req = None
     \/ /\ req.by \in Processes
        /\ \/ row = None /\ req.op = "create" /\ req.payload \in Drafts
           \/ row # None /\ req.op \in {"update", "check"} /\ req.payload \in Patches
  /\ answer \in {None, "ok", "repair", "invalid", "error"}

\* The projector, the validation and the repair check agree, though each looks
\* at the row in its own way: a row the API shows as a valid connection can be
\* checked and used by the process that shows it.
ValidViewIsUsable ==
  row # None =>
    \A p \in Processes : ViewIssues(p) = {} => Refusal(p, NoPatch) = "ok"

\* What one model dumped the other takes.
Takes(r, w) ==
  /\ \A f \in DOMAIN w.accepts \cap DOMAIN r.accepts : w.accepts[f] \subseteq r.accepts[f]
  /\ r.required \subseteq DOMAIN w.accepts
  /\ r.strict => DOMAIN w.accepts \subseteq DOMAIN r.accepts

\* A reader q that takes whatever a writer p may store.
Compatible(p, q) ==
  LET w == Registry[p]
      r == Registry[q]
  IN  /\ Key[p] = Key[q]
      /\ r.known /\ w.kind = r.kind /\ w.default = r.default
      /\ Takes(r.properties, w.properties)
      /\ r.secrets # None =>
           IF w.secrets = None THEN r.secrets.required = {} ELSE Takes(r.secrets, w.secrets)
      /\ \A d \in DOMAIN w.options :
           /\ d \in DOMAIN r.options
           /\ w.options[d] \subseteq r.options[d]
           /\ w.options[d] = {} => r.options[d] = {}

\* What a process acknowledged it can show again, and so can every compatible
\* release, whatever the row held before: the answer of a create is built, and
\* reads find no issue.
WritesReadBack ==
  [][req # None /\ req.op \in {"create", "update"} /\ answer' = "ok" =>
       \A q \in Processes :
         Compatible(req.by, q) \/ q = req.by => ViewIssues(q)' = {} /\ Builds(q)']_vars

\* An object came out with every stored field that the model declares.
KeepsDeclared(model, object, new) ==
  /\ object # Junk
  /\ \A f \in DOMAIN model.accepts \cap DOMAIN object : new[f] = object[f]

\* What a column came out as holds what was stored: in full, or for the two
\* columns that are dumped by models, what the model of the process declares.
Holds(p, c, new) ==
  CASE c = "properties" -> KeepsDeclared(Registry[p].properties, row.properties, new)
    [] c = "secrets" ->
         Registry[p].secrets # None /\ row.secrets # None =>
           KeepsDeclared(Registry[p].secrets, row.secrets.val, new)
    [] OTHER -> new = row[c]

\* A column nobody named is rewritten, and handed to a connector, with all that
\* the models of the process declare as it was stored, unless a read of the same
\* process said the column is broken: what cannot be decoded is read as empty, and
\* that emptiness is never used unannounced.  What the models do not declare is
\* lost without an issue (fields of another release, the secrets of a type that
\* has no model of them): the property promises nothing about it.
DeclaredDataIsKept ==
  [][req # None /\ req.op # "create" /\ answer' = "ok" =>
       LET p == req.by
           Unasked == Columns \ (DOMAIN req.payload \cup {i.field : i \in ViewIssues(p)})
       IN  /\ req.op = "update" =>
                \A c \in Unasked : Holds(p, c, IF c = "secrets" THEN row'.secrets.val ELSE row'[c])
           /\ req.op = "check" =>
                \A c \in Unasked \cap {"driver_options", "properties", "secrets"} :
                  Holds(p, c, Handed(p, Merge(p, req.payload))[c])]_vars

\* The columns a patch names are ones the models take.
PatchFits(p, patch) ==
  LET m == Merge(p, patch) IN
  /\ "properties" \in DOMAIN patch => PropertiesFit(p, patch["properties"])
  /\ "secrets" \in DOMAIN patch => SecretsFit(p, patch["secrets"])
  /\ {"driver", "driver_options"} \cap DOMAIN patch # {} =>
       OptionsFit(p, EffectiveDriver(p, m), m.driver_options)
  /\ \A c \in MappingColumns \cap DOMAIN patch : patch[c] # None

\* Which broken rows a patch repairs.  One that names every column the view has
\* issues with is accepted if the values fit: nothing else in the row can make the
\* service refuse it.  But two faults are not repaired by naming what the view
\* reports: a driver the process does not know, of which the view says only that
\* the driver options are invalid, needs a patch of the driver; and a row of an
\* unknown type, or of another kind than its type's, is refused whatever the patch.
RepairRules ==
  req # None /\ req.op # "create" =>
    LET p == req.by
        Announced == {i.field : i \in ViewIssues(p)}
        accepted == Refusal(p, req.payload) = "ok"
    IN  /\ Announced \subseteq DOMAIN req.payload /\ PatchFits(p, req.payload) => accepted
        /\ row.driver # None /\ row.driver \notin DOMAIN Registry[p].options =>
             /\ Announced \cap {"driver_options", "type"} # {}
             /\ "driver" \notin DOMAIN req.payload => ~accepted
        /\ Announced \cap {"type", "kind"} # {} => ~accepted
=============================================================================
