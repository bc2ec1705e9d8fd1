------------------------- MODULE StoredRecordProofs -------------------------
(***************************************************************************)
(* What StoredRecord promises, for every registry, key, row and patch.     *)
(***************************************************************************)
EXTENDS StoredRecord, TLAPS

-----------------------------------------------------------------------------
(* Reading.                                                                *)

\* What a damaged column reads as is an object, without any field.
LEMMA EmptyIsObject == EmptyObject \in Objects
<1>1. EmptyObject \in [{} -> Values]
  BY DEF EmptyObject
<1> QED
  BY <1>1 DEF Objects

\* What the record mapper returns for a row of the table is a payload.
LEMMA RecordsArePayloads ==
  ASSUME NEW p \in Processes, row \in Rows
  PROVE  ToRecord(p) \in Payloads
<1>1. /\ row.kind \in Kinds
      /\ row.driver \in Drivers \cup {None}
      /\ row.driver_options \in Options \cup {None, Junk}
      /\ row.properties \in Objects \cup {Junk}
      /\ row.secrets \in Ciphertexts \cup {None}
      /\ row.labels \in Mappings \cup {Junk}
      /\ row.metadata \in Mappings \cup {Junk}
      /\ row.extra \in Mappings \cup {Junk}
  BY DEF Rows
<1>2. Registry[p].resolves \subseteq Options
  BY SpecAssumption DEF Specs
<1>3. EmptyObject \in Objects
  BY EmptyIsObject
<1>4. Decrypt(p, row.secrets) \in Objects
  BY <1>1, <1>3, StoredAssumption DEF Decrypt, NoMapping, Readable, Ciphertexts
<1> QED
  BY <1>1, <1>2, <1>3, <1>4, StoredAssumption DEF ToRecord, Resolves, Coerce, Payloads

\* A patched record is what the patch names and, for the rest, the record.
LEMMA MergeIsRecordButPatch ==
  ASSUME NEW p, NEW patch, NEW c \in Columns \cup {"kind"}
  PROVE  Merge(p, patch)[c] = IF c \in DOMAIN patch THEN patch[c] ELSE ToRecord(p)[c]
BY DEF Merge

LEMMA NothingNamed == DOMAIN NoPatch = {}
BY DEF NoPatch

LEMMA ColumnNames ==
  /\ {"driver", "driver_options", "properties", "secrets", "labels", "metadata", "extra"}
       = Columns
  /\ "kind" \notin Columns
BY DEF Columns, MappingColumns

\* A driver the options were validated for is one the validation accepts.
LEMMA OptionsFitDriver ==
  ASSUME NEW p, NEW driver, NEW options, OptionsFit(p, driver, options)
  PROVE  DriverFits(p, driver)
BY DEF OptionsFit, DriverFits

-----------------------------------------------------------------------------
(* A view without issues.                                                  *)

LEMMA ValidView ==
  ASSUME NEW p, ViewIssues(p) = {}
  PROVE  /\ Registry[p].known
         /\ row.kind = Registry[p].kind
         /\ PropertiesFit(p, ToRecord(p).properties)
         /\ SecretsFit(p, ToRecord(p).secrets)
         /\ OptionsFit(p, EffectiveDriver(p, ToRecord(p)), ToRecord(p).driver_options)
         /\ Readable(p, row.secrets)
<1>1. ReadIssues(p) = {} /\ Registry[p].known
  BY DEF ViewIssues
<1>2. \A condition, field, code : Found(condition, field, code) = {} => ~condition
  BY DEF Found
<1>3. /\ Resolves(p, row.driver_options)
      /\ row.properties # Junk
      /\ Readable(p, row.secrets)
      /\ ~NoMapping(p, row.secrets)
  BY <1>1, <1>2 DEF ReadIssues
<1>4. /\ ToRecord(p).kind = Registry[p].kind
      /\ PropertiesFit(p, ToRecord(p).properties)
      /\ OptionsFit(p, EffectiveDriver(p, ToRecord(p)), ToRecord(p).driver_options)
      /\ SecretsFit(p, ToRecord(p).secrets)
  BY <1>1, <1>2, <1>3 DEF ViewIssues
<1> QED
  BY <1>1, <1>3, <1>4 DEF ToRecord

LEMMA ValidRowsServe ==
  ASSUME NEW p, ViewIssues(p) = {}
  PROVE  Refusal(p, NoPatch) = "ok"
<1> DEFINE m == Merge(p, NoPatch)
<1>1. \A c \in Columns \cup {"kind"} : m[c] = ToRecord(p)[c]
  BY MergeIsRecordButPatch, NothingNamed
<1>2. /\ m.kind = ToRecord(p).kind /\ m.driver = ToRecord(p).driver
      /\ m.driver_options = ToRecord(p).driver_options
      /\ m.properties = ToRecord(p).properties /\ m.secrets = ToRecord(p).secrets
  BY <1>1, ColumnNames
<1>3. EffectiveDriver(p, m) = EffectiveDriver(p, ToRecord(p))
  BY <1>2 DEF EffectiveDriver
<1>4. ToRecord(p).kind = row.kind
  BY DEF ToRecord
<1>5. Validates(p, m)
  BY <1>2, <1>3, <1>4, ValidView, OptionsFitDriver DEF Validates
<1>6. ~MustRepair(p, NoPatch)
  BY ValidView DEF MustRepair
<1> QED
  BY <1>5, <1>6, NothingNamed DEF Refusal

-----------------------------------------------------------------------------
(* Writing.                                                                *)

\* What a process registered for a type, and a secrets model it has, is sound.
LEMMA RegisteredModels ==
  ASSUME NEW p \in Processes
  PROVE  /\ Registry[p].properties \in Models /\ SoundModel(Registry[p].properties)
         /\ Registry[p].secrets # None =>
              Registry[p].secrets \in Models /\ SoundModel(Registry[p].secrets)
<1>1. Registry[p] \in Specs
  BY SpecAssumption
<1>2. Registry[p].properties \in Models /\ Registry[p].secrets \in Models \cup {None}
  BY <1>1 DEF Specs
<1> QED
  BY <1>2, SpecAssumption

\* A model takes what it dumps, and dumps a value for each of its fields.
LEMMA DumpFits ==
  ASSUME NEW model \in Models, SoundModel(model),
         NEW object \in Objects, Fits(model, object)
  PROVE  /\ Dump(model, object) \in Objects
         /\ DOMAIN Dump(model, object) = DOMAIN model.accepts
         /\ \A f \in DOMAIN model.accepts : Dump(model, object)[f] \in model.accepts[f]
<1> DEFINE accepts == model.accepts
           new == Dump(model, object)
<1>1. PICK F \in SUBSET Fields : accepts \in [F -> SUBSET Values]
  <2>1. accepts \in UNION {[F -> SUBSET Values] : F \in SUBSET Fields}
    BY DEF Models
  <2> QED
    BY <2>1
<1>2. PICK G \in SUBSET Fields : object \in [G -> Values]
  BY DEF Objects
<1>3. DOMAIN new = F
  BY <1>1 DEF Dump
<1>4. \A f \in F : new[f] \in accepts[f]
  <2> SUFFICES ASSUME NEW f \in F PROVE new[f] \in accepts[f]
    OBVIOUS
  <2>1. CASE f \in DOMAIN object
    BY <2>1, <1>1 DEF Dump, Fits
  <2>2. CASE f \notin DOMAIN object
    <3>1. f \in DOMAIN accepts \ model.required
      BY <2>2, <1>1 DEF Fits
    <3>2. Default \in accepts[f]
      BY <3>1 DEF SoundModel
    <3> QED
      BY <3>2, <2>2, <1>1 DEF Dump
  <2> QED
    BY <2>1, <2>2
<1>5. new \in [F -> Values]
  <2>1. \A f \in F : new[f] \in Values
    BY <1>4, <1>1
  <2>2. new = [f \in F |-> new[f]]
    BY <1>1 DEF Dump
  <2> QED
    BY <2>1, <2>2
<1>6. new \in Objects
  BY <1>5 DEF Objects
<1> QED
  BY <1>1, <1>3, <1>4, <1>6

\* So does a model that takes what the writer's may dump.
LEMMA DumpFitsReader ==
  ASSUME NEW w \in Models, SoundModel(w), NEW r, Takes(r, w) \/ r = w,
         NEW object \in Objects, Fits(w, object)
  PROVE  Fits(r, Dump(w, object))
<1>1. /\ r.required \subseteq DOMAIN w.accepts
      /\ \A f \in DOMAIN w.accepts \cap DOMAIN r.accepts : w.accepts[f] \subseteq r.accepts[f]
      /\ r.strict => DOMAIN w.accepts \subseteq DOMAIN r.accepts
  BY DEF Takes, SoundModel
<1>2. /\ DOMAIN Dump(w, object) = DOMAIN w.accepts
      /\ \A f \in DOMAIN w.accepts : Dump(w, object)[f] \in w.accepts[f]
  BY DumpFits
<1> QED
  BY <1>1, <1>2 DEF Fits

LEMMA KeptSecretsType ==
  ASSUME NEW p \in Processes, NEW secrets \in Objects, SecretsFit(p, secrets)
  PROVE  KeptSecrets(p, secrets) \in Objects
<1>1. CASE Registry[p].secrets = None
  BY <1>1, EmptyIsObject DEF KeptSecrets
<1>2. CASE Registry[p].secrets # None
  <2>1. /\ Registry[p].secrets \in Models /\ SoundModel(Registry[p].secrets)
        /\ Fits(Registry[p].secrets, secrets)
    BY <1>2, RegisteredModels DEF SecretsFit
  <2>2. Dump(Registry[p].secrets, secrets) \in Objects
    BY <2>1, DumpFits
  <2> QED
    BY <1>2, <2>2 DEF KeptSecrets
<1> QED
  BY <1>1, <1>2

\* A reader that takes what the writer may store, or the writer itself.
Reads(p, q) == Compatible(p, q) \/ q = p

LEMMA OptionsFitReader ==
  ASSUME NEW p \in Processes, NEW q \in Processes, Reads(p, q),
         NEW driver, NEW options, OptionsFit(p, driver, options)
  PROVE  OptionsFit(q, driver, options) /\ Resolves(q, options)
<1>1. CASE options = None
  BY <1>1 DEF OptionsFit, Resolves, Reads, Compatible
<1>2. CASE options # None
  <2>1. driver \in DOMAIN Registry[p].options /\ options \in Registry[p].options[driver]
    BY <1>2 DEF OptionsFit
  <2>2. driver \in DOMAIN Registry[q].options /\ options \in Registry[q].options[driver]
    BY <2>1 DEF Reads, Compatible
  <2>3. options \in Registry[q].resolves
    BY <2>2, SpecAssumption
  <2> QED
    BY <2>1, <2>2, <2>3 DEF OptionsFit, Resolves
<1> QED
  BY <1>1, <1>2

LEMMA PropertiesFitReader ==
  ASSUME NEW p \in Processes, NEW q \in Processes, Reads(p, q),
         NEW props \in Objects, PropertiesFit(p, props)
  PROVE  PropertiesFit(q, Dump(Registry[p].properties, props))
<1>1. /\ Registry[p].properties \in Models /\ SoundModel(Registry[p].properties)
      /\ Takes(Registry[q].properties, Registry[p].properties)
           \/ Registry[q].properties = Registry[p].properties
  BY RegisteredModels DEF Reads, Compatible
<1>2. Fits(Registry[p].properties, props)
  BY DEF PropertiesFit
<1>3. Fits(Registry[q].properties, Dump(Registry[p].properties, props))
  BY <1>1, <1>2, DumpFitsReader
<1> QED
  BY <1>3 DEF PropertiesFit

LEMMA SecretsFitReader ==
  ASSUME NEW p \in Processes, NEW q \in Processes, Reads(p, q),
         NEW secrets \in Objects, SecretsFit(p, secrets)
  PROVE  SecretsFit(q, KeptSecrets(p, secrets))
<1> SUFFICES ASSUME Registry[q].secrets # None
             PROVE  Fits(Registry[q].secrets, KeptSecrets(p, secrets))
  BY DEF SecretsFit
<1>1. CASE Registry[p].secrets = None
  <2>1. Registry[q].secrets.required = {}
    BY <1>1 DEF Reads, Compatible
  <2>2. DOMAIN EmptyObject = {}
    BY DEF EmptyObject
  <2> QED
    BY <1>1, <2>1, <2>2 DEF KeptSecrets, Fits
<1>2. CASE Registry[p].secrets # None
  <2>1. /\ Registry[p].secrets \in Models /\ SoundModel(Registry[p].secrets)
        /\ Takes(Registry[q].secrets, Registry[p].secrets)
             \/ Registry[q].secrets = Registry[p].secrets
    BY <1>2, RegisteredModels DEF Reads, Compatible
  <2>2. Fits(Registry[p].secrets, secrets)
    BY <1>2 DEF SecretsFit
  <2>3. Fits(Registry[q].secrets, Dump(Registry[p].secrets, secrets))
    BY <2>1, <2>2, DumpFitsReader
  <2> QED
    BY <1>2, <2>3 DEF KeptSecrets
<1> QED
  BY <1>1, <1>2

\* What a process persists reads as a row without issues.
LEMMA PersistedReadsBack ==
  ASSUME NEW p \in Processes, NEW q \in Processes, Reads(p, q),
         NEW d \in Payloads, Validates(p, d), row' = Persisted(p, d)
  PROVE  ViewIssues(q)' = {} /\ Builds(q)'
<1> DEFINE new == Persisted(p, d)
           r == ToRecord(q)'
           kept == KeptSecrets(p, d.secrets)
           props == Dump(Registry[p].properties, d.properties)
<1>1. /\ d.kind \in Kinds /\ d.driver_options \in Options \cup {None}
      /\ d.properties \in Objects /\ d.secrets \in Objects
      /\ d.labels \in Mappings /\ d.metadata \in Mappings /\ d.extra \in Mappings
  BY DEF Payloads
<1>2. /\ Registry[p].known /\ d.kind = Registry[p].kind
      /\ PropertiesFit(p, d.properties) /\ SecretsFit(p, d.secrets)
      /\ OptionsFit(p, EffectiveDriver(p, d), d.driver_options)
  BY DEF Validates
<1>3. /\ Key[q] = Key[p] /\ Registry[q].known /\ Registry[q].kind = Registry[p].kind
      /\ Registry[q].default = Registry[p].default
  BY <1>2 DEF Reads, Compatible
<1>4. /\ new.kind = d.kind /\ new.driver = d.driver /\ new.driver_options = d.driver_options
      /\ new.properties = props
      /\ new.secrets = [key |-> Key[p], val |-> kept]
      /\ new.labels = d.labels /\ new.metadata = d.metadata /\ new.extra = d.extra
  BY DEF Persisted
<1>5. props \in Objects /\ kept \in Objects
  <2>1. Fits(Registry[p].properties, d.properties)
    BY <1>2 DEF PropertiesFit
  <2> QED
    BY <2>1, <1>1, <1>2, RegisteredModels, DumpFits, KeptSecretsType
<1>6. new.secrets # None /\ kept # Junk
  <2>1. Key[p] \in Keys /\ kept \in Objects
    BY <1>5, SpecAssumption
  <2>2. new.secrets \in Ciphertexts
    BY <2>1, <1>4 DEF Ciphertexts
  <2> QED
    BY <2>1, <2>2, StoredAssumption
<1>7. /\ Readable(q, new.secrets) /\ ~NoMapping(q, new.secrets)
      /\ Decrypt(q, new.secrets) = kept
  BY <1>3, <1>4, <1>6 DEF Readable, NoMapping, Decrypt
<1>8. /\ OptionsFit(q, EffectiveDriver(p, d), d.driver_options)
      /\ Resolves(q, new.driver_options)
  BY <1>2, <1>4, OptionsFitReader
<1>9. PropertiesFit(q, new.properties)
  BY <1>1, <1>2, <1>4, PropertiesFitReader
<1>10. SecretsFit(q, kept)
  BY <1>1, <1>2, SecretsFitReader
<1>11. new.properties # Junk /\ \A c \in MappingColumns : new[c] # Junk
  BY <1>1, <1>4, <1>5, StoredAssumption DEF MappingColumns
<1>12. ReadIssues(q)' = {}
  BY <1>7, <1>8, <1>11 DEF ReadIssues, Found, MappingColumns
<1>13. /\ r.kind = new.kind /\ r.driver = new.driver /\ r.driver_options = new.driver_options
       /\ r.properties = new.properties /\ r.secrets = kept
  BY <1>7, <1>8, <1>11 DEF ToRecord
<1>14. EffectiveDriver(q, r) = EffectiveDriver(p, d)
  BY <1>3, <1>4, <1>13 DEF EffectiveDriver
<1>15. ViewIssues(q)' = {}
  BY <1>2, <1>3, <1>4, <1>8, <1>9, <1>10, <1>12, <1>13, <1>14 DEF ViewIssues, Found
<1>16. Builds(q)'
  BY <1>3, <1>4, <1>8, <1>9, <1>13, <1>14 DEF Builds
<1> QED
  BY <1>15, <1>16

-----------------------------------------------------------------------------
(* The payload a patch makes of a row, and what is written of it.          *)

LEMMA MergesArePayloads ==
  ASSUME NEW p \in Processes, row \in Rows, NEW patch \in Patches,
         \A c \in MappingColumns \cap DOMAIN patch : patch[c] # None
  PROVE  Merge(p, patch) \in Payloads
<1> DEFINE m == Merge(p, patch)
           r == ToRecord(p)
<1>1. /\ r.kind \in Kinds /\ r.driver \in Drivers \cup {None}
      /\ r.driver_options \in Options \cup {None}
      /\ r.properties \in Objects /\ r.secrets \in Objects
      /\ r.labels \in Mappings /\ r.metadata \in Mappings /\ r.extra \in Mappings
  BY RecordsArePayloads DEF Payloads
<1>2. "kind" \notin DOMAIN patch
  BY PatchAssumption, ColumnNames
<1>3. /\ m["kind"] \in Kinds
      /\ m["driver"] \in Drivers \cup {None}
      /\ m["driver_options"] \in Options \cup {None}
      /\ m["properties"] \in Objects
      /\ m["secrets"] \in Objects
  BY <1>1, <1>2, MergeIsRecordButPatch, ColumnNames, PatchAssumption
<1>4. ASSUME NEW c \in MappingColumns
      PROVE  m[c] \in Mappings
  <2>1. r[c] \in Mappings /\ c \in Columns
    BY <1>1 DEF MappingColumns, Columns
  <2>2. c \in DOMAIN patch => patch[c] \in Mappings
    BY PatchAssumption
  <2> QED
    BY <2>1, <2>2, MergeIsRecordButPatch
<1>5. m = [kind |-> m["kind"], driver |-> m["driver"], driver_options |-> m["driver_options"],
           properties |-> m["properties"], secrets |-> m["secrets"], labels |-> m["labels"],
           metadata |-> m["metadata"], extra |-> m["extra"]]
  BY ColumnNames DEF Merge
<1>6. m["labels"] \in Mappings /\ m["metadata"] \in Mappings /\ m["extra"] \in Mappings
  BY <1>4 DEF MappingColumns
<1>7. \A kind \in Kinds, driver \in Drivers \cup {None}, options \in Options \cup {None},
         properties \in Objects, secrets \in Objects,
         labels \in Mappings, metadata \in Mappings, extra \in Mappings :
        [kind |-> kind, driver |-> driver, driver_options |-> options,
         properties |-> properties, secrets |-> secrets, labels |-> labels,
         metadata |-> metadata, extra |-> extra] \in Payloads
  BY DEF Payloads
<1> HIDE DEF m
<1>8. m \in Payloads
  BY <1>3, <1>5, <1>6, <1>7
<1> QED
  BY <1>8 DEF m

LEMMA PersistedIsRow ==
  ASSUME NEW p \in Processes, NEW d \in Payloads, Validates(p, d)
  PROVE  Persisted(p, d) \in Rows
<1>1. /\ d.kind \in Kinds /\ d.driver \in Drivers \cup {None}
      /\ d.driver_options \in Options \cup {None}
      /\ d.properties \in Objects /\ d.secrets \in Objects
      /\ d.labels \in Mappings /\ d.metadata \in Mappings /\ d.extra \in Mappings
  BY DEF Payloads
<1>2. Dump(Registry[p].properties, d.properties) \in Objects
  <2>1. Fits(Registry[p].properties, d.properties)
    BY DEF Validates, PropertiesFit
  <2> QED
    BY <1>1, <2>1, RegisteredModels, DumpFits
<1>3. [key |-> Key[p], val |-> KeptSecrets(p, d.secrets)] \in Ciphertexts
  <2>1. KeptSecrets(p, d.secrets) \in Objects
    BY <1>1, KeptSecretsType DEF Validates
  <2> QED
    BY <2>1, SpecAssumption DEF Ciphertexts
<1> QED
  BY <1>1, <1>2, <1>3 DEF Persisted, Rows

LEMMA AcceptedPatch ==
  ASSUME NEW p \in Processes, row \in Rows, NEW patch \in Patches, Refusal(p, patch) = "ok"
  PROVE  /\ ~MustRepair(p, patch)
         /\ Validates(p, Merge(p, patch))
         /\ Merge(p, patch) \in Payloads
<1>1. /\ ~MustRepair(p, patch) /\ Validates(p, Merge(p, patch))
      /\ \A c \in MappingColumns \cap DOMAIN patch : patch[c] # None
  BY DEF Refusal
<1> QED
  BY <1>1, MergesArePayloads

-----------------------------------------------------------------------------
(* Type correctness, and what follows for every state.                     *)

\* The row, the request in progress and the answer are what the variables are
\* declared to hold; what the table may hold covers all that is ever written.
THEOREM StoredTypeCorrect == StoredSpec => []StoredTypeOK
<1>1. StoredInit => StoredTypeOK
  BY StoredAssumption DEF StoredInit, StoredTypeOK
<1>2. StoredTypeOK /\ [StoredNext]_vars => StoredTypeOK'
  <2> SUFFICES ASSUME StoredTypeOK, [StoredNext]_vars
               PROVE  StoredTypeOK'
    OBVIOUS
  <2>0. None \notin Rows
    BY StoredAssumption
  <2>1. CASE Create
    <3>1. req.by \in Processes /\ req.payload \in Payloads
      BY <2>1, StoredAssumption DEF Create, StoredTypeOK
    <3>2. row' \in Rows \/ row' = row
      BY <2>1, <3>1, PersistedIsRow DEF Create
    <3> QED
      BY <2>1, <3>2 DEF Create, Answer, StoredTypeOK
  <2>2. CASE Update
    <3>1. row \in Rows /\ req.by \in Processes /\ req.payload \in Patches
      BY <2>2 DEF Update, StoredTypeOK
    <3>2. row' \in Rows \/ row' = row
      BY <2>2, <3>1, AcceptedPatch, PersistedIsRow DEF Update
    <3> QED
      BY <2>2, <3>2 DEF Update, Answer, Refusal, StoredTypeOK
  <2>3. CASE Check
    BY <2>3 DEF Check, Answer, Refusal, StoredTypeOK
  <2>4. ASSUME NEW p \in Processes, ReceiveCreate(p)
        PROVE  StoredTypeOK'
    BY <2>4 DEF ReceiveCreate, Receive, StoredTypeOK
  <2>5. ASSUME NEW p \in Processes, ReceivePatch(p)
        PROVE  StoredTypeOK'
    BY <2>5 DEF ReceivePatch, Receive, StoredTypeOK
  <2>6. CASE UNCHANGED vars
    BY <2>6 DEF vars, StoredTypeOK
  <2> QED
    BY <2>1, <2>2, <2>3, <2>4, <2>5, <2>6 DEF StoredNext
<1> QED
  BY <1>1, <1>2, PTL DEF StoredSpec

\* Projector, validation and repair check agree on every row, whatever wrote it.
THEOREM ValidViewsAreUsable == StoredSpec => []ValidViewIsUsable
<1>1. ValidViewIsUsable
  BY ValidRowsServe DEF ValidViewIsUsable
<1> QED
  BY <1>1, PTL

\* What is acknowledged is read back by the writer and by compatible releases.
THEOREM WritesReadBackAlways == StoredSpec => WritesReadBack
<1>1. StoredTypeOK /\ [StoredNext]_vars =>
        [req # None /\ req.op \in {"create", "update"} /\ answer' = "ok" =>
           \A q \in Processes :
             Compatible(req.by, q) \/ q = req.by => ViewIssues(q)' = {} /\ Builds(q)']_vars
  <2> SUFFICES ASSUME StoredTypeOK, StoredNext,
                      req # None, req.op \in {"create", "update"}, answer' = "ok",
                      NEW q \in Processes, Reads(req.by, q)
               PROVE  ViewIssues(q)' = {} /\ Builds(q)'
    BY DEF Reads
  <2>1. req.by \in Processes
    BY DEF StoredTypeOK
  <2>2. CASE Create
    <3>1. req.payload \in Payloads
      BY <2>2, StoredAssumption DEF Create, StoredTypeOK
    <3>2. Validates(req.by, req.payload) /\ row' = Persisted(req.by, req.payload)
      BY <2>2 DEF Create, Answer
    <3> QED
      BY <2>1, <3>1, <3>2, PersistedReadsBack
  <2>3. CASE Update
    <3>1. row \in Rows /\ req.payload \in Patches
      BY <2>3 DEF Update, StoredTypeOK
    <3>2. /\ Refusal(req.by, req.payload) = "ok"
          /\ row' = Persisted(req.by, Merge(req.by, req.payload))
      BY <2>3 DEF Update, Answer
    <3> QED
      BY <2>1, <3>1, <3>2, AcceptedPatch, PersistedReadsBack
  <2> QED
    BY <2>2, <2>3 DEF StoredNext, Check, ReceiveCreate, ReceivePatch
<1> QED
  BY <1>1, StoredTypeCorrect, PTL DEF StoredSpec, WritesReadBack

\* A column without an issue reads as what is stored.
LEMMA UnannouncedColumns ==
  ASSUME NEW p
  PROVE  LET Announced == {i.field : i \in ViewIssues(p)} IN
         /\ "driver_options" \notin Announced => Resolves(p, row.driver_options)
         /\ "properties" \notin Announced => row.properties # Junk
         /\ "secrets" \notin Announced => Readable(p, row.secrets) /\ ~NoMapping(p, row.secrets)
         /\ \A c \in MappingColumns \ Announced : row[c] # Junk
<1>1. \A i \in ReadIssues(p) : i.field \in {j.field : j \in ViewIssues(p)}
  BY DEF ViewIssues
<1>2. ~Resolves(p, row.driver_options) => Issue("driver_options", "invalid") \in ReadIssues(p)
  BY DEF ReadIssues, Found
<1>3. row.properties = Junk => Issue("properties", "invalid") \in ReadIssues(p)
  BY DEF ReadIssues, Found
<1>4. ~Readable(p, row.secrets) => Issue("secrets", "unreadable") \in ReadIssues(p)
  BY DEF ReadIssues, Found
<1>5. NoMapping(p, row.secrets) => Issue("secrets", "invalid") \in ReadIssues(p)
  BY DEF ReadIssues, Found
<1>6. \A c \in MappingColumns : row[c] = Junk => Issue(c, "invalid") \in ReadIssues(p)
  BY DEF ReadIssues
<1>7. \A field, code : Issue(field, code).field = field
  BY DEF Issue
<1> QED
  BY <1>1, <1>2, <1>3, <1>4, <1>5, <1>6, <1>7

\* What the merged payload, dumped, keeps of a column nobody named or reported.
LEMMA MergeHolds ==
  ASSUME NEW p \in Processes, NEW patch, ~MustRepair(p, patch),
         NEW c \in Columns, c \notin DOMAIN patch,
         c \notin {i.field : i \in ViewIssues(p)}
  PROVE  /\ c \notin {"properties", "secrets"} => Merge(p, patch)[c] = row[c]
         /\ Holds(p, "properties", Dump(Registry[p].properties, Merge(p, patch).properties)) \/ c # "properties"
         /\ c = "secrets" => Holds(p, "secrets", KeptSecrets(p, Merge(p, patch).secrets))
<1>1. Merge(p, patch)[c] = ToRecord(p)[c]
  BY MergeIsRecordButPatch
<1>2. c \notin {"properties", "secrets"} => ToRecord(p)[c] = row[c]
  BY UnannouncedColumns DEF ToRecord, Columns, MappingColumns, Coerce
<1>3. ASSUME c = "properties"
      PROVE  Holds(p, "properties", Dump(Registry[p].properties, Merge(p, patch).properties))
  <2>1. row.properties # Junk
    BY <1>3, UnannouncedColumns
  <2>2. Merge(p, patch).properties = row.properties
    BY <1>1, <1>3, <2>1 DEF ToRecord
  <2> QED
    BY <2>1, <2>2 DEF Holds, KeepsDeclared, Dump
<1>4. ASSUME c = "secrets"
      PROVE  Holds(p, "secrets", KeptSecrets(p, Merge(p, patch).secrets))
  <2>1. Readable(p, row.secrets) /\ ~NoMapping(p, row.secrets)
    BY <1>4, UnannouncedColumns
  <2>2. Merge(p, patch).secrets = Decrypt(p, row.secrets)
    BY <1>1, <1>4 DEF ToRecord
  <2>3. ASSUME Registry[p].secrets # None, row.secrets # None
        PROVE  KeepsDeclared(Registry[p].secrets, row.secrets.val,
                             KeptSecrets(p, Merge(p, patch).secrets))
    <3>1. Merge(p, patch).secrets = row.secrets.val /\ row.secrets.val # Junk
      BY <2>1, <2>2, <2>3 DEF Decrypt, NoMapping, Readable
    <3> QED
      BY <2>3, <3>1 DEF KeepsDeclared, KeptSecrets, Dump
  <2> QED
    BY <2>3 DEF Holds
<1> QED
  BY <1>1, <1>2, <1>3, <1>4

\* An update rewrites, and a check hands out, an unnamed column with all that the
\* models declare as it is stored, or after a read announced it as broken.
THEOREM DeclaredDataIsKeptAlways == StoredSpec => DeclaredDataIsKept
<1> DEFINE Unasked(p) == Columns \ (DOMAIN req.payload \cup {i.field : i \in ViewIssues(p)})
<1>1. StoredTypeOK /\ [StoredNext]_vars =>
        [req # None /\ req.op # "create" /\ answer' = "ok" =>
           LET p == req.by IN
           /\ req.op = "update" => \A c \in Unasked(p) :
                Holds(p, c, IF c = "secrets" THEN row'.secrets.val ELSE row'[c])
           /\ req.op = "check" =>
                \A c \in Unasked(p) \cap {"driver_options", "properties", "secrets"} :
                  Holds(p, c, Handed(p, Merge(p, req.payload))[c])]_vars
  <2> SUFFICES ASSUME StoredTypeOK, StoredNext,
                      req # None, req.op # "create", answer' = "ok",
                      NEW c \in Unasked(req.by)
               PROVE  /\ req.op = "update" =>
                           Holds(req.by, c, IF c = "secrets" THEN row'.secrets.val ELSE row'[c])
                      /\ req.op = "check" /\ c \in {"driver_options", "properties", "secrets"} =>
                           Holds(req.by, c, Handed(req.by, Merge(req.by, req.payload))[c])
    BY DEF StoredTypeOK
  <2> DEFINE p == req.by
             m == Merge(p, req.payload)
  <2>1. row \in Rows /\ p \in Processes /\ req.payload \in Patches
    BY DEF StoredTypeOK
  <2>2. Update \/ Check
    BY DEF StoredNext, Create, ReceiveCreate, ReceivePatch
  <2>3. Refusal(p, req.payload) = "ok"
    BY <2>2 DEF Update, Check, Answer
  <2>4. ~MustRepair(p, req.payload)
    BY <2>1, <2>3, AcceptedPatch
  <2>5. /\ c \notin {"properties", "secrets"} => m[c] = row[c]
        /\ Holds(p, "properties", Dump(Registry[p].properties, m.properties)) \/ c # "properties"
        /\ c = "secrets" => Holds(p, "secrets", KeptSecrets(p, m.secrets))
    BY <2>1, <2>4, MergeHolds
  <2>6. req.op = "update" =>
          Holds(p, c, IF c = "secrets" THEN row'.secrets.val ELSE row'[c])
    <3> SUFFICES ASSUME req.op = "update"
                 PROVE  Holds(p, c, IF c = "secrets" THEN row'.secrets.val ELSE row'[c])
      OBVIOUS
    <3>1. row' = Persisted(p, m)
      BY <2>2, <2>3 DEF Update, Check
    <3>2. CASE c = "secrets"
      BY <3>1, <3>2, <2>5 DEF Persisted
    <3>3. CASE c = "properties"
      BY <3>1, <3>3, <2>5 DEF Persisted
    <3>4. CASE c \notin {"secrets", "properties"}
      <4>1. row'[c] = m[c]
        BY <3>1, <3>4, ColumnNames DEF Persisted
      <4> QED
        BY <4>1, <3>4, <2>5 DEF Holds
    <3> QED
      BY <3>2, <3>3, <3>4
  <2>7. c \in {"driver_options", "properties", "secrets"} => Holds(p, c, Handed(p, m)[c])
    <3>1. CASE c = "secrets"
      BY <3>1, <2>5 DEF Handed, Holds
    <3>2. CASE c = "properties"
      BY <3>2, <2>5 DEF Handed
    <3>3. CASE c = "driver_options"
      BY <3>3, <2>5 DEF Handed, Holds
    <3> QED
      BY <3>1, <3>2, <3>3
  <2> QED
    BY <2>6, <2>7
<1> QED
  BY <1>1, StoredTypeCorrect, PTL DEF StoredSpec, DeclaredDataIsKept

\* The issues of a view, column by column.
LEMMA UnannouncedColumnsFit ==
  ASSUME NEW p,
         "type" \notin {i.field : i \in ViewIssues(p)},
         "kind" \notin {i.field : i \in ViewIssues(p)}
  PROVE  LET Announced == {i.field : i \in ViewIssues(p)}
             r == ToRecord(p)
         IN  /\ Registry[p].known /\ r.kind = Registry[p].kind
             /\ "properties" \notin Announced => PropertiesFit(p, r.properties)
             /\ "secrets" \notin Announced => SecretsFit(p, r.secrets)
             /\ "driver_options" \notin Announced =>
                  OptionsFit(p, EffectiveDriver(p, r), r.driver_options)
<1> DEFINE Announced == {i.field : i \in ViewIssues(p)}
           r == ToRecord(p)
<1>0. \A field, code : Issue(field, code).field = field
  BY DEF Issue
<1>1. ~Registry[p].known => Issue("type", "unknown") \in ViewIssues(p)
  BY DEF ViewIssues
<1>2. Registry[p].known
  BY <1>0, <1>1
<1>3. r.kind # Registry[p].kind => Issue("kind", "mismatch") \in ViewIssues(p)
  BY <1>2 DEF ViewIssues, Found
<1>4. ASSUME "properties" \notin Announced
      PROVE  PropertiesFit(p, r.properties)
  <2>1. row.properties # Junk
    BY <1>4, UnannouncedColumns
  <2>2. ~PropertiesFit(p, r.properties) => Issue("properties", "invalid") \in ViewIssues(p)
    BY <1>2, <2>1 DEF ViewIssues, Found
  <2> QED
    BY <1>0, <1>4, <2>2
<1>5. ASSUME "secrets" \notin Announced
      PROVE  SecretsFit(p, r.secrets)
  <2>1. Readable(p, row.secrets) /\ ~NoMapping(p, row.secrets)
    BY <1>5, UnannouncedColumns
  <2>2. ~SecretsFit(p, r.secrets) => Issue("secrets", "invalid") \in ViewIssues(p)
    BY <1>2, <2>1 DEF ViewIssues, Found
  <2> QED
    BY <1>0, <1>5, <2>2
<1>6. ASSUME "driver_options" \notin Announced
      PROVE  OptionsFit(p, EffectiveDriver(p, r), r.driver_options)
  <2>1. Resolves(p, row.driver_options)
    BY <1>6, UnannouncedColumns
  <2>2. ~OptionsFit(p, EffectiveDriver(p, r), r.driver_options) =>
          Issue("driver_options", "invalid") \in ViewIssues(p)
    BY <1>2, <2>1 DEF ViewIssues, Found
  <2> QED
    BY <1>0, <1>6, <2>2
<1> QED
  BY <1>0, <1>2, <1>3, <1>4, <1>5, <1>6

\* A patch that names what is broken, with values the models take, is accepted.
LEMMA NamingTheBrokenRepairs ==
  ASSUME NEW p \in Processes, NEW patch \in Patches,
         {i.field : i \in ViewIssues(p)} \subseteq DOMAIN patch,
         PatchFits(p, patch)
  PROVE  Refusal(p, patch) = "ok"
<1> DEFINE Announced == {i.field : i \in ViewIssues(p)}
           r == ToRecord(p)
           m == Merge(p, patch)
<1>1. "type" \notin DOMAIN patch /\ "kind" \notin DOMAIN patch
  BY PatchAssumption DEF Columns, MappingColumns
<1>2. /\ Registry[p].known /\ r.kind = Registry[p].kind
      /\ "properties" \notin Announced => PropertiesFit(p, r.properties)
      /\ "secrets" \notin Announced => SecretsFit(p, r.secrets)
      /\ "driver_options" \notin Announced => OptionsFit(p, EffectiveDriver(p, r), r.driver_options)
  BY <1>1, UnannouncedColumnsFit
<1>3. \A c \in Columns \cup {"kind"} : m[c] = IF c \in DOMAIN patch THEN patch[c] ELSE r[c]
  BY MergeIsRecordButPatch
<1>4. m.kind = Registry[p].kind
  BY <1>1, <1>2, <1>3
<1>5. PropertiesFit(p, m.properties)
  BY <1>2, <1>3, ColumnNames DEF PatchFits
<1>6. SecretsFit(p, m.secrets)
  BY <1>2, <1>3, ColumnNames DEF PatchFits
<1>7. OptionsFit(p, EffectiveDriver(p, m), m.driver_options)
  <2>1. CASE {"driver", "driver_options"} \cap DOMAIN patch # {}
    BY <2>1 DEF PatchFits
  <2>2. CASE {"driver", "driver_options"} \cap DOMAIN patch = {}
    <3>1. m.driver = r.driver /\ m.driver_options = r.driver_options
      BY <1>3, <2>2, ColumnNames
    <3> QED
      BY <3>1, <2>2, <1>2 DEF EffectiveDriver
  <2> QED
    BY <2>1, <2>2
<1>8. Validates(p, m)
  BY <1>2, <1>4, <1>5, <1>6, <1>7, OptionsFitDriver DEF Validates
<1>9. ~MustRepair(p, patch)
  BY UnannouncedColumns DEF MustRepair
<1> QED
  BY <1>8, <1>9 DEF Refusal, PatchFits

\* What the projector says of a driver the process does not know, and of a type
\* or kind it does not have: no patch that leaves it as it is is accepted.
LEMMA BeyondThePatch ==
  ASSUME NEW p \in Processes, row \in Rows, NEW patch \in Patches
  PROVE  LET Announced == {i.field : i \in ViewIssues(p)} IN
         /\ row.driver # None /\ row.driver \notin DOMAIN Registry[p].options =>
              /\ Announced \cap {"driver_options", "type"} # {}
              /\ "driver" \notin DOMAIN patch => Refusal(p, patch) # "ok"
         /\ Announced \cap {"type", "kind"} # {} => Refusal(p, patch) # "ok"
<1> DEFINE Announced == {i.field : i \in ViewIssues(p)}
           m == Merge(p, patch)
<1>1. \A c \in Columns \cup {"kind"} : m[c] = IF c \in DOMAIN patch THEN patch[c] ELSE ToRecord(p)[c]
  BY MergeIsRecordButPatch
<1>2. ToRecord(p).kind = row.kind /\ ToRecord(p).driver = row.driver
  BY DEF ToRecord
<1>3. Refusal(p, patch) = "ok" => Validates(p, m)
  BY DEF Refusal
<1>4. ASSUME row.driver # None, row.driver \notin DOMAIN Registry[p].options
      PROVE  /\ Announced \cap {"driver_options", "type"} # {}
             /\ "driver" \notin DOMAIN patch => Refusal(p, patch) # "ok"
  <2>1. \A options : ~OptionsFit(p, row.driver, options)
    BY <1>4 DEF OptionsFit
  <2>2. EffectiveDriver(p, ToRecord(p)) = row.driver
    BY <1>2, <1>4 DEF EffectiveDriver
  <2>3. Registry[p].known => "driver_options" \in Announced
    <3>1. CASE ~Resolves(p, row.driver_options)
      BY <3>1, UnannouncedColumns
    <3>2. ASSUME Resolves(p, row.driver_options), Registry[p].known
          PROVE  Issue("driver_options", "invalid") \in ViewIssues(p)
      BY <3>2, <2>1, <2>2 DEF ViewIssues, Found
    <3>3. Issue("driver_options", "invalid").field = "driver_options"
      BY DEF Issue
    <3> QED
      BY <3>1, <3>2, <3>3
  <2>4. ~Registry[p].known => "type" \in Announced
    <3>1. ~Registry[p].known => Issue("type", "unknown") \in ViewIssues(p)
      BY DEF ViewIssues
    <3>2. Issue("type", "unknown").field = "type"
      BY DEF Issue
    <3> QED
      BY <3>1, <3>2
  <2>5. ASSUME "driver" \notin DOMAIN patch
        PROVE  ~Validates(p, m)
    <3>1. m.driver = row.driver
      BY <1>1, <1>2, <2>5, ColumnNames
    <3>2. EffectiveDriver(p, m) = row.driver
      BY <3>1, <1>4 DEF EffectiveDriver
    <3> QED
      BY <2>1, <3>2 DEF Validates
  <2> QED
    BY <1>3, <2>3, <2>4, <2>5
<1>5. ASSUME Announced \cap {"type", "kind"} # {}, Registry[p].known
      PROVE  row.kind # Registry[p].kind
  <2>1. PICK i \in ViewIssues(p) : i.field \in {"type", "kind"}
    BY <1>5
  <2>2. \A field, code : Issue(field, code).field = field
    BY DEF Issue
  <2>3. \A condition, field, code : \A j \in Found(condition, field, code) :
          condition /\ j.field = field
    BY <2>2 DEF Found
  <2>4. \A j \in ReadIssues(p) : j.field \notin {"type", "kind"}
    BY <2>2, <2>3 DEF ReadIssues, MappingColumns
  <2> DEFINE r == ToRecord(p)
             Props == Found(row.properties # Junk /\ ~PropertiesFit(p, r.properties),
                            "properties", "invalid")
             Opts == Found(Resolves(p, row.driver_options)
                             /\ ~OptionsFit(p, EffectiveDriver(p, r), r.driver_options),
                           "driver_options", "invalid")
             Secr == Found(/\ Readable(p, row.secrets) /\ ~NoMapping(p, row.secrets)
                           /\ ~SecretsFit(p, r.secrets), "secrets", "invalid")
             Kind == Found(r.kind # Registry[p].kind, "kind", "mismatch")
  <2>5. ViewIssues(p) = ReadIssues(p) \cup UNION {Kind, Props, Opts, Secr}
    BY <1>5 DEF ViewIssues
  <2>6. /\ \A j \in Props : j.field = "properties"
        /\ \A j \in Opts : j.field = "driver_options"
        /\ \A j \in Secr : j.field = "secrets"
        /\ \A j \in Kind : r.kind # Registry[p].kind
    BY <2>3
  <2> HIDE DEF Props, Opts, Secr, Kind
  <2>7. i \in Kind
    BY <2>1, <2>4, <2>5, <2>6
  <2> QED
    BY <1>2, <2>6, <2>7
<1>6. Announced \cap {"type", "kind"} # {} => ~Validates(p, m)
  <2>1. m.kind = row.kind
    <3>1. "kind" \notin DOMAIN patch
      BY PatchAssumption, ColumnNames
    <3> QED
      BY <3>1, <1>1, <1>2
  <2> QED
    BY <2>1, <1>5 DEF Validates
<1> QED
  BY <1>3, <1>4, <1>6

\* Naming what the view complains of repairs a row, but for the two faults that
\* are not repaired so, in every registry.
THEOREM RepairRulesHold == StoredSpec => []RepairRules
<1>1. StoredTypeOK => RepairRules
  <2> SUFFICES ASSUME StoredTypeOK, req # None, req.op # "create"
               PROVE  RepairRules
    BY DEF RepairRules
  <2>1. row \in Rows /\ req.by \in Processes /\ req.payload \in Patches
    BY DEF StoredTypeOK
  <2>2. /\ {i.field : i \in ViewIssues(req.by)} \subseteq DOMAIN req.payload
        /\ PatchFits(req.by, req.payload)
        => Refusal(req.by, req.payload) = "ok"
    BY <2>1, NamingTheBrokenRepairs
  <2> QED
    BY <2>1, <2>2, BeyondThePatch DEF RepairRules
<1> QED
  BY <1>1, StoredTypeCorrect, PTL
=============================================================================
