-------------------------- MODULE ConnectionService --------------------------
(***************************************************************************)
(* db_connection.application.service.ConnectionService over the SQLModel   *)
(* repository and unit of work: create, update, delete and check_stored    *)
(* requests that run concurrently (coroutines of one worker, or workers of *)
(* several processes) against one table.                                   *)
(*                                                                         *)
(* A step is one database statement together with the synchronous code up  *)
(* to the next one, so requests interleave exactly where the code awaits   *)
(* the session.  The database is external: READ COMMITTED, a write holds   *)
(* its row until its transaction ends.                                     *)
(*                                                                         *)
(* A row's plain columns are `config`, one value per field; its secrets    *)
(* column is the pair of the secrets and of the key they are encrypted     *)
(* with.  A process reads `Blank`, the empty mapping, from a ciphertext of *)
(* another key (record_mapper.py, _decode_secrets); an empty mapping that  *)
(* a client sent or a model made is one of `Secrets`.                      *)
(*                                                                         *)
(* An update does not write back what it read.  What a column holds is     *)
(* `Decoded` (a damaged value reads as empty), and what passed validation  *)
(* is `Dumped` again by the models (defaults filled in, undeclared fields  *)
(* dropped), the columns the patch leaves out like those it names.         *)
(***************************************************************************)
EXTENDS Naturals, FiniteSets

CONSTANTS
  Requests,   \* the requests clients may issue, one operation each
  Ids,        \* connection ids
  Seeded,     \* the ids that may have a row before the first request
  Fields,     \* the plain columns a patch may name
  Values,     \* the values of a plain column
  Invalid,    \* the configurations ValidationService rejects
  Decoded,    \* per plain column, what a read makes of a stored value
  Dumped,     \* per plain column, what is stored of a validated value
  Secrets,    \* the readable contents of a secrets column
  DumpedSecrets, \* what is stored of validated secrets
  Keys,       \* the encryption keys the processes run with
  Limits,     \* the values of settings.max_connections other than None
  Ops,        \* the operations clients use
  Owned,      \* who owns the unit of work: TRUE the service, FALSE the caller
  Blank,      \* what the mapper returns for secrets it cannot decrypt
  None        \* Python's None and PATCH_UNSET

Configs == [Fields -> Values]
Sealed  == [key : Keys, val : Secrets \cup {Blank}]
Row     == [deleted : BOOLEAN, config : Configs, secrets : Sealed]
Draft   == [config : Configs, secrets : Secrets \cup {Blank}]
Columns == Fields \cup {"secrets"}

\* A payload has no damaged values: they are what it was decoded to.
Sent(F) == {c \in [F -> Values] : \A f \in F : Decoded[f][c[f]] = c[f]}

\* A ConnectionDraft, and a ConnectionPatch: values for some of the columns,
\* the others unset.
Drafts == [config : Sent(Fields), secrets : Secrets]
Patches == [config : UNION {Sent(F) : F \in SUBSET Fields}, secrets : Secrets \cup {None}]

\* What a request is called with, and the process it runs in.
Calls ==
  [op : {"create", "update", "delete", "check"}, id : Ids \cup {None}, key : Keys,
   owns : BOOLEAN, limit : Limits \cup {None}, touched : SUBSET Columns]

PCs == {"idle", "count", "insert", "write", "erase", "probe", "commit", "owner",
        "close", "done"}

\* The errors the service raises by its own decision, before it writes.
Refusals == {"denied", "invalid", "not_found", "limit", "repair"}
Outcomes == Refusals \cup {"returned", "ok", "view_failed", "error", "rolled_back"}

ASSUME DataAssumption ==
  /\ Invalid \subseteq Configs
  /\ Limits \subseteq Nat
  /\ Owned \subseteq BOOLEAN
  /\ Ops \subseteq {"create", "update", "delete", "check"}
  /\ "secrets" \notin Fields

\* A model takes again what it dumped.
ASSUME ConversionAssumption ==
  /\ Decoded \in [Fields -> [Values -> Values]]
  /\ Dumped \in [Fields -> [Values -> Values]]
  /\ DumpedSecrets \in [Secrets -> Secrets]
  /\ \A c \in Configs \ Invalid : [f \in Fields |-> Decoded[f][Dumped[f][c[f]]]] \notin Invalid

ASSUME SentinelAssumption ==
  /\ Blank \notin Secrets
  /\ None \notin Secrets \cup {Blank}
  /\ None \notin Ids
  /\ None \notin Limits
  /\ None \notin Row
  /\ None \notin Draft
  /\ None \notin Calls
  /\ None \notin Outcomes

\* uuid4 never runs out of ids.
ASSUME IdAssumption ==
  /\ IsFiniteSet(Ids)
  /\ IsFiniteSet(Requests)
  /\ Seeded \subseteq Ids
  /\ "create" \in Ops => Cardinality(Ids \ Seeded) >= Cardinality(Requests)

VARIABLES
  db,         \* the committed table
  pc,         \* where each request is
  call,       \* what each request was called with
  draft,      \* the draft it is about to write (its merged snapshot)
  pend,       \* the row its open transaction has written
  outcome,    \* what it returned or raised
  applied,    \* history: its write is committed
  stale,      \* history: its row was committed by another since it read it
  since       \* history: creates committed since it counted

vars == <<db, pc, call, draft, pend, outcome, applied, stale, since>>

TypeOK ==
  /\ db \in [Ids -> Row \cup {None}]
  /\ pc \in [Requests -> PCs]
  /\ call \in [Requests -> Calls \cup {None}]
  /\ draft \in [Requests -> Draft \cup {None}]
  /\ pend \in [Requests -> Row \cup {None}]
  /\ outcome \in [Requests -> Outcomes \cup {None}]
  /\ applied \in [Requests -> BOOLEAN]
  /\ stale \in [Requests -> BOOLEAN]
  /\ since \in [Requests -> Nat]

-----------------------------------------------------------------------------
(* The rows and the helpers of the service.                                *)

Valid(config) == config \notin Invalid

\* The columns as StoredConnectionRecordMapper reads them.
Decode(config) == [f \in Fields |-> Decoded[f][config[f]]]

\* _to_persisted_draft: the columns as the models dump them. Blank stays what it
\* is here, the mark of secrets that are lost.
Dump(config) == [f \in Fields |-> Dumped[f][config[f]]]
DumpSecrets(secrets) == IF secrets = Blank THEN Blank ELSE DumpedSecrets[secrets]

\* The rows that may be in the table before the first request.
StoredRow == {row \in Row : Valid(Decode(row.config)) /\ row.secrets.val # Blank}

IsLive(row) == row # None /\ ~row.deleted
LiveIds(table) == {i \in Ids : IsLive(table[i])}
NumLive(table) == Cardinality(LiveIds(table))

Encrypt(secrets, key) == [key |-> key, val |-> secrets]
Readable(row, key) == row.secrets.key = key
Decrypt(row, key) == IF Readable(row, key) THEN row.secrets.val ELSE Blank

\* The columns a patch names.
PatchFieldsSet(patch) ==
  DOMAIN patch.config \cup (IF patch.secrets = None THEN {} ELSE {"secrets"})

\* Mutant: a column the patch leaves out gets its default, not its stored value.
MergeForgets(row, key, patch) ==
  [config  |-> [f \in Fields |-> IF f \in DOMAIN patch.config
                                 THEN patch.config[f] ELSE CHOOSE v \in Values : TRUE],
   secrets |-> IF patch.secrets # None THEN patch.secrets ELSE Decrypt(row, key)]

\* Patched columns from the patch, every other one from the record just read.
Merge(row, key, patch) ==
  [config  |-> [f \in Fields |-> IF f \in DOMAIN patch.config
                                 THEN patch.config[f] ELSE Decode(row.config)[f]],
   secrets |-> IF patch.secrets # None THEN patch.secrets ELSE Decrypt(row, key)]

\* Mutant: the repair check is left out.
NeverRepair(row, key, patch) == FALSE

MustRepair(row, key, patch) ==
  ~Readable(row, key) /\ "secrets" \notin PatchFieldsSet(patch)

\* Mutant: the secrets are stored as they came.
InsertedRowPlain(d, key) ==
  [deleted |-> FALSE, config |-> Dump(d.config), secrets |-> DumpSecrets(d.secrets)]

\* The columns INSERT writes.
InsertedRow(d, key) ==
  [deleted |-> FALSE, config |-> Dump(d.config), secrets |-> Encrypt(DumpSecrets(d.secrets), key)]

\* Mutant: deleted_at is written with the other columns, from the draft.
RevivedRow(row, d, key) == InsertedRow(d, key)

\* UPDATE ... SET writes them all but deleted_at.
ReplacedRow(row, d, key) == [InsertedRow(d, key) EXCEPT !.deleted = row.deleted]
DeletedRow(row) == [row EXCEPT !.deleted = TRUE]

\* A row is held by the transaction that wrote it.
Holds(r, i) == pend[r] # None /\ call[r].id = i

Unlocked(i) == \A r \in Requests : ~Holds(r, i)

\* Mutant: create writes over a row that has the id.
UsedIds == {i \in Ids : Unlocked(i)}

FreshIds == {i \in Ids \ Seeded : db[i] = None /\ Unlocked(i)}

Goto(r, label) == pc' = [pc EXCEPT ![r] = label]
Called(r, c)   == call' = [call EXCEPT ![r] = c]

\* An exception leaves the service: __aexit__ of its own unit of work runs, or
\* the caller that owns the unit of work sees it.
Raise(r, owns, why) ==
  /\ outcome' = [outcome EXCEPT ![r] = why]
  /\ Goto(r, IF owns THEN "close" ELSE "owner")

-----------------------------------------------------------------------------
(* create                                                                  *)

\* Ownership, policy and validation run before any session is opened; lim is
\* the limit of the service object the request was routed to.
CreateStart(r, d, key, owns, lim) ==
  /\ "create" \in Ops
  /\ pc[r] = "idle"
  /\ Called(r, [op |-> "create", id |-> None, key |-> key, owns |-> owns,
                limit |-> lim, touched |-> Columns])
  /\ \/ \E why \in {"denied"} \cup (IF Valid(d.config) THEN {} ELSE {"invalid"}) :
          /\ outcome' = [outcome EXCEPT ![r] = why]
          /\ Goto(r, IF owns THEN "done" ELSE "owner")
          /\ UNCHANGED draft
     \/ /\ Valid(d.config)
        /\ draft' = [draft EXCEPT ![r] = d]
        /\ Goto(r, IF lim = None THEN "insert" ELSE "count")
        /\ UNCHANGED outcome
  /\ UNCHANGED <<db, pend, applied, stale, since>>

\* Mutant: off by one.
OverLimit(r) == NumLive(db) > call[r].limit

\* max_connections is compared with the rows this transaction can see.
AtLimit(r) == NumLive(db) >= call[r].limit

CreateCount(r) ==
  /\ pc[r] = "count"
  /\ IF AtLimit(r)
     THEN Raise(r, call[r].owns, "limit") /\ draft' = [draft EXCEPT ![r] = None]
     ELSE Goto(r, "insert") /\ UNCHANGED <<outcome, draft>>
  /\ since' = [since EXCEPT ![r] = 0]
  /\ UNCHANGED <<db, call, pend, applied, stale>>

\* Mutant: a policy is asked after the write.
AfterWriteDenies(r) ==
  \/ /\ call[r].owns
     /\ Goto(r, "commit")
     /\ UNCHANGED outcome
  \/ /\ ~call[r].owns
     /\ Goto(r, "owner")
     /\ \E o \in {"returned", "error", "denied"} : outcome' = [outcome EXCEPT ![r] = o]

\* Mutant: the client of a caller that owns the unit of work is answered at once.
AfterWriteAnswers(r) ==
  \/ /\ call[r].owns
     /\ Goto(r, "commit")
     /\ UNCHANGED outcome
  \/ /\ ~call[r].owns
     /\ Goto(r, "owner")
     /\ \E o \in {"ok", "error"} : outcome' = [outcome EXCEPT ![r] = o]

\* After its write the service commits a unit of work of its own and leaves
\* the caller's alone; the SELECT that follows the write may still fail.
AfterWrite(r) ==
  \/ /\ call[r].owns
     /\ Goto(r, "commit")
     /\ UNCHANGED outcome
  \/ /\ ~call[r].owns
     /\ Goto(r, "owner")
     /\ \E o \in {"returned", "error"} : outcome' = [outcome EXCEPT ![r] = o]

CreateInsert(r) ==
  /\ pc[r] = "insert"
  /\ \E i \in FreshIds :
       /\ call' = [call EXCEPT ![r].id = i]
       /\ pend' = [pend EXCEPT ![r] = InsertedRow(draft[r], call[r].key)]
  /\ draft' = [draft EXCEPT ![r] = None]
  /\ AfterWrite(r)
  /\ UNCHANGED <<db, applied, stale, since>>

-----------------------------------------------------------------------------
(* update, delete, check_stored: each reads the row first; that SELECT may *)
(* fail too.                                                               *)

\* What get() may raise (can_get_one and can_update may always deny), and what
\* the checks that follow it do raise.
GetRefusals(i) == IF IsLive(db[i]) THEN {"denied"} ELSE {"not_found"}

\* Mutant: what the patch makes of the row is not validated.
MergeUnchecked(i, key, patch) ==
  IF IsLive(db[i]) /\ MustRepair(db[i], key, patch) THEN {"repair"} ELSE {}

MergeRefusals(i, key, patch) ==
  IF ~IsLive(db[i]) THEN {}
  ELSE IF MustRepair(db[i], key, patch) THEN {"repair"}
  ELSE IF ~Valid(Merge(db[i], key, patch).config) THEN {"invalid"} ELSE {}

UpdateRead(r, i, patch, key, owns) ==
  /\ "update" \in Ops
  /\ pc[r] = "idle"
  /\ Called(r, [op |-> "update", id |-> i, key |-> key, owns |-> owns,
                limit |-> None, touched |-> PatchFieldsSet(patch)])
  /\ \/ /\ \E why \in GetRefusals(i) \cup MergeRefusals(i, key, patch) \cup {"error"} :
              Raise(r, owns, why)
        /\ UNCHANGED draft
     \/ /\ IsLive(db[i])
        /\ MergeRefusals(i, key, patch) = {}
        /\ draft' = [draft EXCEPT ![r] = Merge(db[i], key, patch)]
        /\ Goto(r, "write")
        /\ UNCHANGED outcome
  /\ UNCHANGED <<db, pend, applied, stale, since>>

\* replace(): the row is found by id alone, deleted or not, and every column
\* but deleted_at is written.
UpdateWrite(r) ==
  /\ pc[r] = "write"
  /\ Unlocked(call[r].id)
  /\ pend' = [pend EXCEPT ![r] = ReplacedRow(db[call[r].id], draft[r], call[r].key)]
  /\ draft' = [draft EXCEPT ![r] = None]
  /\ AfterWrite(r)
  /\ UNCHANGED <<db, call, applied, stale, since>>

DeleteRead(r, i, key, owns) ==
  /\ "delete" \in Ops
  /\ pc[r] = "idle"
  /\ Called(r, [op |-> "delete", id |-> i, key |-> key, owns |-> owns,
                limit |-> None, touched |-> {}])
  /\ \/ \E why \in GetRefusals(i) \cup {"error"} : Raise(r, owns, why)
     \/ /\ IsLive(db[i])
        /\ Goto(r, "erase")
        /\ UNCHANGED outcome
  /\ UNCHANGED <<db, draft, pend, applied, stale, since>>

DeleteWrite(r) ==
  /\ pc[r] = "erase"
  /\ Unlocked(call[r].id)
  /\ pend' = [pend EXCEPT ![r] = DeletedRow(db[call[r].id])]
  /\ AfterWrite(r)
  /\ UNCHANGED <<db, call, draft, applied, stale, since>>

\* check_stored holds its session open while the connector probes.
CheckRead(r, i, patch, key, owns) ==
  /\ "check" \in Ops
  /\ pc[r] = "idle"
  /\ Called(r, [op |-> "check", id |-> i, key |-> key, owns |-> owns,
                limit |-> None, touched |-> PatchFieldsSet(patch)])
  /\ \/ /\ \E why \in GetRefusals(i) \cup MergeRefusals(i, key, patch) \cup {"error"} :
              Raise(r, owns, why)
        /\ UNCHANGED draft
     \/ /\ IsLive(db[i])
        /\ MergeRefusals(i, key, patch) = {}
        /\ draft' = [draft EXCEPT ![r] = Merge(db[i], key, patch)]
        /\ Goto(r, "probe")
        /\ UNCHANGED outcome
  /\ UNCHANGED <<db, pend, applied, stale, since>>

CheckProbe(r) ==
  /\ pc[r] = "probe"
  /\ outcome' = [outcome EXCEPT ![r] = IF call[r].owns THEN "ok" ELSE "returned"]
  /\ draft' = [draft EXCEPT ![r] = None]
  /\ Goto(r, IF call[r].owns THEN "close" ELSE "owner")
  /\ UNCHANGED <<db, call, pend, applied, stale, since>>

-----------------------------------------------------------------------------
(* The end of a unit of work.                                              *)

\* A statement, the connector or COMMIT fails, or the request is cancelled.
Fail(r) ==
  /\ pc[r] \in {"count", "insert", "write", "erase", "probe", "commit"}
  /\ Raise(r, call[r].owns, "error")
  /\ draft' = [draft EXCEPT ![r] = None]
  /\ UNCHANGED <<db, call, pend, applied, stale, since>>

\* What the caller learns from a COMMIT the database performed: its answer may
\* be lost, and the create route still has to build the public view.
CommitOutcomes(r) ==
  IF call[r].owns
  THEN {"ok", "error"} \cup (IF call[r].op = "create" THEN {"view_failed"} ELSE {})
  ELSE IF outcome[r] = "returned" THEN {"ok", "error"} ELSE {outcome[r]}

\* A create between its count and the end of its transaction.
Counted(s) == pc[s] \in {"insert", "commit", "owner"} /\ call[s].op = "create"
Inserts(r) == pend[r] # None /\ call[r].op = "create"

\* The transaction commits: by the service, or by the caller that owns it
\* (after whatever the service answered).
Commit(r) ==
  /\ pc[r] \in {"commit", "owner"}
  /\ db' = [i \in Ids |-> IF Holds(r, i) THEN pend[r] ELSE db[i]]
  /\ pend' = [pend EXCEPT ![r] = None]
  /\ applied' = [applied EXCEPT ![r] = pend[r] # None]
  /\ \E o \in CommitOutcomes(r) : outcome' = [outcome EXCEPT ![r] = o]
  /\ Goto(r, "done")
  /\ stale' = [s \in Requests |->
                 stale[s] \/ (pc[s] \in {"write", "erase"} /\ Holds(r, call[s].id))]
  /\ since' = [s \in Requests |->
                 IF Inserts(r) /\ s # r /\ Counted(s)
                 THEN since[s] + 1 ELSE since[s]]
  /\ UNCHANGED <<call, draft>>

\* Mutant: __aexit__ does not roll back.
CloseKeeps(r) ==
  /\ pc[r] = "close"
  /\ Goto(r, "done")
  /\ UNCHANGED <<db, call, draft, pend, outcome, applied, stale, since>>

\* __aexit__: roll back what is not committed and close the session.
Close(r) ==
  /\ pc[r] = "close"
  /\ pend' = [pend EXCEPT ![r] = None]
  /\ Goto(r, "done")
  /\ UNCHANGED <<db, call, draft, outcome, applied, stale, since>>

\* The caller that owns the unit of work rolls it back (or fails to commit).
OwnerRollback(r) ==
  /\ pc[r] = "owner"
  /\ pend' = [pend EXCEPT ![r] = None]
  /\ outcome' = [outcome EXCEPT ![r] = IF @ = "returned" THEN "rolled_back" ELSE @]
  /\ Goto(r, "done")
  /\ UNCHANGED <<db, call, draft, applied, stale, since>>

-----------------------------------------------------------------------------
Init ==
  /\ db \in {table \in [Ids -> StoredRow \cup {None}] :
               \A i \in Ids \ Seeded : table[i] = None}
  /\ pc = [r \in Requests |-> "idle"]
  /\ call = [r \in Requests |-> None]
  /\ draft = [r \in Requests |-> None]
  /\ pend = [r \in Requests |-> None]
  /\ outcome = [r \in Requests |-> None]
  /\ applied = [r \in Requests |-> FALSE]
  /\ stale = [r \in Requests |-> FALSE]
  /\ since = [r \in Requests |-> 0]

\* The client sends a request to a process; the ids it can name are any.
Start(r, lim) ==
  \E key \in Keys, owns \in Owned :
    \/ \E d \in Drafts : CreateStart(r, d, key, owns, lim)
    \/ \E i \in Ids : DeleteRead(r, i, key, owns)
    \/ \E i \in Ids, patch \in Patches :
         UpdateRead(r, i, patch, key, owns) \/ CheckRead(r, i, patch, key, owns)

\* The statements of a request that is running.
Progress(r) ==
  \/ CreateCount(r) \/ CreateInsert(r)
  \/ UpdateWrite(r) \/ DeleteWrite(r)
  \/ CheckProbe(r) \/ Commit(r) \/ Close(r)

Step(r) == Progress(r) \/ Fail(r) \/ OwnerRollback(r)

\* Every request has ended: the clients ask for nothing more.
Quiet == (\A r \in Requests : pc[r] = "done") /\ UNCHANGED vars

Next ==
  \/ \E r \in Requests : Step(r) \/ \E lim \in Limits \cup {None} : Start(r, lim)
  \/ Quiet

Spec == Init /\ [][Next]_vars

\* A statement the database can run is run, and a caller that owns a unit of
\* work ends it.
FairSpec == Spec /\ \A r \in Requests : WF_vars(Progress(r) \/ OwnerRollback(r))

-----------------------------------------------------------------------------
(* Properties.                                                             *)

Writers == {"create", "update", "delete"}

\* A request that ends leaves nothing of its transaction behind: every path out
\* of _use_uow commits or rolls back, so no row stays held.
EndedHoldsNothing ==
  \A r \in Requests : pc[r] = "done" => pend[r] = None

\* A request the service refuses by its own decision (policy, validation, not
\* found, limit, repair) has written nothing, even if the caller that owns the
\* unit of work commits it afterwards.
RefusalLeavesNoTrace ==
  \A r \in Requests : outcome[r] \in Refusals => ~applied[r] /\ pend[r] = None

\* A writer is answered "ok" only when its write is in the committed table, and
\* a rolled back one never is; an acknowledged delete stays visible forever.
AnswerIsHonest ==
  \A r \in Requests :
    /\ outcome[r] = "ok" /\ call[r].op \in Writers => applied[r]
    /\ outcome[r] = "rolled_back" => ~applied[r]
    /\ outcome[r] = "ok" /\ call[r].op = "delete" => ~IsLive(db[call[r].id])

\* The secrets of a row are never overwritten by the empty mapping that stands
\* for secrets the process could not decrypt.
SecretsNeverBlanked ==
  \A i \in Ids : db[i] # None => db[i].secrets.val # Blank

\* However updates interleave, what is read of a committed row passes validation
\* as a whole: columns that are only valid together are never mixed.
CommittedRowsValid ==
  \A i \in Ids : db[i] # None => Valid(Decode(db[i].config))

\* A deleted connection stays deleted and a row never leaves the table,
\* although replace() does not look at deleted_at.
DeletedForever ==
  [][\A i \in Ids : db[i] # None =>
       /\ db'[i] # None
       /\ db[i].deleted => db'[i].deleted]_db

Commits(r) == ~applied[r] /\ applied'[r]

\* An update whose row nobody else committed since it read it leaves in the
\* columns its patch does not name what the models make of what it read, and
\* never what another wrote or what could not be decrypted; it does not touch
\* deleted_at, and a delete touches nothing else. A column that was stored as
\* the models dump it is thus kept; one of another form is rewritten (service.py,
\* _merge and _to_persisted_draft).
FreshWriteIsExact ==
  [][\A r \in Requests :
       Commits(r) /\ ~stale[r] =>
         LET old == db[call[r].id]
             new == db'[call[r].id]
         IN  /\ call[r].op = "delete" => new = DeletedRow(old)
             /\ call[r].op = "update" =>
                  /\ new.deleted = old.deleted
                  /\ \A f \in Fields \ call[r].touched : new.config[f] = Dump(Decode(old.config))[f]
                  /\ "secrets" \notin call[r].touched =>
                       new.secrets.val = DumpSecrets(old.secrets.val)]_vars

\* max_connections can be overrun only by creates that committed between the
\* count and the commit of this one, and by no more than their number.
LimitOverrunBounded ==
  [][\A r \in Requests :
       Commits(r) /\ call[r].op = "create" /\ call[r].limit # None =>
         NumLive(db') <= call[r].limit + since[r]]_vars

\* Every request that starts ends: no path leaves a row held that another
\* request waits for.
EveryRequestEnds ==
  \A r \in Requests : pc[r] # "idle" ~> pc[r] = "done"

\* The service implements the catalog it promises.
ReplyOf(r) ==
  CASE pc[r] # "done" -> None
    [] pc[r] = "done" /\ outcome[r] = "ok" ->
         IF call[r].op \in Writers THEN "ok" ELSE "answer"
    [] pc[r] = "done" /\ outcome[r] \in Refusals \cup {"rolled_back"} -> "refused"
    [] OTHER -> "failed"

Catalog == INSTANCE ConnectionCatalog WITH
             rows <- db, effect <- applied,
             reply <- [r \in Requests |-> ReplyOf(r)]

ImplementsCatalog == Catalog!CatalogSpec
-----------------------------------------------------------------------------
(* The inductive invariant the safety properties follow from.              *)

\* A request has been called with the operation whose steps it takes.
PhaseInv(r) ==
  /\ pc[r] = "idle" <=> call[r] = None
  /\ pc[r] = "count" => call[r].op = "create" /\ call[r].limit # None
  /\ pc[r] = "insert" => call[r].op = "create"
  /\ pc[r] = "write" => call[r].op = "update" /\ call[r].id \in Ids
  /\ pc[r] = "erase" => call[r].op = "delete" /\ call[r].id \in Ids
  /\ pc[r] = "probe" => call[r].op = "check"
  /\ pc[r] = "commit" => call[r].owns /\ pend[r] # None
  /\ pc[r] = "owner" => ~call[r].owns

\* What a request has answered fits where it is and what it has written.
OutcomeInv(r) ==
  /\ pc[r] \in {"idle", "count", "insert", "write", "erase", "probe", "commit"}
       => outcome[r] = None
  /\ pc[r] = "owner" => outcome[r] \in Refusals \cup {"returned", "error"}
  /\ pc[r] = "close" => outcome[r] \in Refusals \cup {"ok", "error"}
  /\ pc[r] = "close" /\ outcome[r] = "ok" => call[r].op = "check"
  /\ pc[r] = "owner" /\ outcome[r] = "returned" /\ call[r].op \in Writers => pend[r] # None
  /\ pc[r] # "done" => ~applied[r]
  /\ outcome[r] \in Refusals \cup {"rolled_back"} => ~applied[r]
  /\ pc[r] = "done" /\ outcome[r] = "ok" /\ call[r].op \in Writers => applied[r]
  /\ pc[r] = "done" => outcome[r] \in Outcomes

\* A draft about to be written or probed was validated and holds real secrets.
DraftInv(r) ==
  pc[r] \in {"count", "insert", "write", "probe"} =>
    draft[r] # None /\ Valid(draft[r].config) /\ draft[r].secrets # Blank

\* So does a row written and not yet committed, and no refused request has one.
PendInv(r) ==
  pend[r] # None =>
    /\ pc[r] \in {"commit", "owner", "close"}
    /\ call[r].op \in Writers
    /\ call[r].id \in Ids
    /\ outcome[r] \notin Refusals
    /\ Valid(Decode(pend[r].config))
    /\ pend[r].secrets.val # Blank

\* How the row a request works on stands to the committed one.
RowInv(r) ==
  /\ pc[r] \in {"write", "erase"} => db[call[r].id] # None
  /\ pend[r] # None =>
       LET row == db[call[r].id]
       IN  /\ call[r].op = "create" => row = None /\ ~pend[r].deleted
           /\ call[r].op = "update" => row # None /\ pend[r].deleted = row.deleted
           /\ call[r].op = "delete" => row # None /\ pend[r] = DeletedRow(row)
  /\ pc[r] = "done" /\ outcome[r] = "ok" /\ call[r].op = "delete" =>
       call[r].id \in Ids /\ db[call[r].id] # None /\ db[call[r].id].deleted

\* No row is held by two transactions.
OneHolder ==
  \A r, s \in Requests :
    pend[r] # None /\ pend[s] # None /\ call[r].id = call[s].id => r = s

\* What is committed is valid and has its secrets.
TableInv == SecretsNeverBlanked /\ CommittedRowsValid

\* An admitted create leaves room for itself, but for those that overtook it.
AdmissionInv(r) ==
  Counted(r) /\ (pc[r] = "insert" \/ Inserts(r)) /\ call[r].limit # None
    => NumLive(db) < call[r].limit + since[r]

\* In the columns the patch leaves out, a draft that is not stale has what is
\* read of the committed row, and a pending row what the models make of that.
FreshInv(r) ==
  ~stale[r] =>
    LET row == db[call[r].id]
    IN  /\ pc[r] = "write" =>
             /\ \A f \in Fields \ call[r].touched : draft[r].config[f] = Decode(row.config)[f]
             /\ "secrets" \notin call[r].touched => draft[r].secrets = row.secrets.val
        /\ pend[r] # None /\ call[r].op = "update" =>
             /\ \A f \in Fields \ call[r].touched : pend[r].config[f] = Dump(Decode(row.config))[f]
             /\ "secrets" \notin call[r].touched =>
                  pend[r].secrets.val = DumpSecrets(row.secrets.val)

IInv ==
  /\ TypeOK
  /\ \A r \in Requests :
       PhaseInv(r) /\ OutcomeInv(r) /\ DraftInv(r) /\ PendInv(r) /\ RowInv(r)
  /\ OneHolder
  /\ TableInv
  /\ \A r \in Requests : AdmissionInv(r)
  /\ \A r \in Requests : FreshInv(r)
=============================================================================
