----------------------- MODULE ConnectionServiceProofs -----------------------
(***************************************************************************)
(* TLAPS proofs about ConnectionService, for any number of requests, rows, *)
(* fields, values, keys and limits.                                        *)
(***************************************************************************)
EXTENDS ConnectionService, FiniteSetTheorems, TLAPS

-----------------------------------------------------------------------------
(* The data.                                                               *)

\* A row is read into a configuration, and a valid one is dumped into another
\* that is read as a valid one.
LEMMA DecodeType ==
  ASSUME NEW config \in Configs
  PROVE  Decode(config) \in Configs
BY ConversionAssumption DEF Decode, Configs

LEMMA DumpType ==
  ASSUME NEW config \in Configs
  PROVE  Dump(config) \in Configs
BY ConversionAssumption DEF Dump, Configs

LEMMA DumpValid ==
  ASSUME NEW config \in Configs, Valid(config)
  PROVE  Valid(Decode(Dump(config)))
<1>1. Decode(Dump(config)) = [f \in Fields |-> Decoded[f][Dumped[f][config[f]]]]
  BY DEF Decode, Dump
<1> QED BY <1>1, ConversionAssumption DEF Valid

\* Dumping neither makes secrets lost nor finds lost ones.
LEMMA DumpSecretsType ==
  ASSUME NEW secrets \in Secrets \cup {Blank}
  PROVE  /\ DumpSecrets(secrets) \in Secrets \cup {Blank}
         /\ secrets # Blank => DumpSecrets(secrets) # Blank
BY ConversionAssumption, SentinelAssumption DEF DumpSecrets

\* What a client sends is a draft.
LEMMA DraftsType == Drafts \subseteq Draft
BY DEF Drafts, Sent, Draft, Configs

\* A patch names columns of the row.
LEMMA PatchType ==
  ASSUME NEW patch \in Patches
  PROVE  /\ \E F \in SUBSET Fields : patch.config \in [F -> Values]
         /\ PatchFieldsSet(patch) \subseteq Columns
<1>1. PICK F \in SUBSET Fields : patch.config \in Sent(F)
  BY DEF Patches
<1>2. patch.config \in [F -> Values]
  BY <1>1 DEF Sent
<1> QED BY <1>2 DEF PatchFieldsSet, Columns

\* Merged into a row it gives a draft.
LEMMA MergeType ==
  ASSUME NEW row \in Row, NEW key \in Keys, NEW patch \in Patches
  PROVE  Merge(row, key, patch) \in Draft
<1>1. PICK F \in SUBSET Fields : patch.config \in [F -> Values]
  BY PatchType
<1>2. /\ patch.secrets \in Secrets \cup {None}
      /\ row.config \in [Fields -> Values]
      /\ row.secrets.val \in Secrets \cup {Blank}
  BY DEF Patches, Row, Configs, Sealed
<1>3. Decrypt(row, key) \in Secrets \cup {Blank}
  BY <1>2 DEF Decrypt
<1>4. [f \in Fields |-> IF f \in DOMAIN patch.config
                        THEN patch.config[f] ELSE Decode(row.config)[f]]
        \in [Fields -> Values]
  BY <1>1, <1>2, DecodeType DEF Configs
<1> QED BY <1>2, <1>3, <1>4 DEF Merge, Draft, Configs

\* What create inserts is a row.
LEMMA InsertedRowType ==
  ASSUME NEW key \in Keys, NEW d \in Draft
  PROVE  InsertedRow(d, key) \in Row
BY DumpType, DumpSecretsType DEF InsertedRow, Encrypt, Row, Draft, Sealed

\* What replace() makes of a row is a row.
LEMMA ReplacedRowType ==
  ASSUME NEW row \in Row, NEW key \in Keys, NEW d \in Draft
  PROVE  /\ ReplacedRow(row, d, key) \in Row
         /\ ReplacedRow(row, d, key).deleted = row.deleted
         /\ ReplacedRow(row, d, key).config = Dump(d.config)
         /\ ReplacedRow(row, d, key).secrets.val = DumpSecrets(d.secrets)
BY InsertedRowType DEF ReplacedRow, InsertedRow, Encrypt, Row

-----------------------------------------------------------------------------
(* Type correctness.                                                       *)

\* The variables have their types before the first request.
LEMMA InitType == Init => TypeOK
BY DEF Init, TypeOK, StoredRow, PCs

\* They keep them when a create begins.
LEMMA CreateStartType ==
  ASSUME TypeOK, NEW r \in Requests, NEW d \in Draft, NEW key \in Keys,
         NEW owns \in BOOLEAN, NEW lim \in Limits \cup {None},
         CreateStart(r, d, key, owns, lim)
  PROVE  TypeOK'
<1>1. [op |-> "create", id |-> None, key |-> key, owns |-> owns,
       limit |-> lim, touched |-> Columns] \in Calls
  BY DEF Calls
<1> QED
  BY <1>1 DEF TypeOK, CreateStart, Called, Goto, PCs, Outcomes, Refusals

\* So they do when an update, a delete or a check reads its row.
LEMMA ReadType ==
  ASSUME TypeOK, NEW r \in Requests, NEW i \in Ids, NEW key \in Keys,
         NEW owns \in BOOLEAN, NEW patch \in Patches,
         \/ UpdateRead(r, i, patch, key, owns)
         \/ CheckRead(r, i, patch, key, owns)
         \/ DeleteRead(r, i, key, owns)
  PROVE  TypeOK'
<1>1. PatchFieldsSet(patch) \subseteq Columns
  BY PatchType
<1>2. \A op \in {"update", "delete", "check"}, t \in SUBSET Columns :
        [op |-> op, id |-> i, key |-> key, owns |-> owns,
         limit |-> None, touched |-> t] \in Calls
  BY DEF Calls
<1>3. IsLive(db[i]) => Merge(db[i], key, patch) \in Draft
  BY MergeType DEF TypeOK, IsLive
<1>4. GetRefusals(i) \cup MergeRefusals(i, key, patch) \cup {"error"} \subseteq Outcomes
  BY DEF GetRefusals, MergeRefusals, Outcomes, Refusals
<1>5. CASE UpdateRead(r, i, patch, key, owns)
  BY <1>1, <1>2, <1>3, <1>4, <1>5 DEF TypeOK, UpdateRead, Called, Goto, Raise, PCs
<1>6. CASE CheckRead(r, i, patch, key, owns)
  BY <1>1, <1>2, <1>3, <1>4, <1>6 DEF TypeOK, CheckRead, Called, Goto, Raise, PCs
<1>7. CASE DeleteRead(r, i, key, owns)
  BY <1>2, <1>4, <1>7 DEF TypeOK, DeleteRead, Called, Goto, Raise, PCs
<1> QED BY <1>5, <1>6, <1>7

\* When a create counts and when it inserts.
LEMMA CreateType ==
  ASSUME TypeOK, NEW r \in Requests, PhaseInv(r), DraftInv(r),
         CreateCount(r) \/ CreateInsert(r)
  PROVE  TypeOK'
<1>1. CASE CreateCount(r)
  BY <1>1 DEF TypeOK, CreateCount, Goto, Raise, PCs, Outcomes, Refusals
<1>2. CASE CreateInsert(r)
  <2>1. call[r] \in Calls /\ call[r].key \in Keys /\ draft[r] \in Draft
    BY <1>2 DEF TypeOK, CreateInsert, PhaseInv, DraftInv, Calls
  <2>2. InsertedRow(draft[r], call[r].key) \in Row
    BY <2>1, InsertedRowType
  <2>3. PICK i \in FreshIds :
          /\ call' = [call EXCEPT ![r].id = i]
          /\ pend' = [pend EXCEPT ![r] = InsertedRow(draft[r], call[r].key)]
    BY <1>2 DEF CreateInsert
  <2>4. i \in Ids /\ [call[r] EXCEPT !.id = i] \in Calls
    BY <2>1 DEF FreshIds, Calls
  <2>5. call' \in [Requests -> Calls \cup {None}] /\ pend' \in [Requests -> Row \cup {None}]
    BY <2>2, <2>3, <2>4 DEF TypeOK
  <2> QED
    BY <1>2, <2>5 DEF TypeOK, CreateInsert, AfterWrite, Goto, PCs, Outcomes
<1> QED BY <1>1, <1>2

\* When a writer writes its row.
LEMMA WriteType ==
  ASSUME TypeOK, NEW r \in Requests, PhaseInv(r), DraftInv(r), RowInv(r),
         UpdateWrite(r) \/ DeleteWrite(r)
  PROVE  TypeOK'
<1>1. call[r] \in Calls /\ call[r].key \in Keys /\ db[call[r].id] \in Row
  BY DEF TypeOK, UpdateWrite, DeleteWrite, PhaseInv, RowInv, Calls
<1>2. CASE UpdateWrite(r)
  <2>1. draft[r] \in Draft
    BY <1>2 DEF TypeOK, UpdateWrite, DraftInv
  <2>2. ReplacedRow(db[call[r].id], draft[r], call[r].key) \in Row
    BY <1>1, <2>1, ReplacedRowType
  <2> QED
    BY <1>2, <2>2 DEF TypeOK, UpdateWrite, AfterWrite, Goto, PCs, Outcomes
<1>3. CASE DeleteWrite(r)
  <2>1. DeletedRow(db[call[r].id]) \in Row
    BY <1>1 DEF DeletedRow, Row
  <2> QED
    BY <1>3, <2>1 DEF TypeOK, DeleteWrite, AfterWrite, Goto, PCs, Outcomes
<1> QED BY <1>2, <1>3

\* When a request probes, fails, commits, closes or is rolled back.
LEMMA EndType ==
  ASSUME TypeOK, NEW r \in Requests,
         CheckProbe(r) \/ Fail(r) \/ Commit(r) \/ Close(r) \/ OwnerRollback(r)
  PROVE  TypeOK'
<1>1. CASE CheckProbe(r)
  BY <1>1 DEF TypeOK, CheckProbe, Goto, PCs, Outcomes
<1>2. CASE Fail(r)
  BY <1>2 DEF TypeOK, Fail, Raise, Goto, PCs, Outcomes
<1>3. CASE Close(r)
  BY <1>3 DEF TypeOK, Close, Goto, PCs
<1>4. CASE OwnerRollback(r)
  BY <1>4 DEF TypeOK, OwnerRollback, Goto, PCs, Outcomes
<1>5. CASE Commit(r)
  <2>1. db' \in [Ids -> Row \cup {None}]
    BY <1>5 DEF TypeOK, Commit, Holds
  <2>2. CommitOutcomes(r) \subseteq Outcomes \cup {None}
    BY DEF TypeOK, CommitOutcomes, Outcomes
  <2>3. outcome' \in [Requests -> Outcomes \cup {None}]
    BY <1>5, <2>2 DEF TypeOK, Commit
  <2>4. /\ applied' \in [Requests -> BOOLEAN]
        /\ stale' \in [Requests -> BOOLEAN]
        /\ since' \in [Requests -> Nat]
    BY <1>5 DEF TypeOK, Commit
  <2> QED
    BY <1>5, <2>1, <2>3, <2>4 DEF TypeOK, Commit, Goto, PCs
<1> QED BY <1>1, <1>2, <1>3, <1>4, <1>5

-----------------------------------------------------------------------------
(* The inductive invariant, one lemma per kind of step.                    *)

\* The inductive invariant holds before the first request.
LEMMA InitInv == Init => IInv
<1> SUFFICES ASSUME Init PROVE IInv
  OBVIOUS
<1>1. TypeOK
  BY InitType
<1>2. \A i \in Ids : db[i] # None => db[i] \in StoredRow
  BY DEF Init
<1>3. TableInv
  BY <1>2 DEF TableInv, SecretsNeverBlanked, CommittedRowsValid, StoredRow
<1> QED
  BY <1>1, <1>3 DEF Init, IInv, PhaseInv, OutcomeInv, DraftInv, PendInv, RowInv,
                    OneHolder, AdmissionInv, Counted, Inserts, FreshInv

\* Starting a create touches nothing but the request.
LEMMA CreateStartInv ==
  ASSUME IInv, NEW r \in Requests,
         NEW d \in Drafts, NEW key \in Keys,
         NEW owns \in BOOLEAN, NEW lim \in Limits \cup {None},
         CreateStart(r, d, key, owns, lim)
  PROVE  IInv'
<1> DEFINE c == [op |-> "create", id |-> None, key |-> key, owns |-> owns,
                 limit |-> lim, touched |-> Columns]
<1>1. d \in Draft /\ d.secrets # Blank /\ d # None /\ c \in Calls /\ c # None
  BY DraftsType, SentinelAssumption DEF Drafts, Calls
<1>2. TypeOK'
  BY <1>1, CreateStartType DEF IInv
<1>3. /\ pend[r] = None /\ ~applied[r] /\ outcome[r] = None /\ pc[r] = "idle"
      /\ call' = [call EXCEPT ![r] = c]
      /\ UNCHANGED <<db, pend, applied, stale, since>>
  BY DEF IInv, PhaseInv, OutcomeInv, PendInv, CreateStart, Called
<1>4. ASSUME NEW s \in Requests
      PROVE  PhaseInv(s)' /\ OutcomeInv(s)' /\ DraftInv(s)'
  BY <1>1, <1>3, <1>4 DEF IInv, TypeOK, PhaseInv, OutcomeInv, DraftInv, CreateStart,
                          Goto, Refusals, Outcomes, Writers
<1>5. ASSUME NEW s \in Requests
      PROVE  PendInv(s)' /\ RowInv(s)' /\ AdmissionInv(s)' /\ FreshInv(s)'
  <2>1. CASE s = r
    BY <1>1, <1>3, <2>1 DEF IInv, TypeOK, PendInv, RowInv, AdmissionInv, FreshInv,
         CreateStart, Goto, Counted, Inserts
  <2>2. CASE s # r
    BY <1>3, <1>5, <2>2 DEF IInv, TypeOK, PendInv, RowInv, AdmissionInv, FreshInv,
         CreateStart, Goto, Counted, Inserts
  <2> QED BY <2>1, <2>2
<1>6. OneHolder'
  BY <1>3 DEF IInv, TypeOK, OneHolder
<1>7. TableInv'
  BY <1>3 DEF IInv, TableInv, SecretsNeverBlanked, CommittedRowsValid
<1> QED BY <1>2, <1>4, <1>5, <1>6, <1>7 DEF IInv

\* A merge the service lets through is valid, holds real secrets and leaves the
\* columns the patch does not name as they were read.
LEMMA MergeGood ==
  ASSUME TypeOK, TableInv, NEW i \in Ids, NEW key \in Keys, NEW patch \in Patches,
         IsLive(db[i]), MergeRefusals(i, key, patch) = {}
  PROVE  LET d == Merge(db[i], key, patch)
         IN  /\ d \in Draft /\ d # None
             /\ Valid(d.config)
             /\ d.secrets # Blank
             /\ \A f \in Fields \ PatchFieldsSet(patch) : d.config[f] = Decode(db[i].config)[f]
             /\ "secrets" \notin PatchFieldsSet(patch) => d.secrets = db[i].secrets.val
<1> DEFINE d == Merge(db[i], key, patch)
<1>1. db[i] \in Row /\ db[i].secrets.val # Blank
  BY DEF TypeOK, TableInv, SecretsNeverBlanked, IsLive
<1>2. d \in Draft
  BY <1>1, MergeType
<1>3. ~MustRepair(db[i], key, patch) /\ Valid(d.config)
  BY DEF MergeRefusals
<1>4. PICK F \in SUBSET Fields : patch.config \in [F -> Values]
  BY PatchType
<1>5. patch.secrets \in Secrets \cup {None}
  BY DEF Patches
<1>6. \A f \in Fields \ PatchFieldsSet(patch) : d.config[f] = Decode(db[i].config)[f]
  BY <1>4 DEF Merge, PatchFieldsSet
<1>7. "secrets" \notin PatchFieldsSet(patch) => patch.secrets = None
  BY DEF PatchFieldsSet
<1>8. "secrets" \notin PatchFieldsSet(patch) => d.secrets = db[i].secrets.val
  BY <1>3, <1>7 DEF Merge, MustRepair, Decrypt
<1>9. d.secrets # Blank
  <2>1. CASE patch.secrets = None
    <3>1. "secrets" \notin PatchFieldsSet(patch)
      BY <1>4, <2>1, DataAssumption DEF PatchFieldsSet
    <3> QED BY <1>1, <1>8, <3>1
  <2>2. CASE patch.secrets # None
    BY <1>5, <2>2, SentinelAssumption DEF Merge
  <2> QED BY <2>1, <2>2
<1> QED BY <1>2, <1>3, <1>6, <1>8, <1>9, SentinelAssumption

\* The first statement of update, delete and check_stored reads and writes nothing.
LEMMA ReadInv ==
  ASSUME IInv, NEW r \in Requests, NEW i \in Ids, NEW key \in Keys,
         NEW owns \in BOOLEAN, NEW patch \in Patches,
         \/ UpdateRead(r, i, patch, key, owns)
         \/ CheckRead(r, i, patch, key, owns)
         \/ DeleteRead(r, i, key, owns)
  PROVE  IInv'
<1>1. TypeOK'
  BY ReadType DEF IInv
<1>2. PICK c \in Calls :
        /\ c.op \in {"update", "delete", "check"} /\ c.id = i /\ c.owns = owns
        /\ call' = [call EXCEPT ![r] = c]
        /\ UpdateRead(r, i, patch, key, owns) =>
             c.op = "update" /\ c.touched = PatchFieldsSet(patch)
        /\ CheckRead(r, i, patch, key, owns) => c.op = "check"
        /\ DeleteRead(r, i, key, owns) => c.op = "delete"
  <2> DEFINE C(op, t) == [op |-> op, id |-> i, key |-> key, owns |-> owns,
                          limit |-> None, touched |-> t]
  <2>1. PatchFieldsSet(patch) \subseteq Columns
    BY PatchType
  <2>2. \A op \in {"update", "delete", "check"}, t \in SUBSET Columns : C(op, t) \in Calls
    BY DEF Calls
  <2>3. /\ UpdateRead(r, i, patch, key, owns) =>
             call' = [call EXCEPT ![r] = C("update", PatchFieldsSet(patch))]
        /\ CheckRead(r, i, patch, key, owns) =>
             call' = [call EXCEPT ![r] = C("check", PatchFieldsSet(patch))]
        /\ DeleteRead(r, i, key, owns) => call' = [call EXCEPT ![r] = C("delete", {})]
    BY DEF UpdateRead, CheckRead, DeleteRead, Called
  <2>4. \A x : call' = [call EXCEPT ![r] = x] => call'[r] = x
    BY DEF IInv, TypeOK
  <2>5. call'[r] \in Calls /\ call' = [call EXCEPT ![r] = call'[r]]
    BY <2>1, <2>2, <2>3, <2>4
  <2>6. /\ call'[r].op \in {"update", "delete", "check"}
        /\ call'[r].id = i /\ call'[r].owns = owns
    BY <2>3, <2>4
  <2>7. /\ UpdateRead(r, i, patch, key, owns) =>
             call'[r].op = "update" /\ call'[r].touched = PatchFieldsSet(patch)
        /\ CheckRead(r, i, patch, key, owns) => call'[r].op = "check"
        /\ DeleteRead(r, i, key, owns) => call'[r].op = "delete"
    BY <2>3, <2>4
  <2> QED BY <2>5, <2>6, <2>7
<1>3. /\ pend[r] = None /\ ~applied[r] /\ outcome[r] = None /\ pc[r] = "idle"
      /\ UNCHANGED <<db, pend, applied, stale, since>>
  BY DEF IInv, PhaseInv, OutcomeInv, PendInv, UpdateRead, CheckRead, DeleteRead
<1>4. c # None
  BY SentinelAssumption
<1>5. GetRefusals(i) \subseteq Refusals /\ MergeRefusals(i, key, patch) \subseteq Refusals
  BY DEF GetRefusals, MergeRefusals, Refusals
<1>6. CASE /\ \E why \in Refusals \cup {"error"} : Raise(r, owns, why)
           /\ UNCHANGED draft
  <2>1. ASSUME NEW s \in Requests
        PROVE  PhaseInv(s)' /\ OutcomeInv(s)' /\ DraftInv(s)'
    BY <1>2, <1>3, <1>4, <1>6, <2>1 DEF IInv, TypeOK, PhaseInv, OutcomeInv, DraftInv,
         Raise, Goto, Refusals, Outcomes, Writers
  <2>2. ASSUME NEW s \in Requests
        PROVE  PendInv(s)' /\ RowInv(s)' /\ AdmissionInv(s)' /\ FreshInv(s)'
    <3>1. CASE s = r
      BY <1>2, <1>3, <1>4, <1>6, <3>1 DEF IInv, TypeOK, PendInv, RowInv, AdmissionInv,
           FreshInv, Raise, Goto, Counted, Inserts, Refusals
    <3>2. CASE s # r
      BY <1>2, <1>3, <1>6, <2>2, <3>2 DEF IInv, TypeOK, PendInv, RowInv, AdmissionInv,
           FreshInv, Raise, Goto, Counted, Inserts
    <3> QED BY <3>1, <3>2
  <2> QED
    BY <1>1, <1>2, <1>3, <2>1, <2>2 DEF IInv, TypeOK, OneHolder, TableInv,
         SecretsNeverBlanked, CommittedRowsValid
<1>7. CASE /\ DeleteRead(r, i, key, owns) /\ IsLive(db[i])
           /\ Goto(r, "erase") /\ UNCHANGED <<draft, outcome>>
  <2>1. c.op = "delete" /\ db[i] # None
    BY <1>2, <1>7 DEF IsLive
  <2>2. ASSUME NEW s \in Requests
        PROVE  PhaseInv(s)' /\ OutcomeInv(s)' /\ DraftInv(s)'
    BY <1>2, <1>3, <1>4, <1>7, <2>1, <2>2 DEF IInv, TypeOK, PhaseInv, OutcomeInv, DraftInv,
         Goto, Refusals, Outcomes, Writers
  <2>3. ASSUME NEW s \in Requests
        PROVE  PendInv(s)' /\ RowInv(s)' /\ AdmissionInv(s)' /\ FreshInv(s)'
    <3>1. CASE s = r
      BY <1>2, <1>3, <1>4, <1>7, <2>1, <3>1 DEF IInv, TypeOK, PendInv, RowInv, AdmissionInv,
           FreshInv, Goto, Counted, Inserts
    <3>2. CASE s # r
      BY <1>2, <1>3, <1>7, <2>3, <3>2 DEF IInv, TypeOK, PendInv, RowInv, AdmissionInv,
           FreshInv, Goto, Counted, Inserts
    <3> QED BY <3>1, <3>2
  <2> QED
    BY <1>1, <1>2, <1>3, <2>2, <2>3 DEF IInv, TypeOK, OneHolder, TableInv,
         SecretsNeverBlanked, CommittedRowsValid
<1>8. CASE /\ UpdateRead(r, i, patch, key, owns) \/ CheckRead(r, i, patch, key, owns)
           /\ IsLive(db[i]) /\ MergeRefusals(i, key, patch) = {}
           /\ draft' = [draft EXCEPT ![r] = Merge(db[i], key, patch)]
           /\ Goto(r, IF c.op = "update" THEN "write" ELSE "probe")
           /\ UNCHANGED outcome
  <2> DEFINE d == Merge(db[i], key, patch)
  <2>1. /\ d # None /\ Valid(d.config) /\ d.secrets # Blank /\ db[i] # None
        /\ \A f \in Fields \ PatchFieldsSet(patch) : d.config[f] = Decode(db[i].config)[f]
        /\ "secrets" \notin PatchFieldsSet(patch) => d.secrets = db[i].secrets.val
    BY <1>8, MergeGood DEF IInv, IsLive
  <2>2. /\ c.op \in {"update", "check"}
        /\ c.op = "update" => c.touched = PatchFieldsSet(patch)
    BY <1>2, <1>8
  <2> HIDE DEF d
  <2>3. ASSUME NEW s \in Requests
        PROVE  PhaseInv(s)' /\ OutcomeInv(s)' /\ DraftInv(s)'
    BY <1>2, <1>3, <1>4, <1>8, <2>1, <2>2, <2>3 DEF IInv, TypeOK, PhaseInv, OutcomeInv,
         DraftInv, Goto, Refusals, Outcomes, Writers, d
  <2>4. ASSUME NEW s \in Requests
        PROVE  PendInv(s)' /\ RowInv(s)' /\ AdmissionInv(s)' /\ FreshInv(s)'
    <3>1. CASE s = r
      <4>1. pc' = [pc EXCEPT ![r] = IF c.op = "update" THEN "write" ELSE "probe"]
        BY <1>8 DEF Goto
      <4>2. draft'[r] = d /\ call'[r] = c /\ db' = db
        BY <1>2, <1>3, <1>8 DEF IInv, TypeOK, d
      <4>3. PendInv(r)' /\ RowInv(r)' /\ AdmissionInv(r)'
        BY <1>2, <1>3, <4>1, <4>2, <2>1, <2>2 DEF IInv, TypeOK, PendInv, RowInv,
             AdmissionInv, Counted, Inserts
      <4>4. FreshInv(r)'
        <5>1. pend'[r] = None /\ c.id = i
          BY <1>2, <1>3
        <5>2. pc'[r] = "write" => c.touched = PatchFieldsSet(patch)
          BY <4>1, <2>2 DEF IInv, TypeOK
        <5> QED BY <4>2, <5>1, <5>2, <2>1 DEF FreshInv
      <4> QED BY <3>1, <4>3, <4>4
    <3>2. CASE s # r
      BY <1>2, <1>3, <1>8, <2>4, <3>2 DEF IInv, TypeOK, PendInv, RowInv, AdmissionInv,
           FreshInv, Goto, Counted, Inserts
    <3> QED BY <3>1, <3>2
  <2> QED
    BY <1>1, <1>2, <1>3, <2>3, <2>4 DEF IInv, TypeOK, OneHolder, TableInv,
         SecretsNeverBlanked, CommittedRowsValid
<1>9. CASE UpdateRead(r, i, patch, key, owns)
  BY <1>2, <1>5, <1>6, <1>8, <1>9 DEF UpdateRead
<1>10. CASE CheckRead(r, i, patch, key, owns)
  BY <1>2, <1>5, <1>6, <1>8, <1>10 DEF CheckRead
<1>11. CASE DeleteRead(r, i, key, owns)
  BY <1>5, <1>6, <1>7, <1>11 DEF DeleteRead
<1> QED BY <1>9, <1>10, <1>11

\* The number of live rows is a natural number.
LEMMA LiveFinite ==
  ASSUME NEW table
  PROVE  IsFiniteSet(LiveIds(table)) /\ NumLive(table) \in Nat
<1>1. LiveIds(table) \subseteq Ids
  BY DEF LiveIds
<1>2. IsFiniteSet(LiveIds(table))
  BY <1>1, IdAssumption, FS_Subset
<1> QED BY <1>2, FS_CardinalityType DEF NumLive

\* A count keeps it: the create has room left or is refused without a trace.
LEMMA CountInv ==
  ASSUME IInv, NEW r \in Requests, CreateCount(r)
  PROVE  IInv'
<1>1. TypeOK'
  BY CreateType DEF IInv
<1>2. /\ pc[r] = "count" /\ pend[r] = None /\ call[r].op = "create"
      /\ outcome[r] = None /\ ~applied[r] /\ draft[r] # None
      /\ call[r].limit \in Nat /\ call[r] # None
      /\ UNCHANGED <<db, call, pend, applied, stale>>
      /\ since' = [since EXCEPT ![r] = 0]
  BY DataAssumption DEF CreateCount, IInv, TypeOK, PhaseInv, OutcomeInv, PendInv, DraftInv, Calls
<1>3. ASSUME NEW s \in Requests
      PROVE  PhaseInv(s)' /\ OutcomeInv(s)' /\ DraftInv(s)' /\ PendInv(s)'
  BY <1>2, <1>3 DEF CreateCount, IInv, TypeOK, PhaseInv, OutcomeInv, DraftInv, PendInv,
       Raise, Goto, Refusals, Outcomes
<1>4. ASSUME NEW s \in Requests
      PROVE  RowInv(s)' /\ FreshInv(s)'
  <2>1. CASE s = r
    BY <1>2, <2>1 DEF CreateCount, IInv, TypeOK, RowInv, FreshInv, Raise, Goto
  <2>2. CASE s # r
    BY <1>2, <1>4, <2>2 DEF CreateCount, IInv, TypeOK, RowInv, FreshInv, Raise, Goto
  <2> QED BY <2>1, <2>2
<1>5. ASSUME NEW s \in Requests
      PROVE  AdmissionInv(s)'
  <2>1. CASE s = r
    <3>1. NumLive(db) \in Nat /\ since'[r] = 0
      BY <1>2, LiveFinite DEF IInv, TypeOK
    <3>2. pc'[r] = "insert" => NumLive(db) < call[r].limit
      BY <1>2, <3>1 DEF CreateCount, AtLimit, IInv, TypeOK, Raise, Goto
    <3> QED
      BY <1>2, <2>1, <3>1, <3>2 DEF AdmissionInv, Inserts
  <2>2. CASE s # r
    BY <1>2, <1>5, <2>2 DEF CreateCount, IInv, TypeOK, AdmissionInv, Counted, Inserts, Raise, Goto
  <2> QED BY <2>1, <2>2
<1> QED
  BY <1>1, <1>2, <1>3, <1>4, <1>5 DEF IInv, OneHolder, TableInv, SecretsNeverBlanked, CommittedRowsValid

\* An insert keeps it: the new row is the create's own and goes to a free key.
LEMMA InsertInv ==
  ASSUME IInv, NEW r \in Requests, CreateInsert(r)
  PROVE  IInv'
<1>1. TypeOK'
  BY CreateType DEF IInv
<1>2. /\ pc[r] = "insert" /\ pend[r] = None /\ call[r].op = "create"
      /\ outcome[r] = None /\ ~applied[r]
      /\ draft[r] \in Draft /\ Valid(draft[r].config) /\ draft[r].secrets # Blank
      /\ call[r] \in Calls
      /\ UNCHANGED <<db, applied, stale, since>>
      /\ draft' = [draft EXCEPT ![r] = None]
  BY DEF CreateInsert, IInv, TypeOK, PhaseInv, OutcomeInv, PendInv, DraftInv, Calls
<1>3. PICK i \in FreshIds :
        /\ call' = [call EXCEPT ![r].id = i]
        /\ pend' = [pend EXCEPT ![r] = InsertedRow(draft[r], call[r].key)]
  BY DEF CreateInsert
<1>4. i \in Ids /\ db[i] = None /\ Unlocked(i)
  BY <1>3 DEF FreshIds
<1> DEFINE row == InsertedRow(draft[r], call[r].key)
<1>5. /\ row \in Row /\ row # None /\ ~row.deleted
      /\ Valid(Decode(row.config)) /\ row.secrets.val # Blank
  <2>1. call[r].key \in Keys /\ draft[r].config \in Configs /\ draft[r].secrets \in Secrets \cup {Blank}
    BY <1>2 DEF Calls, Draft
  <2>2. row \in Row /\ row # None
    BY <1>2, <2>1, InsertedRowType, SentinelAssumption
  <2>3. /\ ~row.deleted /\ row.config = Dump(draft[r].config)
        /\ row.secrets.val = DumpSecrets(draft[r].secrets)
    BY DEF InsertedRow, Encrypt
  <2> QED BY <1>2, <2>1, <2>2, <2>3, DumpValid, DumpSecretsType
<1>6. /\ call'[r] # None /\ call'[r].id = i /\ call'[r].op = "create"
      /\ call'[r].owns = call[r].owns /\ call'[r].limit = call[r].limit
      /\ \A s \in Requests : s # r => call'[s] = call[s] /\ pend'[s] = pend[s]
      /\ pend'[r] = row
  <2>1. call'[r] = [call[r] EXCEPT !.id = i]
    BY <1>3 DEF IInv, TypeOK
  <2>2. [call[r] EXCEPT !.id = i] \in Calls
    BY <1>2, <1>4 DEF Calls
  <2>3. call'[r] # None
    BY <2>1, <2>2, SentinelAssumption
  <2>4. /\ call'[r].id = i /\ call'[r].op = "create"
        /\ call'[r].owns = call[r].owns /\ call'[r].limit = call[r].limit
    BY <1>2, <2>1 DEF Calls
  <2>5. /\ \A s \in Requests : s # r => call'[s] = call[s] /\ pend'[s] = pend[s]
        /\ pend'[r] = row
    BY <1>3 DEF IInv, TypeOK
  <2> QED BY <2>3, <2>4, <2>5
<1> HIDE DEF row
<1>7. ASSUME NEW s \in Requests
      PROVE  PhaseInv(s)' /\ OutcomeInv(s)' /\ DraftInv(s)' /\ PendInv(s)'
  <2>1. CASE s = r
    BY <1>2, <1>4, <1>5, <1>6, <2>1, SentinelAssumption DEF CreateInsert, AfterWrite, IInv,
         TypeOK, PhaseInv, OutcomeInv, DraftInv, PendInv, Goto, Refusals, Outcomes, Writers
  <2>2. CASE s # r
    BY <1>2, <1>6, <1>7, <2>2 DEF CreateInsert, AfterWrite, IInv, TypeOK, PhaseInv,
         OutcomeInv, DraftInv, PendInv, Goto
  <2> QED BY <2>1, <2>2
<1>8. ASSUME NEW s \in Requests
      PROVE  RowInv(s)' /\ AdmissionInv(s)' /\ FreshInv(s)'
  <2>1. CASE s = r
    BY <1>2, <1>4, <1>5, <1>6, <2>1 DEF CreateInsert, AfterWrite, IInv, TypeOK, RowInv,
         AdmissionInv, FreshInv, Goto, Counted, Inserts
  <2>2. CASE s # r
    BY <1>2, <1>6, <1>8, <2>2 DEF CreateInsert, AfterWrite, IInv, TypeOK, RowInv,
         AdmissionInv, FreshInv, Goto, Counted, Inserts
  <2> QED BY <2>1, <2>2
<1>9. OneHolder'
  BY <1>4, <1>6 DEF IInv, OneHolder, Unlocked, Holds
<1> QED
  BY <1>1, <1>2, <1>7, <1>8, <1>9 DEF IInv, TableInv, SecretsNeverBlanked, CommittedRowsValid

\* The UPDATE of replace() or delete() takes a row no other transaction holds.
LEMMA WriteInv ==
  ASSUME IInv, NEW r \in Requests, UpdateWrite(r) \/ DeleteWrite(r)
  PROVE  IInv'
<1>1. TypeOK'
  BY WriteType DEF IInv
<1> DEFINE i == call[r].id
<1>2. /\ pc[r] \in {"write", "erase"} /\ pend[r] = None
      /\ outcome[r] = None /\ ~applied[r] /\ call[r] # None /\ call[r] \in Calls
      /\ call[r].op = IF pc[r] = "write" THEN "update" ELSE "delete"
      /\ i \in Ids /\ db[i] \in Row /\ db[i] # None /\ Unlocked(i)
      /\ Valid(Decode(db[i].config)) /\ db[i].secrets.val # Blank
      /\ UNCHANGED <<db, call, applied, stale, since>>
      /\ AfterWrite(r)
  BY DEF UpdateWrite, DeleteWrite, IInv, TypeOK, PhaseInv, OutcomeInv, PendInv, RowInv,
         TableInv, SecretsNeverBlanked, CommittedRowsValid
\* What the pending row is, whichever of the two statements wrote it.
<1>3. PICK row \in Row :
        /\ pend' = [pend EXCEPT ![r] = row]
        /\ row # None /\ Valid(Decode(row.config)) /\ row.secrets.val # Blank
        /\ pc[r] = "write" =>
             /\ row.deleted = db[i].deleted
             /\ row.config = Dump(draft[r].config)
             /\ row.secrets.val = DumpSecrets(draft[r].secrets)
        /\ pc[r] = "erase" => row = DeletedRow(db[i])
        /\ \A s \in Requests : s # r => draft'[s] = draft[s]
  <2>1. CASE UpdateWrite(r)
    <3>1. /\ pc[r] = "write" /\ draft[r] \in Draft
          /\ Valid(draft[r].config) /\ draft[r].secrets # Blank
          /\ draft' = [draft EXCEPT ![r] = None]
          /\ pend' = [pend EXCEPT ![r] = ReplacedRow(db[i], draft[r], call[r].key)]
      BY <2>1 DEF UpdateWrite, IInv, TypeOK, DraftInv
    <3>2. call[r].key \in Keys
      BY <1>2 DEF Calls
    <3>3. /\ ReplacedRow(db[i], draft[r], call[r].key) \in Row
          /\ ReplacedRow(db[i], draft[r], call[r].key).deleted = db[i].deleted
          /\ ReplacedRow(db[i], draft[r], call[r].key).config = Dump(draft[r].config)
          /\ ReplacedRow(db[i], draft[r], call[r].key).secrets.val = DumpSecrets(draft[r].secrets)
      BY <1>2, <3>1, <3>2, ReplacedRowType
    <3>4. Valid(Decode(Dump(draft[r].config))) /\ DumpSecrets(draft[r].secrets) # Blank
      BY <3>1, DumpValid, DumpSecretsType DEF Draft
    <3>5. \A s \in Requests : s # r => draft'[s] = draft[s]
      BY <3>1 DEF IInv, TypeOK
    <3> HIDE DEF i
    <3> QED BY <3>1, <3>3, <3>4, <3>5, SentinelAssumption
  <2>2. CASE DeleteWrite(r)
    <3>1. /\ pc[r] = "erase" /\ draft' = draft
          /\ pend' = [pend EXCEPT ![r] = DeletedRow(db[i])]
      BY <2>2 DEF DeleteWrite
    <3>2. DeletedRow(db[i]) \in Row
      BY <1>2 DEF DeletedRow, Row
    <3>3. /\ DeletedRow(db[i]).config = db[i].config
          /\ DeletedRow(db[i]).secrets = db[i].secrets
      BY <1>2 DEF DeletedRow, Row
    <3> HIDE DEF i
    <3> QED BY <1>2, <3>1, <3>2, <3>3, SentinelAssumption
  <2> QED BY <2>1, <2>2
<1> HIDE DEF i
<1>4. ASSUME NEW s \in Requests
      PROVE  PhaseInv(s)' /\ OutcomeInv(s)' /\ DraftInv(s)' /\ PendInv(s)'
  <2>1. CASE s = r
    BY <1>2, <1>3, <2>1, SentinelAssumption DEF i, AfterWrite, IInv, TypeOK, PhaseInv,
         OutcomeInv, DraftInv, PendInv, Goto, Refusals, Outcomes, Writers
  <2>2. CASE s # r
    BY <1>2, <1>3, <1>4, <2>2 DEF AfterWrite, IInv, TypeOK, PhaseInv,
         OutcomeInv, DraftInv, PendInv, Goto
  <2> QED BY <2>1, <2>2
<1>5. ASSUME NEW s \in Requests
      PROVE  RowInv(s)' /\ AdmissionInv(s)' /\ FreshInv(s)'
  <2>1. CASE s = r
    <3>1. RowInv(r)' /\ AdmissionInv(r)'
      BY <1>2, <1>3 DEF i, AfterWrite, IInv, TypeOK, RowInv, AdmissionInv, Goto, Counted, Inserts
    <3>2. \A f \in Fields : draft[r].config[f] = Decode(db[i].config)[f] =>
            Dump(draft[r].config)[f] = Dump(Decode(db[i].config))[f]
      BY DEF Dump
    <3>3. pend'[r] = row /\ db' = db /\ call' = call /\ stale' = stale /\ pc'[r] # "write"
      BY <1>2, <1>3 DEF AfterWrite, Goto, IInv, TypeOK
    <3>4. FreshInv(r)
      BY DEF IInv
    <3>5. FreshInv(r)'
      BY <1>2, <1>3, <3>2, <3>3, <3>4 DEF i, FreshInv
    <3> QED BY <2>1, <3>1, <3>5
  <2>2. CASE s # r
    BY <1>2, <1>3, <1>5, <2>2 DEF AfterWrite, IInv, TypeOK, RowInv, AdmissionInv, FreshInv,
         Goto, Counted, Inserts
  <2> QED BY <2>1, <2>2
<1>6. OneHolder'
  BY <1>2, <1>3 DEF i, IInv, TypeOK, OneHolder, Unlocked, Holds
<1> QED
  BY <1>1, <1>2, <1>4, <1>5, <1>6 DEF IInv, TableInv, SecretsNeverBlanked, CommittedRowsValid
\* The steps that end a request without committing leave the table alone; what
\* they change of a request's pending row is to drop it.
LEMMA EndInv ==
  ASSUME IInv, NEW r \in Requests,
         CheckProbe(r) \/ Fail(r) \/ Close(r) \/ OwnerRollback(r)
  PROVE  IInv'
<1>1. TypeOK'
  BY EndType DEF IInv
<1>2. /\ UNCHANGED <<db, call, applied, stale, since>>
      /\ \A s \in Requests : s # r =>
           /\ pc'[s] = pc[s] /\ draft'[s] = draft[s] /\ pend'[s] = pend[s]
           /\ outcome'[s] = outcome[s]
      /\ pend'[r] # None => pend'[r] = pend[r]
      /\ pc'[r] \in {"close", "owner", "done"}
      /\ pend'[r] # None => pc[r] \in {"commit", "owner", "close"}
      /\ pc[r] # "done" /\ call[r] # None /\ ~applied[r]
  <2>1. CASE CheckProbe(r)
    BY <2>1 DEF CheckProbe, IInv, TypeOK, PhaseInv, OutcomeInv, PendInv, Goto
  <2>2. CASE Fail(r)
    BY <2>2 DEF Fail, IInv, TypeOK, PhaseInv, OutcomeInv, PendInv, Raise, Goto
  <2>3. CASE Close(r)
    BY <2>3 DEF Close, IInv, TypeOK, PhaseInv, OutcomeInv, PendInv, Goto
  <2>4. CASE OwnerRollback(r)
    BY <2>4 DEF OwnerRollback, IInv, TypeOK, PhaseInv, OutcomeInv, PendInv, Goto
  <2> QED BY <2>1, <2>2, <2>3, <2>4
<1>3. PhaseInv(r)' /\ OutcomeInv(r)' /\ DraftInv(r)' /\ PendInv(r)'
  <2>1. CASE CheckProbe(r)
    BY <1>2, <2>1 DEF CheckProbe, IInv, TypeOK, PhaseInv, OutcomeInv, DraftInv, PendInv,
         Goto, Refusals, Outcomes, Writers
  <2>2. CASE Fail(r)
    BY <1>2, <2>2 DEF Fail, IInv, TypeOK, PhaseInv, OutcomeInv, DraftInv, PendInv,
         Raise, Goto, Refusals, Outcomes, Writers
  <2>3. CASE Close(r)
    BY <1>2, <2>3 DEF Close, IInv, TypeOK, PhaseInv, OutcomeInv, DraftInv, PendInv,
         Goto, Refusals, Outcomes, Writers
  <2>4. CASE OwnerRollback(r)
    BY <1>2, <2>4 DEF OwnerRollback, IInv, TypeOK, PhaseInv, OutcomeInv, DraftInv, PendInv,
         Goto, Refusals, Outcomes, Writers
  <2> QED BY <2>1, <2>2, <2>3, <2>4
<1>4. RowInv(r)' /\ AdmissionInv(r)' /\ FreshInv(r)'
  <2>1. pc'[r] = "done" /\ outcome'[r] = "ok" => call[r].op # "delete"
    BY <1>2, <1>3 DEF OutcomeInv, Writers
  <2>2. pend[r] # None => Counted(r) \/ pc[r] = "close" \/ call[r].op # "create"
    BY DEF IInv, PendInv, Counted
  <2>3. pc'[r] # "close" /\ pend'[r] # None => pc[r] # "close"
    BY DEF CheckProbe, Fail, Close, OwnerRollback, IInv, TypeOK
  <2>4. pc[r] = "close" => pend'[r] = None
    BY DEF CheckProbe, Fail, Close, OwnerRollback, IInv, TypeOK
  <2> QED
    BY <1>2, <2>1, <2>2, <2>3, <2>4 DEF IInv, RowInv, AdmissionInv, FreshInv,
         Counted, Inserts
<1>5. ASSUME NEW s \in Requests, s # r
      PROVE  /\ PhaseInv(s)' /\ OutcomeInv(s)' /\ DraftInv(s)' /\ PendInv(s)'
             /\ RowInv(s)' /\ AdmissionInv(s)' /\ FreshInv(s)'
  <2>1. PhaseInv(s)' /\ OutcomeInv(s)' /\ DraftInv(s)' /\ PendInv(s)'
    BY <1>2, <1>5 DEF IInv, PhaseInv, OutcomeInv, DraftInv, PendInv
  <2>2. RowInv(s)' /\ AdmissionInv(s)' /\ FreshInv(s)'
    BY <1>2, <1>5 DEF IInv, RowInv, AdmissionInv, FreshInv, Counted, Inserts
  <2> QED BY <2>1, <2>2
<1>6. OneHolder'
  BY <1>2 DEF IInv, OneHolder
<1>7. TableInv'
  BY <1>2 DEF IInv, TableInv, SecretsNeverBlanked, CommittedRowsValid
<1> QED BY <1>1, <1>3, <1>4, <1>5, <1>6, <1>7 DEF IInv

\* A commit puts the pending row, if there is one, in the table: it brings back no
\* deleted row, and only the commit of a create adds a live one.
LEMMA CommitTable ==
  ASSUME IInv, NEW r \in Requests, Commit(r)
  PROVE  /\ pend[r] = None => db' = db
         /\ pend[r] # None =>
              /\ call[r].id \in Ids
              /\ db' = [db EXCEPT ![call[r].id] = pend[r]]
              /\ ~Inserts(r) => db[call[r].id] # None
              /\ db[call[r].id] # None /\ db[call[r].id].deleted => pend[r].deleted
         /\ NumLive(db') <= NumLive(db) + (IF Inserts(r) THEN 1 ELSE 0)
<1> DEFINE i == call[r].id
<1>1. pend[r] = None => db' = db
  BY DEF Commit, Holds, IInv, TypeOK
<1>2. ASSUME pend[r] # None
      PROVE  /\ i \in Ids
             /\ db' = [db EXCEPT ![i] = pend[r]]
             /\ ~Inserts(r) => db[i] # None
             /\ db[i] # None /\ db[i].deleted => pend[r].deleted
             /\ db[i] # None /\ ~pend[r].deleted => ~db[i].deleted
  <2>1. i \in Ids /\ call[r].op \in Writers
    BY <1>2 DEF IInv, PendInv
  <2>2. db' = [db EXCEPT ![i] = pend[r]]
    BY <1>2, <2>1 DEF Commit, Holds, IInv, TypeOK
  <2>3. db[i] # None => db[i] \in Row
    BY <2>1 DEF IInv, TypeOK
  <2>4. call[r].op = "delete" => db[i] # None /\ pend[r].deleted
    BY <1>2, <2>3 DEF IInv, RowInv, DeletedRow, Row
  <2>5. call[r].op = "update" => db[i] # None /\ pend[r].deleted = db[i].deleted
    BY <1>2 DEF IInv, RowInv
  <2>6. call[r].op = "create" => db[i] = None
    BY <1>2 DEF IInv, RowInv
  <2>7. ~Inserts(r) => call[r].op # "create"
    BY <1>2 DEF Inserts
  <2> HIDE DEF i
  <2> QED BY <2>1, <2>2, <2>4, <2>5, <2>6, <2>7 DEF Writers
<1>3. Inserts(r) => LiveIds(db') \subseteq LiveIds(db) \cup {i}
  BY <1>1, <1>2 DEF LiveIds, IInv, TypeOK
<1>4. ~Inserts(r) => LiveIds(db') \subseteq LiveIds(db)
  <2>1. CASE pend[r] = None
    BY <1>1, <2>1
  <2>2. CASE pend[r] # None
    <3>1. ~Inserts(r) => (~pend[r].deleted => IsLive(db[i]))
      BY <1>2, <2>2 DEF IsLive
    <3>2. \A j \in Ids : IsLive(db'[j]) => j = i \/ IsLive(db[j])
      BY <1>2, <2>2 DEF IInv, TypeOK
    <3>3. IsLive(db'[i]) => ~pend[r].deleted
      BY <1>2, <2>2 DEF IInv, TypeOK, IsLive
    <3> HIDE DEF i
    <3> QED BY <3>1, <3>2, <3>3 DEF LiveIds
  <2> QED BY <2>1, <2>2
<1>5. /\ IsFiniteSet(LiveIds(db)) /\ NumLive(db) \in Nat
      /\ IsFiniteSet(LiveIds(db')) /\ NumLive(db') \in Nat
  BY LiveFinite
<1>6. ~Inserts(r) => NumLive(db') <= NumLive(db)
  BY <1>4, <1>5, FS_Subset DEF NumLive
<1>7. Inserts(r) => NumLive(db') <= NumLive(db) + 1
  <2>1. /\ IsFiniteSet(LiveIds(db) \cup {i})
        /\ Cardinality(LiveIds(db) \cup {i}) <= Cardinality(LiveIds(db)) + 1
    <3> DEFINE live == LiveIds(db)
    <3>1. IsFiniteSet(live) /\ Cardinality(live) \in Nat
      BY <1>5 DEF NumLive
    <3> HIDE DEF live, i
    <3>2. /\ IsFiniteSet(live \cup {i})
          /\ Cardinality(live \cup {i}) =
               IF i \in live THEN Cardinality(live) ELSE Cardinality(live) + 1
      BY <3>1, FS_AddElement
    <3>3. Cardinality(live \cup {i}) <= Cardinality(live) + 1
      BY <3>1, <3>2
    <3> QED BY <3>2, <3>3 DEF live
  <2>2. Inserts(r) => Cardinality(LiveIds(db')) <= Cardinality(LiveIds(db) \cup {i})
    BY <1>3, <2>1, FS_Subset
  <2>3. Cardinality(LiveIds(db) \cup {i}) \in Nat
    BY <2>1, FS_CardinalityType
  <2> QED BY <1>5, <2>1, <2>2, <2>3 DEF NumLive
<1> QED BY <1>1, <1>2, <1>5, <1>6, <1>7

\* The commit of one request keeps what every other one relies on.
LEMMA CommitInv ==
  ASSUME IInv, NEW r \in Requests, Commit(r)
  PROVE  IInv'
<1>1. TypeOK'
  BY EndType DEF IInv
<1>2. /\ UNCHANGED <<call, draft>>
      /\ pc' = [pc EXCEPT ![r] = "done"] /\ pend' = [pend EXCEPT ![r] = None]
      /\ applied' = [applied EXCEPT ![r] = pend[r] # None]
      /\ pc[r] \in {"commit", "owner"} /\ call[r] # None
  BY DEF Commit, Goto, IInv, PhaseInv
<1>3. PICK o \in CommitOutcomes(r) : outcome' = [outcome EXCEPT ![r] = o]
  BY DEF Commit
<1>4. /\ o \in Outcomes
      /\ o \in Refusals \cup {"rolled_back"} => pend[r] = None
      /\ o = "ok" /\ call[r].op \in Writers => pend[r] # None
  <2>1. CASE pc[r] = "commit"
    BY <1>3, <2>1 DEF CommitOutcomes, Outcomes, Refusals, IInv, PhaseInv
  <2>2. CASE pc[r] = "owner"
    BY <1>3, <2>2 DEF CommitOutcomes, Outcomes, Refusals, IInv, PhaseInv, OutcomeInv, PendInv
  <2> QED BY <1>2, <2>1, <2>2
<1> DEFINE i == call[r].id
<1>5. /\ pend[r] = None => db' = db
      /\ pend[r] # None =>
           /\ i \in Ids
           /\ db' = [db EXCEPT ![i] = pend[r]]
           /\ ~Inserts(r) => db[i] # None
           /\ db[i] # None /\ db[i].deleted => pend[r].deleted
      /\ NumLive(db') <= NumLive(db) + (IF Inserts(r) THEN 1 ELSE 0)
  BY CommitTable
<1>6. PhaseInv(r)' /\ OutcomeInv(r)' /\ DraftInv(r)' /\ PendInv(r)'
  BY <1>2, <1>3, <1>4 DEF IInv, TypeOK, PhaseInv, OutcomeInv, DraftInv, PendInv
<1>7. AdmissionInv(r)' /\ FreshInv(r)'
  BY <1>2 DEF IInv, TypeOK, AdmissionInv, FreshInv, Counted
<1>8. RowInv(r)'
  <2>1. ASSUME o = "ok", call[r].op = "delete"
        PROVE  i \in Ids /\ db'[i] # None /\ db'[i].deleted
    <3>1. pend[r] # None /\ i \in Ids /\ db'[i] = pend[r]
      BY <1>4, <1>5, <2>1 DEF Writers, IInv, TypeOK
    <3>2. db[i] \in Row /\ pend[r] = DeletedRow(db[i])
      BY <2>1, <3>1 DEF IInv, TypeOK, RowInv
    <3>3. pend[r].deleted
      BY <3>2 DEF DeletedRow, Row
    <3> QED BY <3>1, <3>3
  <2> QED BY <1>2, <1>3, <2>1 DEF IInv, TypeOK, RowInv
<1>9. ASSUME NEW s \in Requests, s # r
      PROVE  /\ PhaseInv(s)' /\ OutcomeInv(s)' /\ DraftInv(s)' /\ PendInv(s)'
             /\ RowInv(s)' /\ AdmissionInv(s)' /\ FreshInv(s)'
  <2>1. /\ pc'[s] = pc[s] /\ pend'[s] = pend[s] /\ outcome'[s] = outcome[s]
        /\ applied'[s] = applied[s] /\ draft'[s] = draft[s] /\ call'[s] = call[s]
    BY <1>2, <1>3, <1>9 DEF IInv, TypeOK
  <2>2. PhaseInv(s)' /\ OutcomeInv(s)' /\ DraftInv(s)' /\ PendInv(s)'
    BY <2>1 DEF IInv, PhaseInv, OutcomeInv, DraftInv, PendInv
  <2> DEFINE j == call[s].id
  <2>3. pend[r] # None /\ pend[s] # None => j # i
    BY <1>9 DEF IInv, OneHolder
  <2>4. pend[s] # None => j \in Ids
    BY DEF IInv, PendInv
  <2>5. pend[s] # None => db'[j] = db[j]
    BY <1>5, <2>3, <2>4 DEF IInv, TypeOK
  <2>6. j \in Ids => db'[j] = db[j] \/ (pend[r] # None /\ j = i /\ db'[j] = pend[r])
    <3>1. CASE pend[r] = None
      BY <1>5, <3>1
    <3>2. CASE pend[r] # None
      <4>1. i \in Ids /\ db' = [db EXCEPT ![i] = pend[r]] /\ DOMAIN db = Ids
        BY <1>5, <3>2 DEF IInv, TypeOK
      <4> HIDE DEF i, j
      <4> QED BY <3>2, <4>1
    <3> QED BY <3>1, <3>2
  <2>7. RowInv(s)'
    <3>1. pc[s] \in {"write", "erase"} => j \in Ids /\ db[j] # None
      BY DEF IInv, PhaseInv, RowInv
    <3>2. pc[s] \in {"write", "erase"} => db'[j] # None
      BY <2>6, <3>1
    <3>3. ASSUME pc[s] = "done", outcome[s] = "ok", call[s].op = "delete"
          PROVE  j \in Ids /\ db'[j] # None /\ db'[j].deleted
      <4>1. j \in Ids /\ db[j] # None /\ db[j].deleted
        BY <3>3 DEF IInv, RowInv
      <4> HIDE DEF j, i
      <4> QED BY <1>5, <2>6, <4>1
    <3>4. ASSUME pend[s] # None
          PROVE  LET row == db'[j]
                 IN  /\ call[s].op = "create" => row = None /\ ~pend[s].deleted
                     /\ call[s].op = "update" => row # None /\ pend[s].deleted = row.deleted
                     /\ call[s].op = "delete" => row # None /\ pend[s] = DeletedRow(row)
      BY <2>5, <3>4 DEF IInv, RowInv
    <3> QED BY <2>1, <3>2, <3>3, <3>4 DEF RowInv
  <2>8. AdmissionInv(s)'
    <3>1. since'[s] = IF Inserts(r) /\ Counted(s) THEN since[s] + 1 ELSE since[s]
      BY <1>9 DEF Commit
    <3>2. Counted(s)' = Counted(s) /\ Inserts(s)' = Inserts(s)
      BY <2>1 DEF Counted, Inserts
    <3>3. NumLive(db) \in Nat /\ NumLive(db') \in Nat
      BY LiveFinite
    <3>4. call[s] # None => call[s].limit \in Nat \cup {None}
      BY DataAssumption DEF IInv, TypeOK, Calls
    <3>5. Counted(s) => call[s] # None
      BY DEF Counted, IInv, PhaseInv
    <3>6. since[s] \in Nat
      BY DEF IInv, TypeOK
    <3>7. ASSUME Counted(s), pc[s] = "insert" \/ Inserts(s), call[s].limit # None
          PROVE  NumLive(db') < call[s].limit + since'[s]
      <4>1. NumLive(db) < call[s].limit + since[s]
        BY <3>7 DEF IInv, AdmissionInv
      <4>2. call[s].limit \in Nat
        BY <3>4, <3>5, <3>7
      <4> QED BY <1>5, <3>1, <3>3, <3>6, <3>7, <4>1, <4>2
    <3> QED BY <2>1, <3>2, <3>7 DEF AdmissionInv
  <2>9. FreshInv(s)'
    <3>1. stale'[s] = (stale[s] \/ (pc[s] \in {"write", "erase"} /\ Holds(r, j)))
      BY DEF Commit
    <3>2. pc[s] = "write" => j \in Ids
      BY DEF IInv, PhaseInv
    <3>3. ~stale'[s] /\ pc[s] = "write" => db'[j] = db[j]
      BY <2>6, <3>1, <3>2 DEF Holds
    <3>4. ~stale'[s] => ~stale[s]
      BY <3>1
    <3> QED BY <2>1, <2>5, <3>3, <3>4 DEF IInv, FreshInv
  <2> QED BY <2>2, <2>7, <2>8, <2>9
<1>10. OneHolder'
  BY <1>2 DEF IInv, TypeOK, OneHolder
<1>11. TableInv'
  BY <1>5 DEF IInv, TypeOK, TableInv, SecretsNeverBlanked, CommittedRowsValid, PendInv
<1> QED BY <1>1, <1>6, <1>7, <1>8, <1>9, <1>10, <1>11 DEF IInv

\* Whatever a client starts keeps the invariant.
LEMMA StartInv ==
  ASSUME IInv, NEW r \in Requests, NEW lim \in Limits \cup {None}, Start(r, lim)
  PROVE  IInv'
<1>1. PICK key \in Keys, owns \in Owned :
        \/ \E d \in Drafts : CreateStart(r, d, key, owns, lim)
        \/ \E i \in Ids : DeleteRead(r, i, key, owns)
        \/ \E i \in Ids, patch \in Patches :
             UpdateRead(r, i, patch, key, owns) \/ CheckRead(r, i, patch, key, owns)
  BY DEF Start
<1>2. owns \in BOOLEAN
  BY DataAssumption
<1>3. CASE \E d \in Drafts : CreateStart(r, d, key, owns, lim)
  BY <1>2, <1>3, CreateStartInv
<1>4. CASE \E i \in Ids : DeleteRead(r, i, key, owns)
  <2> DEFINE nothing == [config |-> [f \in {} |-> f], secrets |-> None]
  <2>1. [f \in {} |-> f] \in Sent({})
    BY DEF Sent
  <2>2. [f \in {} |-> f] \in UNION {Sent(F) : F \in SUBSET Fields}
    BY <2>1
  <2>3. nothing \in Patches
    BY <2>2 DEF Patches
  <2> QED BY <1>2, <1>4, <2>3, ReadInv
<1>5. CASE \E i \in Ids, patch \in Patches :
             UpdateRead(r, i, patch, key, owns) \/ CheckRead(r, i, patch, key, owns)
  BY <1>2, <1>5, ReadInv
<1> QED BY <1>1, <1>3, <1>4, <1>5

\* A step that changes nothing keeps the invariant.
LEMMA StutterInv == IInv /\ UNCHANGED vars => IInv'
BY DEF IInv, vars, TypeOK, PhaseInv, OutcomeInv, DraftInv, PendInv, RowInv, OneHolder,
       TableInv, SecretsNeverBlanked, CommittedRowsValid, AdmissionInv, Counted, Inserts,
       FreshInv

\* Every step of the service keeps the invariant.
LEMMA NextInv == IInv /\ [Next]_vars => IInv'
<1> SUFFICES ASSUME IInv, [Next]_vars PROVE IInv'
  OBVIOUS
<1>1. ASSUME NEW r \in Requests, Step(r) PROVE IInv'
  <2>1. CASE CreateCount(r)
    BY <2>1, CountInv
  <2>2. CASE CreateInsert(r)
    BY <2>2, InsertInv
  <2>3. CASE UpdateWrite(r) \/ DeleteWrite(r)
    BY <2>3, WriteInv
  <2>4. CASE CheckProbe(r) \/ Fail(r) \/ Close(r) \/ OwnerRollback(r)
    BY <2>4, EndInv
  <2>5. CASE Commit(r)
    BY <2>5, CommitInv
  <2> QED BY <1>1, <2>1, <2>2, <2>3, <2>4, <2>5 DEF Step, Progress
<1>2. ASSUME NEW r \in Requests, NEW lim \in Limits \cup {None}, Start(r, lim) PROVE IInv'
  BY <1>2, StartInv
<1>3. CASE UNCHANGED vars
  BY <1>3, StutterInv
<1> QED BY <1>1, <1>2, <1>3 DEF Next, Quiet

-----------------------------------------------------------------------------
(* The theorems: invariants.                                               *)

\* The strengthened invariant holds in every state of every execution.
THEOREM Invariance == Spec => []IInv
<1>1. Init => IInv
  BY InitInv
<1>2. IInv /\ [Next]_vars => IInv'
  BY NextInv
<1> QED BY <1>1, <1>2, PTL DEF Spec

\* Every variable keeps its type.
THEOREM TypeCorrect == Spec => []TypeOK
<1>1. IInv => TypeOK
  BY DEF IInv
<1> QED BY <1>1, Invariance, PTL

\* A request that has ended holds no row.
THEOREM NothingHeld == Spec => []EndedHoldsNothing
<1>1. IInv => EndedHoldsNothing
  BY DEF IInv, PendInv, EndedHoldsNothing
<1> QED BY <1>1, Invariance, PTL

\* A refusal of the service leaves nothing behind, even for a caller that commits.
THEOREM RefusalsAreClean == Spec => []RefusalLeavesNoTrace
<1>1. IInv => RefusalLeavesNoTrace
  BY DEF IInv, PendInv, OutcomeInv, RefusalLeavesNoTrace
<1> QED BY <1>1, Invariance, PTL

\* "ok" is said only of what is committed.
THEOREM AnswersAreHonest == Spec => []AnswerIsHonest
<1>1. IInv => AnswerIsHonest
  <2> SUFFICES ASSUME IInv, NEW r \in Requests
               PROVE  /\ outcome[r] = "ok" /\ call[r].op \in Writers => applied[r]
                      /\ outcome[r] = "rolled_back" => ~applied[r]
                      /\ outcome[r] = "ok" /\ call[r].op = "delete" => ~IsLive(db[call[r].id])
    BY DEF AnswerIsHonest
  <2>1. outcome[r] = "ok" /\ call[r].op \in Writers => pc[r] = "done"
    BY SentinelAssumption DEF IInv, TypeOK, OutcomeInv, PCs, Outcomes, Refusals, Writers
  <2> QED BY <2>1 DEF IInv, OutcomeInv, RowInv, Writers, IsLive
<1> QED BY <1>1, Invariance, PTL

\* Secrets that could not be decrypted are never written back as empty ones.
THEOREM SecretsSurvive == Spec => []SecretsNeverBlanked
<1>1. IInv => SecretsNeverBlanked
  BY DEF IInv, TableInv
<1> QED BY <1>1, Invariance, PTL

\* Interleaved partial updates never mix columns into an invalid row.
THEOREM RowsStayValid == Spec => []CommittedRowsValid
<1>1. IInv => CommittedRowsValid
  BY DEF IInv, TableInv
<1> QED BY <1>1, Invariance, PTL

-----------------------------------------------------------------------------
(* The theorems: what a step may do.                                       *)

\* The committed table changes only when a transaction commits.
LEMMA OnlyCommitWrites ==
  ASSUME [Next]_vars
  PROVE  UNCHANGED <<db, applied>> \/ \E r \in Requests : Commit(r)
<1>1. ASSUME NEW r \in Requests, Step(r)
      PROVE  UNCHANGED <<db, applied>> \/ Commit(r)
  BY <1>1 DEF Step, Progress, CreateCount, CreateInsert, UpdateWrite, DeleteWrite, CheckProbe,
              Close, Fail, OwnerRollback
<1>2. ASSUME NEW r \in Requests, NEW lim \in Limits \cup {None}, Start(r, lim)
      PROVE  UNCHANGED <<db, applied>>
  <2>1. \A d, key, owns : CreateStart(r, d, key, owns, lim) => UNCHANGED <<db, applied>>
    BY DEF CreateStart
  <2>2. \A i, key, owns : DeleteRead(r, i, key, owns) => UNCHANGED <<db, applied>>
    BY DEF DeleteRead
  <2>3. \A i, patch, key, owns : UpdateRead(r, i, patch, key, owns) => UNCHANGED <<db, applied>>
    BY DEF UpdateRead
  <2>4. \A i, patch, key, owns : CheckRead(r, i, patch, key, owns) => UNCHANGED <<db, applied>>
    BY DEF CheckRead
  <2> QED BY <1>2, <2>1, <2>2, <2>3, <2>4 DEF Start
<1> QED BY <1>1, <1>2 DEF Next, Quiet, vars

\* A deleted connection never comes back and no row leaves the table.
THEOREM DeletionIsFinal == Spec => DeletedForever
<1> DEFINE Kept == \A i \in Ids : db[i] # None =>
                     /\ db'[i] # None
                     /\ db[i].deleted => db'[i].deleted
<1>1. IInv /\ [Next]_vars => [Kept]_db
  <2> SUFFICES ASSUME IInv, [Next]_vars, db' # db PROVE Kept
    OBVIOUS
  <2>1. PICK r \in Requests : Commit(r)
    BY OnlyCommitWrites
  <2>2. /\ pend[r] # None /\ call[r].id \in Ids
        /\ db' = [db EXCEPT ![call[r].id] = pend[r]]
        /\ db[call[r].id] # None /\ db[call[r].id].deleted => pend[r].deleted
    BY <2>1, CommitTable
  <2> QED BY <2>2 DEF IInv, TypeOK
<1> QED BY <1>1, Invariance, PTL DEF Spec, DeletedForever

\* A request whose write a step commits is the one that step commits.
LEMMA CommitOfOne ==
  ASSUME IInv, [Next]_vars, NEW r \in Requests, Commits(r)
  PROVE  Commit(r) /\ pend[r] # None
<1>1. applied' # applied
  BY DEF Commits
<1>2. PICK s \in Requests : Commit(s)
  BY <1>1, OnlyCommitWrites
<1>3. s = r /\ pend[r] # None
  BY <1>2 DEF Commit, Commits, IInv, TypeOK
<1> QED BY <1>2, <1>3

\* A create overruns max_connections by no more than the creates that overtook it.
THEOREM OverrunIsBounded == Spec => LimitOverrunBounded
<1> DEFINE Within == \A r \in Requests :
             Commits(r) /\ call[r].op = "create" /\ call[r].limit # None =>
               NumLive(db') <= call[r].limit + since[r]
<1>1. IInv /\ [Next]_vars => [Within]_vars
  <2> SUFFICES ASSUME IInv, [Next]_vars, NEW r \in Requests,
                      Commits(r), call[r].op = "create", call[r].limit # None
               PROVE  NumLive(db') <= call[r].limit + since[r]
    OBVIOUS
  <2>1. Commit(r) /\ pend[r] # None /\ Inserts(r) /\ Counted(r)
    BY CommitOfOne DEF Inserts, Counted, Commit
  <2>2. NumLive(db) < call[r].limit + since[r]
    BY <2>1 DEF IInv, AdmissionInv
  <2>3. NumLive(db') <= NumLive(db) + 1
    BY <2>1, CommitTable
  <2>4. NumLive(db) \in Nat /\ NumLive(db') \in Nat
    BY LiveFinite
  <2>5. call[r].limit \in Nat /\ since[r] \in Nat
    <3>1. call[r] \in Calls
      BY <2>1 DEF IInv, TypeOK, PhaseInv, Commit
    <3> QED BY <3>1, DataAssumption DEF Calls, IInv, TypeOK
  <2> QED BY <2>2, <2>3, <2>4, <2>5
<1> QED BY <1>1, Invariance, PTL DEF Spec, LimitOverrunBounded

\* A delete nobody overtook changes nothing but deleted_at, and an update leaves
\* in the columns it does not name what the models make of what was stored.
THEOREM FreshWritesAreExact == Spec => FreshWriteIsExact
<1> DEFINE Exact == \A r \in Requests :
             Commits(r) /\ ~stale[r] =>
               LET old == db[call[r].id]
                   new == db'[call[r].id]
               IN  /\ call[r].op = "delete" => new = DeletedRow(old)
                   /\ call[r].op = "update" =>
                        /\ new.deleted = old.deleted
                        /\ \A f \in Fields \ call[r].touched :
                             new.config[f] = Dump(Decode(old.config))[f]
                        /\ "secrets" \notin call[r].touched =>
                             new.secrets.val = DumpSecrets(old.secrets.val)
<1>1. IInv /\ [Next]_vars => [Exact]_vars
  <2> SUFFICES ASSUME IInv, [Next]_vars, NEW r \in Requests, Commits(r), ~stale[r]
               PROVE  LET old == db[call[r].id]
                          new == db'[call[r].id]
                      IN  /\ call[r].op = "delete" => new = DeletedRow(old)
                          /\ call[r].op = "update" =>
                               /\ new.deleted = old.deleted
                               /\ \A f \in Fields \ call[r].touched :
                                    new.config[f] = Dump(Decode(old.config))[f]
                               /\ "secrets" \notin call[r].touched =>
                                    new.secrets.val = DumpSecrets(old.secrets.val)
    OBVIOUS
  <2>1. Commit(r) /\ pend[r] # None
    BY CommitOfOne
  <2>2. call[r].id \in Ids
    BY <2>1 DEF IInv, PendInv
  <2>3. db'[call[r].id] = pend[r]
    BY <2>1, CommitTable DEF IInv, TypeOK
  <2>4. RowInv(r) /\ FreshInv(r)
    BY DEF IInv
  <2> QED BY <2>1, <2>3, <2>4 DEF RowInv, FreshInv
<1> QED BY <1>1, Invariance, PTL DEF Spec, FreshWriteIsExact
-----------------------------------------------------------------------------
(* The service implements the catalog: every step of ConnectionService is  *)
(* a step of ConnectionCatalog or leaves rows, answers and effects alone.  *)

\* The answers the clients have, as the catalog sees them.
ReplyMap == [r \in Requests |-> ReplyOf(r)]

\* A step of one request that has not ended gives an answer to no other one.
LEMMA OneReply ==
  ASSUME NEW r \in Requests, pc[r] # "done",
         \A s \in Requests : s # r =>
           pc'[s] = pc[s] /\ outcome'[s] = outcome[s] /\ call'[s] = call[s]
  PROVE  /\ ReplyMap[r] = None
         /\ ReplyMap' = [ReplyMap EXCEPT ![r] = ReplyOf(r)']
<1>1. ReplyOf(r) = None
  BY DEF ReplyOf
<1>2. \A s \in Requests : s # r => ReplyOf(s)' = ReplyOf(s)
  BY DEF ReplyOf
<1> QED BY <1>1, <1>2 DEF ReplyMap

\* A request that goes on has no answer yet.
LEMMA NoReply ==
  ASSUME NEW r \in Requests, pc[r] # "done", pc'[r] # "done",
         \A s \in Requests : s # r =>
           pc'[s] = pc[s] /\ outcome'[s] = outcome[s] /\ call'[s] = call[s]
  PROVE  ReplyMap' = ReplyMap
<1>1. ReplyOf(r)' = None /\ ReplyOf(r) = None
  BY DEF ReplyOf
<1>2. \A s \in Requests : s # r => ReplyOf(s)' = ReplyOf(s)
  BY DEF ReplyOf
<1> QED BY <1>1, <1>2 DEF ReplyMap

\* What the answer of a request that has just ended is.
LEMMA ReplyAtEnd ==
  ASSUME NEW r \in Requests, pc'[r] = "done"
  PROVE  /\ outcome'[r] \in Refusals \cup {"rolled_back"} => ReplyOf(r)' = "refused"
         /\ outcome'[r] = "ok" /\ call'[r].op \in Writers => ReplyOf(r)' = "ok"
         /\ outcome'[r] = "ok" /\ call'[r].op \notin Writers => ReplyOf(r)' = "answer"
         /\ outcome'[r] \in {"error", "view_failed", "returned"} => ReplyOf(r)' = "failed"
BY DEF ReplyOf, Refusals

\* Ending without a commit is an answer that changed nothing.
LEMMA AnswerStep ==
  ASSUME IInv, NEW r \in Requests, pc[r] # "done", pc'[r] = "done",
         UNCHANGED <<db, applied>>,
         \A s \in Requests : s # r =>
           pc'[s] = pc[s] /\ outcome'[s] = outcome[s] /\ call'[s] = call[s],
         outcome'[r] \in Refusals \cup {"rolled_back", "error", "view_failed"}
           \/ (outcome'[r] = "ok" /\ call'[r].op \notin Writers)
  PROVE  Catalog!CatalogNext
<1>1. PICK answer \in {"answer", "refused", "failed"} : ReplyOf(r)' = answer
  BY ReplyAtEnd
<1>2. ReplyMap[r] = None /\ ReplyMap' = [ReplyMap EXCEPT ![r] = answer]
  BY <1>1, OneReply
<1>3. Catalog!Answer(r, answer)
  BY <1>2 DEF Catalog!Answer, ReplyMap
<1> QED BY <1>3 DEF Catalog!CatalogNext, Catalog!Replies

\* A commit performs the request, or answers it if it had written nothing.
LEMMA CommitStep ==
  ASSUME IInv, NEW r \in Requests, Commit(r)
  PROVE  Catalog!CatalogNext
<1>1. /\ pc[r] \in {"commit", "owner"} /\ pc'[r] = "done" /\ call' = call
      /\ \A s \in Requests : s # r =>
           pc'[s] = pc[s] /\ outcome'[s] = outcome[s] /\ call'[s] = call[s]
      /\ applied' = [applied EXCEPT ![r] = pend[r] # None] /\ ~applied[r]
  BY DEF Commit, Goto, IInv, TypeOK, OutcomeInv
<1>2. /\ outcome'[r] \in CommitOutcomes(r)
      /\ pend[r] # None => call[r].op \in Writers
  BY DEF Commit, IInv, TypeOK, PendInv
<1>3. /\ outcome'[r] \in Refusals \cup {"rolled_back"} => pend[r] = None
      /\ outcome'[r] = "ok" /\ call[r].op \in Writers => pend[r] # None
      /\ outcome'[r] \in Refusals \cup {"ok", "error", "view_failed"}
  <2>1. CASE pc[r] = "commit"
    BY <1>2, <2>1 DEF CommitOutcomes, Refusals, IInv, PhaseInv
  <2>2. CASE pc[r] = "owner"
    BY <1>2, <2>2 DEF CommitOutcomes, Refusals, IInv, PhaseInv, OutcomeInv, PendInv
  <2> QED BY <1>1, <2>1, <2>2
<1>4. CASE pend[r] = None
  <2>1. db' = db
    BY <1>4, CommitTable
  <2>2. applied' = applied
    BY <1>1, <1>4 DEF IInv, TypeOK
  <2>3. /\ outcome'[r] \in Refusals \cup {"rolled_back", "error", "view_failed"}
             \/ (outcome'[r] = "ok" /\ call'[r].op \notin Writers)
        /\ pc[r] # "done"
    BY <1>1, <1>3, <1>4
  <2> QED BY <1>1, <2>1, <2>2, <2>3, AnswerStep
<1>5. CASE pend[r] # None
  <2> DEFINE i == call[r].id
  <2>1. i \in Ids /\ db' = [db EXCEPT ![i] = pend[r]] /\ pend[r] \in Row
    BY <1>5, CommitTable DEF IInv, TypeOK
  <2>2. PICK answer \in {"ok", "failed"} : ReplyOf(r)' = answer
    BY <1>1, <1>2, <1>3, <1>5, ReplyAtEnd
  <2>3. ReplyMap[r] = None /\ ReplyMap' = [ReplyMap EXCEPT ![r] = answer]
    BY <1>1, <2>2, OneReply
  <2>4. Catalog!Remove(i) \/ Catalog!Add(i, pend[r]) \/ Catalog!Edit(i, pend[r])
    <3>1. CASE call[r].op = "create"
      BY <1>5, <2>1, <3>1 DEF IInv, RowInv, Catalog!Add
    <3>2. CASE call[r].op = "update"
      BY <1>5, <2>1, <3>2 DEF IInv, RowInv, Catalog!Edit
    <3>3. CASE call[r].op = "delete"
      BY <1>5, <2>1, <3>3 DEF IInv, RowInv, Catalog!Remove, DeletedRow
    <3> QED BY <1>2, <1>5, <3>1, <3>2, <3>3 DEF Writers
  <2>5. applied' = [applied EXCEPT ![r] = TRUE]
    BY <1>1, <1>5
  <2> HIDE DEF i
  <2>6. Catalog!Perform(r, answer)
    BY <2>1, <2>3, <2>4, <2>5 DEF Catalog!Perform, ReplyMap
  <2> QED BY <2>6 DEF Catalog!CatalogNext, Catalog!Replies
<1> QED BY <1>4, <1>5

\* Every step of a running request is one of the catalog, or none.
LEMMA StepRefines ==
  ASSUME IInv, NEW r \in Requests, Step(r)
  PROVE  Catalog!CatalogNext \/ UNCHANGED <<db, ReplyMap, applied>>
<1>1. CASE CreateCount(r)
  BY <1>1, NoReply DEF CreateCount, Raise, Goto, IInv, TypeOK
<1>2. CASE CreateInsert(r)
  BY <1>2, NoReply DEF CreateInsert, AfterWrite, Goto, IInv, TypeOK
<1>3. CASE UpdateWrite(r) \/ DeleteWrite(r)
  BY <1>3, NoReply DEF UpdateWrite, DeleteWrite, AfterWrite, Goto, IInv, TypeOK
<1>4. CASE CheckProbe(r) \/ Fail(r)
  BY <1>4, NoReply DEF CheckProbe, Fail, Raise, Goto, IInv, TypeOK
<1>5. CASE Commit(r)
  BY <1>5, CommitStep
<1>6. CASE Close(r)
  <2>1. outcome'[r] = outcome[r] /\ call' = call /\ pc[r] = "close" /\ pc'[r] = "done"
    BY <1>6 DEF Close, Goto, IInv, TypeOK
  <2>2. outcome[r] \in Refusals \cup {"error"} \/ (outcome[r] = "ok" /\ call[r].op \notin Writers)
    BY <2>1 DEF IInv, OutcomeInv, Writers
  <2>3. \A s \in Requests : s # r =>
          pc'[s] = pc[s] /\ outcome'[s] = outcome[s] /\ call'[s] = call[s]
    BY <1>6 DEF Close, Goto, IInv, TypeOK
  <2> QED BY <1>6, <2>1, <2>2, <2>3, AnswerStep DEF Close
<1>7. CASE OwnerRollback(r)
  <2>1. call' = call /\ pc[r] = "owner" /\ pc'[r] = "done"
    BY <1>7 DEF OwnerRollback, Goto, IInv, TypeOK
  <2>2. outcome'[r] \in Refusals \cup {"error", "rolled_back"}
    BY <1>7 DEF OwnerRollback, IInv, TypeOK, OutcomeInv, Refusals
  <2>3. \A s \in Requests : s # r =>
          pc'[s] = pc[s] /\ outcome'[s] = outcome[s] /\ call'[s] = call[s]
    BY <1>7 DEF OwnerRollback, Goto, IInv, TypeOK
  <2> QED BY <1>7, <2>1, <2>2, <2>3, AnswerStep DEF OwnerRollback
<1> QED BY <1>1, <1>2, <1>3, <1>4, <1>5, <1>6, <1>7 DEF Step, Progress

\* Starting a request answers it at once only when the service refuses it before
\* it opens a session.
LEMMA StartRefines ==
  ASSUME IInv, NEW r \in Requests, NEW lim \in Limits \cup {None}, Start(r, lim)
  PROVE  Catalog!CatalogNext \/ UNCHANGED <<db, ReplyMap, applied>>
<1> DEFINE Mine == /\ pc[r] = "idle" /\ UNCHANGED <<db, applied>>
                   /\ \A s \in Requests : s # r =>
                        pc'[s] = pc[s] /\ outcome'[s] = outcome[s] /\ call'[s] = call[s]
           Ends == pc'[r] = "done" /\ outcome'[r] \in Refusals \cup {"error"}
<1>1. ASSUME NEW d, NEW key, NEW owns, CreateStart(r, d, key, owns, lim)
      PROVE  Mine /\ (Ends \/ pc'[r] # "done")
  BY <1>1 DEF CreateStart, Called, Goto, IInv, TypeOK, Refusals
<1>2. ASSUME NEW i, NEW key, NEW owns, DeleteRead(r, i, key, owns)
      PROVE  Mine /\ (Ends \/ pc'[r] # "done")
  BY <1>2 DEF DeleteRead, Called, Raise, Goto, IInv, TypeOK
<1>3. ASSUME NEW i, NEW patch, NEW key, NEW owns,
             UpdateRead(r, i, patch, key, owns)
      PROVE  Mine /\ (Ends \/ pc'[r] # "done")
  BY <1>3 DEF UpdateRead, Called, Raise, Goto, IInv, TypeOK
<1>4. ASSUME NEW i, NEW patch, NEW key, NEW owns,
             CheckRead(r, i, patch, key, owns)
      PROVE  Mine /\ (Ends \/ pc'[r] # "done")
  BY <1>4 DEF CheckRead, Called, Raise, Goto, IInv, TypeOK
<1> HIDE DEF Mine, Ends
<1>5. Mine /\ (Ends \/ pc'[r] # "done")
  BY <1>1, <1>2, <1>3, <1>4 DEF Start
<1>6. CASE Ends
  BY <1>5, <1>6, AnswerStep DEF Mine, Ends
<1>7. CASE pc'[r] # "done"
  BY <1>5, <1>7, NoReply DEF Mine
<1> QED BY <1>5, <1>6, <1>7

\* The service, with all its sessions and interleavings, implements the catalog.
THEOREM ServiceImplementsCatalog == Spec => ImplementsCatalog
<1>1. Init => Catalog!CatalogInit
  <2> SUFFICES ASSUME Init PROVE Catalog!CatalogInit
    OBVIOUS
  <2>1. db \in [Ids -> Row \cup {None}]
    BY DEF Init, StoredRow
  <2>2. \A r \in Requests : ReplyOf(r) = None
    BY DEF Init, ReplyOf
  <2> QED BY <2>1, <2>2 DEF Init, Catalog!CatalogInit
<1>2. IInv /\ [Next]_vars => [Catalog!CatalogNext]_(Catalog!catalogVars)
  <2> SUFFICES ASSUME IInv, [Next]_vars
               PROVE  Catalog!CatalogNext \/ UNCHANGED <<db, ReplyMap, applied>>
    BY DEF Catalog!catalogVars, ReplyMap
  <2>1. UNCHANGED vars => UNCHANGED <<db, ReplyMap, applied>>
    BY DEF vars, ReplyMap, ReplyOf
  <2> QED BY <2>1, StepRefines, StartRefines DEF Next, Quiet
<1> QED BY <1>1, <1>2, Invariance, PTL DEF Spec, ImplementsCatalog, Catalog!CatalogSpec
=============================================================================
