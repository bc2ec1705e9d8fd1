------------------------- MODULE LegacyManagerProofs -------------------------
(***************************************************************************)
(* TLAPS proofs about LegacyManager, for any number of workers, users,     *)
(* keys and columns and every max_connections.                             *)
(***************************************************************************)
EXTENDS LegacyManager, FiniteSetTheorems, TLAPS

-----------------------------------------------------------------------------
(* Counting.                                                               *)

\* A count is a natural number.
LEMMA CountType ==
  ASSUME NEW user, NEW rows
  PROVE  IsFiniteSet(OwnIds(user, rows)) /\ Count(user, rows) \in Nat
<1>1. OwnIds(user, rows) \subseteq Ids
  BY DEF OwnIds
<1>2. IsFiniteSet(OwnIds(user, rows))
  BY <1>1, LegacyAssumption, FS_Subset
<1> QED BY <1>2, FS_CardinalityType DEF Count

\* One row more or less changes a count by one at most.
LEMMA CountStep ==
  ASSUME NEW user, NEW rows, NEW id \in Ids, NEW row, DOMAIN rows = Ids
  PROVE  Count(user, [rows EXCEPT ![id] = row]) <= Count(user, rows) + 1
<1> DEFINE next == [rows EXCEPT ![id] = row]
<1>1. OwnIds(user, next) \subseteq OwnIds(user, rows) \cup {id}
  BY DEF OwnIds
<1>2. IsFiniteSet(OwnIds(user, rows) \cup {id})
  BY CountType, FS_AddElement
<1>3. Cardinality(OwnIds(user, next)) <= Cardinality(OwnIds(user, rows) \cup {id})
  BY <1>1, <1>2, FS_Subset
<1>4. Cardinality(OwnIds(user, rows) \cup {id})
        = IF id \in OwnIds(user, rows) THEN Count(user, rows) ELSE Count(user, rows) + 1
  BY CountType, FS_AddElement DEF Count
<1>5. /\ Count(user, next) \in Nat
      /\ Cardinality(OwnIds(user, rows) \cup {id}) \in Nat
      /\ Count(user, rows) \in Nat
  BY <1>2, CountType, FS_CardinalityType
<1>6. Count(user, next) = Cardinality(OwnIds(user, next))
  BY DEF Count
<1> QED BY <1>3, <1>4, <1>5, <1>6

-----------------------------------------------------------------------------
(* The rows a handler saves.                                               *)

\* A payload applied to a row is a row.
LEMMA AppliedType ==
  ASSUME NEW row \in Row, NEW user \in Users, NEW op, NEW p \in Payloads
  PROVE  Applied(row, user, op, p) \in Row
<1>1. PICK F \in SUBSET Fields : p.config \in [F -> Values]
  BY DEF Payloads
<1>2. p.is_deleted = None \/ p.is_deleted \in BOOLEAN
  BY DEF Payloads
<1>3. row.owner \in Users /\ row.is_deleted \in BOOLEAN /\ row.config \in [Fields -> Values]
  BY DEF Row
<1>4. [f \in Fields |-> IF f \in DOMAIN p.config THEN p.config[f] ELSE row.config[f]] \in [Fields -> Values]
  BY <1>1, <1>3
<1> QED BY <1>2, <1>3, <1>4, Zenon DEF Applied, Row

\* So is what an UPDATE makes of one.
LEMMA WrittenType ==
  ASSUME NEW now \in Row, NEW old \in Row, NEW new \in Row, NEW forced
  PROVE  Written(now, old, new, forced) \in Row
BY DEF Written, Row

\* So is a row that is inserted.
LEMMA InsertedType ==
  ASSUME NEW user \in Users, NEW p \in Payloads, DOMAIN p.config = Fields
  PROVE  InsertedRow(user, p) \in Row
<1>1. PICK F \in SUBSET Fields : p.config \in [F -> Values]
  BY DEF Payloads
<1>2. p.config \in [Fields -> Values]
  BY <1>1
<1> QED BY <1>2 DEF InsertedRow, Row

-----------------------------------------------------------------------------
(* The inductive invariant, one lemma per kind of step.                    *)

\* It holds before the first request.
LEMMA LegacyInitInv == LegacyInit => LegacyInv
BY DEF LegacyInit, LegacyInv, LegacyTypeOK, HandlerInv, LoadedInv, RoomInv

\* A handler that answers without saving leaves the table to the others.
LEMMA ReplyInv ==
  ASSUME LegacyInv, NEW w \in Workers, NEW what \in Answers, Reply(w, what),
         active' \in [Workers -> Nat], UNCHANGED table
  PROVE  LegacyInv'
<1>1. LegacyTypeOK'
  BY DEF LegacyInv, LegacyTypeOK, Reply, Goto
<1>2. ASSUME NEW s \in Workers PROVE HandlerInv(s)' /\ LoadedInv(s)' /\ RoomInv(s)'
  <2>1. CASE s = w
    BY <2>1 DEF LegacyInv, LegacyTypeOK, Reply, Goto, HandlerInv, LoadedInv, RoomInv
  <2>2. CASE s # w
    <3>1. /\ pc'[s] = pc[s] /\ call'[s] = call[s] /\ seen'[s] = seen[s]
          /\ overtaken'[s] = overtaken[s]
      BY <2>2 DEF LegacyInv, LegacyTypeOK, Reply, Goto
    <3>2. HandlerInv(s) /\ LoadedInv(s) /\ RoomInv(s)
      BY DEF LegacyInv
    <3> QED BY <3>1, <3>2 DEF HandlerInv, LoadedInv, RoomInv, Count, OwnIds
  <2> QED BY <2>1, <2>2
<1> QED BY <1>1, <1>2 DEF LegacyInv

\* So does a worker that is restarted.
LEMMA RestartInv ==
  ASSUME LegacyInv, NEW w \in Workers, Restart(w)
  PROVE  LegacyInv'
<1>1. LegacyTypeOK'
  BY DEF LegacyInv, LegacyTypeOK, Restart, Goto
<1>2. ASSUME NEW s \in Workers PROVE HandlerInv(s)' /\ LoadedInv(s)' /\ RoomInv(s)'
  <2>1. CASE s = w
    BY <2>1 DEF LegacyInv, LegacyTypeOK, Restart, Goto, HandlerInv, LoadedInv, RoomInv
  <2>2. CASE s # w
    <3>1. /\ pc'[s] = pc[s] /\ call'[s] = call[s] /\ seen'[s] = seen[s]
          /\ overtaken'[s] = overtaken[s] /\ table' = table
      BY <2>2 DEF LegacyInv, LegacyTypeOK, Restart, Goto
    <3>2. HandlerInv(s) /\ LoadedInv(s) /\ RoomInv(s)
      BY DEF LegacyInv
    <3> QED BY <3>1, <3>2 DEF HandlerInv, LoadedInv, RoomInv, Count, OwnIds
  <2> QED BY <2>1, <2>2
<1> QED BY <1>1, <1>2 DEF LegacyInv

\* A handler that is let in has, if it counted itself, room for one more row.
LEMMA ValidateInv ==
  ASSUME LegacyInv, NEW w \in Workers, NEW op \in {"create", "update", "upsert"},
         NEW user \in Users, NEW id \in Ids \cup {None}, NEW p \in Payloads,
         op # "create" => id \in Ids, op # "update" => DOMAIN p.config = Fields,
         Validate(w, op, user, id, p)
  PROVE  LegacyInv'
<1> DEFINE count == ActiveConnections(w, user)
<1>1. count \in Nat /\ active' = [active EXCEPT ![w] = count] /\ pc[w] = "idle" /\ table' = table
  BY CountType DEF LegacyInv, LegacyTypeOK, ActiveConnections, Validate
<1>2. active' \in [Workers -> Nat]
  BY <1>1 DEF LegacyInv, LegacyTypeOK
<1>3. CASE ~Admits(count)
  <2>1. Reply(w, "refused")
    BY <1>3 DEF Validate
  <2> QED BY <1>1, <1>2, <2>1, ReplyInv DEF Answers
<1>4. CASE Admits(count)
  <2> DEFINE c == [op |-> op, user |-> user, id |-> id, payload |-> p]
             label == IF op = "create" THEN "save" ELSE "load"
  <2>1. /\ pc' = [pc EXCEPT ![w] = label]
        /\ call' = [call EXCEPT ![w] = c]
        /\ answer' = [answer EXCEPT ![w] = None]
        /\ overtaken' = [overtaken EXCEPT ![w] = IF active[w] = 0 THEN 0 ELSE None]
        /\ seen' = seen
    BY <1>4 DEF Validate, Accept, Goto
  <2>2. c \in Calls
    BY DEF Calls
  <2>3. LegacyTypeOK'
    BY <1>1, <1>2, <2>1, <2>2 DEF LegacyInv, LegacyTypeOK
  <2>4. ASSUME NEW s \in Workers PROVE HandlerInv(s)' /\ LoadedInv(s)' /\ RoomInv(s)'
    <3>1. CASE s = w
      <4>1. /\ pc'[w] = label /\ call'[w] = c /\ seen'[w] = None /\ c # None
            /\ overtaken'[w] = IF active[w] = 0 THEN 0 ELSE None
        BY <1>1, <2>1, <2>2, LegacySentinels DEF LegacyInv, LegacyTypeOK, HandlerInv
      <4>2. HandlerInv(w)' /\ LoadedInv(w)'
        BY <4>1 DEF HandlerInv, LoadedInv
      <4>3. overtaken'[w] # None /\ Max # None => Count(user, table) < Max + 0
        <5> SUFFICES ASSUME overtaken'[w] # None, Max # None
                     PROVE  Count(user, table) < Max + 0
          OBVIOUS
        <5>1. active[w] = 0
          BY <4>1
        <5>2. count = Count(user, table)
          BY <5>1 DEF ActiveConnections
        <5> QED BY <1>1, <1>4, <5>2, LegacyAssumption DEF Admits
      <4>4. RoomInv(w)'
        BY <1>1, <4>1, <4>3, LegacyAssumption DEF RoomInv
      <4> QED BY <3>1, <4>2, <4>4
    <3>2. CASE s # w
      <4>1. /\ pc'[s] = pc[s] /\ call'[s] = call[s] /\ seen'[s] = seen[s]
            /\ overtaken'[s] = overtaken[s]
        BY <3>2, <2>1 DEF LegacyInv, LegacyTypeOK
      <4>2. HandlerInv(s) /\ LoadedInv(s) /\ RoomInv(s)
        BY DEF LegacyInv
      <4> QED BY <1>1, <4>1, <4>2 DEF HandlerInv, LoadedInv, RoomInv
    <3> QED BY <3>1, <3>2
  <2> QED BY <2>3, <2>4 DEF LegacyInv
<1> QED BY <1>3, <1>4

\* delete begins without counting.
LEMMA StartDeleteInv ==
  ASSUME LegacyInv, NEW w \in Workers, NEW user \in Users, NEW id \in Ids,
         StartDelete(w, user, id)
  PROVE  LegacyInv'
<1> DEFINE c == [op |-> "delete", user |-> user, id |-> id, payload |-> None]
<1>1. /\ pc[w] = "idle"
      /\ pc' = [pc EXCEPT ![w] = "load"]
      /\ call' = [call EXCEPT ![w] = c]
      /\ answer' = [answer EXCEPT ![w] = None]
      /\ UNCHANGED <<table, active, seen, overtaken>>
  BY DEF StartDelete, Accept, Goto
<1>2. c \in Calls /\ c # None
  BY LegacySentinels DEF Calls
<1>3. LegacyTypeOK'
  BY <1>1, <1>2 DEF LegacyInv, LegacyTypeOK
<1>4. ASSUME NEW s \in Workers PROVE HandlerInv(s)' /\ LoadedInv(s)' /\ RoomInv(s)'
  <2>1. CASE s = w
    BY <1>1, <1>2, <2>1 DEF LegacyInv, LegacyTypeOK, HandlerInv, LoadedInv, RoomInv
  <2>2. CASE s # w
    <3>1. pc'[s] = pc[s] /\ call'[s] = call[s]
      BY <2>2, <1>1 DEF LegacyInv, LegacyTypeOK
    <3>2. HandlerInv(s) /\ LoadedInv(s) /\ RoomInv(s)
      BY DEF LegacyInv
    <3> QED BY <1>1, <3>1, <3>2 DEF HandlerInv, LoadedInv, RoomInv
  <2> QED BY <2>1, <2>2
<1> QED BY <1>3, <1>4 DEF LegacyInv

\* A row that is loaded is live and in the table.
LEMMA LoadInv ==
  ASSUME LegacyInv, NEW w \in Workers, Load(w)
  PROVE  LegacyInv'
<1> DEFINE c == call[w]
           row == table[c.id]
           found == IsLive(row) /\ (c.op = "upsert" \/ Sees(c.user, row))
<1>1. /\ pc[w] = "load" /\ c \in Calls /\ c.id \in Ids /\ c.op # "create"
      /\ UNCHANGED <<table, active>>
  BY DEF LegacyInv, LegacyTypeOK, HandlerInv, Load
<1>2. CASE ~(found \/ c.op = "upsert")
  <2>1. Reply(w, "not_found")
    BY <1>2 DEF Load
  <2> QED BY <1>1, <2>1, ReplyInv DEF Answers, LegacyInv, LegacyTypeOK
<1>3. CASE found \/ c.op = "upsert"
  <2>1. /\ seen' = [seen EXCEPT ![w] = IF found THEN row ELSE None]
        /\ pc' = [pc EXCEPT ![w] = "save"]
        /\ UNCHANGED <<call, answer, overtaken>>
    BY <1>3 DEF Load, Goto
  <2>2. row \in Row \cup {None} /\ (found => row # None /\ ~row.is_deleted)
    BY <1>1 DEF LegacyInv, LegacyTypeOK, IsLive
  <2>3. LegacyTypeOK'
    BY <1>1, <2>1, <2>2 DEF LegacyInv, LegacyTypeOK
  <2>4. ASSUME NEW s \in Workers PROVE HandlerInv(s)' /\ LoadedInv(s)' /\ RoomInv(s)'
    <3>1. HandlerInv(s) /\ LoadedInv(s) /\ RoomInv(s)
      BY DEF LegacyInv
    <3>2. CASE s = w
      <4>1. pc'[w] = "save" /\ seen'[w] = IF found THEN row ELSE None
        BY <2>1 DEF LegacyInv, LegacyTypeOK
      <4>2. HandlerInv(w)'
        BY <1>1, <2>1, <3>1, <3>2, <4>1 DEF HandlerInv
      <4>3. LoadedInv(w)'
        BY <1>1, <2>1, <2>2, <4>1 DEF LoadedInv
      <4>4. RoomInv(w)'
        BY <1>1, <2>1, <3>1, <3>2, <4>1 DEF RoomInv
      <4> QED BY <3>2, <4>2, <4>3, <4>4
    <3>3. CASE s # w
      <4>1. pc'[s] = pc[s] /\ seen'[s] = seen[s]
        BY <3>3, <2>1 DEF LegacyInv, LegacyTypeOK
      <4> QED BY <1>1, <2>1, <3>1, <4>1 DEF HandlerInv, LoadedInv, RoomInv
    <3> QED BY <3>2, <3>3
  <2> QED BY <2>3, <2>4 DEF LegacyInv
<1> QED BY <1>2, <1>3

\* A row that is saved takes at most one place of each user's, and whoever loses
\* one to it is overtaken.
LEMMA StoreInv ==
  ASSUME LegacyInv, NEW w \in Workers, NEW id \in Ids, NEW row \in Row,
         Store(w, id, row), UNCHANGED active
  PROVE  LegacyInv'
<1> DEFINE next == [table EXCEPT ![id] = row]
<1>1. /\ table' = next
      /\ pc' = [pc EXCEPT ![w] = "idle"]
      /\ call' = [call EXCEPT ![w] = None]
      /\ seen' = [seen EXCEPT ![w] = None]
      /\ overtaken' = [s \in Workers |->
                         IF s = w THEN None
                         ELSE IF overtaken[s] # None /\ Gained(s, next)
                         THEN overtaken[s] + 1 ELSE overtaken[s]]
      /\ answer' \in [Workers -> Answers \cup {None}]
  BY DEF Store, Goto, LegacyInv, LegacyTypeOK, Answers
<1>2. overtaken' \in [Workers -> Nat \cup {None}]
  BY <1>1 DEF LegacyInv, LegacyTypeOK
<1>3. LegacyTypeOK'
  BY <1>1, <1>2 DEF LegacyInv, LegacyTypeOK
<1>4. \A i \in Ids : table[i] # None => table'[i] # None
  BY <1>1, LegacySentinels DEF LegacyInv, LegacyTypeOK
<1>5. ASSUME NEW s \in Workers PROVE HandlerInv(s)' /\ LoadedInv(s)' /\ RoomInv(s)'
  <2>1. HandlerInv(s) /\ LoadedInv(s) /\ RoomInv(s)
    BY DEF LegacyInv
  <2>2. CASE s = w
    BY <1>1, <2>2 DEF LegacyInv, LegacyTypeOK, HandlerInv, LoadedInv, RoomInv
  <2>3. CASE s # w
    <3>1. pc'[s] = pc[s] /\ call'[s] = call[s] /\ seen'[s] = seen[s]
      BY <1>1, <2>3 DEF LegacyInv, LegacyTypeOK
    <3>2. HandlerInv(s)' /\ LoadedInv(s)'
      <4>1. HandlerInv(s)'
        <5>1. HandlerInv(s)
          BY <2>1
        <5>2. overtaken[s] = None => overtaken'[s] = None
          BY <1>1, <2>3
        <5> QED BY <3>1, <5>1, <5>2 DEF HandlerInv
      <4>2. LoadedInv(s)'
        <5> SUFFICES ASSUME seen'[s] # None PROVE LoadedInv(s)'
          BY DEF LoadedInv
        <5>1. LoadedInv(s) /\ seen[s] # None
          BY <2>1, <3>1
        <5>2. call[s].id \in Ids /\ table[call[s].id] # None
          BY <5>1 DEF LoadedInv
        <5>3. table'[call[s].id] # None
          BY <1>4, <5>2
        <5> QED BY <3>1, <5>1, <5>2, <5>3 DEF LoadedInv
      <4> QED BY <4>1, <4>2
    <3>3. RoomInv(s)'
      <4> DEFINE user == call[s].user
      <4> SUFFICES ASSUME Max # None, overtaken'[s] # None
                   PROVE  pc[s] # "idle" /\ Count(user, next) < Max + overtaken'[s]
        BY <1>1, <3>1 DEF RoomInv, Count, OwnIds
      <4>1. overtaken[s] \in Nat /\ overtaken[s] # None
        BY <1>1, <2>3 DEF LegacyInv, LegacyTypeOK
      <4>2. pc[s] # "idle" /\ Count(user, table) < Max + overtaken[s]
        BY <2>1, <4>1 DEF RoomInv
      <4>3. call[s] # None
        BY <2>1, <4>2 DEF HandlerInv
      <4>4. Count(user, next) \in Nat /\ Count(user, table) \in Nat /\ Max \in Nat
        BY CountType, LegacyAssumption
      <4>5. CASE Count(user, next) > Count(user, table)
        <5>1. overtaken'[s] = overtaken[s] + 1
          BY <1>1, <2>3, <4>1, <4>3, <4>5 DEF Gained
        <5>2. Count(user, next) <= Count(user, table) + 1
          BY CountStep DEF LegacyInv, LegacyTypeOK
        <5> QED BY <4>1, <4>2, <4>4, <5>1, <5>2
      <4>6. CASE ~(Count(user, next) > Count(user, table))
        <5>1. overtaken'[s] = overtaken[s]
          BY <1>1, <2>3, <4>6 DEF Gained
        <5> QED BY <4>1, <4>2, <4>4, <4>6, <5>1
      <4> QED BY <4>5, <4>6
    <3> QED BY <3>2, <3>3
  <2> QED BY <2>2, <2>3
<1> QED BY <1>3, <1>5 DEF LegacyInv

\* A new row goes to a free key.
LEMMA SaveNewStores ==
  ASSUME LegacyInv, NEW w \in Workers, SaveNew(w)
  PROVE  \/ \E id \in Ids : /\ table[id] = None
                            /\ InsertedRow(call[w].user, call[w].payload) \in Row
                            /\ Store(w, id, InsertedRow(call[w].user, call[w].payload))
         \/ Reply(w, "error") /\ UNCHANGED table
<1>1. /\ call[w] \in Calls /\ call[w].payload \in Payloads
      /\ DOMAIN call[w].payload.config = Fields
      /\ call[w].op \in {"create", "upsert"}
  BY DEF LegacyInv, LegacyTypeOK, HandlerInv, SaveNew
<1>2. InsertedRow(call[w].user, call[w].payload) \in Row
  BY <1>1, InsertedType DEF Calls
<1>3. PICK id \in IF call[w].op = "create" THEN Ids ELSE {call[w].id} :
        IF table[id] = None
        THEN Store(w, id, InsertedRow(call[w].user, call[w].payload))
        ELSE call[w].op = "upsert" /\ Reply(w, "error") /\ UNCHANGED table
  BY DEF SaveNew
<1>4. CASE table[id] # None
  BY <1>3, <1>4
<1>5. CASE table[id] = None
  <2>1. Store(w, id, InsertedRow(call[w].user, call[w].payload))
    BY <1>3, <1>5
  <2>2. id \in Ids
    BY <1>1, <1>3 DEF LegacyInv, HandlerInv, SaveNew
  <2> QED BY <1>2, <1>5, <2>1, <2>2
<1> QED BY <1>4, <1>5

\* The handler of w saves what it makes of the row it loaded.
LEMMA SaveLoadedStores ==
  ASSUME LegacyInv, NEW w \in Workers, SaveLoaded(w)
  PROVE  \E new \in Row, forced \in SUBSET Fields :
           /\ call[w].id \in Ids /\ call[w].op # "create"
           /\ table[call[w].id] \in Row /\ seen[w] \in Row /\ ~seen[w].is_deleted
           /\ new = IF call[w].op = "delete" THEN [seen[w] EXCEPT !.is_deleted = TRUE]
                    ELSE Applied(seen[w], call[w].user, call[w].op, call[w].payload)
           /\ call[w].op = "delete" => forced = {}
           /\ call[w].op # "delete" => forced \subseteq DOMAIN call[w].payload.config
           /\ Written(table[call[w].id], seen[w], new, forced) \in Row
           /\ Store(w, call[w].id, Written(table[call[w].id], seen[w], new, forced))
<1> DEFINE c == call[w]
           new == IF c.op = "delete" THEN [seen[w] EXCEPT !.is_deleted = TRUE]
                  ELSE Applied(seen[w], c.user, c.op, c.payload)
<1>1. /\ seen[w] \in Row /\ ~seen[w].is_deleted
      /\ c \in Calls /\ c.id \in Ids /\ c.op # "create"
      /\ table[c.id] \in Row
  <2>1. LoadedInv(w) /\ seen[w] # None /\ HandlerInv(w) /\ pc[w] = "save"
    BY DEF LegacyInv, SaveLoaded
  <2>2. ~seen[w].is_deleted /\ c.id \in Ids /\ c.op # "create" /\ table[c.id] # None
    BY <2>1 DEF LoadedInv
  <2>3. c # None
    BY <2>1 DEF HandlerInv
  <2> QED BY <2>1, <2>2, <2>3 DEF LegacyInv, LegacyTypeOK
<1>2. PICK forced \in SUBSET (IF c.op = "delete" THEN {} ELSE DOMAIN c.payload.config) :
        Store(w, c.id, Written(table[c.id], seen[w], new, forced))
  BY DEF SaveLoaded
<1>3. c.op # "delete" => c.payload \in Payloads
  BY DEF LegacyInv, HandlerInv, SaveLoaded
<1>4. new \in Row
  <2>1. CASE c.op = "delete"
    BY <1>1, <2>1 DEF Row
  <2>2. CASE c.op # "delete"
    BY <1>1, <1>3, <2>2, AppliedType DEF Calls
  <2> QED BY <2>1, <2>2
<1>5. forced \subseteq Fields
  <2>1. CASE c.op = "delete"
    BY <1>2, <2>1
  <2>2. CASE c.op # "delete"
    BY <1>2, <1>3, <2>2 DEF Payloads
  <2> QED BY <2>1, <2>2
<1>6. Written(table[c.id], seen[w], new, forced) \in Row
  BY <1>1, <1>4, WrittenType
<1> QED BY <1>1, <1>2, <1>4, <1>5, <1>6

\* Every step keeps the invariant.
LEMMA NextInv == LegacyInv /\ [LegacyNext]_legacyVars => LegacyInv'
<1> SUFFICES ASSUME LegacyInv, [LegacyNext]_legacyVars PROVE LegacyInv'
  OBVIOUS
<1>1. CASE UNCHANGED legacyVars
  BY <1>1 DEF legacyVars, LegacyInv, LegacyTypeOK, HandlerInv, LoadedInv, RoomInv, Count, OwnIds
<1>2. CASE LegacyNext
  <2>1. PICK w \in Workers :
          Start(w) \/ Load(w) \/ SaveNew(w) \/ SaveLoaded(w) \/ Fail(w) \/ Restart(w)
    BY <1>2 DEF LegacyNext
  <2>2. CASE Start(w)
    <3>1. PICK user \in Users :
            \/ \E p \in Whole : Validate(w, "create", user, None, p)
            \/ \E p \in Payloads, id \in Ids :
                 \/ Validate(w, "update", user, id, p)
                 \/ p \in Whole /\ Validate(w, "upsert", user, id, p)
            \/ \E id \in Ids : StartDelete(w, user, id)
      BY <2>2 DEF Start
    <3>2. CASE \E p \in Whole : Validate(w, "create", user, None, p)
      BY <3>2, ValidateInv DEF Whole
    <3>3. CASE \E p \in Payloads, id \in Ids :
                 \/ Validate(w, "update", user, id, p)
                 \/ p \in Whole /\ Validate(w, "upsert", user, id, p)
      BY <3>3, ValidateInv DEF Whole
    <3>4. CASE \E id \in Ids : StartDelete(w, user, id)
      BY <3>4, StartDeleteInv
    <3> QED BY <3>1, <3>2, <3>3, <3>4
  <2>3. CASE Load(w)
    BY <2>3, LoadInv
  <2>4. CASE SaveNew(w)
    <3>1. UNCHANGED active /\ active' \in [Workers -> Nat]
      BY <2>4 DEF SaveNew, LegacyInv, LegacyTypeOK
    <3> QED BY <2>4, <3>1, SaveNewStores, StoreInv, ReplyInv DEF Answers
  <2>5. CASE SaveLoaded(w)
    <3>1. UNCHANGED active /\ call[w].id \in Ids
      BY <2>5, SaveLoadedStores DEF SaveLoaded
    <3> QED BY <2>5, <3>1, SaveLoadedStores, StoreInv
  <2>6. CASE Fail(w)
    BY <2>6, ReplyInv DEF Fail, Answers, LegacyInv, LegacyTypeOK
  <2>7. CASE Restart(w)
    BY <2>7, RestartInv
  <2> QED BY <2>1, <2>2, <2>3, <2>4, <2>5, <2>6, <2>7
<1> QED BY <1>1, <1>2

-----------------------------------------------------------------------------
(* What the routes promise.                                                *)

\* In every reachable state each handler is where its call can be, a row it has
\* loaded is in the table, and an admission on a fresh count has room left.
THEOREM LegacyInvariance == LegacySpec => []LegacyInv
BY LegacyInitInv, NextInv, PTL DEF LegacySpec

\* What becomes of a row of the table in one step.
LEMMA RowStep ==
  ASSUME LegacyInv, LegacyNext, NEW i \in Ids, table[i] # None
  PROVE  table'[i] # None /\ (table[i].is_deleted => table'[i].is_deleted)
<1>1. PICK w \in Workers :
        Start(w) \/ Load(w) \/ SaveNew(w) \/ SaveLoaded(w) \/ Fail(w) \/ Restart(w)
  BY DEF LegacyNext
<1>2. CASE UNCHANGED table
  BY <1>2
<1>3. CASE SaveNew(w)
  <2>1. CASE UNCHANGED table
    BY <2>1
  <2>2. CASE \E id \in Ids : /\ table[id] = None
                            /\ Store(w, id, InsertedRow(call[w].user, call[w].payload))
    BY <2>2 DEF Store, LegacyInv, LegacyTypeOK
  <2> QED BY <1>3, <2>1, <2>2, SaveNewStores
<1>4. CASE SaveLoaded(w)
  <2>1. PICK new \in Row, forced \in SUBSET Fields :
          /\ call[w].id \in Ids /\ seen[w] \in Row /\ ~seen[w].is_deleted
          /\ Written(table[call[w].id], seen[w], new, forced) \in Row
          /\ Store(w, call[w].id, Written(table[call[w].id], seen[w], new, forced))
    BY <1>4, SaveLoadedStores
  <2>2. CASE i # call[w].id
    BY <2>1, <2>2 DEF Store, LegacyInv, LegacyTypeOK
  <2>3. CASE i = call[w].id
    <3>1. table'[i] = Written(table[i], seen[w], new, forced)
      BY <2>1, <2>3 DEF Store, LegacyInv, LegacyTypeOK
    <3>2. table'[i] # None
      BY <2>1, <2>3, <3>1, LegacySentinels
    <3>3. table[i].is_deleted => table'[i].is_deleted
      <4>1. new.is_deleted \in BOOLEAN /\ seen[w].is_deleted = FALSE
        BY <2>1 DEF Row
      <4>2. table'[i].is_deleted =
              IF new.is_deleted # seen[w].is_deleted THEN new.is_deleted ELSE table[i].is_deleted
        BY <3>1 DEF Written
      <4> QED BY <4>1, <4>2
    <3> QED BY <3>2, <3>3
  <2> QED BY <2>2, <2>3
<1> QED BY <1>1, <1>2, <1>3, <1>4 DEF Start, Validate, StartDelete, Load, Fail, Restart

\* A deleted connection stays deleted and no row leaves the table.
THEOREM LegacyDeletedForeverHolds == LegacySpec => LegacyDeletedForever
<1>1. LegacyInv /\ [LegacyNext]_legacyVars =>
        [\A id \in Ids : table[id] # None =>
           /\ table'[id] # None
           /\ table[id].is_deleted => table'[id].is_deleted]_table
  BY RowStep DEF legacyVars
<1> QED BY <1>1, LegacyInvariance, PTL DEF LegacySpec, LegacyDeletedForever

\* Only the handler of w itself commits for w.
LEMMA SavesStep ==
  ASSUME LegacyInv, LegacyNext, NEW w \in Workers, Saves(w)
  PROVE  \/ SaveLoaded(w)
         \/ SaveNew(w) /\ \E id \in Ids, row \in Row : Store(w, id, row)
<1>1. PICK v \in Workers :
        Start(v) \/ Load(v) \/ SaveNew(v) \/ SaveLoaded(v) \/ Fail(v) \/ Restart(v)
  BY DEF LegacyNext
<1>2. pc[w] = "save" /\ pc'[w] = "idle" /\ (answer'[w] = "ok" \/ table' # table)
  BY DEF Saves
<1>3. \/ SaveLoaded(v) \/ SaveNew(v)
      \/ Start(v) /\ pc[v] = "idle" /\ table' = table
      \/ Load(v) /\ pc[v] = "load" /\ table' = table
      \/ Fail(v) /\ Reply(v, "error") /\ table' = table
      \/ Restart(v) /\ table' = table
  BY <1>1 DEF Start, Validate, StartDelete, Load, Fail, Restart
<1>4. v = w
  <2> SUFFICES ASSUME v # w PROVE pc'[w] = pc[w]
    BY <1>2
  <2>1. pc' = [pc EXCEPT ![v] = pc'[v]]
    BY <1>1 DEF LegacyInv, LegacyTypeOK, Start, Validate, Accept, StartDelete, Load, SaveNew,
                SaveLoaded, Store, Fail, Restart, Reply, Goto
  <2> QED BY <2>1 DEF LegacyInv, LegacyTypeOK
<1>5. CASE SaveLoaded(w)
  BY <1>5
<1>6. CASE SaveNew(w)
  <2>1. CASE Reply(w, "error") /\ UNCHANGED table
    BY <1>2, <2>1 DEF Reply, LegacyInv, LegacyTypeOK
  <2> QED BY <1>6, <2>1, SaveNewStores
<1>7. CASE Fail(w) /\ Reply(w, "error") /\ table' = table
  BY <1>2, <1>7 DEF Reply, LegacyInv, LegacyTypeOK
<1>8. CASE Restart(w) /\ table' = table
  <2>1. answer'[w] = None
    BY <1>8 DEF Restart, LegacyInv, LegacyTypeOK
  <2>2. "ok" # None
    BY LegacySentinels DEF Answers
  <2> QED BY <1>2, <1>8, <2>1, <2>2
<1> QED BY <1>2, <1>3, <1>4, <1>5, <1>6, <1>7, <1>8

\* What a save of a loaded row does to the row.
LEMMA SaveStep ==
  ASSUME LegacyInv, NEW w \in Workers, SaveLoaded(w)
  PROVE  LET c == call[w]
             old == table[c.id]
             new == table'[c.id]
         IN  /\ c.op # "upsert" => new.owner = old.owner
             /\ c.op = "delete" => new.is_deleted /\ new.config = old.config
             /\ c.op # "delete" =>
                  /\ c.payload.is_deleted = None => new.is_deleted = old.is_deleted
                  /\ \A f \in Fields :
                       IF f \notin DOMAIN c.payload.config THEN new.config[f] = old.config[f]
                       ELSE c.payload.config[f] # seen[w].config[f]
                              => new.config[f] = c.payload.config[f]
<1> DEFINE c == call[w]
           old == table[c.id]
           new == table'[c.id]
           was == seen[w]
<1>1. PICK to \in Row, forced \in SUBSET Fields :
        /\ c.id \in Ids
        /\ old \in Row /\ was \in Row /\ ~was.is_deleted
        /\ to = IF c.op = "delete" THEN [was EXCEPT !.is_deleted = TRUE]
                ELSE Applied(was, c.user, c.op, c.payload)
        /\ c.op = "delete" => forced = {}
        /\ c.op # "delete" => forced \subseteq DOMAIN c.payload.config
        /\ Store(w, c.id, Written(old, was, to, forced))
  BY SaveLoadedStores
<1>2. /\ old.config \in [Fields -> Values] /\ was.config \in [Fields -> Values]
      /\ to.config \in [Fields -> Values]
      /\ old.is_deleted \in BOOLEAN /\ was.is_deleted = FALSE
  BY <1>1 DEF Row
<1>3. new = Written(old, was, to, forced)
  BY <1>1 DEF Store, LegacyInv, LegacyTypeOK
<1>4. /\ new.owner = IF to.owner # was.owner THEN to.owner ELSE old.owner
      /\ new.is_deleted = IF to.is_deleted # was.is_deleted THEN to.is_deleted ELSE old.is_deleted
      /\ new.config = [f \in Fields |-> IF to.config[f] # was.config[f] \/ f \in forced
                                       THEN to.config[f] ELSE old.config[f]]
  BY <1>3 DEF Written
<1>5. CASE c.op = "delete"
  <2>1. to.owner = was.owner /\ to.is_deleted = TRUE /\ to.config = was.config /\ forced = {}
    BY <1>1, <1>5 DEF Row
  <2>2. new.owner = old.owner /\ new.is_deleted = TRUE
    BY <1>2, <1>4, <2>1
  <2>3. new.config = [f \in Fields |-> old.config[f]]
    BY <1>4, <2>1
  <2>4. new.config = old.config
    BY <1>2, <2>3
  <2> QED BY <1>5, <2>2, <2>4
<1>6. CASE c.op # "delete"
  <2> DEFINE p == c.payload
  <2>1. to = Applied(was, c.user, c.op, p) /\ forced \subseteq DOMAIN p.config
    BY <1>1, <1>6
  <2>2. /\ to.owner = IF c.op = "upsert" THEN c.user ELSE was.owner
        /\ to.is_deleted = IF p.is_deleted = None THEN was.is_deleted ELSE p.is_deleted
        /\ to.config = [f \in Fields |-> IF f \in DOMAIN p.config THEN p.config[f] ELSE was.config[f]]
    BY <2>1 DEF Applied
  <2>3. c.op # "upsert" => new.owner = old.owner
    BY <1>4, <2>2
  <2>4. p.is_deleted = None => new.is_deleted = old.is_deleted
    BY <1>4, <2>2
  <2>5. ASSUME NEW f \in Fields
        PROVE  IF f \notin DOMAIN p.config THEN new.config[f] = old.config[f]
               ELSE p.config[f] # was.config[f] => new.config[f] = p.config[f]
    <3>1. new.config[f] = IF to.config[f] # was.config[f] \/ f \in forced
                          THEN to.config[f] ELSE old.config[f]
      BY <1>4
    <3>2. to.config[f] = IF f \in DOMAIN p.config THEN p.config[f] ELSE was.config[f]
      BY <2>2
    <3> QED BY <2>1, <3>1, <3>2
  <2> QED BY <1>6, <2>3, <2>4, <2>5
<1> QED BY <1>5, <1>6

\* Whatever others committed since a row was loaded, saving it changes none of
\* the columns its request leaves out, and writes those the request changes.
THEOREM SaveIsExactHolds == LegacySpec => SaveIsExact
<1> DEFINE Exact(w) ==
      LET c == call[w]
          old == table[c.id]
          new == table'[c.id]
      IN  /\ c.op # "upsert" => new.owner = old.owner
          /\ c.op = "delete" => new.is_deleted /\ new.config = old.config
          /\ c.op # "delete" =>
               /\ c.payload.is_deleted = None => new.is_deleted = old.is_deleted
               /\ \A f \in Fields :
                    IF f \notin DOMAIN c.payload.config THEN new.config[f] = old.config[f]
                    ELSE c.payload.config[f] # seen[w].config[f]
                           => new.config[f] = c.payload.config[f]
<1>1. LegacyInv /\ [LegacyNext]_legacyVars =>
        [\A w \in Workers : Saves(w) /\ seen[w] # None => Exact(w)]_legacyVars
  <2> SUFFICES ASSUME LegacyInv, LegacyNext, NEW w \in Workers, Saves(w), seen[w] # None
               PROVE  Exact(w)
    OBVIOUS
  <2>1. SaveLoaded(w)
    BY SavesStep DEF SaveNew
  <2> QED BY <2>1, SaveStep
<1> QED BY <1>1, LegacyInvariance, PTL DEF LegacySpec, SaveIsExact

\* A create or upsert admitted on a count of its own takes its user above
\* max_connections by no more than the rows the user got since that count.
THEOREM FreshAdmissionBoundedHolds == LegacySpec => FreshAdmissionBounded
<1>1. ASSUME LegacyInv, LegacyNext, NEW w \in Workers, Saves(w), Max # None,
             overtaken[w] # None, Gained(w, table')
      PROVE  Count(call[w].user, table') <= Max + overtaken[w]
  <2> DEFINE user == call[w].user
  <2>1. PICK id \in Ids, row \in Row : Store(w, id, row)
    BY <1>1, SavesStep, SaveLoadedStores
  <2>2. table' = [table EXCEPT ![id] = row] /\ DOMAIN table = Ids
    BY <1>1, <2>1 DEF Store, LegacyInv, LegacyTypeOK
  <2>3. Count(user, [table EXCEPT ![id] = row]) <= Count(user, table) + 1
    BY <2>2, CountStep
  <2>4. Count(user, table) < Max + overtaken[w]
    BY <1>1 DEF LegacyInv, RoomInv
  <2>5. /\ Count(user, table') \in Nat /\ Count(user, table) \in Nat
        /\ Max \in Nat /\ overtaken[w] \in Nat
    BY <1>1, CountType, LegacyAssumption DEF LegacyInv, LegacyTypeOK
  <2> QED BY <2>2, <2>3, <2>4, <2>5
<1>2. LegacyInv /\ [LegacyNext]_legacyVars =>
        [\A w \in Workers :
           Saves(w) /\ Max # None /\ overtaken[w] # None /\ Gained(w, table') =>
             Count(call[w].user, table') <= Max + overtaken[w]]_legacyVars
  BY <1>1
<1> QED BY <1>2, LegacyInvariance, PTL DEF LegacySpec, FreshAdmissionBounded
=============================================================================
