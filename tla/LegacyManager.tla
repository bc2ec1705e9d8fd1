---------------------------- MODULE LegacyManager ----------------------------
(***************************************************************************)
(* db_connection.compat: the legacy routes (create, update, upsert and     *)
(* delete a connection) over one ConnectionManager per worker process.     *)
(*                                                                         *)
(* A handler is a coroutine without an await: a worker runs one at a time, *)
(* the statements of different workers interleave.  The manager is made    *)
(* once per process (lru_cache) and keeps the first count that is not zero *)
(* in ACTIVE_CONNECTIONS; nothing resets it but a restart.                 *)
(*                                                                         *)
(* The flush and the COMMIT of session.commit() are one step, as each      *)
(* handler writes one row; the database, READ COMMITTED, is external.      *)
(* updated_at and created_at are left out.                                 *)
(***************************************************************************)
EXTENDS Naturals, FiniteSets

CONSTANTS
  Workers,    \* the worker processes
  Users,      \* the users; one of them if there is no authentication
  Admins,     \* those for whom disable_pk_filtration(user) holds
  Ids,        \* the primary keys of the table
  Fields,     \* the columns a schema carries besides is_deleted
  Values,     \* their values
  Max,        \* ext_config.max_connections
  None        \* Python's None

ASSUME LegacyAssumption ==
  /\ IsFiniteSet(Ids)
  /\ Admins \subseteq Users
  /\ Max \in Nat \cup {None}
  /\ None \notin Nat \cup Ids

Row == [owner : Users, is_deleted : BOOLEAN, config : [Fields -> Values]]

\* What a client sends: some of the columns, is_deleted possibly among them.
Payloads == [config : UNION {[F -> Values] : F \in SUBSET Fields}, is_deleted : BOOLEAN \cup {None}]
Whole == {p \in Payloads : DOMAIN p.config = Fields /\ p.is_deleted # None}

Calls == [op : {"create", "update", "upsert", "delete"}, user : Users,
          id : Ids \cup {None}, payload : Payloads \cup {None}]

Answers == {"ok", "refused", "not_found", "error"}

ASSUME LegacySentinels ==
  None \notin Row \cup Payloads \cup Calls \cup BOOLEAN \cup Answers

VARIABLES
  table,      \* the committed rows
  active,     \* ACTIVE_CONNECTIONS of each worker, 0 also for None
  pc,         \* where the handler a worker runs is
  call,       \* what it was called with
  seen,       \* the row it has loaded
  answer,     \* the worker's last answer
  overtaken   \* history: rows its user got since it counted, None if it did not

legacyVars == <<table, active, pc, call, seen, answer, overtaken>>

LegacyTypeOK ==
  /\ table \in [Ids -> Row \cup {None}]
  /\ active \in [Workers -> Nat]
  /\ pc \in [Workers -> {"idle", "load", "save"}]
  /\ call \in [Workers -> Calls \cup {None}]
  /\ seen \in [Workers -> Row \cup {None}]
  /\ answer \in [Workers -> Answers \cup {None}]
  /\ overtaken \in [Workers -> Nat \cup {None}]

-----------------------------------------------------------------------------
IsLive(row) == row # None /\ ~row.is_deleted

\* The filter on the user's foreign keys, unless it is disabled for the user.
Sees(user, row) == user \in Admins \/ row.owner = user

\* len(get_db_connections(user, session))
OwnIds(user, rows) == {i \in Ids : IsLive(rows[i]) /\ Sees(user, rows[i])}
Count(user, rows) == Cardinality(OwnIds(user, rows))

\* get_active_connections: `if not self.ACTIVE_CONNECTIONS` counts again.
ActiveConnections(w, user) == IF active[w] = 0 THEN Count(user, table) ELSE active[w]

\* Mutant: off by one.
AdmitsOneMore(count) == Max # None => Max >= count

Admits(count) == Max # None => Max > count

\* Mutant: update, like upsert, gives the row to its caller.
AppliedAsOwner(row, user, op, p) ==
  [owner      |-> user,
   is_deleted |-> IF p.is_deleted = None THEN row.is_deleted ELSE p.is_deleted,
   config     |-> [f \in Fields |-> IF f \in DOMAIN p.config THEN p.config[f] ELSE row.config[f]]]

\* The values a payload gives to the columns of a row of the user's.
Applied(row, user, op, p) ==
  [owner      |-> IF op = "upsert" THEN user ELSE row.owner,
   is_deleted |-> IF p.is_deleted = None THEN row.is_deleted ELSE p.is_deleted,
   config     |-> [f \in Fields |-> IF f \in DOMAIN p.config THEN p.config[f] ELSE row.config[f]]]

\* The UPDATE sets the columns whose value is not equal to the one loaded (a value
\* that only looks different, of another class, is among `forced`); all the others
\* are what they are by now.
Written(now, old, new, forced) ==
  [owner      |-> IF new.owner # old.owner THEN new.owner ELSE now.owner,
   is_deleted |-> IF new.is_deleted # old.is_deleted THEN new.is_deleted ELSE now.is_deleted,
   config     |-> [f \in Fields |-> IF new.config[f] # old.config[f] \/ f \in forced
                                    THEN new.config[f] ELSE now.config[f]]]

InsertedRow(user, p) ==
  [owner |-> user, is_deleted |-> p.is_deleted = TRUE, config |-> p.config]

-----------------------------------------------------------------------------
(* The handlers.                                                           *)

Goto(w, label) == pc' = [pc EXCEPT ![w] = label]

Reply(w, what) ==
  /\ answer' = [answer EXCEPT ![w] = what]
  /\ Goto(w, "idle")
  /\ call' = [call EXCEPT ![w] = None]
  /\ seen' = [seen EXCEPT ![w] = None]
  /\ overtaken' = [overtaken EXCEPT ![w] = None]

Accept(w, op, user, id, payload, label) ==
  /\ answer' = [answer EXCEPT ![w] = None]
  /\ Goto(w, label)
  /\ call' = [call EXCEPT ![w] = [op |-> op, user |-> user, id |-> id, payload |-> payload]]
  /\ UNCHANGED seen

\* create, update and upsert begin with validate_max_connections.
Validate(w, op, user, id, payload) ==
  /\ pc[w] = "idle"
  /\ LET count == ActiveConnections(w, user)
     IN  /\ active' = [active EXCEPT ![w] = count]
         /\ IF Admits(count)
            THEN /\ Accept(w, op, user, id, payload, IF op = "create" THEN "save" ELSE "load")
                 /\ overtaken' = [overtaken EXCEPT ![w] = IF active[w] = 0 THEN 0 ELSE None]
            ELSE Reply(w, "refused")
  /\ UNCHANGED table

StartDelete(w, user, id) ==
  /\ pc[w] = "idle"
  /\ Accept(w, "delete", user, id, None, "load")
  /\ UNCHANGED <<table, active, overtaken>>

\* Mutant: the row is looked for without the filter on is_deleted.
LoadAny(w) ==
  /\ pc[w] = "load"
  /\ table[call[w].id] # None
  /\ seen' = [seen EXCEPT ![w] = table[call[w].id]]
  /\ Goto(w, "save")
  /\ UNCHANGED <<table, active, call, answer, overtaken>>

\* update and delete find live rows the user sees, upsert any live one.
Load(w) ==
  /\ pc[w] = "load"
  /\ LET c == call[w]
         row == table[c.id]
         found == IsLive(row) /\ (c.op = "upsert" \/ Sees(c.user, row))
     IN  IF found \/ c.op = "upsert"
         THEN /\ seen' = [seen EXCEPT ![w] = IF found THEN row ELSE None]
              /\ Goto(w, "save")
              /\ UNCHANGED <<call, answer, overtaken>>
         ELSE Reply(w, "not_found")
  /\ UNCHANGED <<table, active>>

\* Who got a row by a step that makes the table `rows`.
Gained(s, rows) ==
  /\ call[s] # None
  /\ Count(call[s].user, rows) > Count(call[s].user, table)

\* The row is committed; whoever counted before and got one by it was overtaken.
\* The answer to the COMMIT may be lost, or the SELECT of session.refresh() fail.
Store(w, id, row) ==
  /\ table' = [table EXCEPT ![id] = row]
  /\ Goto(w, "idle")
  /\ call' = [call EXCEPT ![w] = None]
  /\ seen' = [seen EXCEPT ![w] = None]
  /\ \E what \in {"ok", "error"} : answer' = [answer EXCEPT ![w] = what]
  /\ overtaken' = [s \in Workers |->
                     IF s = w THEN None
                     ELSE IF overtaken[s] # None /\ Gained(s, [table EXCEPT ![id] = row])
                     THEN overtaken[s] + 1 ELSE overtaken[s]]

\* Mutant: session.merge() for session.add(), a row that has the key is replaced.
SaveNewMerged(w) ==
  /\ pc[w] = "save"
  /\ call[w].op \in {"create", "upsert"}
  /\ seen[w] = None
  /\ \E id \in IF call[w].op = "create" THEN Ids ELSE {call[w].id} :
       Store(w, id, InsertedRow(call[w].user, call[w].payload))
  /\ UNCHANGED active

\* INSERT: the database rejects a key that is taken, by a deleted row too.
SaveNew(w) ==
  /\ pc[w] = "save"
  /\ call[w].op \in {"create", "upsert"}
  /\ seen[w] = None
  /\ \E id \in IF call[w].op = "create" THEN Ids ELSE {call[w].id} :
       IF table[id] = None
       THEN Store(w, id, InsertedRow(call[w].user, call[w].payload))
       ELSE call[w].op = "upsert" /\ Reply(w, "error") /\ UNCHANGED table
  /\ UNCHANGED active

\* UPDATE ... WHERE id = ?, on the row as it is by now.
SaveLoaded(w) ==
  /\ pc[w] = "save"
  /\ seen[w] # None
  /\ LET c == call[w]
         new == IF c.op = "delete" THEN [seen[w] EXCEPT !.is_deleted = TRUE]
                ELSE Applied(seen[w], c.user, c.op, c.payload)
     IN  \E forced \in SUBSET (IF c.op = "delete" THEN {} ELSE DOMAIN c.payload.config) :
           Store(w, c.id, Written(table[c.id], seen[w], new, forced))
  /\ UNCHANGED active

\* A statement or the COMMIT fails; the session is closed and rolled back.
Fail(w) ==
  /\ pc[w] # "idle"
  /\ Reply(w, "error")
  /\ UNCHANGED <<table, active>>

\* The process dies and another one takes its place.
Restart(w) ==
  /\ active' = [active EXCEPT ![w] = 0]
  /\ Goto(w, "idle")
  /\ call' = [call EXCEPT ![w] = None]
  /\ seen' = [seen EXCEPT ![w] = None]
  /\ answer' = [answer EXCEPT ![w] = None]
  /\ overtaken' = [overtaken EXCEPT ![w] = None]
  /\ UNCHANGED table

-----------------------------------------------------------------------------
LegacyInit ==
  /\ table \in [Ids -> Row \cup {None}]
  /\ active = [w \in Workers |-> 0]
  /\ pc = [w \in Workers |-> "idle"]
  /\ call = [w \in Workers |-> None]
  /\ seen = [w \in Workers |-> None]
  /\ answer = [w \in Workers |-> None]
  /\ overtaken = [w \in Workers |-> None]

Start(w) ==
  \E user \in Users :
    \/ \E p \in Whole : Validate(w, "create", user, None, p)
    \/ \E p \in Payloads, id \in Ids :
         \/ Validate(w, "update", user, id, p)
         \/ p \in Whole /\ Validate(w, "upsert", user, id, p)
    \/ \E id \in Ids : StartDelete(w, user, id)

LegacyNext ==
  \E w \in Workers :
    Start(w) \/ Load(w) \/ SaveNew(w) \/ SaveLoaded(w) \/ Fail(w) \/ Restart(w)

LegacySpec == LegacyInit /\ [][LegacyNext]_legacyVars
-----------------------------------------------------------------------------
(* Properties.                                                             *)

\* The handler of w has just committed its row.
Saves(w) ==
  pc[w] = "save" /\ pc'[w] = "idle" /\ (answer'[w] = "ok" \/ table' # table)

\* A deleted connection stays deleted and no row leaves the table, though a row
\* loaded as live may be deleted by another worker before it is saved.
LegacyDeletedForever ==
  [][\A id \in Ids : table[id] # None =>
       /\ table'[id] # None
       /\ table[id].is_deleted => table'[id].is_deleted]_table

\* Whatever other workers committed since the row was loaded, a save changes
\* none of the columns its request leaves out, and writes those it changes.
SaveIsExact ==
  [][\A w \in Workers :
       Saves(w) /\ seen[w] # None =>
         LET c == call[w]
             old == table[c.id]
             new == table'[c.id]
         IN  /\ c.op # "upsert" => new.owner = old.owner
             /\ c.op = "delete" => new.is_deleted /\ new.config = old.config
             /\ c.op # "delete" =>
                  /\ c.payload.is_deleted = None => new.is_deleted = old.is_deleted
                  /\ \A f \in Fields :
                       IF f \notin DOMAIN c.payload.config THEN new.config[f] = old.config[f]
                       ELSE c.payload.config[f] # seen[w].config[f]
                              => new.config[f] = c.payload.config[f]]_legacyVars

\* A create or upsert admitted on a count of its own takes its user above
\* max_connections by no more than the rows the user got since that count.
FreshAdmissionBounded ==
  [][\A w \in Workers :
       Saves(w) /\ Max # None /\ overtaken[w] # None /\ Gained(w, table') =>
         Count(call[w].user, table') <= Max + overtaken[w]]_legacyVars

\* routes.py, line 152: "Database connections more than allowed, use delete
\* endpoint."  Who is refused has, or somebody has, as many rows as allowed.
RefusedOnlyAtLimit ==
  [][\A w \in Workers :
       answer[w] # "refused" /\ answer'[w] = "refused" =>
         \E user \in Users : Count(user, table) >= Max]_legacyVars
-----------------------------------------------------------------------------
(* The inductive invariant.                                                *)

HandlerInv(w) ==
  /\ pc[w] = "idle" => call[w] = None /\ seen[w] = None /\ overtaken[w] = None
  /\ pc[w] # "idle" => call[w] # None
  /\ pc[w] = "load" => seen[w] = None /\ call[w].op # "create"
  /\ pc[w] # "idle" /\ call[w].op # "create" => call[w].id \in Ids
  /\ pc[w] # "idle" /\ call[w].op # "delete" => call[w].payload \in Payloads
  /\ pc[w] # "idle" /\ call[w].op \in {"create", "upsert"} => DOMAIN call[w].payload.config = Fields

\* A row that was loaded was live then and is in the table now.
LoadedInv(w) ==
  seen[w] # None =>
    /\ pc[w] = "save"
    /\ call[w].op # "create"
    /\ call[w].id \in Ids
    /\ ~seen[w].is_deleted
    /\ table[call[w].id] # None

\* Who was admitted on a fresh count has room left, but for the rows gained since.
RoomInv(w) ==
  Max # None /\ overtaken[w] # None =>
    pc[w] # "idle" /\ Count(call[w].user, table) < Max + overtaken[w]

LegacyInv ==
  /\ LegacyTypeOK
  /\ \A w \in Workers : HandlerInv(w) /\ LoadedInv(w) /\ RoomInv(w)
=============================================================================
