-------------------------- MODULE ConnectionCatalog --------------------------
(***************************************************************************)
(* What the connection service promises to its callers, with the database  *)
(* sessions, the stale reads and the failures abstracted away.             *)
(*                                                                         *)
(* The catalog is one row per connection id.  A request changes it at most *)
(* once, in one atomic step, and the answer it gets is honest about it:    *)
(*   "ok"       its change is in the catalog,                              *)
(*   "answer"   it only read,                                              *)
(*   "refused"  it changed nothing and never will,                         *)
(*   "failed"   the caller cannot tell (an error while or after            *)
(*              committing).                                               *)
(* A row never leaves the catalog and a deleted row stays deleted.         *)
(***************************************************************************)
CONSTANTS
  Requests,   \* the requests clients may issue
  Ids,        \* connection ids
  Row,        \* the rows the table can hold: records with a field "deleted"
  None        \* no row, no answer

VARIABLES
  rows,       \* the committed table
  reply,      \* the answer each request got
  effect      \* whether a request has changed the catalog

catalogVars == <<rows, reply, effect>>

Replies == {"ok", "answer", "refused", "failed"}

CatalogInit ==
  /\ rows \in [Ids -> Row \cup {None}]
  /\ reply = [r \in Requests |-> None]
  /\ effect = [r \in Requests |-> FALSE]

\* A connection appears, alive, under an id no row has had.
Add(i, row) ==
  /\ rows[i] = None
  /\ ~row.deleted
  /\ rows' = [rows EXCEPT ![i] = row]

\* A row gets other contents; whether it is deleted does not change.
Edit(i, row) ==
  /\ rows[i] # None
  /\ row.deleted = rows[i].deleted
  /\ rows' = [rows EXCEPT ![i] = row]

\* A row is marked deleted (it may be marked again).
Remove(i) ==
  /\ rows[i] # None
  /\ rows' = [rows EXCEPT ![i].deleted = TRUE]

\* The one step in which a request changes the catalog and is answered.
Perform(r, answer) ==
  /\ reply[r] = None
  /\ answer \in {"ok", "failed"}
  /\ \E i \in Ids : Remove(i) \/ \E row \in Row : Add(i, row) \/ Edit(i, row)
  /\ reply' = [reply EXCEPT ![r] = answer]
  /\ effect' = [effect EXCEPT ![r] = TRUE]

\* A request is answered without having changed anything.
Answer(r, answer) ==
  /\ reply[r] = None
  /\ answer \in {"answer", "refused", "failed"}
  /\ reply' = [reply EXCEPT ![r] = answer]
  /\ UNCHANGED <<rows, effect>>

CatalogNext ==
  \E r \in Requests, answer \in Replies : Perform(r, answer) \/ Answer(r, answer)

CatalogSpec == CatalogInit /\ [][CatalogNext]_catalogVars
=============================================================================
