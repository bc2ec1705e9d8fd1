-------------------------- MODULE ConnectionSystem --------------------------
(***************************************************************************)
(* A process that serves requests while its settings change: the routes    *)
(* call self.runtime.service.<operation>, so a create runs against the     *)
(* service object that was in place when its route was entered, for all of *)
(* its life.                                                               *)
(***************************************************************************)
EXTENDS ConnectionService

CONSTANTS
  Updaters,   \* the threads that change the settings
  Unset       \* a patch that leaves max_connections out

ASSUME SystemAssumption ==
  /\ None \notin Limits \cup Updaters
  /\ Unset \notin Limits \cup {None}

VARIABLES settings, service, owner, upc, built

Runtime == INSTANCE RuntimeSettings

processVars == <<settings, service, owner, upc, built>>
systemVars == <<vars, processVars>>

SystemInit == Init /\ Runtime!RuntimeInit

\* A route reads runtime.service once and keeps the object.
Route(r) == Start(r, service) /\ UNCHANGED processVars

Serve(r) == Step(r) /\ UNCHANGED processVars

Reconfigure == Runtime!RuntimeNext /\ UNCHANGED vars

SystemNext == Reconfigure \/ \E r \in Requests : Route(r) \/ Serve(r)

SystemSpec == SystemInit /\ [][SystemNext]_systemVars

-----------------------------------------------------------------------------
\* When every create so far was routed under the limit now in force, the table
\* is within it but for the creates that raced one that committed: however many
\* have ended since, the excess does not add up.
LimitHolds ==
  LET Creates == {r \in Requests : call[r] # None /\ call[r].op = "create"}
      Committed == {r \in Creates : applied[r]}
  IN  /\ settings # None
      /\ \A r \in Creates : call[r].limit = settings
      /\ Committed # {}
      => \E r \in Committed : NumLive(db) <= settings + since[r]
=============================================================================
