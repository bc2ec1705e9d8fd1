--------------------------- MODULE RuntimeSettings ---------------------------
(***************************************************************************)
(* db_connection.runtime.settings.DBConnectionRuntime: threads that call   *)
(* update_settings while others read `settings` and `service`.             *)
(*                                                                         *)
(* update_settings takes an RLock, assigns _settings, builds a service     *)
(* from what _settings then is, assigns _service and returns; the two      *)
(* properties read one attribute each and take no lock.  The one setting   *)
(* is max_connections, so a settings object is its limit and a service is  *)
(* the limit it was built with.                                            *)
(***************************************************************************)
CONSTANTS
  Updaters,   \* the threads that change the settings
  Limits,     \* the values of max_connections other than None
  None,       \* Python's None: no limit; also: no thread
  Unset       \* a patch that leaves max_connections out

ASSUME RuntimeAssumption ==
  /\ None \notin Limits \cup Updaters
  /\ Unset \notin Limits \cup {None}

VARIABLES
  settings,   \* runtime._settings
  service,    \* runtime._service, by the settings it was built with
  owner,      \* the thread inside the RLock
  upc,        \* where each updater is
  built       \* the service object it has built and not yet assigned

runtimeVars == <<settings, service, owner, upc, built>>

Settings == Limits \cup {None}

RuntimeTypeOK ==
  /\ settings \in Settings
  /\ service \in Settings
  /\ owner \in Updaters \cup {None}
  /\ upc \in [Updaters -> {"out", "build", "assign", "return"}]
  /\ built \in [Updaters -> Settings]

RuntimeInit ==
  /\ settings \in Settings
  /\ service = settings
  /\ owner = None
  /\ upc = [u \in Updaters |-> "out"]
  /\ built = [u \in Updaters |-> None]

\* Mutant: the patch replaces the settings, columns it leaves out included.
RawPatch(patch) == patch

\* model_copy(update=patch.model_dump(exclude_unset=True))
Patched(patch) == IF patch = Unset THEN settings ELSE patch

\* Mutant: no lock is taken.
UpdateUnlocked(u, patch) ==
  /\ upc[u] = "out"
  /\ owner' = u
  /\ settings' = Patched(patch)
  /\ upc' = [upc EXCEPT ![u] = "build"]
  /\ UNCHANGED <<service, built>>

\* with self._lock: self._settings = self._settings.model_copy(update=...)
UpdateSettings(u, patch) ==
  /\ upc[u] = "out"
  /\ owner = None
  /\ owner' = u
  /\ settings' = Patched(patch)
  /\ upc' = [upc EXCEPT ![u] = "build"]
  /\ UNCHANGED <<service, built>>

\* _build_service(self._settings) reads the attribute again.
BuildService(u) ==
  /\ upc[u] = "build"
  /\ built' = [built EXCEPT ![u] = settings]
  /\ upc' = [upc EXCEPT ![u] = "assign"]
  /\ UNCHANGED <<settings, service, owner>>

\* Mutant: the service that was built is dropped.
AssignNothing(u) ==
  /\ upc[u] = "assign"
  /\ built' = [built EXCEPT ![u] = None]
  /\ upc' = [upc EXCEPT ![u] = "return"]
  /\ UNCHANGED <<settings, service, owner>>

AssignService(u) ==
  /\ upc[u] = "assign"
  /\ service' = built[u]
  /\ built' = [built EXCEPT ![u] = None]
  /\ upc' = [upc EXCEPT ![u] = "return"]
  /\ UNCHANGED <<settings, owner>>

ReturnSettings(u) ==
  /\ upc[u] = "return"
  /\ owner' = None
  /\ upc' = [upc EXCEPT ![u] = "out"]
  /\ UNCHANGED <<settings, service, built>>

UpdaterStep(u) == BuildService(u) \/ AssignService(u) \/ ReturnSettings(u)

RuntimeNext ==
  \E u \in Updaters :
    UpdaterStep(u) \/ \E patch \in Settings \cup {Unset} : UpdateSettings(u, patch)

RuntimeSpec == RuntimeInit /\ [][RuntimeNext]_runtimeVars

\* A thread inside update_settings runs on.
RuntimeFairSpec == RuntimeSpec /\ \A u \in Updaters : WF_runtimeVars(UpdaterStep(u))

-----------------------------------------------------------------------------
\* Between updates the service in use was built from the settings in use,
\* whichever threads updated them and in whatever order.
ServiceMatchesSettings == owner = None => service = settings

\* README.md, line 167: "This atomically rebuilds the service layer".  A reader
\* of the two properties sees them agree at every moment.
RebuildIsAtomic == service = settings

\* New settings reach the service in use, unless an update replaces them first.
SettingsReachService ==
  \A l \in Settings : settings = l ~> service = l \/ settings # l
-----------------------------------------------------------------------------
\* The inductive invariant: one thread at a time is inside the lock, and what it
\* builds and assigns is built from the settings in use.
RuntimeInv ==
  /\ RuntimeTypeOK
  /\ \A u \in Updaters : upc[u] # "out" <=> owner = u
  /\ ServiceMatchesSettings
  /\ \A u \in Updaters : upc[u] = "assign" => built[u] = settings
  /\ \A u \in Updaters : upc[u] = "return" => service = settings
=============================================================================
