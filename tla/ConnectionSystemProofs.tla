------------------------ MODULE ConnectionSystemProofs ------------------------
(***************************************************************************)
(* TLAPS proofs about ConnectionSystem: what the service and the runtime   *)
(* together promise about max_connections.                                 *)
(***************************************************************************)
EXTENDS ConnectionSystem, ConnectionServiceProofs

SystemInv == IInv /\ Runtime!RuntimeInv

\* The service a request is routed to has one of the limits a create may have.
LEMMA RoutedLimit == Runtime!RuntimeTypeOK => service \in Limits \cup {None}
BY DEF Runtime!RuntimeTypeOK, Runtime!Settings

\* Each step of the process is a step of the service or leaves it alone.
LEMMA SystemStepOfService ==
  Runtime!RuntimeTypeOK /\ [SystemNext]_systemVars => [Next]_vars
<1> SUFFICES ASSUME Runtime!RuntimeTypeOK, [SystemNext]_systemVars PROVE [Next]_vars
  OBVIOUS
<1>1. ASSUME NEW r \in Requests, Route(r) PROVE Next
  BY <1>1, RoutedLimit DEF Route, Next
<1>2. ASSUME NEW r \in Requests, Serve(r) PROVE Next
  BY <1>2 DEF Serve, Next
<1>3. CASE Reconfigure
  BY <1>3 DEF Reconfigure
<1>4. CASE UNCHANGED systemVars
  BY <1>4 DEF systemVars
<1> QED BY <1>1, <1>2, <1>3, <1>4 DEF SystemNext

\* Each step of the process is a step of update_settings or leaves it alone.
LEMMA SystemStepOfRuntime ==
  [SystemNext]_systemVars => [Runtime!RuntimeNext]_(Runtime!runtimeVars)
BY DEF SystemNext, Reconfigure, Route, Serve, systemVars, processVars, Runtime!runtimeVars

RT == INSTANCE RuntimeSettingsProofs

\* Every step of update_settings keeps its invariant inside the process.
LEMMA SystemRuntimeStep ==
  Runtime!RuntimeInv /\ [Runtime!RuntimeNext]_(Runtime!runtimeVars) => Runtime!RuntimeInv'
BY RT!RuntimeStep, SystemAssumption
   DEF Runtime!RuntimeInv, RT!RuntimeInv, Runtime!RuntimeNext, RT!RuntimeNext,
       Runtime!runtimeVars, RT!runtimeVars, Runtime!RuntimeTypeOK, RT!RuntimeTypeOK,
       Runtime!Settings, RT!Settings, Runtime!Patched, RT!Patched,
       Runtime!ServiceMatchesSettings, RT!ServiceMatchesSettings,
       Runtime!UpdaterStep, RT!UpdaterStep, Runtime!UpdateSettings, RT!UpdateSettings,
       Runtime!BuildService, RT!BuildService, Runtime!AssignService, RT!AssignService,
       Runtime!ReturnSettings, RT!ReturnSettings

\* Both invariants hold in every execution of the process.
THEOREM SystemInvariance == SystemSpec => []SystemInv
<1>1. SystemInit => SystemInv
  BY InitInv, SystemAssumption DEF SystemInit, SystemInv, Runtime!RuntimeInit, Runtime!RuntimeInv,
     Runtime!RuntimeTypeOK, Runtime!ServiceMatchesSettings, Runtime!Settings
<1>2. SystemInv /\ [SystemNext]_systemVars => SystemInv'
  <2>1. Runtime!RuntimeInv => Runtime!RuntimeTypeOK
    BY DEF Runtime!RuntimeInv
  <2> QED BY <2>1, SystemStepOfService, SystemStepOfRuntime, SystemRuntimeStep, NextInv DEF SystemInv
<1> QED BY <1>1, <1>2, PTL DEF SystemSpec

\* What is proved of the service holds of the process it runs in.
LEMMA SystemRunsService == SystemSpec => Spec
<1>1. SystemInit => Init
  BY DEF SystemInit
<1>2. SystemInv => Runtime!RuntimeTypeOK
  BY DEF SystemInv, Runtime!RuntimeInv
<1> QED BY <1>1, <1>2, SystemStepOfService, SystemInvariance, PTL DEF SystemSpec, Spec

-----------------------------------------------------------------------------
(* max_connections and the settings in use.                                *)

\* The creates whose rows are committed, and the excess they may have left.
CommittedCreates == {r \in Requests : applied[r] /\ call[r].op = "create"}

ExcessInv ==
  CommittedCreates # {} /\ (\A r \in CommittedCreates : call[r].limit # None)
    => \E r \in CommittedCreates : NumLive(db) <= call[r].limit + since[r]

\* What a request that has committed was called with and counted is settled.
LEMMA CommittedIsSettled ==
  ASSUME IInv, [Next]_vars, NEW s \in Requests, applied[s]
  PROVE  applied'[s] /\ call'[s] = call[s] /\ since'[s] = since[s]
<1>1. pc[s] = "done"
  BY DEF IInv, OutcomeInv
<1>2. ASSUME NEW r \in Requests, Step(r)
      PROVE  applied'[s] /\ call'[s] = call[s] /\ since'[s] = since[s]
  <2>1. CASE CreateCount(r) \/ CreateInsert(r)
    BY <1>1, <2>1 DEF CreateCount, CreateInsert, IInv, TypeOK
  <2>2. CASE UpdateWrite(r) \/ DeleteWrite(r) \/ CheckProbe(r) \/ Close(r) \/ Fail(r) \/ OwnerRollback(r)
    BY <2>2 DEF UpdateWrite, DeleteWrite, CheckProbe, Close, Fail, OwnerRollback
  <2>3. CASE Commit(r)
    BY <1>1, <2>3 DEF Commit, Counted, IInv, TypeOK
  <2> QED BY <1>2, <2>1, <2>2, <2>3 DEF Step, Progress
<1>3. ASSUME NEW r \in Requests, NEW lim, Start(r, lim)
      PROVE  applied'[s] /\ call'[s] = call[s] /\ since'[s] = since[s]
  <2>1. \A d, key, owns : CreateStart(r, d, key, owns, lim) =>
          pc[r] = "idle" /\ UNCHANGED <<applied, since>> /\ \E c : call' = [call EXCEPT ![r] = c]
    BY DEF CreateStart, Called
  <2>2. \A i, key, owns : DeleteRead(r, i, key, owns) =>
          pc[r] = "idle" /\ UNCHANGED <<applied, since>> /\ \E c : call' = [call EXCEPT ![r] = c]
    BY DEF DeleteRead, Called
  <2>3. \A i, patch, key, owns : UpdateRead(r, i, patch, key, owns) =>
          pc[r] = "idle" /\ UNCHANGED <<applied, since>> /\ \E c : call' = [call EXCEPT ![r] = c]
    BY DEF UpdateRead, Called
  <2>4. \A i, patch, key, owns : CheckRead(r, i, patch, key, owns) =>
          pc[r] = "idle" /\ UNCHANGED <<applied, since>> /\ \E c : call' = [call EXCEPT ![r] = c]
    BY DEF CheckRead, Called
  <2>5. pc[r] = "idle" /\ UNCHANGED <<applied, since>> /\ \E c : call' = [call EXCEPT ![r] = c]
    BY <1>3, <2>1, <2>2, <2>3, <2>4 DEF Start
  <2> QED BY <1>1, <2>5 DEF IInv, TypeOK
<1> QED BY <1>2, <1>3 DEF Next, Quiet, vars

\* The excess over the limits does not add up, however many requests end.
LEMMA ExcessStep == IInv /\ ExcessInv /\ [Next]_vars => ExcessInv'
<1> SUFFICES ASSUME IInv, ExcessInv, [Next]_vars,
                    CommittedCreates' # {},
                    \A r \in CommittedCreates' : call'[r].limit # None
             PROVE  \E r \in CommittedCreates' : NumLive(db') <= call'[r].limit + since'[r]
  BY DEF ExcessInv
<1>1. \A s \in CommittedCreates :
        s \in CommittedCreates' /\ call'[s] = call[s] /\ since'[s] = since[s]
  BY CommittedIsSettled DEF CommittedCreates
<1>2. ASSUME NEW r \in Requests, Commit(r), Inserts(r)
      PROVE  \E s \in CommittedCreates' : NumLive(db') <= call'[s].limit + since'[s]
  <2>1. /\ applied'[r] /\ call' = call /\ call[r].op = "create" /\ since'[r] = since[r]
        /\ Counted(r) /\ call[r] \in Calls
    BY <1>2 DEF Commit, Inserts, Counted, IInv, TypeOK, PhaseInv
  <2>2. r \in CommittedCreates' /\ call[r].limit # None
    BY <2>1 DEF CommittedCreates
  <2>3. NumLive(db) < call[r].limit + since[r]
    BY <1>2, <2>1, <2>2 DEF IInv, AdmissionInv
  <2>4. NumLive(db') <= NumLive(db) + 1
    BY <1>2, CommitTable
  <2>5. /\ NumLive(db) \in Nat /\ NumLive(db') \in Nat
        /\ call[r].limit \in Nat /\ since[r] \in Nat
    BY <2>1, <2>2, LiveFinite, DataAssumption DEF Calls, IInv, TypeOK
  <2>6. NumLive(db') <= call'[r].limit + since'[r]
    BY <2>1, <2>3, <2>4, <2>5
  <2> QED BY <2>2, <2>6
<1>3. ASSUME NEW r \in Requests, Commit(r), ~Inserts(r)
      PROVE  NumLive(db') <= NumLive(db) /\ CommittedCreates' = CommittedCreates
  <2>1. NumLive(db') <= NumLive(db)
    BY <1>3, CommitTable, LiveFinite
  <2>2. call' = call /\ applied' = [applied EXCEPT ![r] = pend[r] # None] /\ ~applied[r]
    BY <1>3 DEF Commit, IInv, OutcomeInv
  <2>3. \A s \in Requests : applied'[s] /\ call[s].op = "create" <=> applied[s] /\ call[s].op = "create"
    BY <1>3, <2>2 DEF Inserts, IInv, TypeOK
  <2> QED BY <2>1, <2>2, <2>3 DEF CommittedCreates
<1>4. CASE UNCHANGED <<db, applied>>
  <2>1. \A s \in CommittedCreates' : s \in CommittedCreates
    <3>1. ASSUME NEW s \in Requests, applied[s] PROVE call'[s] = call[s]
      BY <3>1, CommittedIsSettled
    <3> QED BY <1>4, <3>1 DEF CommittedCreates
  <2>2. NumLive(db') = NumLive(db)
    BY <1>4
  <2> QED BY <1>1, <2>1, <2>2 DEF ExcessInv
<1>5. CASE \E r \in Requests : Commit(r) /\ ~Inserts(r)
  <2>1. NumLive(db') <= NumLive(db) /\ CommittedCreates' = CommittedCreates
    BY <1>3, <1>5
  <2>2. PICK s \in CommittedCreates : NumLive(db) <= call[s].limit + since[s]
    BY <1>1, <2>1 DEF ExcessInv
  <2>3. call[s].limit # None /\ call[s] \in Calls
    BY <1>1, <2>1 DEF CommittedCreates, IInv, TypeOK, PhaseInv, OutcomeInv
  <2>4. /\ NumLive(db) \in Nat /\ NumLive(db') \in Nat
        /\ call[s].limit \in Nat /\ since[s] \in Nat
    BY <2>3, LiveFinite, DataAssumption DEF Calls, CommittedCreates, IInv, TypeOK
  <2>5. NumLive(db') <= call'[s].limit + since'[s]
    BY <1>1, <2>1, <2>2, <2>4
  <2> QED BY <1>1, <2>5
<1> QED BY <1>2, <1>4, <1>5, OnlyCommitWrites

\* max_connections holds but for the creates that raced one that committed.
THEOREM LimitIsKept == SystemSpec => []LimitHolds
<1>1. Init => ExcessInv
  BY DEF Init, ExcessInv, CommittedCreates
<1>2. Spec => []ExcessInv
  BY <1>1, ExcessStep, Invariance, PTL DEF Spec
<1>3. IInv /\ ExcessInv => LimitHolds
  <2> SUFFICES ASSUME IInv, ExcessInv, settings # None,
                      \A r \in Requests : call[r] # None /\ call[r].op = "create" => call[r].limit = settings,
                      NEW q \in Requests, call[q] # None, call[q].op = "create", applied[q]
               PROVE  \E r \in Requests : /\ call[r] # None /\ call[r].op = "create" /\ applied[r]
                                          /\ NumLive(db) <= settings + since[r]
    BY DEF LimitHolds
  <2>1. \A r \in CommittedCreates : call[r] # None
    BY DEF CommittedCreates, IInv, PhaseInv, OutcomeInv
  <2>2. CommittedCreates # {} /\ \A r \in CommittedCreates : call[r].limit # None
    BY <2>1 DEF CommittedCreates
  <2> QED BY <2>1, <2>2 DEF ExcessInv, CommittedCreates
<1> QED BY <1>2, <1>3, Invariance, SystemRunsService, PTL
=============================================================================
