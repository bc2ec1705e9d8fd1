------------------------ MODULE RuntimeSettingsProofs ------------------------
(***************************************************************************)
(* TLAPS proofs about RuntimeSettings, for any number of threads and any   *)
(* set of limits.                                                          *)
(***************************************************************************)
EXTENDS RuntimeSettings, TLAPS

\* Every step of update_settings keeps the invariant.
LEMMA RuntimeStep == RuntimeInv /\ [RuntimeNext]_runtimeVars => RuntimeInv'
<1> SUFFICES ASSUME RuntimeInv, [RuntimeNext]_runtimeVars PROVE RuntimeInv'
  OBVIOUS
<1> USE RuntimeAssumption DEF RuntimeInv, RuntimeTypeOK, ServiceMatchesSettings, Settings
<1>1. ASSUME NEW u \in Updaters, NEW patch \in Settings \cup {Unset}, UpdateSettings(u, patch)
      PROVE  RuntimeInv'
  <2>1. Patched(patch) \in Settings
    BY DEF Patched
  <2> QED BY <1>1, <2>1 DEF UpdateSettings
<1>2. ASSUME NEW u \in Updaters, BuildService(u) PROVE RuntimeInv'
  BY <1>2 DEF BuildService
<1>3. ASSUME NEW u \in Updaters, AssignService(u) PROVE RuntimeInv'
  BY <1>3 DEF AssignService
<1>4. ASSUME NEW u \in Updaters, ReturnSettings(u) PROVE RuntimeInv'
  BY <1>4 DEF ReturnSettings
<1>5. CASE UNCHANGED runtimeVars
  BY <1>5 DEF runtimeVars
<1> QED BY <1>1, <1>2, <1>3, <1>4, <1>5 DEF RuntimeNext, UpdaterStep

\* The strengthened invariant holds in every execution.
THEOREM RuntimeInvariance == RuntimeSpec => []RuntimeInv
<1>1. RuntimeInit => RuntimeInv
  BY RuntimeAssumption DEF RuntimeInit, RuntimeInv, RuntimeTypeOK, ServiceMatchesSettings, Settings
<1> QED BY <1>1, RuntimeStep, PTL DEF RuntimeSpec

\* Whatever update_settings is given, every variable stays within its type: no
\* thread keeps or assigns what is neither settings nor None.
THEOREM RuntimeTypeCorrect == RuntimeSpec => []RuntimeTypeOK
<1>1. RuntimeInv => RuntimeTypeOK
  BY DEF RuntimeInv
<1> QED BY <1>1, RuntimeInvariance, PTL

\* Outside update_settings the service was built from the settings in use.
THEOREM ServiceIsCurrent == RuntimeSpec => []ServiceMatchesSettings
<1>1. RuntimeInv => ServiceMatchesSettings
  BY DEF RuntimeInv
<1> QED BY <1>1, RuntimeInvariance, PTL
=============================================================================
