------------------------- MODULE MCConnectionSystem -------------------------
(***************************************************************************)
(* Small instances of ConnectionSystem for TLC.                            *)
(***************************************************************************)
EXTENDS ConnectionSystem, TLC

\* The places below the limit do not depend on what a connection holds: a row
\* has no plain column here, and its secrets are stored as they came.
MCConverted == [f \in Fields |-> [v \in Values |-> v]]
MCDumpedSecrets == [s \in Secrets |-> s]

NameSymmetry == Permutations(Requests) \cup Permutations(Ids \ Seeded)
=============================================================================
