-------------------------- MODULE MCLegacyManager --------------------------
(***************************************************************************)
(* Small instances of LegacyManager for TLC.                               *)
(***************************************************************************)
EXTENDS LegacyManager, TLC

NameSymmetry == Permutations(Workers) \cup Permutations(Ids)
=============================================================================
