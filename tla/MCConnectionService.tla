------------------------ MODULE MCConnectionService ------------------------
(***************************************************************************)
(* Small instances of ConnectionService for TLC.                           *)
(***************************************************************************)
EXTENDS ConnectionService, TLC

CONSTANTS f1, f2, v1, v2, v3, s1, s2

\* In f1 the models dump v3 as v1 (a default filled in); in f2 it is damaged and
\* reads as v1. Secrets s2 have a field the model does not declare.
MCDumped == [f \in Fields |-> [v \in Values |-> IF f = f1 /\ v = v3 THEN v1 ELSE v]]
MCDecoded == [f \in Fields |-> [v \in Values |-> IF f = f2 /\ v = v3 THEN v1 ELSE v]]
MCDumpedSecrets == [s \in Secrets |-> IF s = s2 THEN s1 ELSE s]

\* The driver (f1) and the driver options (f2) have to match.
MCInvalid ==
  {c \in [Fields -> Values] : f2 \in Fields /\ MCDumped[f1][c[f1]] # MCDecoded[f2][c[f2]]}

\* Requests differ by nothing but their name, and so do the ids a create draws.
NameSymmetry == Permutations(Requests) \cup Permutations(Ids \ Seeded)

\* A key is only ever compared with another: which one it is makes no difference.
RowSymmetry == NameSymmetry \cup Permutations(Keys)
=============================================================================
