\* All four operations together: the service implements the abstract catalog.
SPECIFICATION Spec
CONSTANTS
  f1 = f1
  f2 = f2
  v1 = v1
  v2 = v2
  v3 = v3
  s1 = s1
  s2 = s2
  Requests = {r1, r2}
  Ids = {i1, i2, i3}
  Seeded = {i1}
  Fields = {f1}
  Values = {v1, v2}
  Secrets = {s1}
  Keys = {k1}
  Decoded <- MCDecoded
  Dumped <- MCDumped
  DumpedSecrets <- MCDumpedSecrets
  Blank = Blank
  None = None
  Ops = {"create", "update", "delete", "check"}
  Owned = {TRUE, FALSE}
  Invalid = {}
  Limits = {1}
INVARIANTS
  IInv
  EndedHoldsNothing
  RefusalLeavesNoTrace
  AnswerIsHonest
PROPERTIES
  ImplementsCatalog
SYMMETRY NameSymmetry
