\* Three creates and deletes race for the places below max_connections while a
\* thread sets and clears it.
SPECIFICATION SystemSpec
CONSTANTS
  Requests = {r1, r2, r3}
  Ids = {i1, i2, i3, i4}
  Seeded = {i1}
  Fields = {}
  Values = {}
  Secrets = {s1}
  Keys = {k1}
  Decoded <- MCConverted
  Dumped <- MCConverted
  DumpedSecrets <- MCDumpedSecrets
  Blank = Blank
  None = None
  Unset = Unset
  Ops = {"create", "delete"}
  Owned = {TRUE}
  Invalid = {}
  Limits = {1}
  Updaters = {u1}
INVARIANTS
  TypeOK
  LimitHolds
PROPERTIES
  LimitOverrunBounded
SYMMETRY NameSymmetry
