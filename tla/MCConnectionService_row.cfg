\* Updates and deletes of one stored row with two coupled columns, by
\* processes with different keys: only some of them can read its secrets.
\* The callers own the units of work, the harder case: such a caller may commit
\* or roll back after anything the service answered, when it likes.
SPECIFICATION Spec
CONSTANTS
  f1 = f1
  f2 = f2
  v1 = v1
  v2 = v2
  v3 = v3
  s1 = s1
  s2 = s2
  Requests = {r1, r2}
  Ids = {i1}
  Seeded = {i1}
  Fields = {f1, f2}
  Values = {v1, v2, v3}
  Secrets = {s1, s2}
  Keys = {k1, k2}
  Decoded <- MCDecoded
  Dumped <- MCDumped
  DumpedSecrets <- MCDumpedSecrets
  Blank = Blank
  None = None
  Ops = {"update", "delete"}
  Owned = {FALSE}
  Invalid <- MCInvalid
  Limits = {}
INVARIANTS
  CommittedRowsValid
  SecretsNeverBlanked
PROPERTIES
  DeletedForever
  FreshWriteIsExact
SYMMETRY RowSymmetry
