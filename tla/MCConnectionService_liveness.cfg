\* Three writers that wait for each other's rows: every request that starts ends.
SPECIFICATION FairSpec
CONSTANTS
  f1 = f1
  f2 = f2
  v1 = v1
  v2 = v2
  v3 = v3
  s1 = s1
  s2 = s2
  Requests = {r1, r2, r3}
  Ids = {i1}
  Seeded = {i1}
  Fields = {}
  Values = {v1}
  Secrets = {s1}
  Keys = {k1}
  Decoded <- MCDecoded
  Dumped <- MCDumped
  DumpedSecrets <- MCDumpedSecrets
  Blank = Blank
  None = None
  Ops = {"update", "delete"}
  Owned = {TRUE, FALSE}
  Invalid = {}
  Limits = {}
PROPERTIES
  EveryRequestEnds
