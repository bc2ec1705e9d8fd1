\* A stored row that may be damaged, written and read by four processes whose
\* registries and keys differ.
SPECIFICATION StoredSpec
CONSTANTS
  x = x
  y = y
  d1 = d1
  d2 = d2
  o1 = o1
  o2 = o2
  m1 = m1
  k1 = k1
  k2 = k2
  sql = sql
  file = file
  Empty = Empty
  Junk = Junk
  None = None
  Default = y
  Keys = {k1, k2}
  Kinds = {sql, file}
  Drivers = {d1, d2}
  Options = {o1, o2}
  Fields = {"a", "b"}
  Values = {x, y}
  Mappings = {Empty, m1}
  Processes <- MCProcesses
  Registry <- MCRegistry
  Key <- MCKey
  Stored <- MCStored
  Drafts <- MCDrafts
  Patches <- MCPatches
INVARIANTS
  StoredTypeOK
  ValidViewIsUsable
  RepairRules
PROPERTIES
  WritesReadBack
  
