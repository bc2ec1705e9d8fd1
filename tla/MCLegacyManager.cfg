\* Two workers serve a user and an administrator on a table of two keys.
SPECIFICATION LegacySpec
CONSTANTS
  Workers = {w1, w2}
  Users = {u1, u2}
  Admins = {u2}
  Ids = {i1, i2}
  Fields = {f1}
  Values = {v1, v2}
  Max = 1
  None = None
INVARIANTS
  LegacyInv
PROPERTIES
  LegacyDeletedForever
  SaveIsExact
  FreshAdmissionBounded
SYMMETRY NameSymmetry
