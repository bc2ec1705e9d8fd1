\* One worker and one user: what a refusal says of the table.
SPECIFICATION LegacySpec
CONSTANTS
  Workers = {w1}
  Users = {u1}
  Admins = {}
  Ids = {i1, i2}
  Fields = {f1}
  Values = {v1}
  Max = 1
  None = None
PROPERTIES
  RefusedOnlyAtLimit
