\* The README's claim that the service layer is rebuilt atomically.
SPECIFICATION RuntimeSpec
CONSTANTS
  Updaters = {u1}
  Limits = {1, 2}
  None = None
  Unset = Unset
INVARIANTS
  RebuildIsAtomic
