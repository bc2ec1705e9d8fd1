\* Three threads that update the settings while others read them.
SPECIFICATION RuntimeFairSpec
CONSTANTS
  Updaters = {u1, u2, u3}
  Limits = {1, 2, 3}
  None = None
  Unset = Unset
INVARIANTS
  RuntimeTypeOK
  ServiceMatchesSettings
PROPERTIES
  SettingsReachService
