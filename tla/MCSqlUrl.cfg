\* Every SQL type, driver and mode; one timeout.
SPECIFICATION SqlSpec
CONSTANTS
  Seconds = {30}
  Cert = "cert"
  Odbc = "odbc"
  None = None
INVARIANTS
  LegacyUrlUnchanged
  AcceptedIsBuildable
CHECK_DEADLOCK FALSE
