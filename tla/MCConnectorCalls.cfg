\* Two tasks and one worker thread.
SPECIFICATION ConnectorSpec
CONSTANTS
  t1 = t1
  t2 = t2
  Tasks = {t1, t2}
  Workers = 1
  Jobs <- MixedJobs
  None = None
INVARIANTS
  ConnectorInv
  ChecksCleanUp
  AnswersAreHonest
  ClientsAreWhole
PROPERTIES
  EveryCallEnds
CHECK_DEADLOCK FALSE
