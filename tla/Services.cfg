SPECIFICATION FairSpec
CONSTANTS
  Start = {i1, i2}
  Stop = {s1, s2}
  None = None
  PersistAcrossReboot = TRUE
  MaxPending = 1
INVARIANTS
  StopJoinsConnectingUnlessOverlapped
  NothingLeaked
  StoppedIsClean
  ConnectedIsComplete
  RunningIsStarted
PROPERTIES
  StopCompletes
CONSTRAINT OneTroubleAtATime
