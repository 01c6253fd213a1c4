SPECIFICATION MCSpec
CONSTANTS
  Guard = {sslocal, tun2socks}
  HasCallback = {tun2socks}
  Sdks = {23, 24, 26}
  NetSdks = {23, 26, 28}
  MaxTries = 1
  MaxAttempts = 5
  MaxStarts = 3
  Service = {s1, s2}
  Network = {wifi, cell}
  None = None
  MaxMail = 3
INVARIANTS
  NoOrphan
  CleanUpAnsweredUnlessLost
  RunsOnTunUnlessOrphaned
  NetworkKnown
PROPERTIES
  PoolJoins
  Restarted
  TunArrives
  GetAnswered
CHECK_DEADLOCK FALSE
