SPECIFICATION MCSpec
CONSTANTS
  Screen = {s1, s2}
  Params = 2
  MaxAds = 2
  MaxPending = 3
  m1 = m1
  m2 = m2
  Models = {m1, m2}
  NoModel = NoModel
  MaxFlows = 1
  MaxFaults = 1
INVARIANT
  AdsFresh
PROPERTIES
  AdsAnswered
  ButtonReturns
CHECK_DEADLOCK FALSE
