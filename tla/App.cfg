SPECIFICATION MCSpec
CONSTANTS
  m1 = m1
  m2 = m2
  Models = {m1, m2}
  NoModel = NoModel
  MaxFlows = 2
  MaxFaults = 1
  MaxTabs = 2
  MaxHosts = 2
  MaxLoads = 1
INVARIANTS
  ButtonAtRest
  NoHiddenConnection
  TabsServed
  ScreenRight
  PrivateUnlogged
SYMMETRY Symmetry
CHECK_DEADLOCK FALSE
