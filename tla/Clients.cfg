SPECIFICATION MCSpec
CONSTANTS
  Client = {c1, c2}
  Notification = n
  MaxSessions = 2
  Conn = {x1, x2, x3}
INVARIANTS
  LoopAsNeeded
  ServedAsAsked
PROPERTIES
  LoopEnds
  ShutdownCompletes
  Answered
CHECK_DEADLOCK FALSE
