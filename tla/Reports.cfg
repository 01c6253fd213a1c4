SPECIFICATION MCSpec
CONSTANTS
  MaxDeaths = 2
  MaxWire = 3
  MaxBytes = 2
  MaxRestarts = 1
INVARIANTS
  SyncedUnlessMissed
  ChecksHold
  MonitorCurrent
  CountedOnce
PROPERTY
  EditSurvives
CHECK_DEADLOCK FALSE
