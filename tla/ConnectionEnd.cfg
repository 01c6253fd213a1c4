SPECIFICATION Spec
CONSTANTS
    MaxDeaths = 1
    MaxWire = 3
INVARIANT
    EndIsTold
CHECK_DEADLOCK FALSE
