SPECIFICATION Spec
CONSTANTS
    Start = {i1, i2}
    Stop = {s1, s2}
    None = None
    PersistAcrossReboot = TRUE
    MaxPending = 1
SYMMETRY Symmetry
INVARIANTS
    StopJoinsConnecting
