SPECIFICATION Spec
CONSTANTS
    Guard = {sslocal, tun2socks}
    HasCallback = {tun2socks}
    Sdks = {23, 24, 26}
    MaxTries = 1
INVARIANTS
    CleanUpAnswered
CHECK_DEADLOCK FALSE
