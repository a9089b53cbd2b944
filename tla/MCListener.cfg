SPECIFICATION Spec
CONSTANTS
    Starts <- MCStarts
    Stat <- MCStat
    TlsBuild = TRUE
    Pid = {1, 2}
    MaxTime = 3
    MaxFaults = 1
INVARIANTS StartsAsConfigured TlsWhenRequired CancelReachesOwner
PROPERTIES ListenerStops
CHECK_DEADLOCK FALSE
