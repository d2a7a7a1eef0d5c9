\* Two clients, two keys, one value, up to three sets and no fault: the
\* code's behaviour without crashes or failed writes.
CONSTANTS
    c1 = c1  c2 = c2
    Keys <- MCKeys
    Values <- MCValues
    Clients <- MCClients
    MaxSets = 3
    MaxFaults = 0
    None = None
    Err = Err
    NoClient = NoClient
SPECIFICATION Spec
INVARIANT IndexPointsToLatest
\* A store whose recovery bailed stays down.
CHECK_DEADLOCK FALSE
