\* Two clients, two keys, one value, up to three sets and one fault (a crash
\* or a failed write).
CONSTANTS
    c1 = c1  c2 = c2
    Keys <- MCKeys
    Values <- MCValues
    Clients <- MCClients
    MaxSets = 3
    MaxFaults = 2
    None = None
    Err = Err
    NoClient = NoClient
SPECIFICATION Spec
INVARIANT AckedKeysIndexed
\* A store whose recovery bailed stays down.
CHECK_DEADLOCK FALSE
