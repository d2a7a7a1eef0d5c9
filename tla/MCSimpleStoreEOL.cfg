\* Two clients, two keys, the value "\r" (a byte a Bulk string may carry),
\* up to three sets and no fault: the offsets a restart would rebuild.
CONSTANTS
    c1 = c1  c2 = c2
    Keys <- MCKeys
    Values <- MCValuesEOL
    Clients <- MCClients
    MaxSets = 3
    MaxFaults = 0
    None = None
    Err = Err
    NoClient = NoClient
SPECIFICATION Spec
INVARIANT RecoverRebuildsIndex
\* A store whose recovery bailed stays down.
CHECK_DEADLOCK FALSE
