\* The in-memory TTL store and its purge task: safety of the expiration
\* index and of the purge task's wakeups, and liveness under fair
\* scheduling of the purge task.
CONSTANTS
    k1 = k1
    k2 = k2
    v1 = v1
    c1 = c1
    c2 = c2
    Keys <- MCKeys
    Values <- MCValues
    Clients <- MCClients
    NoEntry = NoEntry
    TTL = 2
    MaxTime = 4
    MaxSets = 3
SPECIFICATION FairSpec
INVARIANT TypeOK ExpirationIndexConsistent NoLostWakeup
PROPERTY NoEarlyEviction ExpiredEventuallyPurged PurgeTaskExits ImplementsTTLStore
\* The process exits once the store is dropped and the purge task is done.
CHECK_DEADLOCK FALSE
