\* Three sockets competing for two permits, two frames per connection:
\* admission control, the drain before the store is dropped, and that
\* shutdown completes under the scheduling the runtime guarantees.
\* (No symmetry: the run checks a liveness property.)
CONSTANTS
    s1 = s1  s2 = s2  s3 = s3
    Conns <- MCConns
    MaxConnections = 2
    MaxCommands = 2
SPECIFICATION FairSpec
INVARIANT TypeOK PermitsAccounted StoreNotUsedAfterDrop
PROPERTY ShutdownCompletes ImplementsAdmissionControl
\* start_server returns after the drain; nothing is left to run.
CHECK_DEADLOCK FALSE
