-------------------------- MODULE AdmissionControl --------------------------
(***************************************************************************)
(* What start_server (src/server/mod.rs) promises about connection        *)
(* workers and the store, with the semaphore, the broadcast channel and   *)
(* the shutdown_complete channel hidden: at most MAX_CONNECTIONS workers  *)
(* run at once, none is admitted once shutdown has begun, and the store   *)
(* is dropped (its purge task shut down) once, after the last worker has  *)
(* ended.                                                                  *)
(***************************************************************************)
EXTENDS Naturals, FiniteSets

CONSTANTS
    Conns,           \* the sockets that may be accepted
    MaxConnections   \* MAX_CONNECTIONS

VARIABLES
    workers,    \* sockets with a running worker
    accepting,  \* the server still admits connections
    dropped     \* the store has been dropped

avars == <<workers, accepting, dropped>>

Init ==
    /\ workers = {}
    /\ accepting = TRUE
    /\ dropped = FALSE

\* a worker starts on a socket, while below the limit and not shutting down
Admit(c) ==
    /\ accepting
    /\ c \notin workers
    /\ Cardinality(workers) < MaxConnections
    /\ workers' = workers \cup {c}
    /\ UNCHANGED <<accepting, dropped>>

\* a worker ends, for whatever reason
Release(c) ==
    /\ c \in workers
    /\ workers' = workers \ {c}
    /\ UNCHANGED <<accepting, dropped>>

\* shutdown begins
Stop ==
    /\ accepting
    /\ accepting' = FALSE
    /\ UNCHANGED <<workers, dropped>>

\* the store is dropped, once, after shutdown began and every worker ended
Drop ==
    /\ ~accepting
    /\ workers = {}
    /\ ~dropped
    /\ dropped' = TRUE
    /\ UNCHANGED <<workers, accepting>>

Next ==
    \/ \E c \in Conns : Admit(c) \/ Release(c)
    \/ Stop
    \/ Drop

Spec == Init /\ [][Next]_avars

=============================================================================
