------------------------------- MODULE Server -------------------------------
(***************************************************************************)
(* The server's connection lifecycle and shutdown protocol: start_server  *)
(* (src/server/mod.rs), Shutdown (src/server/shutdown.rs) and DropGuard    *)
(* (src/server/drop_guard.rs), with the accept loop and the connection     *)
(* worker (listener.rs and handler.rs, which are not in the source tree)   *)
(* taken from spec sections 4.6 and 5.                                    *)
(*                                                                         *)
(* The listener takes a permit of the admission semaphore for each         *)
(* accepted socket and spawns a worker holding a broadcast subscription    *)
(* and a clone of the shutdown_complete sender.  On Ctrl-C (or when the    *)
(* accept loop fails) start_server drops the broadcast sender and its own  *)
(* shutdown_complete sender, awaits the receiver until every worker's      *)
(* sender is dropped, and then drops the DropGuard, whose drop runs the    *)
(* store's shutdown_purge_task.                                            *)
(***************************************************************************)
EXTENDS Naturals, FiniteSets

CONSTANTS
    Conns,           \* the sockets that may be accepted
    MaxConnections,  \* permits of the admission semaphore (MAX_CONNECTIONS)
    MaxCommands      \* bound on the frames a client sends on one connection

ASSUME ServerAssumption ==
    /\ IsFiniteSet(Conns)
    /\ MaxConnections \in Nat \ {0}
    /\ MaxCommands \in Nat

VARIABLES
    phase,          \* start_server: "serving", "draining" or "done"
    notify_open,    \* the broadcast sender notify_shutdown is alive
    listener_tx,    \* the listener's own shutdown_complete sender is alive
    permits,        \* available permits of limit_connections
    conn,           \* worker of each socket: "none", "reading", "applying", "closed"
    commands,       \* frames read on each connection
    store_dropped   \* DropGuard::drop has run shutdown_purge_task

vars == <<phase, notify_open, listener_tx, permits, conn, commands,
          store_dropped>>

\* workers alive: each holds a permit and a shutdown_complete sender
Live == {c \in Conns : conn[c] \in {"reading", "applying"}}

\* a worker task ends: its permit and its sender are dropped with it
Exit(c) ==
    /\ conn' = [conn EXCEPT ![c] = "closed"]
    /\ permits' = permits + 1

Init ==
    /\ phase = "serving"
    /\ notify_open = TRUE
    /\ listener_tx = TRUE
    /\ permits = MaxConnections
    /\ conn = [c \in Conns |-> "none"]
    /\ commands = [c \in Conns |-> 0]
    /\ store_dropped = FALSE

\* Mutant of Accept: spawns without waiting for a permit
AcceptNoPermit(c) ==
    /\ phase = "serving"
    /\ conn[c] = "none"
    /\ permits' = permits - 1
    /\ conn' = [conn EXCEPT ![c] = "reading"]
    /\ UNCHANGED <<phase, notify_open, listener_tx, commands, store_dropped>>

\* Mutant of Accept: the accept loop keeps running after shutdown began
\* (not dropped by the select! of start_server)
AcceptWhileDraining(c) ==
    /\ phase \in {"serving", "draining"}
    /\ conn[c] = "none"
    /\ permits > 0
    /\ permits' = permits - 1
    /\ conn' = [conn EXCEPT ![c] = "reading"]
    /\ UNCHANGED <<phase, notify_open, listener_tx, commands, store_dropped>>

\* accept loop: acquire a permit, accept the socket, spawn the worker with
\* notify_shutdown.subscribe() and shutdown_complete_tx.clone()
Accept(c) ==
    /\ phase = "serving"
    /\ conn[c] = "none"
    /\ permits > 0
    /\ permits' = permits - 1
    /\ conn' = [conn EXCEPT ![c] = "reading"]
    /\ UNCHANGED <<phase, notify_open, listener_tx, commands, store_dropped>>

\* Mutant of StopServing: notify_shutdown is never dropped explicitly
StopServingKeepsNotify ==
    /\ phase = "serving"
    /\ phase' = "draining"
    /\ listener_tx' = FALSE
    /\ UNCHANGED <<notify_open, permits, conn, commands, store_dropped>>

\* the select! of start_server completes (Ctrl-C, or server.run returned an
\* error): the accept loop is dropped, then notify_shutdown and the
\* listener's shutdown_complete_tx are dropped
StopServing ==
    /\ phase = "serving"
    /\ phase' = "draining"
    /\ notify_open' = FALSE
    /\ listener_tx' = FALSE
    /\ UNCHANGED <<permits, conn, commands, store_dropped>>

\* the worker's read_frame wins its select!: a frame arrived
WorkerRead(c) ==
    /\ conn[c] = "reading"
    /\ commands[c] < MaxCommands
    /\ conn' = [conn EXCEPT ![c] = "applying"]
    /\ commands' = [commands EXCEPT ![c] = commands[c] + 1]
    /\ UNCHANGED <<phase, notify_open, listener_tx, permits, store_dropped>>

\* the command is applied to the store and its reply written; the worker
\* loops back to its next read
WorkerApply(c) ==
    /\ conn[c] = "applying"
    /\ conn' = [conn EXCEPT ![c] = "reading"]
    /\ UNCHANGED <<phase, notify_open, listener_tx, permits, commands,
                   store_dropped>>

\* the read_frame returned None (clean EOF) or an error: the worker returns
WorkerEnd(c) ==
    /\ conn[c] = "reading"
    /\ Exit(c)
    /\ UNCHANGED <<phase, notify_open, listener_tx, commands, store_dropped>>

\* Mutant of WorkerShutdown: the permit is leaked on the shutdown path
WorkerShutdownKeepsPermit(c) ==
    /\ conn[c] = "reading"
    /\ ~notify_open
    /\ conn' = [conn EXCEPT ![c] = "closed"]
    /\ UNCHANGED <<phase, notify_open, listener_tx, permits, commands,
                   store_dropped>>

\* Shutdown::recv wins the select!: notify.recv() returns once the sender
\* is dropped, shutdown is set and the worker returns
WorkerShutdown(c) ==
    /\ conn[c] = "reading"
    /\ ~notify_open
    /\ Exit(c)
    /\ UNCHANGED <<phase, notify_open, listener_tx, commands, store_dropped>>

\* Mutant of Drain: the store is dropped without awaiting the workers
DrainEarly ==
    /\ phase = "draining"
    /\ ~listener_tx
    /\ phase' = "done"
    /\ store_dropped' = TRUE
    /\ UNCHANGED <<notify_open, listener_tx, permits, conn, commands>>

\* shutdown_complete_rx.recv() returns None when no sender is left; then
\* start_server returns and the DropGuard it still owns is dropped
Drain ==
    /\ phase = "draining"
    /\ ~listener_tx
    /\ Live = {}
    /\ phase' = "done"
    /\ store_dropped' = TRUE
    /\ UNCHANGED <<notify_open, listener_tx, permits, conn, commands>>

Next ==
    \/ \E c \in Conns : Accept(c)
    \/ StopServing
    \/ \E c \in Conns : WorkerRead(c) \/ WorkerApply(c) \/ WorkerEnd(c)
                        \/ WorkerShutdown(c)
    \/ Drain

Spec == Init /\ [][Next]_vars

\* The runtime drives every task that can make progress (weak fairness on
\* the server's own steps).  A worker's select! polls its branches in
\* random order, so a shutdown that stays ready is taken eventually even
\* if a client keeps sending frames (strong fairness on WorkerShutdown).
\* Clients, Ctrl-C and accept are the environment and get no fairness.
Fairness ==
    /\ \A c \in Conns : WF_vars(WorkerApply(c)) /\ SF_vars(WorkerShutdown(c))
    /\ WF_vars(Drain)

FairSpec == Spec /\ Fairness

-----------------------------------------------------------------------------
(* Properties.                                                             *)

\* Every variable has the shape the code gives it.
TypeOK ==
    /\ phase \in {"serving", "draining", "done"}
    /\ notify_open \in BOOLEAN /\ listener_tx \in BOOLEAN
    /\ permits \in 0..MaxConnections
    /\ conn \in [Conns -> {"none", "reading", "applying", "closed"}]
    /\ commands \in [Conns -> 0..MaxCommands]
    /\ store_dropped \in BOOLEAN

\* Admission control: every live worker holds exactly one permit, and every
\* way a worker ends gives it back (the permit moves into the spawned task
\* and is released when the task drops).
PermitsAccounted == permits + Cardinality(Live) = MaxConnections

\* The store's shutdown hook runs only after the drain: once DropGuard has
\* dropped, no worker is alive to apply a command to the store, and none
\* will be spawned.  MiniRedis relies on this (its get and set are modelled
\* only while the store is not dropped).
StoreNotUsedAfterDrop ==
    store_dropped => \A c \in Conns : conn[c] \in {"none", "closed"}

\* Spec section 8: once shutdown starts, start_server finishes draining
\* and drops the store, however many connections are open.
ShutdownCompletes == phase = "draining" ~> phase = "done"


\* The server implements AdmissionControl: seen through the set of live
\* workers, whether start_server still serves, and whether the DropGuard
\* has dropped the store, no more than MAX_CONNECTIONS workers run at
\* once, none is admitted after the select! of start_server completed, and
\* the store is dropped once, after the last worker ended.
Admission == INSTANCE AdmissionControl
                 WITH workers <- Live, accepting <- (phase = "serving"),
                      dropped <- store_dropped

ImplementsAdmissionControl == Admission!Spec

=============================================================================
