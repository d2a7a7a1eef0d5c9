---------------------------- MODULE ServerProofs ----------------------------
(***************************************************************************)
(* Proofs that admission control and the shutdown drain of start_server   *)
(* are correct for every finite set of sockets and every number of        *)
(* permits: the permits of limit_connections are conserved by every way a *)
(* worker starts and ends, DropGuard drops the store only when no worker *)
(* is alive, and the server refines the abstract AdmissionControl.        *)
(***************************************************************************)
EXTENDS Server, FiniteSetTheorems, TLAPS

USE ServerAssumption

(* The inductive invariant: the type, permits conservation, and once the  *)
(* store is dropped start_server is done and no worker is alive.          *)
IInv ==
    /\ TypeOK
    /\ PermitsAccounted
    /\ store_dropped => phase = "done" /\ Live = {}

ConnStates == {"none", "reading", "applying", "closed"}

\* Live is a finite set of sockets, in every state and the next.
LEMMA LiveFinite ==
    /\ IsFiniteSet(Live) /\ Cardinality(Live) \in Nat
    /\ IsFiniteSet(Live') /\ Cardinality(Live') \in Nat
<1>1. Live \in SUBSET Conns /\ Live' \in SUBSET Conns
  BY DEF Live
<1>. QED  BY <1>1, FS_Subset, FS_CardinalityType

\* A worker spawned on socket c joins Live, which did not hold it.
LEMMA LiveAdd ==
    ASSUME NEW c \in Conns, conn[c] = "none",
           conn' = [conn EXCEPT ![c] = "reading"], conn \in [Conns -> ConnStates]
    PROVE  /\ Live' = Live \cup {c}
           /\ c \notin Live
  BY DEF Live

\* A worker of socket c that ends leaves Live, which held it.
LEMMA LiveRemove ==
    ASSUME NEW c \in Conns, conn[c] = "reading",
           conn' = [conn EXCEPT ![c] = "closed"], conn \in [Conns -> ConnStates]
    PROVE  /\ Live' = Live \ {c}
           /\ c \in Live
  BY DEF Live

\* A worker moving between reading and applying stays in Live.
LEMMA LiveSame ==
    ASSUME NEW c \in Conns, conn[c] \in {"reading", "applying"},
           NEW st \in {"reading", "applying"},
           conn' = [conn EXCEPT ![c] = st], conn \in [Conns -> ConnStates]
    PROVE  Live' = Live
  BY DEF Live

LEMMA InitIInv == Init => IInv
<1> SUFFICES ASSUME Init PROVE IInv  OBVIOUS
<1>1. Live = {}  BY DEF Init, Live
<1>2. TypeOK
  <2>1. notify_open \in BOOLEAN /\ listener_tx \in BOOLEAN /\ store_dropped \in BOOLEAN
    BY Zenon DEF Init
  <2>2. permits \in 0..MaxConnections
    BY DEF Init
  <2>3. conn \in [Conns -> {"none", "reading", "applying", "closed"}]
          /\ commands \in [Conns -> 0..MaxCommands]
    BY DEF Init
  <2>. QED  BY <2>1, <2>2, <2>3 DEF Init, TypeOK
<1>. QED  BY <1>1, <1>2, FS_EmptySet DEF IInv, PermitsAccounted, Init

LEMMA NextIInv == IInv /\ [Next]_vars => IInv'
<1> SUFFICES ASSUME IInv, [Next]_vars PROVE IInv'  OBVIOUS
<1>0. /\ IsFiniteSet(Live) /\ Cardinality(Live) \in Nat
      /\ IsFiniteSet(Live') /\ Cardinality(Live') \in Nat
  BY LiveFinite
<1>t. conn \in [Conns -> ConnStates]  BY DEF IInv, TypeOK, ConnStates
<1>1. ASSUME NEW c \in Conns, Accept(c) PROVE IInv'
  <2>1. Live' = Live \cup {c} /\ c \notin Live
    BY <1>1, <1>t, LiveAdd DEF Accept
  <2>2. Cardinality(Live') = Cardinality(Live) + 1
    BY <2>1, <1>0, FS_AddElement
  <2>3. TypeOK'
    BY <1>1 DEF IInv, TypeOK, Accept
  <2>4. PermitsAccounted'
    BY <1>1, <2>2, <1>0 DEF IInv, TypeOK, PermitsAccounted, Accept
  <2>5. ~store_dropped'
    BY <1>1 DEF IInv, Accept
  <2>. QED  BY <2>3, <2>4, <2>5 DEF IInv
<1>2. CASE StopServing
  <2>1. Live' = Live  BY <1>2 DEF StopServing, Live
  <2>2. TypeOK'  BY <1>2, Zenon DEF IInv, TypeOK, StopServing
  <2>3. ~store_dropped'  BY <1>2 DEF IInv, StopServing
  <2>. QED  BY <1>2, <2>1, <2>2, <2>3 DEF IInv, PermitsAccounted, StopServing
<1>3. ASSUME NEW c \in Conns, WorkerRead(c) \/ WorkerApply(c) PROVE IInv'
  <2>1. Live' = Live
    <3>1. CASE WorkerRead(c)  BY <3>1, <1>t, LiveSame DEF WorkerRead
    <3>2. CASE WorkerApply(c)  BY <3>2, <1>t, LiveSame DEF WorkerApply
    <3>. QED  BY <1>3, <3>1, <3>2
  <2>2. TypeOK'  BY <1>3 DEF IInv, TypeOK, WorkerRead, WorkerApply
  <2>3. UNCHANGED <<phase, permits, store_dropped>>  BY <1>3 DEF WorkerRead, WorkerApply
  <2>. QED  BY <2>1, <2>2, <2>3 DEF IInv, PermitsAccounted
<1>4. ASSUME NEW c \in Conns, WorkerEnd(c) \/ WorkerShutdown(c) PROVE IInv'
  <2>0. /\ conn[c] = "reading"
        /\ conn' = [conn EXCEPT ![c] = "closed"]
        /\ permits' = permits + 1
        /\ UNCHANGED <<phase, notify_open, listener_tx, commands, store_dropped>>
    BY <1>4 DEF WorkerEnd, WorkerShutdown, Exit
  <2>1. Live' = Live \ {c} /\ c \in Live
    BY <2>0, <1>t, LiveRemove
  <2>2. Cardinality(Live') = Cardinality(Live) - 1
    BY <2>1, <1>0, FS_RemoveElement
  <2>3. Cardinality(Live) >= 1
    BY <2>2, <1>0
  <2>4. permits' \in 0..MaxConnections
    BY <2>0, <2>3, <1>0 DEF IInv, PermitsAccounted, TypeOK
  <2>5. TypeOK'
    BY <2>0, <2>4 DEF IInv, TypeOK
  <2>6. PermitsAccounted'
    BY <2>0, <2>2, <1>0 DEF IInv, TypeOK, PermitsAccounted
  <2>7. ~store_dropped'
    BY <2>0, <2>1 DEF IInv
  <2>. QED  BY <2>5, <2>6, <2>7 DEF IInv
<1>5. CASE Drain
  <2>1. Live' = Live /\ Live = {}  BY <1>5 DEF Drain, Live
  <2>2. TypeOK'  BY <1>5, Zenon DEF IInv, TypeOK, Drain
  <2>. QED  BY <1>5, <2>1, <2>2 DEF IInv, PermitsAccounted, Drain
<1>6. CASE UNCHANGED vars
  <2>1. Live' = Live  BY <1>6 DEF vars, Live
  <2>. QED  BY <1>6, <2>1 DEF vars, IInv, TypeOK, PermitsAccounted
<1>. QED  BY <1>1, <1>2, <1>3, <1>4, <1>5, <1>6 DEF Next

\* Every reachable state has the permits of limit_connections conserved:
\* each live worker holds exactly one permit, for every finite set of
\* sockets and every MAX_CONNECTIONS (Accept, WorkerEnd, WorkerShutdown).
THEOREM PermitsConserved == Spec => []PermitsAccounted
<1>1. IInv => PermitsAccounted  BY DEF IInv
<1>. QED  BY InitIInv, NextIInv, <1>1, PTL DEF Spec

\* Every variable of the server keeps the type its Rust counterpart has:
\* the semaphore's permit count stays a natural number no larger than
\* MAX_CONNECTIONS through every accept, worker exit and drain.
THEOREM ServerTypeCorrect == Spec => []TypeOK
<1>1. IInv => TypeOK  BY DEF IInv
<1>. QED  BY InitIInv, NextIInv, <1>1, PTL DEF Spec

\* DropGuard::drop runs shutdown_purge_task only when the drain has
\* finished: no worker is reading or applying a command to the store then.
THEOREM StoreDroppedAfterDrain == Spec => []StoreNotUsedAfterDrop
<1>1. IInv => StoreNotUsedAfterDrop
  BY DEF IInv, StoreNotUsedAfterDrop, Live, TypeOK
<1>. QED  BY InitIInv, NextIInv, <1>1, PTL DEF Spec


-----------------------------------------------------------------------------
(* Refinement of AdmissionControl.  Under the mapping workers <- Live,     *)
(* accepting <- (phase = "serving"), dropped <- store_dropped, an accept   *)
(* is an Admit, a worker's end a Release, StopServing a Stop, Drain a Drop *)
(* and a worker's read or apply a stutter.  The limit of Admit comes from  *)
(* PermitsAccounted (a permit is free, so fewer than MAX_CONNECTIONS       *)
(* workers are live), and Drop's ~dropped from the third conjunct of IInv. *)

LEMMA InitRefines == Init => Admission!Init
BY DEF Init, Admission!Init, Live

\* An accept is an Admit: a free permit means fewer than MAX_CONNECTIONS
\* live workers.
LEMMA AcceptRefines ==
    ASSUME IInv, NEW c \in Conns, Accept(c)
    PROVE  Admission!Admit(c)
<1>1. Live' = Live \cup {c} /\ c \notin Live
  BY LiveAdd DEF Accept, IInv, TypeOK, ConnStates
<1>2. Cardinality(Live) < MaxConnections
  BY LiveFinite DEF Accept, IInv, TypeOK, PermitsAccounted
<1>3. phase = "serving" /\ UNCHANGED <<phase, store_dropped>>
  BY DEF Accept
<1>4. Admission!Cardinality(Live) = Cardinality(Live)
  BY DEF Admission!Cardinality, Cardinality
<1>. QED  BY <1>1, <1>2, <1>3, <1>4 DEF Admission!Admit

\* A worker that ends, on EOF, error or shutdown, is a Release.
LEMMA ExitRefines ==
    ASSUME IInv, NEW c \in Conns, WorkerEnd(c) \/ WorkerShutdown(c)
    PROVE  Admission!Release(c)
<1>1. /\ conn[c] = "reading"
      /\ conn' = [conn EXCEPT ![c] = "closed"]
      /\ UNCHANGED <<phase, store_dropped>>
  BY DEF WorkerEnd, WorkerShutdown, Exit
<1>2. Live' = Live \ {c} /\ c \in Live
  BY <1>1, LiveRemove DEF IInv, TypeOK, ConnStates
<1>. QED  BY <1>1, <1>2 DEF Admission!Release

\* Drain is the Drop: shutdown began, no worker is live, and the store was
\* not dropped before (a dropped store means start_server is done).
LEMMA DrainRefines ==
    ASSUME IInv, Drain
    PROVE  Admission!Drop
<1>1. phase = "draining" /\ phase' = "done" /\ Live = {} /\ Live' = Live
  BY DEF Drain, Live
<1>2. ~store_dropped /\ store_dropped'
  BY <1>1 DEF IInv, Drain
<1>. QED  BY <1>1, <1>2 DEF Admission!Drop

LEMMA NextRefines == IInv /\ [Next]_vars => [Admission!Next]_Admission!avars
<1> SUFFICES ASSUME IInv, [Next]_vars PROVE [Admission!Next]_Admission!avars
  OBVIOUS
<1>1. ASSUME NEW c \in Conns, Accept(c) PROVE Admission!Next
  BY <1>1, AcceptRefines DEF Admission!Next
<1>2. CASE StopServing
  <2>1. Live' = Live  BY <1>2 DEF StopServing, Live
  <2>. QED  BY <1>2, <2>1 DEF StopServing, Admission!Next, Admission!Stop
<1>3. ASSUME NEW c \in Conns, WorkerRead(c) \/ WorkerApply(c)
      PROVE  UNCHANGED Admission!avars
  <2>1. Live' = Live
    <3>1. CASE WorkerRead(c)  BY <3>1, LiveSame DEF WorkerRead, IInv, TypeOK, ConnStates
    <3>2. CASE WorkerApply(c)  BY <3>2, LiveSame DEF WorkerApply, IInv, TypeOK, ConnStates
    <3>. QED  BY <1>3, <3>1, <3>2
  <2>. QED  BY <1>3, <2>1 DEF WorkerRead, WorkerApply, Admission!avars
<1>4. ASSUME NEW c \in Conns, WorkerEnd(c) \/ WorkerShutdown(c) PROVE Admission!Next
  BY <1>4, ExitRefines DEF Admission!Next
<1>5. CASE Drain
  BY <1>5, DrainRefines DEF Admission!Next
<1>6. CASE UNCHANGED vars
  BY <1>6 DEF vars, Admission!avars, Live
<1>. QED  BY <1>1, <1>2, <1>3, <1>4, <1>5, <1>6 DEF Next

\* start_server implements AdmissionControl, for every finite set of
\* sockets and every MAX_CONNECTIONS: never more than MAX_CONNECTIONS live
\* workers, none admitted after shutdown began, and the store dropped once,
\* after the last worker ended.
THEOREM ImplementsAdmissionControlHolds == Spec => ImplementsAdmissionControl
<1>1. Spec => []IInv  BY InitIInv, NextIInv, PTL DEF Spec
<1>. QED
  BY <1>1, InitRefines, NextRefines, PTL DEF Spec, ImplementsAdmissionControl, Admission!Spec

=============================================================================
