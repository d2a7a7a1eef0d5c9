----------------------------- MODULE MiniRedis -----------------------------
(***************************************************************************)
(* The in-memory TTL store of raphdb (src/server/key_value_store/         *)
(* mini_redis.rs): a key/value map and an ordered expiration index behind *)
(* one std Mutex, shared by the connection workers that call get and set, *)
(* and a background purge task that removes expired keys and sleeps until  *)
(* the next expiry or until it is notified through a tokio Notify.        *)
(*                                                                         *)
(* Each critical section of the code is one atomic action; what the code  *)
(* does after dropping the lock (the notify_one calls) is a step of its   *)
(* own, so that the purge task can run in between.  Time is an integer    *)
(* clock `now` (Instant::now()) that the environment advances.            *)
(***************************************************************************)
EXTENDS Naturals, FiniteSets

CONSTANTS
    Keys,       \* the keys clients use
    Values,     \* the payloads clients store
    Clients,    \* the connection workers holding a handle to the store
    TTL,        \* the fixed expiry Duration of every set (100 000 ms)
    MaxTime,    \* bound on the clock, for model checking
    MaxSets,    \* bound on the number of set calls (on next_id)
    NoEntry     \* the None of HashMap::get

ASSUME ConstantsAssumption ==
    /\ TTL \in Nat \ {0}
    /\ MaxTime \in Nat
    /\ MaxSets \in Nat
    /\ NoEntry \notin Values

VARIABLES
    entries,          \* State.entries: key -> Entry, or NoEntry
    expirations,      \* State.expirations: the (when, id) -> key map as a set of triples
    next_id,          \* State.next_id
    shutdown,         \* State.shutdown
    background_task,  \* the permit stored in the Notify `background_task`
    purge_pc,         \* where the purge task is in purge_expired_tasks
    wake_at,          \* the `when` the purge task sleeps until
    client_pc,        \* per client: "idle", or "notify" between unlock and notify_one
    drop_pc,          \* the DropGuard: "running", "notify", "dropped"
    last_get,         \* per client: the value its last get returned
    now               \* Instant::now()

vars == <<entries, expirations, next_id, shutdown, background_task, purge_pc,
          wake_at, client_pc, drop_pc, last_get, now>>

Entry == [id : Nat, data : Values, expires_at : Nat]
Expiration == [when : Nat, id : Nat, key : Keys]
PurgePcs == {"loop", "purge", "sleep", "wait", "done"}

\* None is distinct from every Some(Entry).
ASSUME NoEntryAssumption == NoEntry \notin Entry

----------------------------------------------------------------------------
(* Helpers on the expiration index (a BTreeMap keyed by (when, id)).      *)

\* BTreeMap::remove(&(when, id))
RemoveExpiration(exps, when, id) ==
    {t \in exps : ~(t.when = when /\ t.id = id)}

\* BTreeMap::insert((when, id), key): replaces an equal (when, id) key
InsertExpiration(exps, when, id, key) ==
    RemoveExpiration(exps, when, id) \cup {[when |-> when, id |-> id, key |-> key]}

\* The `when` of the first key of the map (State::next_expiration)
NextExpiration(exps) ==
    CHOOSE w \in {t.when : t \in exps} : \A t \in exps : w <= t.when

----------------------------------------------------------------------------

Init ==
    /\ entries = [k \in Keys |-> NoEntry]
    /\ expirations = {}
    /\ next_id = 0
    /\ shutdown = FALSE
    /\ background_task = FALSE
    /\ purge_pc = "loop"
    /\ wake_at = 0
    /\ client_pc = [c \in Clients |-> "idle"]
    /\ drop_pc = "running"
    /\ last_get = [c \in Clients |-> NoEntry]
    /\ now = 0

(* get: under the lock, clone the entry's data if the key is present.     *)
(* An expired entry that the purge task has not removed yet is returned.  *)
\* Mutant of Get: hands back the whole entry instead of a clone of its data
GetWholeEntry(c, k) ==
    /\ drop_pc = "running"
    /\ client_pc[c] = "idle"
    /\ last_get' = [last_get EXCEPT ![c] = entries[k]]
    /\ UNCHANGED <<entries, expirations, next_id, shutdown, background_task,
                   purge_pc, wake_at, client_pc, drop_pc, now>>

Get(c, k) ==
    /\ drop_pc = "running"
    /\ client_pc[c] = "idle"
    /\ last_get' = [last_get EXCEPT ![c] =
                      IF entries[k] = NoEntry THEN NoEntry ELSE entries[k].data]
    /\ UNCHANGED <<entries, expirations, next_id, shutdown, background_task,
                   purge_pc, wake_at, client_pc, drop_pc, now>>

(* Mutants of Set, for checking that the properties can fail.            *)
\* the replaced entry's expiration is not removed
SetKeepsOldExpiration(c, k, v) ==
    /\ drop_pc = "running"
    /\ client_pc[c] = "idle"
    /\ next_id < MaxSets
    /\ LET id     == next_id
           when   == now + TTL
           notify == expirations = {} \/ NextExpiration(expirations) > when
       IN /\ next_id' = next_id + 1
          /\ entries' = [entries EXCEPT ![k] = [id |-> id, data |-> v, expires_at |-> when]]
          /\ expirations' = InsertExpiration(expirations, when, id, k)
          /\ client_pc' = [client_pc EXCEPT ![c] = IF notify THEN "notify" ELSE "idle"]
    /\ UNCHANGED <<shutdown, background_task, purge_pc, wake_at, drop_pc, last_get, now>>

\* next_expiration().map(..).unwrap_or(false): no notify into an empty index
SetNoNotifyWhenEmpty(c, k, v) ==
    /\ drop_pc = "running"
    /\ client_pc[c] = "idle"
    /\ next_id < MaxSets
    /\ LET id     == next_id
           when   == now + TTL
           notify == expirations # {} /\ NextExpiration(expirations) > when
           prev   == entries[k]
           added  == InsertExpiration(expirations, when, id, k)
       IN /\ next_id' = next_id + 1
          /\ entries' = [entries EXCEPT ![k] = [id |-> id, data |-> v, expires_at |-> when]]
          /\ expirations' = IF prev = NoEntry THEN added
                            ELSE RemoveExpiration(added, prev.expires_at, prev.id)
          /\ client_pc' = [client_pc EXCEPT ![c] = IF notify THEN "notify" ELSE "idle"]
    /\ UNCHANGED <<shutdown, background_task, purge_pc, wake_at, drop_pc, last_get, now>>

\* the expiry is one tick short of Instant::now() + TTL (a Duration unit slip)
SetShortExpiry(c, k, v) ==
    /\ drop_pc = "running"
    /\ client_pc[c] = "idle"
    /\ next_id < MaxSets
    /\ LET id     == next_id
           when   == now + TTL - 1
           notify == expirations = {} \/ NextExpiration(expirations) > when
           prev   == entries[k]
           added  == InsertExpiration(expirations, when, id, k)
       IN /\ next_id' = next_id + 1
          /\ entries' = [entries EXCEPT ![k] = [id |-> id, data |-> v, expires_at |-> when]]
          /\ expirations' = IF prev = NoEntry THEN added
                            ELSE RemoveExpiration(added, prev.expires_at, prev.id)
          /\ client_pc' = [client_pc EXCEPT ![c] = IF notify THEN "notify" ELSE "idle"]
    /\ UNCHANGED <<shutdown, background_task, purge_pc, wake_at, drop_pc, last_get, now>>

(* set, the critical section: take an id, compute notify against the      *)
(* earliest expiration before inserting, insert the new expiration and    *)
(* entry, remove the replaced entry's expiration, drop the lock.          *)
Set(c, k, v) ==
    /\ drop_pc = "running"
    /\ client_pc[c] = "idle"
    /\ next_id < MaxSets
    /\ LET id     == next_id
           when   == now + TTL
           notify == expirations = {} \/ NextExpiration(expirations) > when
           prev   == entries[k]
           added  == InsertExpiration(expirations, when, id, k)
       IN /\ next_id' = next_id + 1
          /\ entries' = [entries EXCEPT ![k] = [id |-> id, data |-> v, expires_at |-> when]]
          /\ expirations' = IF prev = NoEntry THEN added
                            ELSE RemoveExpiration(added, prev.expires_at, prev.id)
          /\ client_pc' = [client_pc EXCEPT ![c] = IF notify THEN "notify" ELSE "idle"]
    /\ UNCHANGED <<shutdown, background_task, purge_pc, wake_at, drop_pc, last_get, now>>

(* set, after the lock is dropped: background_task.notify_one().          *)
SetNotify(c) ==
    /\ client_pc[c] = "notify"
    /\ background_task' = TRUE
    /\ client_pc' = [client_pc EXCEPT ![c] = "idle"]
    /\ UNCHANGED <<entries, expirations, next_id, shutdown, purge_pc, wake_at,
                   drop_pc, last_get, now>>

(* shutdown_purge_task, run by DropGuard::drop once start_server has seen *)
(* every connection worker finish: set the flag under the lock.           *)
ShutdownPurgeTask ==
    /\ drop_pc = "running"
    /\ \A c \in Clients : client_pc[c] = "idle"
    /\ shutdown' = TRUE
    /\ drop_pc' = "notify"
    /\ UNCHANGED <<entries, expirations, next_id, background_task, purge_pc,
                   wake_at, client_pc, last_get, now>>

\* Mutant: the notify_one after setting the flag is left out
ShutdownNoNotify ==
    /\ drop_pc = "notify"
    /\ drop_pc' = "dropped"
    /\ UNCHANGED <<entries, expirations, next_id, shutdown, background_task, purge_pc,
                   wake_at, client_pc, last_get, now>>

(* shutdown_purge_task, after the lock is dropped: notify_one().          *)
ShutdownNotify ==
    /\ drop_pc = "notify"
    /\ background_task' = TRUE
    /\ drop_pc' = "dropped"
    /\ UNCHANGED <<entries, expirations, next_id, shutdown, purge_pc, wake_at,
                   client_pc, last_get, now>>

----------------------------------------------------------------------------
(* The purge task, purge_expired_tasks.                                   *)

(* while !shared.is_shutdown(): reads the flag under the lock.            *)
PurgeLoop ==
    /\ purge_pc = "loop"
    /\ purge_pc' = IF shutdown THEN "done" ELSE "purge"
    /\ UNCHANGED <<entries, expirations, next_id, shutdown, background_task,
                   wake_at, client_pc, drop_pc, last_get, now>>

(* Mutants of PurgeExpiredKeys.                                          *)
\* the loop removes the first expiration before comparing it with now
PurgeRemovesBeforeCheck ==
    /\ purge_pc = "purge"
    /\ IF shutdown
         THEN /\ purge_pc' = "wait"
              /\ UNCHANGED <<entries, expirations, wake_at>>
         ELSE LET due     == {t \in expirations : t.when <= now}
                  later   == expirations \ due
                  first   == IF later = {} THEN {}
                             ELSE {CHOOSE t \in later : \A u \in later :
                                     t.when < u.when \/ (t.when = u.when /\ t.id <= u.id)}
                  expired == due \cup first
                  rest    == expirations \ expired
              IN /\ entries' = [k \in Keys |->
                                  IF \E t \in expired : t.key = k THEN NoEntry
                                  ELSE entries[k]]
                 /\ expirations' = rest
                 /\ IF rest = {}
                      THEN /\ purge_pc' = "wait"
                           /\ UNCHANGED wake_at
                      ELSE /\ purge_pc' = "sleep"
                           /\ wake_at' = NextExpiration(rest)
    /\ UNCHANGED <<next_id, shutdown, background_task, client_pc, drop_pc,
                   last_get, now>>

\* off by one: an expiration is purged only once strictly in the past
PurgeStrictlyPast ==
    /\ purge_pc = "purge"
    /\ IF shutdown
         THEN /\ purge_pc' = "wait"
              /\ UNCHANGED <<entries, expirations, wake_at>>
         ELSE LET expired == {t \in expirations : t.when < now}
                  rest    == expirations \ expired
              IN /\ entries' = [k \in Keys |->
                                  IF \E t \in expired : t.key = k THEN NoEntry
                                  ELSE entries[k]]
                 /\ expirations' = rest
                 /\ IF rest = {}
                      THEN /\ purge_pc' = "wait"
                           /\ UNCHANGED wake_at
                      ELSE /\ purge_pc' = "sleep"
                           /\ wake_at' = NextExpiration(rest)
    /\ UNCHANGED <<next_id, shutdown, background_task, client_pc, drop_pc,
                   last_get, now>>

(* purge_expired_keys: under the lock, return None when shutting down;    *)
(* otherwise remove every expiration with when <= now together with its   *)
(* key's entry, and return the first remaining `when`.  The task then     *)
(* sleeps until that instant, or waits for a notification on None.        *)
PurgeExpiredKeys ==
    /\ purge_pc = "purge"
    /\ IF shutdown
         THEN /\ purge_pc' = "wait"
              /\ UNCHANGED <<entries, expirations, wake_at>>
         ELSE LET expired == {t \in expirations : t.when <= now}
                  rest    == expirations \ expired
              IN /\ entries' = [k \in Keys |->
                                  IF \E t \in expired : t.key = k THEN NoEntry
                                  ELSE entries[k]]
                 /\ expirations' = rest
                 /\ IF rest = {}
                      THEN /\ purge_pc' = "wait"
                           /\ UNCHANGED wake_at
                      ELSE /\ purge_pc' = "sleep"
                           /\ wake_at' = NextExpiration(rest)
    /\ UNCHANGED <<next_id, shutdown, background_task, client_pc, drop_pc,
                   last_get, now>>

(* select!: time::sleep_until(when) completes.                            *)
PurgeSleepElapsed ==
    /\ purge_pc = "sleep"
    /\ now >= wake_at
    /\ purge_pc' = "loop"
    /\ UNCHANGED <<entries, expirations, next_id, shutdown, background_task,
                   wake_at, client_pc, drop_pc, last_get, now>>

(* background_task.notified() completes, in the select! or in the plain  *)
(* await: it consumes the stored permit.                                  *)
PurgeNotified ==
    /\ purge_pc \in {"sleep", "wait"}
    /\ background_task
    /\ background_task' = FALSE
    /\ purge_pc' = "loop"
    /\ UNCHANGED <<entries, expirations, next_id, shutdown, wake_at, client_pc,
                   drop_pc, last_get, now>>

(* The clock advances.                                                    *)
Tick ==
    /\ now < MaxTime
    /\ now' = now + 1
    /\ UNCHANGED <<entries, expirations, next_id, shutdown, background_task,
                   purge_pc, wake_at, client_pc, drop_pc, last_get>>

----------------------------------------------------------------------------

PurgeTask == PurgeLoop \/ PurgeExpiredKeys \/ PurgeSleepElapsed \/ PurgeNotified

Next ==
    \/ \E c \in Clients, k \in Keys : Get(c, k)
    \/ \E c \in Clients, k \in Keys, v \in Values : Set(c, k, v)
    \/ \E c \in Clients : SetNotify(c)
    \/ ShutdownPurgeTask
    \/ ShutdownNotify
    \/ PurgeTask
    \/ Tick

Spec == Init /\ [][Next]_vars

(* The tokio scheduler runs a task that is ready, and a set call, once it *)
(* has dropped the lock, runs to its notify_one without suspending.       *)
(* Clients and the clock get no fairness: they may stop at any time.      *)
Fairness ==
    /\ WF_vars(PurgeLoop)
    /\ WF_vars(PurgeExpiredKeys)
    /\ WF_vars(PurgeSleepElapsed)
    /\ WF_vars(PurgeNotified)
    /\ \A c \in Clients : WF_vars(SetNotify(c))
    /\ WF_vars(ShutdownNotify)

FairSpec == Spec /\ Fairness

----------------------------------------------------------------------------
(* Properties.                                                            *)

TypeOK ==
    /\ entries \in [Keys -> Entry \cup {NoEntry}]
    /\ expirations \in SUBSET Expiration
    /\ next_id \in Nat
    /\ shutdown \in BOOLEAN
    /\ background_task \in BOOLEAN
    /\ purge_pc \in PurgePcs
    /\ wake_at \in Nat
    /\ client_pc \in [Clients -> {"idle", "notify"}]
    /\ drop_pc \in {"running", "notify", "dropped"}
    /\ last_get \in [Clients -> Values \cup {NoEntry}]
    /\ now \in Nat

(* The invariant the spec states of State (section 3): every present key  *)
(* has its (expires_at, id) -> key tuple in `expirations`, and every       *)
(* tuple there belongs to the current entry of its key.  A replaced or     *)
(* reused tuple would make the purge task delete a live key or leak one.  *)
ExpirationIndexConsistent ==
    /\ \A k \in Keys : entries[k] # NoEntry =>
          [when |-> entries[k].expires_at, id |-> entries[k].id, key |-> k] \in expirations
    /\ \A t \in expirations :
          /\ entries[t.key] # NoEntry
          /\ entries[t.key].id = t.id
          /\ entries[t.key].expires_at = t.when

(* The purge task never removes an entry before it expires: any step that *)
(* makes a present key absent happens at or after its expires_at.         *)
EvictsOnlyExpired ==
    \A k \in Keys :
        entries[k] # NoEntry /\ entries'[k] = NoEntry => entries[k].expires_at <= now

NoEarlyEviction == [][EvictsOnlyExpired]_vars

(* No lost wakeup: while the purge task waits for a notification, either  *)
(* nothing is left to expire, or a notification is stored or about to be  *)
(* sent; while it sleeps, it sleeps until no later than the earliest       *)
(* expiration.  Breaking it needs the task's purge and a set's notify     *)
(* decision to interleave.                                                 *)
NoLostWakeup ==
    /\ purge_pc = "wait" /\ ~shutdown =>
          \/ expirations = {}
          \/ background_task
          \/ \E c \in Clients : client_pc[c] = "notify"
    /\ purge_pc = "sleep" /\ ~background_task =>
          \A t \in expirations : wake_at <= t.when

(* A key set with a TTL is eventually removed once expired (spec, section *)
(* 8), unless the store is shut down first.                               *)
HasEntry(k, i) == entries[k] # NoEntry /\ entries[k].id = i

ExpiredEventuallyPurged ==
    \A k \in Keys, i \in 0..MaxSets :
        (HasEntry(k, i) /\ entries[k].expires_at <= now) ~> (~HasEntry(k, i) \/ shutdown)

(* Dropping the store ends the purge task (spec 4.5: dropping the last    *)
(* handle terminates background workers).                                 *)
PurgeTaskExits == shutdown ~> (purge_pc = "done")


(* The store implements TTLStore: with the ids, the expiration index, the *)
(* lock and the purge task hidden, get reads the map, set stores a value  *)
(* expiring TTL from now, and the purge task only ever removes keys whose *)
(* instant has passed.                                                     *)
\* get's Some(data) and the abstract map's (data, expires_at) pairs are not None.
ASSUME StoredValueAssumption == NoEntry \notin [data : Values, expires_at : Nat]

AbstractEntry(e) == IF e = NoEntry THEN NoEntry
                    ELSE [data |-> e.data, expires_at |-> e.expires_at]

StoreMap == [k \in Keys |-> AbstractEntry(entries[k])]

Promised == INSTANCE TTLStore WITH map <- StoreMap, reads <- last_get, clock <- now

ImplementsTTLStore == Promised!Spec

=============================================================================
