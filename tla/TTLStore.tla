------------------------------ MODULE TTLStore ------------------------------
(***************************************************************************)
(* What the in-memory store of src/server/key_value_store/mini_redis.rs    *)
(* promises its callers, with the lock, the expiration index, the ids and *)
(* the purge task hidden: a map from keys to a value and the instant it   *)
(* expires, where get reads the map, set stores a value that expires TTL  *)
(* after the call, and a key disappears only once its instant has passed. *)
(* An expired key may still be read until it is evicted, as the spec     *)
(* documents (sections 4.5.1 and 5).                                       *)
(***************************************************************************)
EXTENDS Naturals

CONSTANTS
    Keys,       \* keys
    Values,     \* values
    Clients,    \* callers of get
    TTL,        \* the expiry of every set
    NoEntry     \* the None of get

VARIABLES
    map,        \* key -> [data, expires_at], or NoEntry
    reads,      \* per caller: what its last get returned
    clock       \* Instant::now()

tvars == <<map, reads, clock>>

Init ==
    /\ map = [k \in Keys |-> NoEntry]
    /\ reads = [c \in Clients |-> NoEntry]
    /\ clock = 0

\* get: the value stored under k, or None
Read(c, k) ==
    /\ reads' = [reads EXCEPT ![c] = IF map[k] = NoEntry THEN NoEntry ELSE map[k].data]
    /\ UNCHANGED <<map, clock>>

\* set: the value replaces whatever k held, and expires TTL from now
Write(k, v) ==
    /\ map' = [map EXCEPT ![k] = [data |-> v, expires_at |-> clock + TTL]]
    /\ UNCHANGED <<reads, clock>>

\* Expired keys, any number of them at once, are removed.
Expired == {k \in Keys : map[k] # NoEntry /\ map[k].expires_at <= clock}

Evict(S) ==
    /\ S \subseteq Expired
    /\ map' = [k \in Keys |-> IF k \in S THEN NoEntry ELSE map[k]]
    /\ UNCHANGED <<reads, clock>>

\* time passes
Tick ==
    /\ clock' = clock + 1
    /\ UNCHANGED <<map, reads>>

Next ==
    \/ \E c \in Clients, k \in Keys : Read(c, k)
    \/ \E k \in Keys, v \in Values : Write(k, v)
    \/ \E S \in SUBSET Keys : Evict(S)
    \/ Tick

Spec == Init /\ [][Next]_tvars

=============================================================================
