-------------------------- MODULE MiniRedisProofs --------------------------
(***************************************************************************)
(* Proofs about the in-memory TTL store, for every set of keys, values and *)
(* clients and every TTL and bound: the type invariant, the consistency  *)
(* of the expiration index with the entries (spec section 3), the absence  *)
(* of lost wakeups and of early evictions, and the refinement of TTLStore. *)
(***************************************************************************)
EXTENDS MiniRedis, WellFoundedInduction, TLAPS

USE ConstantsAssumption

(* State::next_expiration of a non-empty index is a natural number no     *)
(* larger than any `when` in it: the least element exists because < is    *)
(* well founded on Nat.                                                    *)
LEMMA NextExpirationIsLeast ==
    ASSUME NEW S \in SUBSET Expiration, S # {}
    PROVE  /\ NextExpiration(S) \in Nat
           /\ \A t \in S : NextExpiration(S) <= t.when
<1> DEFINE W == {t.when : t \in S}
<1>1. W \subseteq Nat /\ W # {}
  BY DEF Expiration
<1>2. \E x \in W : \A y \in W : ~(<<y, x>> \in OpToRel(<, Nat))
  BY <1>1, NatLessThanWellFounded, WFMin, Zenon
<1>3. \E x \in W : \A t \in S : x <= t.when
  <2>1. PICK x \in W : \A y \in W : ~(<<y, x>> \in OpToRel(<, Nat))
    BY <1>2, Zenon
  <2>2. x \in Nat
    BY <1>1
  <2>3. \A t \in S : x <= t.when
    <3>1. TAKE t \in S
    <3>2. t.when \in Nat /\ ~(<<t.when, x>> \in OpToRel(<, Nat))
      BY <1>1, <2>1, Zenon
    <3>3. QED
      BY <2>2, <3>2 DEF OpToRel
  <2>4. QED
    BY <2>3
<1>4. QED
  BY <1>1, <1>3 DEF NextExpiration

----------------------------------------------------------------------------
(* Type correctness.                                                      *)

LEMMA InitTypeOK == Init => TypeOK
<1> SUFFICES ASSUME Init PROVE TypeOK
  OBVIOUS
<1>1. entries \in [Keys -> Entry \cup {NoEntry}]
  BY DEF Init
<1>2. expirations \in SUBSET Expiration /\ next_id \in Nat
  BY DEF Init
<1>3. shutdown \in BOOLEAN /\ background_task \in BOOLEAN /\ purge_pc \in PurgePcs
  BY Zenon DEF Init, PurgePcs
<1>4. wake_at \in Nat /\ now \in Nat /\ drop_pc \in {"running", "notify", "dropped"}
  BY DEF Init
<1>5. client_pc \in [Clients -> {"idle", "notify"}]
  BY DEF Init
<1>6. last_get \in [Clients -> Values \cup {NoEntry}]
  BY DEF Init
<1>7. QED
  BY <1>1, <1>2, <1>3, <1>4, <1>5, <1>6 DEF TypeOK

LEMMA NextTypeOK == TypeOK /\ [Next]_vars => TypeOK'
<1> SUFFICES ASSUME TypeOK, [Next]_vars PROVE TypeOK'
  OBVIOUS
<1>1. ASSUME NEW c \in Clients, NEW k \in Keys, Get(c, k) PROVE TypeOK'
  BY <1>1 DEF Get, TypeOK, Entry
<1>2. ASSUME NEW c \in Clients, NEW k \in Keys, NEW v \in Values, Set(c, k, v)
      PROVE TypeOK'
  BY <1>2 DEF Set, TypeOK, Entry, Expiration, InsertExpiration, RemoveExpiration
<1>3. ASSUME NEW c \in Clients, SetNotify(c) PROVE TypeOK'
  BY <1>3 DEF SetNotify, TypeOK
<1>4. CASE ShutdownPurgeTask
  BY <1>4 DEF ShutdownPurgeTask, TypeOK
<1>5. CASE ShutdownNotify
  BY <1>5 DEF ShutdownNotify, TypeOK
<1>6. CASE PurgeLoop
  BY <1>6 DEF PurgeLoop, TypeOK, PurgePcs
<1>7. CASE PurgeExpiredKeys
  <2> DEFINE expired == {t \in expirations : t.when <= now}
             rest == expirations \ expired
  <2>1. CASE shutdown
    BY <1>7, <2>1 DEF PurgeExpiredKeys, TypeOK, PurgePcs
  <2>2. CASE ~shutdown
    <3>1. /\ entries' = [k \in Keys |-> IF \E t \in expired : t.key = k THEN NoEntry
                                         ELSE entries[k]]
          /\ expirations' = rest
          /\ purge_pc' \in {"wait", "sleep"}
          /\ wake_at' \in {wake_at, NextExpiration(rest)}
          /\ rest = {} => wake_at' = wake_at
          /\ UNCHANGED <<next_id, shutdown, background_task, client_pc, drop_pc, last_get, now>>
      BY <1>7, <2>2 DEF PurgeExpiredKeys
    <3>2. rest # {} => NextExpiration(rest) \in Nat
      BY NextExpirationIsLeast DEF TypeOK
    <3>3. wake_at' \in Nat
      BY <3>1, <3>2 DEF TypeOK
    <3>4. entries' \in [Keys -> Entry \cup {NoEntry}]
      BY <3>1 DEF TypeOK
    <3>5. QED
      BY <3>1, <3>3, <3>4 DEF TypeOK, PurgePcs
  <2>3. QED
    BY <2>1, <2>2
<1>8. CASE PurgeSleepElapsed
  BY <1>8 DEF PurgeSleepElapsed, TypeOK, PurgePcs
<1>9. CASE PurgeNotified
  BY <1>9, Zenon DEF PurgeNotified, TypeOK, PurgePcs
<1>10. CASE Tick
  BY <1>10 DEF Tick, TypeOK
<1>11. CASE UNCHANGED vars
  BY <1>11 DEF vars, TypeOK
<1>12. QED
  BY <1>1, <1>2, <1>3, <1>4, <1>5, <1>6, <1>7, <1>8, <1>9, <1>10, <1>11
  DEF Next, PurgeTask

(* The type invariant holds in every reachable state.                    *)
THEOREM TypeCorrect == Spec => []TypeOK
BY InitTypeOK, NextTypeOK, PTL DEF Spec

----------------------------------------------------------------------------
(* The expiration index stays consistent with the entries.  The invariant *)
(* is not inductive by itself: a set must know that its fresh id differs  *)
(* from every id in the map (else InsertExpiration could replace a live   *)
(* tuple, and removing the replaced entry's tuple could hit another key's *)
(* tuple), so it is strengthened with the facts that every id in use is   *)
(* below next_id and that distinct present keys have distinct ids.        *)

IdsBelowNext ==
    /\ \A k \in Keys : entries[k] # NoEntry => entries[k].id < next_id
    /\ \A t \in expirations : t.id < next_id

IdsUnique ==
    \A k1, k2 \in Keys :
        k1 # k2 /\ entries[k1] # NoEntry /\ entries[k2] # NoEntry
            => entries[k1].id # entries[k2].id

IInv == TypeOK /\ IdsBelowNext /\ IdsUnique /\ ExpirationIndexConsistent

LEMMA InitIInv == Init => IInv
<1> SUFFICES ASSUME Init PROVE IInv
  OBVIOUS
<1>1. TypeOK
  BY InitTypeOK
<1>2. IdsBelowNext /\ IdsUnique /\ ExpirationIndexConsistent
  BY DEF Init, IdsBelowNext, IdsUnique, ExpirationIndexConsistent
<1>3. QED
  BY <1>1, <1>2 DEF IInv

(* A set keeps the index consistent: the new tuple carries a fresh id,    *)
(* so inserting it replaces nothing, and the tuple removed for the        *)
(* replaced entry is that entry's own.                                    *)
LEMMA SetIInv ==
    ASSUME IInv, NEW c \in Clients, NEW k \in Keys, NEW v \in Values, Set(c, k, v)
    PROVE  IInv'
<1> DEFINE id == next_id
           when == now + TTL
           prev == entries[k]
           added == InsertExpiration(expirations, when, id, k)
           new == [when |-> when, id |-> id, key |-> k]
<1>1. /\ next_id' = next_id + 1
      /\ entries' = [entries EXCEPT ![k] = [id |-> id, data |-> v, expires_at |-> when]]
      /\ expirations' = IF prev = NoEntry THEN added
                        ELSE RemoveExpiration(added, prev.expires_at, prev.id)
  BY DEF Set
<1>2. TypeOK'
  BY NextTypeOK DEF IInv, Next
<1>3. added = expirations \cup {new}
  <2>1. \A t \in expirations : t.id # id
    BY DEF IInv, IdsBelowNext, TypeOK, Expiration
  <2>2. QED
    BY <2>1 DEF InsertExpiration, RemoveExpiration
<1>4. expirations' = IF prev = NoEntry THEN expirations \cup {new}
                     ELSE {t \in expirations : ~(t.when = prev.expires_at /\ t.id = prev.id)} \cup {new}
  <2>1. prev # NoEntry => prev.id < id
    BY DEF IInv, IdsBelowNext, TypeOK, Entry
  <2>2. CASE prev = NoEntry
    BY <1>1, <1>3, <2>2
  <2>3. CASE prev # NoEntry
    <3>1. expirations' = {t \in expirations \cup {new} : ~(t.when = prev.expires_at /\ t.id = prev.id)}
      BY <1>1, <1>3, <2>3 DEF RemoveExpiration
    <3>2. ~(new.when = prev.expires_at /\ new.id = prev.id)
      BY <2>1, <2>3 DEF IInv, TypeOK
    <3>3. QED
      BY <3>1, <3>2, <2>3
  <2>4. QED
    BY <2>2, <2>3
<1>5. IdsBelowNext'
  BY <1>1, <1>4 DEF IInv, IdsBelowNext, TypeOK, Entry, Expiration
<1>6. IdsUnique'
  BY <1>1 DEF IInv, IdsBelowNext, IdsUnique, TypeOK, Entry
<1>7. ExpirationIndexConsistent'
  <2>1. ASSUME NEW j \in Keys, entries'[j] # NoEntry
        PROVE [when |-> entries'[j].expires_at, id |-> entries'[j].id, key |-> j] \in expirations'
    <3>1. CASE j = k
      BY <1>1, <1>4, <3>1 DEF IInv, TypeOK
    <3>2. CASE j # k
      <4>1. entries'[j] = entries[j] /\ entries[j] # NoEntry
        BY <1>1, <2>1, <3>2 DEF IInv, TypeOK
      <4>2. prev # NoEntry => prev.id # entries[j].id
        BY <4>1, <3>2 DEF IInv, IdsUnique
      <4>3. QED
        BY <1>4, <4>1, <4>2 DEF IInv, ExpirationIndexConsistent
    <3>3. QED
      BY <3>1, <3>2
  <2>2. ASSUME NEW t \in expirations'
        PROVE /\ entries'[t.key] # NoEntry
              /\ entries'[t.key].id = t.id
              /\ entries'[t.key].expires_at = t.when
    <3>1. CASE t = new
      <4>1. entries'[k] = [id |-> id, data |-> v, expires_at |-> when]
        BY <1>1 DEF IInv, TypeOK
      <4>2. t.key = k /\ t.id = id /\ t.when = when
        BY <3>1
      <4>3. entries'[k] \in Entry
        BY <4>1 DEF Entry, IInv, TypeOK
      <4>4. entries'[k] # NoEntry
        BY <4>3, NoEntryAssumption
      <4>5. QED
        BY <4>1, <4>2, <4>4
    <3>2. CASE t # new
      <4>1. t \in expirations
        BY <1>4, <3>2
      <4>2. /\ entries[t.key] # NoEntry
            /\ entries[t.key].id = t.id
            /\ entries[t.key].expires_at = t.when
        BY <4>1 DEF IInv, ExpirationIndexConsistent
      <4>3. t.key # k
        BY <1>4, <3>2, <4>1, <4>2
      <4>4. t.key \in Keys
        BY <4>1 DEF IInv, TypeOK, Expiration
      <4>5. QED
        BY <1>1, <4>2, <4>3, <4>4 DEF IInv, TypeOK
    <3>3. QED
      BY <3>1, <3>2
  <2>3. QED
    BY <2>1, <2>2 DEF ExpirationIndexConsistent
<1>8. QED
  BY <1>2, <1>5, <1>6, <1>7 DEF IInv

(* A purge removes a tuple only together with its key's entry, and keeps  *)
(* an entry only when no expired tuple names its key; the tuple of a kept *)
(* key is the one unexpired tuple of that key.                            *)
LEMMA PurgeIInv ==
    ASSUME IInv, PurgeExpiredKeys
    PROVE  IInv'
<1> DEFINE expired == {t \in expirations : t.when <= now}
           rest == expirations \ expired
<1>1. TypeOK'
  BY NextTypeOK DEF IInv, Next, PurgeTask
<1>2. CASE shutdown
  BY <1>1, <1>2 DEF PurgeExpiredKeys, IInv, IdsBelowNext, IdsUnique, ExpirationIndexConsistent
<1>3. CASE ~shutdown
  <2>1. /\ entries' = [k \in Keys |-> IF \E t \in expired : t.key = k THEN NoEntry
                                       ELSE entries[k]]
        /\ expirations' = rest
        /\ next_id' = next_id
    BY <1>3 DEF PurgeExpiredKeys
  <2>2. IdsBelowNext' /\ IdsUnique'
    BY <2>1 DEF IInv, IdsBelowNext, IdsUnique, TypeOK
  <2>3. ASSUME NEW j \in Keys, entries'[j] # NoEntry
        PROVE [when |-> entries'[j].expires_at, id |-> entries'[j].id, key |-> j] \in expirations'
    <3>1. entries'[j] = entries[j] /\ entries[j] # NoEntry /\ ~\E t \in expired : t.key = j
      BY <2>1, <2>3 DEF IInv, TypeOK
    <3>2. [when |-> entries[j].expires_at, id |-> entries[j].id, key |-> j] \in expirations
      BY <3>1 DEF IInv, ExpirationIndexConsistent
    <3>3. QED
      BY <2>1, <3>1, <3>2
  <2>4. ASSUME NEW t \in expirations'
        PROVE /\ entries'[t.key] # NoEntry
              /\ entries'[t.key].id = t.id
              /\ entries'[t.key].expires_at = t.when
    <3>1. t \in expirations /\ ~(t.when <= now)
      BY <2>1
    <3>2. /\ entries[t.key] # NoEntry
          /\ entries[t.key].id = t.id
          /\ entries[t.key].expires_at = t.when
      BY <3>1 DEF IInv, ExpirationIndexConsistent
    <3>3. ~\E u \in expired : u.key = t.key
      BY <3>1, <3>2 DEF IInv, ExpirationIndexConsistent
    <3>4. t.key \in Keys
      BY <3>1 DEF IInv, TypeOK, Expiration
    <3>5. QED
      BY <2>1, <3>2, <3>3, <3>4
  <2>5. QED
    BY <2>2, <2>3, <2>4, <1>1 DEF IInv, ExpirationIndexConsistent
<1>4. QED
  BY <1>2, <1>3

LEMMA NextIInv == IInv /\ [Next]_vars => IInv'
<1> SUFFICES ASSUME IInv, [Next]_vars PROVE IInv'
  OBVIOUS
<1>1. TypeOK'
  BY NextTypeOK DEF IInv
<1> DEFINE Rest == IdsBelowNext /\ IdsUnique /\ ExpirationIndexConsistent
<1>2. ASSUME NEW c \in Clients, NEW k \in Keys, Get(c, k) PROVE IInv'
  BY <1>1, <1>2 DEF Get, IInv, IdsBelowNext, IdsUnique, ExpirationIndexConsistent
<1>3. ASSUME NEW c \in Clients, NEW k \in Keys, NEW v \in Values, Set(c, k, v) PROVE IInv'
  BY <1>3, SetIInv
<1>4. ASSUME NEW c \in Clients, SetNotify(c) PROVE IInv'
  BY <1>1, <1>4 DEF SetNotify, IInv, IdsBelowNext, IdsUnique, ExpirationIndexConsistent
<1>5. CASE ShutdownPurgeTask
  BY <1>1, <1>5 DEF ShutdownPurgeTask, IInv, IdsBelowNext, IdsUnique, ExpirationIndexConsistent
<1>6. CASE ShutdownNotify
  BY <1>1, <1>6 DEF ShutdownNotify, IInv, IdsBelowNext, IdsUnique, ExpirationIndexConsistent
<1>7. CASE PurgeLoop
  BY <1>1, <1>7 DEF PurgeLoop, IInv, IdsBelowNext, IdsUnique, ExpirationIndexConsistent
<1>8. CASE PurgeExpiredKeys
  BY <1>8, PurgeIInv
<1>9. CASE PurgeSleepElapsed
  BY <1>1, <1>9 DEF PurgeSleepElapsed, IInv, IdsBelowNext, IdsUnique, ExpirationIndexConsistent
<1>10. CASE PurgeNotified
  BY <1>1, <1>10 DEF PurgeNotified, IInv, IdsBelowNext, IdsUnique, ExpirationIndexConsistent
<1>11. CASE Tick
  BY <1>1, <1>11 DEF Tick, IInv, IdsBelowNext, IdsUnique, ExpirationIndexConsistent
<1>12. CASE UNCHANGED vars
  BY <1>1, <1>12 DEF vars, IInv, IdsBelowNext, IdsUnique, ExpirationIndexConsistent
<1>13. QED
  BY <1>2, <1>3, <1>4, <1>5, <1>6, <1>7, <1>8, <1>9, <1>10, <1>11, <1>12
  DEF Next, PurgeTask

(* The expiration index is consistent with the entries in every reachable *)
(* state (spec section 3: each key with an expires_at has exactly one      *)
(* (expires_at, id) tuple, and a replaced key's old tuple is removed).     *)
THEOREM ExpirationIndexConsistentHolds == Spec => []ExpirationIndexConsistent
<1>1. Init => IInv
  BY InitIInv
<1>2. IInv /\ [Next]_vars => IInv'
  BY NextIInv
<1>3. IInv => ExpirationIndexConsistent
  BY DEF IInv
<1>4. QED
  BY <1>1, <1>2, <1>3, PTL DEF Spec

----------------------------------------------------------------------------
(* No lost wakeup.  The purge task must not wait for a notification that  *)
(* nobody will send, nor sleep past the earliest expiration.  The         *)
(* invariant is not inductive by itself: a set that runs while the task   *)
(* sleeps keeps the task's deadline valid only because the new `when`     *)
(* (now + TTL) is no earlier than any `when` already in the index, and    *)
(* the index cannot be empty while the task sleeps.                       *)

WhenBound == \A t \in expirations : t.when <= now + TTL

SleepNonEmpty == purge_pc = "sleep" => expirations # {}

WInv == IInv /\ WhenBound /\ SleepNonEmpty /\ NoLostWakeup

LEMMA InitWInv == Init => WInv
<1> SUFFICES ASSUME Init PROVE WInv
  OBVIOUS
<1>1. IInv
  BY InitIInv
<1>2. WhenBound /\ SleepNonEmpty /\ NoLostWakeup
  BY DEF Init, WhenBound, SleepNonEmpty, NoLostWakeup
<1>3. QED
  BY <1>1, <1>2 DEF WInv

(* A set only adds the tuple of its fresh id, with the latest `when`.     *)
LEMMA SetWInv ==
    ASSUME WInv, NEW c \in Clients, NEW k \in Keys, NEW v \in Values, Set(c, k, v)
    PROVE  WInv'
<1> DEFINE new == [when |-> now + TTL, id |-> next_id, key |-> k]
<1>1. IInv'
  BY SetIInv DEF WInv
<1>2. UNCHANGED <<now, purge_pc, wake_at, shutdown, background_task>>
      /\ client_pc[c] = "idle"
      /\ client_pc' = [client_pc EXCEPT ![c] = IF expirations = {}
                          \/ NextExpiration(expirations) > now + TTL
                          THEN "notify" ELSE "idle"]
  BY DEF Set
<1>3. expirations' \subseteq expirations \cup {new} /\ new \in expirations'
  <2>1. entries[k] # NoEntry => entries[k].id < next_id
    BY DEF WInv, IInv, IdsBelowNext
  <2>2. entries[k] # NoEntry => entries[k].id # next_id
    BY <2>1 DEF WInv, IInv, TypeOK, Entry
  <2>3. QED
    BY <2>2 DEF Set, InsertExpiration, RemoveExpiration
<1>4. WhenBound'
  <2>1. \A t \in expirations \cup {new} : t.when <= now + TTL
    BY DEF WInv, WhenBound, IInv, TypeOK
  <2>2. \A t \in expirations' : t.when <= now' + TTL
    BY <1>2, <1>3, <2>1, Zenon
  <2>3. QED
    BY <2>2 DEF WhenBound
<1>5. SleepNonEmpty'
  BY <1>2, <1>3 DEF SleepNonEmpty
<1>6. ASSUME purge_pc' = "wait", ~shutdown'
      PROVE  expirations' = {} \/ background_task' \/ \E d \in Clients : client_pc'[d] = "notify"
  <2>1. CASE expirations = {}
    BY <1>2, <2>1 DEF WInv, IInv, TypeOK
  <2>2. CASE expirations # {}
    <3>1. background_task \/ \E d \in Clients : client_pc[d] = "notify"
      BY <1>2, <1>6, <2>2 DEF WInv, NoLostWakeup
    <3>2. QED
      BY <1>2, <3>1 DEF WInv, IInv, TypeOK
  <2>3. QED
    BY <2>1, <2>2
<1>7. ASSUME purge_pc' = "sleep", ~background_task'
      PROVE  \A t \in expirations' : wake_at' <= t.when
  <2>1. PICK t0 \in expirations : TRUE
    BY <1>2, <1>7 DEF WInv, SleepNonEmpty
  <2>2. wake_at <= t0.when /\ t0.when <= now + TTL
    BY <1>2, <1>7, <2>1 DEF WInv, NoLostWakeup, WhenBound
  <2>3. \A t \in expirations : wake_at <= t.when
    BY <1>2, <1>7 DEF WInv, NoLostWakeup
  <2>4. QED
    BY <1>2, <1>3, <2>2, <2>3 DEF WInv, IInv, TypeOK, Expiration
<1>8. NoLostWakeup'
  BY <1>6, <1>7 DEF NoLostWakeup
<1>9. QED
  BY <1>1, <1>4, <1>5, <1>8 DEF WInv

(* The purge pass removes tuples only, and sleeps until the least `when`  *)
(* left, or waits when none is left.                                      *)
LEMMA PurgeWInv ==
    ASSUME WInv, PurgeExpiredKeys
    PROVE  WInv'
<1>1. IInv'
  BY PurgeIInv DEF WInv
<1>2. UNCHANGED <<now, shutdown, background_task, client_pc>>
  BY DEF PurgeExpiredKeys
<1>3. CASE shutdown
  <2>1. purge_pc' = "wait" /\ UNCHANGED <<expirations, wake_at>>
    BY <1>3 DEF PurgeExpiredKeys
  <2>2. QED
    BY <1>1, <1>2, <1>3, <2>1 DEF WInv, WhenBound, SleepNonEmpty, NoLostWakeup
<1>4. CASE ~shutdown
  <2> DEFINE rest == expirations \ {t \in expirations : t.when <= now}
  <2>1. /\ expirations' = rest
        /\ rest = {} => purge_pc' = "wait"
        /\ rest # {} => purge_pc' = "sleep" /\ wake_at' = NextExpiration(rest)
    BY <1>4 DEF PurgeExpiredKeys
  <2>2. WhenBound'
    BY <1>2, <2>1 DEF WInv, WhenBound
  <2>3. SleepNonEmpty'
    BY <2>1 DEF SleepNonEmpty
  <2>4. rest # {} => \A t \in rest : NextExpiration(rest) <= t.when
    BY NextExpirationIsLeast DEF WInv, IInv, TypeOK
  <2>5. NoLostWakeup'
    BY <2>1, <2>4 DEF NoLostWakeup
  <2>6. QED
    BY <1>1, <2>2, <2>3, <2>5 DEF WInv
<1>5. QED
  BY <1>3, <1>4

LEMMA NextWInv == WInv /\ [Next]_vars => WInv'
<1> SUFFICES ASSUME WInv, [Next]_vars PROVE WInv'
  OBVIOUS
<1>0. IInv'
  BY NextIInv DEF WInv
<1> DEFINE Wake == WhenBound /\ SleepNonEmpty /\ NoLostWakeup
<1>1. ASSUME NEW c \in Clients, NEW k \in Keys, Get(c, k) PROVE WInv'
  BY <1>0, <1>1 DEF Get, WInv, WhenBound, SleepNonEmpty, NoLostWakeup
<1>2. ASSUME NEW c \in Clients, NEW k \in Keys, NEW v \in Values, Set(c, k, v) PROVE WInv'
  BY <1>2, SetWInv
<1>3. ASSUME NEW c \in Clients, SetNotify(c) PROVE WInv'
  BY <1>0, <1>3 DEF SetNotify, WInv, WhenBound, SleepNonEmpty, NoLostWakeup
<1>4. CASE ShutdownPurgeTask
  BY <1>0, <1>4 DEF ShutdownPurgeTask, WInv, WhenBound, SleepNonEmpty, NoLostWakeup
<1>5. CASE ShutdownNotify
  BY <1>0, <1>5 DEF ShutdownNotify, WInv, WhenBound, SleepNonEmpty, NoLostWakeup
<1>6. CASE PurgeLoop
  BY <1>0, <1>6 DEF PurgeLoop, WInv, WhenBound, SleepNonEmpty, NoLostWakeup
<1>7. CASE PurgeExpiredKeys
  BY <1>7, PurgeWInv
<1>8. CASE PurgeSleepElapsed
  BY <1>0, <1>8 DEF PurgeSleepElapsed, WInv, WhenBound, SleepNonEmpty, NoLostWakeup
<1>9. CASE PurgeNotified
  BY <1>0, <1>9 DEF PurgeNotified, WInv, WhenBound, SleepNonEmpty, NoLostWakeup
<1>10. CASE Tick
  <2>1. WhenBound'
    BY <1>10 DEF Tick, WInv, IInv, TypeOK, Expiration, WhenBound
  <2>2. QED
    BY <1>0, <1>10, <2>1 DEF Tick, WInv, SleepNonEmpty, NoLostWakeup
<1>11. CASE UNCHANGED vars
  BY <1>0, <1>11 DEF vars, WInv, WhenBound, SleepNonEmpty, NoLostWakeup
<1>12. QED
  BY <1>1, <1>2, <1>3, <1>4, <1>5, <1>6, <1>7, <1>8, <1>9, <1>10, <1>11
  DEF Next, PurgeTask

(* The inductive invariant of the wakeup proof holds in every reachable  *)
(* state: every `when` is at most now + TTL, a sleeping purge task has a  *)
(* non-empty index, and no wakeup is lost.                                 *)
LEMMA WInvHolds == Spec => []WInv
BY InitWInv, NextWInv, PTL DEF Spec

(* The purge task never misses a wakeup (purge_expired_tasks with set's   *)
(* and shutdown_purge_task's notify_one after the lock): for every TTL,   *)
(* set of keys and number of clients.                                     *)
THEOREM NoLostWakeupHolds == Spec => []NoLostWakeup
<1>1. WInv => NoLostWakeup
  BY DEF WInv
<1>2. QED
  BY InitWInv, NextWInv, <1>1, PTL DEF Spec


----------------------------------------------------------------------------
(* No early eviction.  Only a purge makes a present key absent (a set     *)
(* stores an Entry, which is not None), and it does so only for a key     *)
(* named by an expired tuple; by the consistency of the index that tuple  *)
(* carries the entry's own expires_at.                                    *)

(* The inductive invariant of the index holds in every reachable state:  *)
(* ids are unique among present keys and below next_id, and the index    *)
(* matches the entries, for every TTL and set of keys, values, clients.   *)
LEMMA IInvHolds == Spec => []IInv
BY InitIInv, NextIInv, PTL DEF Spec

\* A purge evicts a key only if an expired tuple names it, and that tuple's
\* `when` is the entry's expires_at.
LEMMA PurgeEvictsExpired ==
    ASSUME IInv, PurgeExpiredKeys, ~shutdown, NEW k \in Keys,
           entries'[k] = NoEntry, entries[k] # NoEntry
    PROVE  \E t \in expirations : t.when <= now /\ t.key = k /\ entries[k].expires_at = t.when
<1> DEFINE expired == {t \in expirations : t.when <= now}
<1>1. entries'[k] = IF \E t \in expired : t.key = k THEN NoEntry ELSE entries[k]
  BY DEF PurgeExpiredKeys
<1>2. PICK t \in expired : t.key = k
  BY <1>1
<1>3. QED
  BY <1>2 DEF IInv, ExpirationIndexConsistent

LEMMA NextEvictsOnlyExpired == IInv /\ [Next]_vars => EvictsOnlyExpired
<1> SUFFICES ASSUME IInv, [Next]_vars, NEW k \in Keys,
                    entries[k] # NoEntry, entries'[k] = NoEntry
             PROVE  entries[k].expires_at <= now
  BY DEF EvictsOnlyExpired
<1>1. CASE PurgeExpiredKeys /\ ~shutdown
  <2>1. PICK t \in expirations : t.when <= now /\ t.key = k /\ entries[k].expires_at = t.when
    BY <1>1, PurgeEvictsExpired
  <2>2. QED
    BY <2>1
<1>2. ASSUME NEW c \in Clients, NEW j \in Keys, NEW v \in Values, Set(c, j, v)
      PROVE  FALSE
  <2>1. entries'[j] = [id |-> next_id, data |-> v, expires_at |-> now + TTL]
    BY <1>2 DEF Set, IInv, TypeOK
  <2>2. [id |-> next_id, data |-> v, expires_at |-> now + TTL] \in Entry
    BY DEF IInv, TypeOK, Entry
  <2>3. k # j
    BY <2>1, <2>2, NoEntryAssumption
  <2>4. entries'[k] = entries[k]
    BY <1>2, <2>3 DEF Set, IInv, TypeOK
  <2>5. QED
    BY <2>4
<1>3. CASE PurgeExpiredKeys /\ shutdown
  BY <1>3 DEF PurgeExpiredKeys
<1>4. CASE UNCHANGED entries
  BY <1>4
<1>5. \/ \E c \in Clients, j \in Keys, v \in Values : Set(c, j, v)
      \/ PurgeExpiredKeys
      \/ UNCHANGED entries
  BY DEF Next, PurgeTask, vars, Get, SetNotify, ShutdownPurgeTask, ShutdownNotify,
         PurgeLoop, PurgeSleepElapsed, PurgeNotified, Tick
<1>6. QED
  BY <1>1, <1>2, <1>3, <1>4, <1>5

(* The purge task never removes an entry before its expires_at            *)
(* (purge_expired_keys against set's entries), for every TTL and every    *)
(* set of keys and clients.                                                *)
THEOREM NoEarlyEvictionHolds == Spec => NoEarlyEviction
<1>1. IInv /\ [Next]_vars => [EvictsOnlyExpired]_vars
  BY NextEvictsOnlyExpired
<1>2. QED
  BY IInvHolds, <1>1, PTL DEF Spec, NoEarlyEviction


----------------------------------------------------------------------------
(* Refinement of TTLStore.  Under StoreMap (each entry without its id),  *)
(* a get is a Read, a set a Write, a purge an Evict of the keys its       *)
(* expired tuples name, a clock step a Tick, and every other step (the    *)
(* notifies, the shutdown, the purge task's control steps) a stutter.     *)
(* The purge step needs ExpirationIndexConsistent: an expired tuple is    *)
(* the current entry's own, so the key it names has expired.              *)

\* An entry's abstraction is None exactly when the entry is None.
LEMMA AbstractEntryNone ==
    ASSUME NEW e \in Entry \cup {NoEntry}
    PROVE  /\ e = NoEntry => AbstractEntry(e) = NoEntry
           /\ e # NoEntry => AbstractEntry(e) = [data |-> e.data, expires_at |-> e.expires_at]
           /\ e # NoEntry => AbstractEntry(e) # NoEntry
<1>1. e # NoEntry => [data |-> e.data, expires_at |-> e.expires_at] \in [data : Values, expires_at : Nat]
  BY DEF Entry
<1>2. QED
  BY <1>1, StoredValueAssumption DEF AbstractEntry

LEMMA InitRefines == Init => Promised!Init
BY DEF Init, Promised!Init, StoreMap, AbstractEntry

(* A set stores the abstraction of the new entry under its key.           *)
LEMMA SetRefines ==
    ASSUME IInv, NEW c \in Clients, NEW k \in Keys, NEW v \in Values, Set(c, k, v)
    PROVE  Promised!Write(k, v)
<1> DEFINE new == [id |-> next_id, data |-> v, expires_at |-> now + TTL]
<1>1. entries' = [entries EXCEPT ![k] = new] /\ UNCHANGED <<last_get, now>>
  BY DEF Set
<1>2. new \in Entry /\ new # NoEntry
  BY NoEntryAssumption DEF IInv, TypeOK, Entry
<1>3. AbstractEntry(new) = [data |-> v, expires_at |-> now + TTL]
  BY <1>2, AbstractEntryNone
<1>4. StoreMap' = [StoreMap EXCEPT ![k] = [data |-> v, expires_at |-> now + TTL]]
  BY <1>1, <1>3 DEF StoreMap, IInv, TypeOK
<1>5. QED
  BY <1>1, <1>4 DEF Promised!Write

(* A purge that runs (no shutdown) evicts the keys its expired tuples     *)
(* name, all of them expired in the abstract map.                         *)
LEMMA PurgeRefines ==
    ASSUME IInv, PurgeExpiredKeys, ~shutdown
    PROVE  \E S \in SUBSET Keys : Promised!Evict(S)
<1> DEFINE expired == {t \in expirations : t.when <= now}
           S == {t.key : t \in expired}
<1>1. entries' = [k \in Keys |-> IF \E t \in expired : t.key = k THEN NoEntry ELSE entries[k]]
      /\ UNCHANGED <<last_get, now>>
  BY DEF PurgeExpiredKeys
<1>2. S \subseteq Keys
  BY DEF IInv, TypeOK, Expiration
<1>3. ASSUME NEW k \in S PROVE k \in Promised!Expired
  <2>1. PICK t \in expired : t.key = k
    BY <1>3
  <2>2. k \in Keys
    BY <1>2, <1>3
  <2>3. entries[k] # NoEntry /\ entries[k].expires_at = t.when
    <3>1. t \in expirations /\ t.key = k
      BY <2>1
    <3>2. QED
      BY <3>1 DEF IInv, ExpirationIndexConsistent
  <2>6. entries[k] \in Entry
    BY <2>2, <2>3 DEF IInv, TypeOK
  <2>4. StoreMap[k] # NoEntry /\ StoreMap[k].expires_at = t.when
    BY <2>2, <2>3, <2>6, AbstractEntryNone DEF StoreMap
  <2>5. QED
    BY <2>1, <2>2, <2>4 DEF Promised!Expired
<1>4. StoreMap' = [k \in Keys |-> IF k \in S THEN NoEntry ELSE StoreMap[k]]
  BY <1>1 DEF StoreMap, AbstractEntry
<1>5. QED
  BY <1>1, <1>2, <1>3, <1>4, Zenon DEF Promised!Evict

LEMMA NextRefines == IInv /\ [Next]_vars => [Promised!Next]_Promised!tvars
<1> SUFFICES ASSUME IInv, [Next]_vars PROVE [Promised!Next]_Promised!tvars
  OBVIOUS
<1> DEFINE Stutter == UNCHANGED <<entries, last_get, now>>
<1>1. Stutter => UNCHANGED Promised!tvars
  BY DEF Promised!tvars, StoreMap
<1>2. ASSUME NEW c \in Clients, NEW k \in Keys, Get(c, k) PROVE Promised!Read(c, k)
  <2>1. entries[k] \in Entry \cup {NoEntry}
    BY DEF IInv, TypeOK
  <2>2. StoreMap[k] = AbstractEntry(entries[k])
    BY DEF StoreMap
  <2>3. (IF StoreMap[k] = NoEntry THEN NoEntry ELSE StoreMap[k].data)
          = (IF entries[k] = NoEntry THEN NoEntry ELSE entries[k].data)
    BY <2>1, <2>2, AbstractEntryNone
  <2>4. QED
    BY <1>2, <2>3 DEF Get, Promised!Read, StoreMap
<1>3. ASSUME NEW c \in Clients, NEW k \in Keys, NEW v \in Values, Set(c, k, v)
      PROVE Promised!Next
  BY <1>3, SetRefines DEF Promised!Next
<1>4. CASE PurgeExpiredKeys /\ ~shutdown
  BY <1>4, PurgeRefines DEF Promised!Next
<1>5. CASE PurgeExpiredKeys /\ shutdown
  BY <1>1, <1>5 DEF PurgeExpiredKeys
<1>6. CASE Tick
  BY <1>6 DEF Tick, Promised!Next, Promised!Tick, StoreMap
<1>7. CASE \/ \E c \in Clients : SetNotify(c)
           \/ ShutdownPurgeTask \/ ShutdownNotify
           \/ PurgeLoop \/ PurgeSleepElapsed \/ PurgeNotified
           \/ UNCHANGED vars
  <2>1. Stutter
    BY <1>7 DEF SetNotify, ShutdownPurgeTask, ShutdownNotify, PurgeLoop,
                PurgeSleepElapsed, PurgeNotified, vars
  <2>2. QED
    BY <1>1, <2>1
<1>8. QED
  BY <1>2, <1>3, <1>4, <1>5, <1>6, <1>7 DEF Next, PurgeTask, Promised!Next

(* The store implements TTLStore: every behaviour of get, set, the purge  *)
(* task and shutdown of mini_redis.rs, seen through StoreMap, is one the  *)
(* abstract TTL map allows, for every TTL and set of keys, values and     *)
(* clients.                                                                *)
THEOREM ImplementsTTLStoreHolds == Spec => ImplementsTTLStore
<1>1. IInv /\ [Next]_vars => [Promised!Next]_Promised!tvars
  BY NextRefines
<1>2. QED
  BY IInvHolds, InitRefines, <1>1, PTL DEF Spec, ImplementsTTLStore, Promised!Spec

=============================================================================
