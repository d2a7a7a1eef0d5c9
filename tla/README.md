# TLA+ models of raphdb

raphdb is a small key/value server written in Rust. It speaks a subset of RESP
(the Redis protocol) over TCP. It has two storage engines:

- **MiniRedis**: an in-memory map with TTLs, purged by a background task.
- **SimpleStore**: an append-only log file with an in-memory index from keys to
  byte offsets.

This directory holds TLA+ models of its parts, TLC configurations that
model-check them, an abstract specification of the key/value service that the
client is shown to implement, and TLAPS proofs of the main invariants of
MiniRedis and of the server's admission control and shutdown.

## The system and how its parts interact

```
client.rs ──write_frame──▶ TCP ──▶ worker: read_frame (check, parse)
    ▲                                  │ Command::from_frame, apply
    └──read_frame◀── TCP ◀──reply──────┘        │
                                           KeyValueStore (MiniRedis | SimpleStore)
start_server: accept loop, Semaphore(MAX_CONNECTIONS), broadcast notify_shutdown,
              mpsc shutdown_complete, DropGuard -> shutdown_purge_task
```

Source files and the modules that model them:

| Part | Source | Module |
|---|---|---|
| In-memory store with TTLs | `server/key_value_store/mini_redis.rs` | `MiniRedis` (proofs in `MiniRedisProofs`), refining `TTLStore` (abstract) |
| Append-log store | `server/key_value_store/simple_store.rs` | `SimpleStore` |
| Server lifecycle, shutdown | `server/mod.rs`, `server/shutdown.rs`, `server/drop_guard.rs` | `Server` (proofs in `ServerProofs`), refining `AdmissionControl` (abstract) |
| RESP codec | `connection/frame.rs`, `connection/error.rs` | `Frame`, with laws checked in `FrameLaws` |
| Command parsing and dispatch | `connection/parser.rs`, `connection/cmd/*.rs` | `Command` |
| Connection read/write and the worker loop | *(spec 4.3, 4.6)* | `Connection` |
| Client | `client/client.rs` | `Client` |
| The service a caller sees | `server/key_value_store/mod.rs` (the `KeyValueStore` trait), `client/client.rs` | `KeyValueService` (abstract) |

`connection/mod.rs`, `listener.rs` and `handler.rs` are declared by the code
but are not in the source tree. `Connection::read_frame` and `write_frame`, the
accept loop and the worker loop are therefore modelled from the spec (sections
4.3, 4.6 and 5). PROJECT.json marks them `spec_modelled`. Everything they call
(check, parse, create_bytes, from_frame, apply, Shutdown::recv) is translated
from the code.

Modules that use `RECURSIVE` operators are used by TLC only: `Frame`,
`Command`, `Connection`, `Client`, `FrameLaws` and `SimpleStore`. `MiniRedis`
and `Server` have no recursion. `MiniRedisProofs` and `ServerProofs` hold the
proofs.

## The modules

### MiniRedis

The state is `State`:
- `entries`: a key's `Entry`, or `NoEntry`;
- `expirations`: a set of `(when, id, key)` records, standing for the BTreeMap;
- `next_id`, `shutdown`.

Around it the model adds:
- `background_task`: the permit stored by tokio's `Notify`;
- the purge task's program counter `purge_pc` (loop, purge, sleep, wait, done)
  and its deadline `wake_at`;
- each client's `client_pc`: a `set` that has released the lock but not yet
  called `notify_one` is in state "notify";
- `drop_pc` of `shutdown_purge_task`;
- the clock `now`.

Actions:
- `Set` covers the whole critical section: a fresh id, the notify decision,
  inserting the expiration, replacing the entry and removing the previous
  entry's tuple.
- `SetNotify` is the `notify_one` after `drop(state)`.
- `Get` is a lookup, with no expiry check, as in the code.
- `PurgeExpiredKeys` is the loop of `purge_expired_keys`, from the shutdown
  check through each expired tuple to the returned next expiration.
- `PurgeSleepElapsed` and `PurgeNotified` are the two branches of the
  `select!`.
- `ShutdownPurgeTask` and `ShutdownNotify` are `shutdown_purge_task`.
- `Tick` advances the clock up to `MaxTime`.

Time is abstracted: `TTL` is a small constant standing for the code's 100 s.

### TTLStore

`TTLStore` states what the store promises, with the lock, the ids, the
expiration index and the purge task hidden. It has three variables:
- `map`: a key's value and expiry instant, or `NoEntry`;
- `reads`: what each caller's last `get` returned;
- `clock`: the current instant.

Its actions are `Read` (get), `Write` (set: the value expires `TTL` after
the call), `Evict(S)` (any set of keys whose instant has passed) and `Tick`.
An expired key can still be read until it is evicted. The code promises no
more than this, and the spec documents the stale read (sections 4.5.1
and 5).

`MiniRedis` maps onto it through `StoreMap`, which is each entry without
its id, with `reads <- last_get` and `clock <- now`. The property
`ImplementsTTLStore` is `Promised!Spec` under that mapping.

What the refinement checks:
- A set's expiry is exactly `now + TTL`, not merely bounded by it.
- A purge only removes keys, and only expired ones.
- A get returns the stored value of its own key.

What it cannot check: TTLStore does not see which value a caller passed to
`set`, so a set that stores some other value is still a legal `Write`.
`Values` is therefore a single value in the run.

### SimpleStore

- The file is a sequence of bytes. Keys are one-byte strings; values are byte
  sequences.
- `set` has three steps, each a separate action:
  1. `SetLock` takes the write mutex and reads the file length.
  2. `SetWrite` appends `key,value\n` and releases the mutex.
     `SetWriteFails` is the alternative: `write_all` fails after a proper
     prefix, and the error path returns.
  3. `SetIndex` takes the write lock of the index and inserts the offset.
- `get` has two steps:
  1. `GetIndex` takes the read lock and looks up the key, returning `None` at
     once if it is absent.
  2. `GetRead` does `read_line`, the split on `,`, the key check and the join
     of the remaining fields.
- `Crash` keeps any prefix of the record being written and loses the index
  and every call in progress.
- `Restart` is `new` → `init` → `recover`. `recover` splits the file with
  tokio's `lines()`, which drops each `\n` and a `\r` just before it
  (`StripCR`); the last line needs no `\n`. It requires a comma and adds
  `len + 1` per line. A corrupted log fails startup (status "failed").
- The ghost variable `latest` records where the last record of each key was
  appended; `RecoverRebuildsIndex` compares what `recover` would rebuild from
  the current file with it.

### Server

The variables:
- `phase` of `start_server`;
- `notify_open`: the broadcast sender;
- `listener_tx`: the listener's `shutdown_complete_tx`;
- the semaphore's `permits`;
- each socket's worker state;
- `store_dropped`: `DropGuard::drop` has run.

Actions:
- `StopServing` is the `select!` completing (Ctrl-C, or `run` failing),
  followed by the two explicit drops.
- `Drain` is `shutdown_complete_rx.recv()` returning `None`, followed by the
  drop of the guard.
- Each worker ends through `Exit`, either by `WorkerEnd` (EOF or error) or by
  `WorkerShutdown` (`Shutdown::recv`). Its permit and its sender drop with it.

### AdmissionControl

`AdmissionControl` states what `start_server` promises, with the semaphore
and the two channels hidden. Its variables are `workers` (the live workers),
`accepting` and `dropped`. Its actions:
- `Admit(c)` only while accepting and below `MaxConnections` workers;
- `Release(c)`;
- `Stop`, once;
- `Drop`, once, after the stop and with no worker left.

`Server` maps onto it with `workers <- Live`, `accepting <- (phase =
"serving")` and `dropped <- store_dropped`. The property is
`ImplementsAdmissionControl`. The mutant `AcceptWhileDraining` is an accept
loop that keeps running after the `select!` completed. Its states violate no
invariant of the run, and only the refinement rejects it.

### Frame, Command, Connection, Client

- **Frame.** A frame is a record `[tag, val, num]`. `Check`, `Parse` and
  `CreateBytes` follow `frame.rs` arm by arm over a byte sequence and a cursor
  position; the cursor helpers are translated one for one. `Atoi` is
  `atoi::<u64>`: an optional sign, the longest digit prefix, trailing bytes
  ignored.
- **Command.** The `Parser` is over the array's elements. `FromFrame` is
  `Command::from_frame`: an unknown verb returns before `finish()`. `Reply`
  and `Applied` are the commands' `apply`. `GetIntoFrame` and `SetIntoFrame`
  are the client's request builders.
- **Connection.**
  - The client writes frames, and TCP delivers any number of the written bytes
    at a time (`DeliverToServer`, `DeliverToClient`).
  - `ServerHandle` is one iteration of the worker: `check`, then `parse` on
    success; on Incomplete it waits for more bytes. It advances by what check
    measured and dispatches with `from_frame`. An error closes the connection
    with no reply.
  - `ClientRead` is the client's `read_frame`.
- **Client.** This module EXTENDS Connection with the sequential
  `Client::get`/`set` of `client.rs`. `CallGet`/`CallSet` write the
  `into_frame` request, and `Respond` is `read_response` followed by the
  call's match on the frame.
- **KeyValueService** is what a caller of the client is promised. There is one
  map (the `KeyValueStore` trait), one call at a time, and each call takes
  effect at one instant between its invocation and its return (`Apply`), or
  fails. `Client` maps onto it with `INSTANCE KeyValueService WITH`:
  - `kv` is the server's store;
  - the call in progress is the command of the last frame written;
  - the answer exists once the server has written the reply, and is what the
    reply frame means (`ReplyMeaning`: Bulk is a value, Null none, `+OK` done).

  `CallGet`/`CallSet` map to `Invoke`, `ServerHandle` to `Apply`, `Respond` to
  `Return`, and the wire steps are stutters.
  `Fail` stands for the "connection reset" path of `read_response`. This
  client cannot reach that path (see Not modelled), so the run never maps a
  step to it.

## Runs

Every property of a passing run has a mutant in PROJECT.json: a plausible bug
in the mapped code under which TLC reports that property violated.

| Run | cfg | Checks | Shows |
|---|---|---|---|
| mini_redis | MCMiniRedis.cfg | TypeOK, ExpirationIndexConsistent, NoLostWakeup, NoEarlyEviction, ExpiredEventuallyPurged, PurgeTaskExits, ImplementsTTLStore | The index matches the entries. The store implements TTLStore. No live key is evicted. The purge task never sleeps past an expiration without a pending wakeup. Under fairness, expired keys are purged and the task exits after shutdown. |
| simple_store | MCSimpleStore.cfg | TypeOK, IndexKeyMatches, RecoverRebuildsIndex | Across torn writes, crashes and recovery, the index never points at another key's record. With values free of line terminators, a restart at any point would rebuild the offset of each key's latest record. |
| server | MCServer.cfg | TypeOK, PermitsAccounted, StoreNotUsedAfterDrop, ShutdownCompletes, ImplementsAdmissionControl | Permits are conserved. The server implements AdmissionControl. The store's hook runs only when no worker is alive. Shutdown always drains. |
| connection | MCConnection.cfg | RequestsDecoded, ClientSeesReplies | Any chunking of TCP decodes exactly the frames sent. Replies are those of a sequential store. |
| frame_laws | MCFrameLaws.cfg | CheckThenParse, EncodingRoundTrip | check/parse agree on all token strings of length ≤ 3, and frames round-trip. |
| client | MCClient.cfg | CallsAnsweredInOrder, CallCompletes, ImplementsService | Client calls return the results of a sequential store, and every call is answered. The client over the connection refines KeyValueService: each call is linearized at the server's apply. |

Runs that exhibit a disagreement between the code and what its spec or
comments say (each checks one property and TLC finds a violation):

| Run | Property | What it shows |
|---|---|---|
| simple_store_race | IndexPointsToLatest | `set` updates the index after releasing the write mutex. Two sets of one key can leave the index on the older record. |
| simple_store_newline | GetReturnsStoredValue | `get` returns the value with the record's trailing `\n`, because `read_line` keeps it. |
| simple_store_eol | RecoverRebuildsIndex | `set` writes the value's bytes unescaped. A value ending in `\r` loses that byte to `lines()`, while `recover` adds back only 1 for the line end. So every later offset is one short: in the trace, a second record at offset 4 is recovered at 3, and `get` reads from the wrong place after a restart. A Bulk string may carry `\r`. (A value holding `\n`, which splits its record, is a corruption the spec already warns of in section 9, so the run leaves it out.) |
| simple_store_torn | AckedKeysIndexed | A partial record from a failed `write_all` merges with the next acknowledged set's line. Recovery then loses that key. |
| connection_injection | ClientSeesReplies | An unknown command named `\r\n+OK` is echoed in an Error frame without escaping. The client decodes a forged extra reply. |

### Bounds and why they are enough

- **MiniRedis.** Two clients, two keys, one value, `TTL = 2`, `MaxTime = 4`,
  `MaxSets = 3`. This gives overwrites of a key, sets of two keys at the same
  instant, a set racing the purge task in every order, expiry before and
  after shutdown, and a notify pending while the task sleeps.
- **SimpleStore.** Two clients, keys `x` and `y`, and the value `a`.
  - The passing run uses `MaxSets = 3` and one fault.
  - The torn-write violation needs two faults: a failed write followed by a
    crash.
  - The race needs two sets of one key.
  - `simple_store_eol` uses only the value `"\r"`, with no fault: the
    property is about the file a restart would read. Two sets are enough to
    show a record recovered at the wrong offset.
- **Server.** Three sockets and two permits: one socket always has to wait for
  a permit. Two frames per connection. There is no symmetry reduction, because
  the run checks a liveness property. The safety properties are also proved for
  every finite set of sockets.
- **Connection.**
  - Two requests out of GET, SET, SET missing its value, and an unknown verb.
    This covers every path of `from_frame`.
  - TCP may split the bytes at every position, so every proper prefix of every
    frame is seen by `check`.
- **FrameLaws.** Every concatenation of up to three of ten tokens. The tokens
  include headers, partial lines, a negative bulk length, trailing junk after a
  digit, and bare CRLF. The test frames include a Bulk that contains CRLF and
  integers of more than one digit.
- **Client.** Three calls on one key with a value and the empty value, so that
  `Null` and an empty `Bulk` must be told apart, and a second set overwrites
  the first before the get.

### Fairness

Only steps that the code's scheduling guarantees get fairness. Clients,
Ctrl-C, accept and `Tick` are the environment and get none.

- **MiniRedis.** The purge task's steps are weakly fair: tokio runs a ready
  task. So are the notify of a `set` and of `shutdown_purge_task`, since
  `notify_one` follows the unlock with no await in between.
- **Server.** Weak fairness on `WorkerApply` and `Drain`. `WorkerShutdown` has
  strong fairness: `tokio::select!` polls its branches in random order, so a
  shutdown that stays ready wins eventually even against a client that keeps
  sending.
- **Client.** TCP delivery, the server's read step and the client's
  `read_response` are weakly fair. For the two read steps, WF is written out
  by its definition, `[]<>~ENABLED<<A>>_v \/ []<><<A>>_v`. There ENABLED is
  the state predicate "the buffer checks as something other than Incomplete"
  (`ServerReady`, `ResponseReady`), because TLC cannot evaluate ENABLED
  through the recursive codec.

## What is proved

`tlapm` checks two proof modules, each of which EXTENDS its component module
and TLAPS.

**`MiniRedisProofs`** proves MiniRedis's invariants for every set of keys,
values and clients, and every value of the bounds. It uses
`ConstantsAssumption`, `NoEntryAssumption` and `StoredValueAssumption`. The
last two say that `NoEntry` is neither an entry record nor an abstract
`(data, expires_at)` record.

- **`TypeCorrect`** proves `Spec => []TypeOK`. TypeOK is inductive: the lemmas
  `InitTypeOK` and `NextTypeOK`, with one step per action.
- **`ExpirationIndexConsistentHolds`** proves
  `Spec => []ExpirationIndexConsistent`. The invariant is not inductive by
  itself: a `set` could create a tuple equal to one already present, and then
  removing the previous entry's tuple would remove the new one. The
  strengthening is `IInv`, which adds:
  - `IdsBelowNext`: every id in `entries` and `expirations` is below
    `next_id`;
  - `IdsUnique`: no two keys' entries share an id.

  `InitIInv` and `NextIInv` prove that IInv is inductive. `SetIInv` handles
  the critical section of `set`, split on whether the key had a previous
  entry. `PurgeIInv` handles the purge loop. The theorem follows by PTL.
  The lemma `IInvHolds` (`Spec => []IInv`) is reused by the proofs below.
- **`NoLostWakeupHolds`** proves `Spec => []NoLostWakeup`, the hazard of a
  `set` whose `notify_one` comes after its unlock. NoLostWakeup is not
  inductive by itself. A `set` made while the task sleeps keeps the task's
  deadline valid only because its `when` (`now + TTL`) is no earlier than any
  `when` already in the index, and because the index cannot be empty while the
  task sleeps. `WInv` therefore adds to IInv:
  - `WhenBound`: every `when` is at most `now + TTL`;
  - `SleepNonEmpty`: a sleeping task has a non-empty index.

  `SetWInv` and `PurgeWInv` handle the two actions that change the index. The
  purge step uses `NextExpirationIsLeast` for the deadline it picks.
- **`NoEarlyEvictionHolds`** proves the action property
  `Spec => NoEarlyEviction`.
  - The lemma `NextEvictsOnlyExpired` shows `IInv /\ [Next]_vars =>
    EvictsOnlyExpired`.
    - A `set` stores an `Entry`, which is not `NoEntry`.
    - Every other action leaves `entries` unchanged, except a purge.
    - A purge removes a key only when an expired tuple names it
      (`PurgeEvictsExpired`). By ExpirationIndexConsistent, that tuple's
      `when` is the entry's `expires_at`.
  - PTL combines this with the lemma `IInvHolds` (`Spec => []IInv`).
- **`ImplementsTTLStoreHolds`** proves `Spec => ImplementsTTLStore`, the
  refinement of `TTLStore`, step by step:
  - `InitRefines`: the initial state maps to the empty abstract map.
  - `NextRefines`: under IInv, each step is an abstract step or a stutter.
    - `Get` is `Read`.
    - `Set` is `Write` (`SetRefines`).
    - A purge that runs is `Evict` of the keys its expired tuples name
      (`PurgeRefines`), which needs ExpirationIndexConsistent again.
    - `Tick` is `Tick`.
    - The notifies, the shutdown and the purge task's control steps leave
      `StoreMap`, `last_get` and `now` unchanged.
  - `AbstractEntryNone` says an entry's abstraction is `NoEntry` exactly when
    the entry is. It rests on `StoredValueAssumption`: `NoEntry` (Rust's
    `None`) is not a `(data, expires_at)` record.
- The lemma `NextExpirationIsLeast` states what the earliest-expiration helper
  returns.

**`ServerProofs`** proves the Server safety properties for every finite set of
sockets and every `MAX_CONNECTIONS` ≥ 1. It uses `ServerAssumption`, which
includes `IsFiniteSet(Conns)`. The inductive invariant `IInv` has three
conjuncts:

1. TypeOK;
2. PermitsAccounted, that is, `permits + Cardinality(Live) = MaxConnections`;
3. a dropped store implies `phase = "done"` and `Live = {}`.

The third conjunct is what makes StoreNotUsedAfterDrop inductive. Without it,
an `Accept` after the drop could not be excluded.

`NextIInv` has one step per action:
- `Accept` adds a socket that was not live: `FS_AddElement`.
- `WorkerEnd` and `WorkerShutdown` remove a live one: `FS_RemoveElement`. Here
  the cardinality argument also bounds `permits + 1 <= MaxConnections`.
- `WorkerRead` and `WorkerApply` leave `Live` unchanged.
- `Drain` requires `Live = {}`.

The lemmas `LiveAdd`, `LiveRemove`, `LiveSame` and `LiveFinite` state how
`Live` changes and that it is finite. The theorems are:
- `ServerTypeCorrect` (`Spec => []TypeOK`);
- `PermitsConserved` (`Spec => []PermitsAccounted`);
- `StoreDroppedAfterDrain` (`Spec => []StoreNotUsedAfterDrop`).
- `ImplementsAdmissionControlHolds` (`Spec => ImplementsAdmissionControl`).
  This is the refinement, proved step by step from IInv:
  - `InitRefines`: the initial state has no workers, accepts, and has not
    dropped the store.
  - `AcceptRefines`: an `Accept` is an `Admit`. A free permit and
    PermitsAccounted give `Cardinality(Live) < MaxConnections`.
  - `ExitRefines`: `WorkerEnd` and `WorkerShutdown` are `Release`s.
  - `StopServing` is `Stop`.
  - `DrainRefines`: `Drain` is the `Drop`. The store was not dropped
    before, by the third conjunct of IInv.
  - `WorkerRead` and `WorkerApply` leave all three mapped values unchanged.

### Only model-checked

- **Liveness.** `ExpiredEventuallyPurged`, `PurgeTaskExits`,
  `ShutdownCompletes` and `CallCompletes` are outside TLAPS's reach.
- **Recursive modules.** The codec, the connection, SimpleStore's recovery and
  the client are written with RECURSIVE operators. tlapm cannot prove theorems
  in such modules, so every property of them is established on the bounded
  instances above. This includes the refinement of KeyValueService by the
  client, which TLC checks as the property `ImplementsService`.
- **Server.** `ShutdownCompletes` is a liveness property, so it is checked on
  three sockets only.

## Not modelled

- `client/mod.rs` and `bin/main.rs` (CLI parsing, logging) and
  `key_value_store/mod.rs` (choosing a backend by name) hold no concurrent
  state.
- `frame/mod.rs`, `frame/error.rs`, `cmd/mod.rs` and `cmd/set.rs` are not
  declared in `lib.rs` and are not compiled. `frame/mod.rs` is an older copy
  of `connection/frame.rs`.
- Display, `to_error` and the log messages are formatting only.
- `Parser::next_int` and `Frame::push_int` are dead code.
- Real time: MiniRedis's clock is a bounded counter.
- The client's "connection reset" path, where the server closes the socket
  with no reply, cannot be reached by this client: it sends only well-formed
  GET and SET frames.
