---------------------------- MODULE SimpleStore ----------------------------
(***************************************************************************)
(* The append-log key/value engine of src/server/key_value_store/          *)
(* simple_store.rs.  The log file is a sequence of bytes (one-character    *)
(* strings); a record is key "," value "\n".  A set holds write_mutex      *)
(* while it reads the file length and appends, then releases it and        *)
(* takes the index write lock to store the offset: two critical sections,  *)
(* two actions.  A get reads the offset under the read lock and then       *)
(* reads the file with no lock held.  The process may crash at any point   *)
(* (losing the in-memory index, and leaving a prefix of a record being     *)
(* written), a write_all may fail part-way, and a restart rebuilds the     *)
(* index with recover().                                                   *)
(***************************************************************************)
EXTENDS Naturals, Sequences, SequencesExt

CONSTANTS
    Keys,       \* keys; each is a single byte
    Values,     \* values; each is a sequence of bytes
    Clients,    \* connection tasks calling get and set
    MaxSets,    \* bound on the number of set calls
    MaxFaults,  \* bound on crashes and failed writes together
    None,       \* Option::None (an absent index entry, a get of a missing key)
    Err,        \* the Err(...) a get returns when its integrity check bails
    NoClient    \* nobody holds write_mutex

Comma == ","
NL == "\n"

ASSUME StoreAssumption ==
    /\ MaxSets \in Nat /\ MaxFaults \in Nat
    /\ Keys \cap {Comma, NL} = {}
    /\ NoClient \notin Clients
    /\ None \notin Nat
    /\ Err \notin Values \cup {None}

VARIABLES
    file,       \* contents of log.raphdb
    index,      \* State.index: key -> byte offset of its record
    status,     \* "up", "down" after a crash, "failed" when recovery bailed
    mutex,      \* holder of write_mutex
    pc,         \* where each client is in get or set
    op_key,     \* key of the client's call in progress
    op_val,     \* value of the client's set in progress
    op_off,     \* `len` of a set, `offset` of a get
    last_get,   \* what the client's last get returned
    sets,       \* number of set calls made (bounded by MaxSets)
    faults,     \* number of crashes and failed writes (bounded by MaxFaults)
    acked,      \* keys whose set has returned Ok to a client
    latest      \* offset of the last record appended for each key

vars == <<file, index, status, mutex, pc, op_key, op_val, op_off, last_get,
          sets, faults, acked, latest>>

-----------------------------------------------------------------------------
(* The record format and the parsing done by get and recover.              *)

\* set: buf = key "," value "\n"  (simple_store.rs 140-144)
Record(k, v) == <<k, Comma>> \o v \o <<NL>>

IsComma(b) == b = Comma
IsNL(b) == b = NL

\* line.split(",")[0]: the bytes before the first comma
KeyField(line) == SubSeq(line, 1, SelectInSeq(line, IsComma) - 1)

\* key_value[1..].join(""): the bytes after the first comma, commas dropped
ValueField(line) ==
    SelectSeq(SubSeq(line, SelectInSeq(line, IsComma) + 1, Len(line)),
              LAMBDA b : b # Comma)

\* seek(offset) then BufReader::read_line: up to and including the next
\* "\n", or to the end of the file
ReadLine(f, off) ==
    LET rest == SubSeq(f, off + 1, Len(f))
        i == SelectInSeq(rest, IsNL)
    IN  IF i = 0 THEN rest ELSE SubSeq(rest, 1, i)

\* get, after reading the line (simple_store.rs 125-136)
GetResult(line, k) ==
    IF SelectInSeq(line, IsComma) = 0 THEN Err          \* fewer than 2 fields
    ELSE IF KeyField(line) # <<k>> THEN Err             \* key mismatch
    ELSE ValueField(line)

\* next_line drops a line's "\n" and then a "\r" just before it
StripCR(line) == IF line # <<>> /\ Last(line) = "\r" THEN Front(line) ELSE line

\* AsyncBufReadExt::lines: split on "\n", the "\n" (or "\r\n") dropped, a
\* last line without "\n" still yielded as it is
RECURSIVE Lines(_)
Lines(f) ==
    IF f = <<>> THEN <<>>
    ELSE LET i == SelectInSeq(f, IsNL)
         IN  IF i = 0 THEN <<f>>
             ELSE <<StripCR(SubSeq(f, 1, i - 1))>> \o Lines(SubSeq(f, i + 1, Len(f)))

\* the while-let loop of recover(): index[key] = byte_offset, and
\* byte_offset += line.len() + 1; a line without a comma bails (ok = FALSE).  Keys that
\* are not a member of Keys are never asked for, so they are not kept.
\* Mutant of RecoverLoop: forgets the +1 for the "\n" that lines() strips
RECURSIVE RecoverLoopNoNewline(_, _, _)
RecoverLoopNoNewline(lines, byte_offset, idx) ==
    IF lines = <<>> THEN [ok |-> TRUE, index |-> idx]
    ELSE LET line == Head(lines)
             key == KeyField(line)
         IN  IF SelectInSeq(line, IsComma) = 0 THEN [ok |-> FALSE, index |-> idx]
             ELSE RecoverLoopNoNewline(Tail(lines), byte_offset + Len(line),
                              IF \E k \in Keys : key = <<k>>
                              THEN [idx EXCEPT ![key[1]] = byte_offset]
                              ELSE idx)

\* Mutant of RecoverLoop: keeps the first record of a key (entry().or_insert)
RECURSIVE RecoverLoopFirstWins(_, _, _)
RecoverLoopFirstWins(lines, byte_offset, idx) ==
    IF lines = <<>> THEN [ok |-> TRUE, index |-> idx]
    ELSE LET line == Head(lines)
             key == KeyField(line)
         IN  IF SelectInSeq(line, IsComma) = 0 THEN [ok |-> FALSE, index |-> idx]
             ELSE RecoverLoopFirstWins(Tail(lines), byte_offset + Len(line) + 1,
                              IF \E k \in Keys : key = <<k>> /\ idx[k] = None
                              THEN [idx EXCEPT ![key[1]] = byte_offset]
                              ELSE idx)

RECURSIVE RecoverLoop(_, _, _)
RecoverLoop(lines, byte_offset, idx) ==
    IF lines = <<>> THEN [ok |-> TRUE, index |-> idx]
    ELSE LET line == Head(lines)
             key == KeyField(line)
         IN  IF SelectInSeq(line, IsComma) = 0 THEN [ok |-> FALSE, index |-> idx]
             ELSE RecoverLoop(Tail(lines), byte_offset + Len(line) + 1,
                              IF \E k \in Keys : key = <<k>>
                              THEN [idx EXCEPT ![key[1]] = byte_offset]
                              ELSE idx)

EmptyIndex == [k \in Keys |-> None]

\* recover() (simple_store.rs 82-103)
Recover(f) == RecoverLoop(Lines(f), 0, EmptyIndex)

-----------------------------------------------------------------------------
(* The operations.                                                         *)

\* SimpleStore::new on a machine without a log file: init() creates it
Init ==
    /\ file = <<>>
    /\ index = EmptyIndex
    /\ status = "up"
    /\ mutex = NoClient
    /\ pc = [c \in Clients |-> "idle"]
    /\ op_key = [c \in Clients |-> CHOOSE k \in Keys : TRUE]
    /\ op_val = [c \in Clients |-> CHOOSE v \in Values : TRUE]
    /\ op_off = [c \in Clients |-> 0]
    /\ last_get = [c \in Clients |-> None]
    /\ sets = 0
    /\ faults = 0
    /\ acked = {}
    /\ latest = EmptyIndex

\* set, first section: lock write_mutex, open for append, len = metadata.len()
SetLock(c, k, v) ==
    /\ status = "up" /\ pc[c] = "idle" /\ mutex = NoClient
    /\ sets < MaxSets
    /\ mutex' = c
    /\ pc' = [pc EXCEPT ![c] = "set_locked"]
    /\ op_key' = [op_key EXCEPT ![c] = k]
    /\ op_val' = [op_val EXCEPT ![c] = v]
    /\ op_off' = [op_off EXCEPT ![c] = Len(file)]
    /\ sets' = sets + 1
    /\ UNCHANGED <<file, index, status, last_get, faults, acked, latest>>

\* Mutant of SetWrite: `len` taken from metadata() after write_all
SetWriteLenAfter(c) ==
    /\ status = "up" /\ pc[c] = "set_locked"
    /\ file' = file \o Record(op_key[c], op_val[c])
    /\ mutex' = NoClient
    /\ pc' = [pc EXCEPT ![c] = "set_index"]
    /\ latest' = [latest EXCEPT ![op_key[c]] = Len(file)]
    /\ op_off' = [op_off EXCEPT ![c] = Len(file')]
    /\ UNCHANGED <<index, status, op_key, op_val, last_get, sets, faults, acked>>

\* write_all + sync_all succeed; the guard _m drops and releases the mutex
SetWrite(c) ==
    /\ status = "up" /\ pc[c] = "set_locked"
    /\ file' = file \o Record(op_key[c], op_val[c])
    /\ mutex' = NoClient
    /\ pc' = [pc EXCEPT ![c] = "set_index"]
    /\ latest' = [latest EXCEPT ![op_key[c]] = op_off[c]]
    /\ UNCHANGED <<index, status, op_key, op_val, op_off, last_get, sets,
                   faults, acked>>

\* write_all fails part-way (it may have written a prefix) and `?` returns
\* the error; the mutex guard is dropped on the way out
SetWriteFails(c) ==
    /\ status = "up" /\ pc[c] = "set_locked"
    /\ faults < MaxFaults
    /\ \E n \in 0..(Len(Record(op_key[c], op_val[c])) - 1) :
          file' = file \o SubSeq(Record(op_key[c], op_val[c]), 1, n)
    /\ mutex' = NoClient
    /\ pc' = [pc EXCEPT ![c] = "idle"]
    /\ faults' = faults + 1
    /\ UNCHANGED <<index, status, op_key, op_val, op_off, last_get, sets,
                   acked, latest>>

\* set, second section: state.write(), index.insert(key, len); return Ok
SetIndex(c) ==
    /\ status = "up" /\ pc[c] = "set_index"
    /\ index' = [index EXCEPT ![op_key[c]] = op_off[c]]
    /\ pc' = [pc EXCEPT ![c] = "idle"]
    /\ acked' = acked \cup {op_key[c]}
    /\ UNCHANGED <<file, status, mutex, op_key, op_val, op_off, last_get,
                   sets, faults, latest>>

\* Mutant of GetIndex: no early return when the key is missing
GetIndexNoEarlyReturn(c, k) ==
    /\ status = "up" /\ pc[c] = "idle"
    /\ pc' = [pc EXCEPT ![c] = "get_read"]
    /\ op_key' = [op_key EXCEPT ![c] = k]
    /\ op_off' = [op_off EXCEPT ![c] = index[k]]
    /\ UNCHANGED <<file, index, status, mutex, op_val, last_get, sets, faults,
                   acked, latest>>

\* get, first section: state.read(), index.get(key); None returns at once
GetIndex(c, k) ==
    /\ status = "up" /\ pc[c] = "idle"
    /\ IF index[k] = None
       THEN /\ last_get' = [last_get EXCEPT ![c] = None]
            /\ UNCHANGED <<pc, op_key, op_off>>
       ELSE /\ pc' = [pc EXCEPT ![c] = "get_read"]
            /\ op_key' = [op_key EXCEPT ![c] = k]
            /\ op_off' = [op_off EXCEPT ![c] = index[k]]
            /\ UNCHANGED last_get
    /\ UNCHANGED <<file, index, status, mutex, op_val, sets, faults, acked,
                   latest>>

\* get, second part, with no lock held: open, seek, read_line, parse
GetRead(c) ==
    /\ status = "up" /\ pc[c] = "get_read"
    /\ last_get' = [last_get EXCEPT
                      ![c] = GetResult(ReadLine(file, op_off[c]), op_key[c])]
    /\ pc' = [pc EXCEPT ![c] = "idle"]
    /\ UNCHANGED <<file, index, status, mutex, op_key, op_val, op_off, sets,
                   faults, acked, latest>>

\* The process dies.  The index and every call in progress are lost; a
\* write_all in progress may have put any prefix of its record in the file.
Crash ==
    /\ status = "up" /\ faults < MaxFaults
    /\ \/ /\ mutex = NoClient
          /\ UNCHANGED file
       \/ /\ mutex # NoClient
          /\ \E n \in 0..Len(Record(op_key[mutex], op_val[mutex])) :
                file' = file \o SubSeq(Record(op_key[mutex], op_val[mutex]), 1, n)
    /\ status' = "down"
    /\ index' = EmptyIndex
    /\ mutex' = NoClient
    /\ pc' = [c \in Clients |-> "idle"]
    /\ faults' = faults + 1
    /\ UNCHANGED <<op_key, op_val, op_off, last_get, sets, acked, latest>>

\* SimpleStore::new after a crash: the file exists, so init() recovers;
\* a corruption error aborts startup
Restart ==
    /\ status = "down"
    /\ IF Recover(file).ok
       THEN /\ status' = "up"
            /\ index' = Recover(file).index
       ELSE /\ status' = "failed"
            /\ UNCHANGED index
    /\ UNCHANGED <<file, mutex, pc, op_key, op_val, op_off, last_get, sets,
                   faults, acked, latest>>

Next ==
    \/ \E c \in Clients, k \in Keys, v \in Values : SetLock(c, k, v)
    \/ \E c \in Clients : SetWrite(c) \/ SetWriteFails(c) \/ SetIndex(c)
    \/ \E c \in Clients, k \in Keys : GetIndex(c, k)
    \/ \E c \in Clients : GetRead(c)
    \/ Crash
    \/ Restart

Spec == Init /\ [][Next]_vars

-----------------------------------------------------------------------------
(* Properties.                                                             *)

\* Every variable has the shape the code gives it.
TypeOK ==
    /\ \A i \in 1..Len(file) : file[i] \in Keys \cup {Comma, NL} \cup
                                         UNION {{v[j] : j \in 1..Len(v)} : v \in Values}
    /\ index \in [Keys -> Nat \cup {None}]
    /\ status \in {"up", "down", "failed"}
    /\ mutex \in Clients \cup {NoClient}
    /\ pc \in [Clients -> {"idle", "set_locked", "set_index", "get_read"}]
    /\ op_off \in [Clients -> Nat]
    /\ sets \in 0..MaxSets /\ faults \in 0..MaxFaults
    /\ acked \subseteq Keys

\* Spec section 3: for every key in the index, the record at index[key]
\* starts with that key, so the integrity check of get (simple_store.rs
\* 127-131) never fails; this must survive torn writes and recover().
IndexKeyMatches ==
    status = "up" =>
        \A k \in Keys : index[k] # None =>
            GetResult(ReadLine(file, index[k]), k) # Err

\* Spec section 3: the index always points at the most recent record of a
\* key once no set of that key is in progress (set, simple_store.rs 147-158).
IndexPointsToLatest ==
    (status = "up" /\ faults = 0) =>
        \A k \in Keys :
            (\A c \in Clients : pc[c] \in {"set_locked", "set_index"} => op_key[c] # k)
                => index[k] = latest[k]

\* Spec sections 4.5.2 and 8 (scenario 6): a get returns a value that was
\* set, or None (get, simple_store.rs 122-136).
GetReturnsStoredValue ==
    \A c \in Clients : last_get[c] \in Values \cup {None, Err}

\* Spec section 8 (persistence): were the process to restart now, recover()
\* would succeed and rebuild, for every key, the offset of its latest record
\* ("multiple set(k,*) preserve the latest value across restart").  Only
\* claimed while no write has failed or been torn (faults = 0).  It needs
\* set's record layout (simple_store.rs 140-144), the lines() split and
\* recover's offset arithmetic (82-103) to agree.
RecoverRebuildsIndex ==
    faults = 0 => Recover(file) = [ok |-> TRUE, index |-> latest]

\* Spec section 8 (persistence): after a set returned Ok and the process
\* restarts, recovery finds the key (recover, simple_store.rs 82-103).
AckedKeysIndexed ==
    status = "up" => \A k \in acked : index[k] # None

=============================================================================
