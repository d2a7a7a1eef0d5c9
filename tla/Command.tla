------------------------------- MODULE Command -------------------------------
(***************************************************************************)
(* Command dispatch: the Parser over an array frame (src/connection/       *)
(* parser.rs), Command::from_frame and apply (src/connection/cmd/*.rs).    *)
(* The store is seen through get and set only, as a map from keys to       *)
(* values; the two engines are modelled in MiniRedis and SimpleStore.      *)
(***************************************************************************)
EXTENDS Frame

CONSTANT None   \* Option::None of KeyValueStore::get

\* Result<_, ParserError> / crate::Result
PErr == [st |-> "error", rest |-> <<>>, val |-> <<>>]
POk(rest, v) == [st |-> "ok", rest |-> rest, val |-> v]

\* str::to_lowercase, on the symbols the model uses for verbs
LowerByte(b) == CASE b = "GET" -> "get" [] b = "SET" -> "set" [] OTHER -> b
Lowercase(s) == [i \in DOMAIN s |-> LowerByte(s[i])]

\* Parser::next_string: Simple, or Bulk read as UTF-8 (every byte of the
\* model is valid UTF-8); EndOfStream when nothing is left
NextString(parts) ==
    IF parts = <<>> THEN PErr
    ELSE IF Head(parts).tag \in {"Simple", "Bulk"} THEN POk(Tail(parts), Head(parts).val)
    ELSE PErr

\* Parser::next_bytes: Simple or Bulk, as raw bytes
NextBytes(parts) == NextString(parts)

\* Parser::finish
Finish(parts) == parts = <<>>

\* the commands
GetCmd(k) == [kind |-> "get", key |-> k, value |-> <<>>]
SetCmd(k, v) == [kind |-> "set", key |-> k, value |-> v]
UnknownCmd(name) == [kind |-> "unknown", key |-> <<>>, value |-> name]
NoCommand == [kind |-> "error", key |-> <<>>, value |-> <<>>]

\* Command::from_frame: Parser::new refuses anything but an Array; the
\* lowercased verb picks the command; an unknown verb returns at once,
\* skipping finish(); a known one must consume every part
FromFrame(frame) ==
    IF frame.tag # "Array" THEN NoCommand
    ELSE LET verb == NextString(frame.val)
         IN  IF verb.st = "error" THEN NoCommand
             ELSE LET name == Lowercase(verb.val)
                      key == NextString(verb.rest)
                      value == NextBytes(key.rest)
                  IN  CASE name = <<"get">> ->
                             IF key.st = "error" \/ ~Finish(key.rest) THEN NoCommand
                             ELSE GetCmd(key.val)
                        [] name = <<"set">> ->
                             IF key.st = "error" \/ value.st = "error"
                                \/ ~Finish(value.rest) THEN NoCommand
                             ELSE SetCmd(key.val, value.val)
                        [] OTHER -> UnknownCmd(name)

\* the text of Unknown's reply: format!("ERR unknown command '{}'", name)
UnknownText(name) == <<"ERR unknown command '">> \o name \o <<"'">>

\* Command::apply: the reply frame written to the connection
Reply(cmd, store) ==
    CASE cmd.kind = "get" ->
           IF store[cmd.key] = None THEN Null ELSE Bulk(store[cmd.key])
      [] cmd.kind = "set" -> Simple(<<"OK">>)
      [] cmd.kind = "unknown" -> ErrorFrame(UnknownText(cmd.value))

\* Mutant of Applied: a set does not overwrite a present value
AppliedKeepsFirst(cmd, store) ==
    IF cmd.kind = "set" /\ store[cmd.key] = None
    THEN [store EXCEPT ![cmd.key] = cmd.value] ELSE store

\* the store after Command::apply: only a set changes it
Applied(cmd, store) ==
    IF cmd.kind = "set" THEN [store EXCEPT ![cmd.key] = cmd.value] ELSE store

\* Frame::array() then push_bulk of each part (frame.rs 19-35)
BulkArray(parts) == Array([i \in DOMAIN parts |-> Bulk(parts[i])])

\* Mutant of GetIntoFrame: the key is not pushed
GetIntoFrameNoKey(k) == BulkArray(<<<<"get">>>>)

\* Get::into_frame: ["get", key] as bulk strings
GetIntoFrame(k) == BulkArray(<<<<"get">>, k>>)

\* Set::into_frame: ["set", key, value] as bulk strings
SetIntoFrame(k, v) == BulkArray(<<<<"set">>, k, v>>)

=============================================================================
