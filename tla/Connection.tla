------------------------------ MODULE Connection ------------------------------
(***************************************************************************)
(* One client connection end to end.  The client writes command frames     *)
(* with write_frame; TCP hands the bytes to the server in chunks of any    *)
(* size; the server worker's read_frame runs check and then parse on its   *)
(* buffer, reads more bytes on Incomplete, dispatches the frame with       *)
(* Command::from_frame, applies it and writes the reply; the replies go    *)
(* back the same way to the client's read_frame.  Connection (read_frame,  *)
(* write_frame) and the worker loop are taken from spec sections 4.3 and   *)
(* 4.6, as connection/mod.rs and handler.rs are not in the source tree;    *)
(* check, parse, create_bytes and the commands are the code's.             *)
(***************************************************************************)
EXTENDS Command

CONSTANTS
    Requests,     \* the command frames the client may send
    Keys,         \* the keys (byte strings) those commands name
    MaxRequests   \* bound on the frames the client sends

ASSUME ConnectionAssumption == MaxRequests \in Nat /\ None \notin Seq(STRING)

VARIABLES
    c2s,        \* bytes written by the client
    s_recv,     \* how many of them TCP has delivered to the server's buffer
    s_pos,      \* how many of them read_frame has consumed
    s2c,        \* bytes written by the server
    c_recv,     \* how many of them have been delivered to the client
    c_pos,      \* how many of them the client has consumed
    sent,       \* frames the client wrote
    decoded,    \* frames the server's read_frame returned
    replies,    \* frames the server wrote
    got,        \* frames the client's read_frame returned
    server,     \* "open", or "closed" after an error
    client,     \* "open", or "closed" after an error
    store       \* the key/value store as the commands see it

vars == <<c2s, s_recv, s_pos, s2c, c_recv, c_pos, sent, decoded, replies,
          got, server, client, store>>

Init ==
    /\ c2s = <<>> /\ s_recv = 0 /\ s_pos = 0
    /\ s2c = <<>> /\ c_recv = 0 /\ c_pos = 0
    /\ sent = <<>> /\ decoded = <<>> /\ replies = <<>> /\ got = <<>>
    /\ server = "open" /\ client = "open"
    /\ store = [k \in Keys |-> None]

\* the unconsumed part of a read buffer
Buffer(wire, pos, recv) == SubSeq(wire, pos + 1, recv)

\* the client sends a command: write_frame, then flush
ClientSend(f) ==
    /\ client = "open" /\ Len(sent) < MaxRequests
    /\ c2s' = c2s \o WriteFrame(f)
    /\ sent' = Append(sent, f)
    /\ UNCHANGED <<s_recv, s_pos, s2c, c_recv, c_pos, decoded, replies, got,
                   server, client, store>>

\* TCP delivers the next n bytes to the server (a read into the buffer)
DeliverToServer ==
    /\ server = "open"
    /\ \E n \in (s_recv + 1)..Len(c2s) : s_recv' = n
    /\ UNCHANGED <<c2s, s_pos, s2c, c_recv, c_pos, sent, decoded, replies,
                   got, server, client, store>>

\* read_frame on the server: check the buffer; on Incomplete wait for more
\* bytes; on success parse, advance the buffer by what check measured, and
\* hand the frame to Command::from_frame.  Any error closes the connection
\* with no reply; otherwise the command is applied and its reply written.
ServerHandle ==
    LET buf == Buffer(c2s, s_pos, s_recv)
        chk == Check(buf, 0)
        prs == Parse(buf, 0)
        framed == chk.st = "ok" /\ prs.st = "ok"
        cmd == FromFrame(prs.val)
    IN  /\ server = "open"
        /\ chk.st # "incomplete"
        /\ s_pos' = IF framed THEN s_pos + chk.pos ELSE s_pos
        /\ decoded' = IF framed THEN Append(decoded, prs.val) ELSE decoded
        /\ IF framed /\ cmd.kind # "error"
           THEN /\ s2c' = s2c \o WriteFrame(Reply(cmd, store))
                /\ replies' = Append(replies, Reply(cmd, store))
                /\ store' = Applied(cmd, store)
                /\ UNCHANGED server
           ELSE /\ server' = "closed"
                /\ UNCHANGED <<s2c, replies, store>>
        /\ UNCHANGED <<c2s, s_recv, c_recv, c_pos, sent, got, client>>

\* TCP delivers the next n bytes of the replies to the client
DeliverToClient ==
    /\ client = "open"
    /\ \E n \in (c_recv + 1)..Len(s2c) : c_recv' = n
    /\ UNCHANGED <<c2s, s_recv, s_pos, s2c, c_pos, sent, decoded, replies,
                   got, server, client, store>>

\* read_frame on the client
ClientRead ==
    LET buf == Buffer(s2c, c_pos, c_recv)
        chk == Check(buf, 0)
        prs == Parse(buf, 0)
    IN  /\ client = "open"
        /\ chk.st # "incomplete"
        /\ IF chk.st = "ok" /\ prs.st = "ok"
           THEN /\ c_pos' = c_pos + chk.pos
                /\ got' = Append(got, prs.val)
                /\ UNCHANGED client
           ELSE /\ client' = "closed"
                /\ UNCHANGED <<c_pos, got>>
        /\ UNCHANGED <<c2s, s_recv, s_pos, s2c, c_recv, sent, decoded,
                       replies, server, store>>

Next ==
    \/ \E f \in Requests : ClientSend(f)
    \/ DeliverToServer
    \/ ServerHandle
    \/ DeliverToClient
    \/ ClientRead

Spec == Init /\ [][Next]_vars

-----------------------------------------------------------------------------
(* Properties.                                                             *)

\* The reply a sequential key/value store owes the i-th request, from the
\* requests alone: a get sees the value of the last earlier set of its key
\* (or None), a set is acknowledged, an unknown verb is reported.
Expected(i) ==
    LET cmd == FromFrame(sent[i])
        sets == {j \in 1..(i - 1) : FromFrame(sent[j]).kind = "set"
                                    /\ FromFrame(sent[j]).key = cmd.key}
    IN  CASE cmd.kind = "get" ->
               IF sets = {} THEN Null ELSE Bulk(FromFrame(sent[Max(sets)]).value)
          [] cmd.kind = "set" -> Simple(<<"OK">>)
          [] cmd.kind = "unknown" -> ErrorFrame(UnknownText(cmd.value))

\* The server decodes exactly the frames the client wrote, however TCP
\* splits the bytes (check says Incomplete on every proper prefix, and
\* parse consumes what check measured), and it closes the connection only
\* on a frame that is not a command (spec section 8, scenario 5).
RequestsDecoded ==
    /\ IsPrefix(decoded, sent)
    /\ server = "closed" => decoded # <<>> /\ FromFrame(Last(decoded)).kind = "error"

\* Spec section 8 (round trip through the connection writer, and the KV
\* laws): the client decodes one frame per reply, each the reply a
\* sequential store gives to its request, and never a framing error.
ClientSeesReplies ==
    /\ client = "open"
    /\ \A i \in 1..Len(got) : got[i] = Expected(i)

=============================================================================
