-------------------------------- MODULE Client --------------------------------
(***************************************************************************)
(* The raphdb client of src/client/client.rs driving one connection to a  *)
(* server.  A call writes the request built by Get::into_frame or          *)
(* Set::into_frame, then awaits read_response and turns the reply frame    *)
(* into the call's result; calls are sequential (&mut self).  The wire,   *)
(* the server worker and the codec are those of the Connection module.     *)
(***************************************************************************)
EXTENDS Connection

CONSTANT Values   \* the values (byte strings) the client may set

VARIABLES
    pending,   \* the call awaiting its reply: "none", "get" or "set"
    results    \* what each finished call returned

cvars == <<vars, pending, results>>

\* crate::Result<Option<Bytes>> and crate::Result<()> of the calls
Some(v) == [kind |-> "some", val |-> v]
NoValue == [kind |-> "none", val |-> <<>>]
Done == [kind |-> "ok", val |-> <<>>]
Err == [kind |-> "err", val |-> <<>>]

\* Mutant of ReadResponse: get reads Null as an empty value
ReadResponseNullEmpty(call, f) ==
    IF f.tag = "Error" THEN Err
    ELSE IF call = "get"
    THEN CASE f.tag \in {"Simple", "Bulk", "Null"} -> Some(f.val)
           [] OTHER -> Err
    ELSE IF f.tag = "Simple" /\ f.val = <<"OK">> THEN Done ELSE Err

\* read_response, then the match of get or set_cmd: an Error frame is an
\* error; get takes Simple or Bulk as a value and Null as none; set wants
\* Simple("OK"); any other frame is "unexpected frame"
ReadResponse(call, f) ==
    IF f.tag = "Error" THEN Err
    ELSE IF call = "get"
    THEN CASE f.tag \in {"Simple", "Bulk"} -> Some(f.val)
           [] f.tag = "Null" -> NoValue
           [] OTHER -> Err
    ELSE IF f.tag = "Simple" /\ f.val = <<"OK">> THEN Done ELSE Err

ClientInit == Init /\ pending = "none" /\ results = <<>>

\* Client::get: write the Get frame
CallGet(k) ==
    /\ pending = "none"
    /\ ClientSend(GetIntoFrame(k))
    /\ pending' = "get"
    /\ UNCHANGED results

\* Client::set / set_cmd: write the Set frame
CallSet(k, v) ==
    /\ pending = "none"
    /\ ClientSend(SetIntoFrame(k, v))
    /\ pending' = "set"
    /\ UNCHANGED results

\* the awaited read_response returns: a frame, or the read_frame error
\* that closed the client
Respond ==
    /\ pending # "none"
    /\ ClientRead
    /\ pending' = "none"
    /\ results' = Append(results, IF client' = "closed" THEN Err
                                  ELSE ReadResponse(pending, Last(got')))

\* the wire and the server run between the client's steps
Network ==
    /\ DeliverToServer \/ ServerHandle \/ DeliverToClient
    /\ UNCHANGED <<pending, results>>

ClientNext ==
    \/ \E k \in Keys : CallGet(k) \/ \E v \in Values : CallSet(k, v)
    \/ Respond
    \/ Network

ClientSpec == ClientInit /\ [][ClientNext]_cvars

\* The server's read_frame returns (a frame or an error) as soon as its
\* buffer checks as anything but Incomplete: ENABLED <<ServerHandle>>_cvars,
\* as a state predicate (ServerHandle always changes s_pos or server).
ServerReady == server = "open" /\ Check(Buffer(c2s, s_pos, s_recv), 0).st # "incomplete"

\* ENABLED <<Respond>>_cvars, likewise
ResponseReady ==
    /\ pending # "none" /\ client = "open"
    /\ Check(Buffer(s2c, c_pos, c_recv), 0).st # "incomplete"

\* TCP delivers what was written, the server worker and the client task are
\* scheduled while they can run: weak fairness on every step but the calls.
\* For the two read_frame steps WF is written out by its definition,
\* []<>~ENABLED<<A>>_v \/ []<><<A>>_v, with the predicates above.
ClientFairness ==
    /\ WF_cvars(DeliverToServer /\ UNCHANGED <<pending, results>>)
    /\ WF_cvars(DeliverToClient /\ UNCHANGED <<pending, results>>)
    /\ []<>~ServerReady \/ []<><<ServerHandle /\ UNCHANGED <<pending, results>>>>_cvars
    /\ []<>~ResponseReady \/ []<><<Respond>>_cvars

ClientFairSpec == ClientSpec /\ ClientFairness

-----------------------------------------------------------------------------
(* Properties.                                                             *)

\* The result a sequential key/value store owes the i-th call: a get sees
\* the value of the last earlier set of its key, or none; a set is Ok.
ExpectedResult(i) ==
    LET cmd == FromFrame(sent[i])
        sets == {j \in 1..(i - 1) : FromFrame(sent[j]).kind = "set"
                                    /\ FromFrame(sent[j]).key = cmd.key}
    IN  IF cmd.kind = "set" THEN Done
        ELSE IF sets = {} THEN NoValue
        ELSE Some(FromFrame(sent[Max(sets)]).value)

\* Through into_frame, write_frame, the server's check/parse/from_frame/
\* apply, the reply's create_bytes and the client's read_response, every
\* call of the client is answered once, in order, with the result of a
\* sequential store (Client::get and Client::set are linearizable for a
\* single client); no call ever fails.
CallsAnsweredInOrder ==
    /\ Len(results) = Len(sent) - (IF pending = "none" THEN 0 ELSE 1)
    /\ \A i \in 1..Len(results) : results[i] = ExpectedResult(i)

\* A call that was written is eventually answered: the client never waits
\* forever in read_response for a reply the server does not send.
CallCompletes == pending # "none" ~> pending = "none"

-----------------------------------------------------------------------------
(* Refinement of KeyValueService.                                          *)

\* The abstract call in progress: the command of the frame last written.
ServiceCall ==
    IF pending = "none" THEN [kind |-> "none", key |-> <<>>, value |-> <<>>]
    ELSE FromFrame(Last(sent))

\* What a reply frame means to the caller (spec section 8): a Bulk is the
\* value, Null is none, +OK acknowledges a set, anything else is an error.
ReplyMeaning(f) ==
    CASE f.tag = "Bulk" -> Some(f.val)
      [] f = Null -> NoValue
      [] f = Simple(<<"OK">>) -> Done
      [] OTHER -> Err

\* The call has taken effect once the server has written its reply; it
\* will return what that reply means.
ServiceAnswer ==
    IF pending # "none" /\ Len(replies) = Len(sent)
    THEN ReplyMeaning(Last(replies))
    ELSE [kind |-> "pending", val |-> <<>>]

Service == INSTANCE KeyValueService WITH
    kv <- store, call <- ServiceCall, answer <- ServiceAnswer, results <- results

\* Client::get and Client::set over one connection implement the abstract
\* key/value service: the server's apply (Command::apply on the store) is
\* the instant each call takes effect, between the client's write_frame and
\* the return of its read_response, and every other step of the wire, the
\* codec and the server hides as a stutter.
ImplementsService == Service!Spec

=============================================================================
