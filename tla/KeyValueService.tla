--------------------------- MODULE KeyValueService ---------------------------
(***************************************************************************)
(* What a caller of Client::get and Client::set is promised, with the      *)
(* connection, the codec and the server hidden: one key/value map (the     *)
(* KeyValueStore trait of src/server/key_value_store/mod.rs), and calls    *)
(* made one at a time (&mut self), each taking effect at a single instant  *)
(* between its invocation and its return, or returning an error.  A        *)
(* failed call may or may not have taken effect.                           *)
(***************************************************************************)
EXTENDS Sequences

CONSTANTS
    Keys,     \* keys
    Values,   \* values
    None      \* Option::None of KeyValueStore::get

VARIABLES
    kv,       \* the map behind the trait
    call,     \* the call in progress, or NoCall
    answer,   \* what the call in progress will return, once it took effect
    results   \* what each finished call returned

svars == <<kv, call, answer, results>>

\* the calls, with the fields of Command (kind, key, value)
GetCall(k) == [kind |-> "get", key |-> k, value |-> <<>>]
SetCall(k, v) == [kind |-> "set", key |-> k, value |-> v]
NoCall == [kind |-> "none", key |-> <<>>, value |-> <<>>]

\* the results: Ok(Some(v)), Ok(None), Ok(()), Err(_); NoAnswer while the
\* call has not taken effect
Some(v) == [kind |-> "some", val |-> v]
NoValue == [kind |-> "none", val |-> <<>>]
Done == [kind |-> "ok", val |-> <<>>]
Err == [kind |-> "err", val |-> <<>>]
NoAnswer == [kind |-> "pending", val |-> <<>>]

Init ==
    /\ kv = [k \in Keys |-> None]
    /\ call = NoCall
    /\ answer = NoAnswer
    /\ results = <<>>

\* Client::get / Client::set start when no call is in progress
Invoke(c) ==
    /\ call = NoCall
    /\ call' = c
    /\ UNCHANGED <<kv, answer, results>>

\* KeyValueStore::get or ::set runs on the map, once per call
Apply ==
    /\ call # NoCall /\ answer = NoAnswer
    /\ IF call.kind = "get"
       THEN /\ answer' = IF kv[call.key] = None THEN NoValue ELSE Some(kv[call.key])
            /\ UNCHANGED kv
       ELSE /\ kv' = [kv EXCEPT ![call.key] = call.value]
            /\ answer' = Done
    /\ UNCHANGED <<call, results>>

\* the call returns what it got
Return ==
    /\ answer # NoAnswer
    /\ results' = Append(results, answer)
    /\ call' = NoCall /\ answer' = NoAnswer
    /\ UNCHANGED kv

\* the call returns an error (the connection failed), taken effect or not
Fail ==
    /\ call # NoCall
    /\ results' = Append(results, Err)
    /\ call' = NoCall /\ answer' = NoAnswer
    /\ UNCHANGED kv

Next ==
    \/ \E k \in Keys : Invoke(GetCall(k))
    \/ \E k \in Keys, v \in Values : Invoke(SetCall(k, v))
    \/ Apply
    \/ Return
    \/ Fail

Spec == Init /\ [][Next]_svars

=============================================================================
