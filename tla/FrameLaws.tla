------------------------------ MODULE FrameLaws ------------------------------
(***************************************************************************)
(* The codec on arbitrary input.  A peer may send any bytes, so the input  *)
(* grows one token at a time (a token is a few bytes that matter to        *)
(* check and parse: headers, lines, a lone byte); each state is one        *)
(* buffer that read_frame may hold.  One frame of a test set is chosen at  *)
(* the start for the encoding laws.                                        *)
(***************************************************************************)
EXTENDS Frame

CONSTANTS
    Tokens,      \* byte strings the input is made of
    MaxTokens,   \* bound on the tokens in one input
    TestFrames   \* non-Array frames for the encoding laws

ASSUME FrameLawsAssumption == MaxTokens \in Nat

VARIABLES input, count, frame

vars == <<input, count, frame>>

Init == input = <<>> /\ count = 0 /\ frame \in TestFrames

\* the peer's next bytes arrive in the buffer
Extend(t) ==
    /\ count < MaxTokens
    /\ input' = input \o t
    /\ count' = count + 1
    /\ UNCHANGED frame

Next == \E t \in Tokens : Extend(t)

Spec == Init /\ [][Next]_vars

-----------------------------------------------------------------------------
(* Properties.                                                             *)

\* parse is "called after Frame::check" (frame.rs 132): on a buffer check
\* accepts, parse never reaches its unimplemented!() arm, and when it
\* succeeds it consumes exactly the bytes check measured, which is what
\* read_frame advances the buffer by.
CheckThenParse ==
    LET c == Check(input, 0)
        p == Parse(input, 0)
    IN  c.st = "ok" => /\ p.st # "panic"
                       /\ p.st = "ok" => p.pos = c.pos

\* Spec section 8: parse(encode(F)) == F, consuming the whole encoding, and
\* check says Incomplete on every proper prefix of the encoding.
EncodingRoundTrip ==
    LET bytes == CreateBytes(frame)
        p == Parse(bytes, 0)
    IN  /\ p.st = "ok" /\ p.pos = Len(bytes) /\ p.val = frame
        /\ \A n \in 0..(Len(bytes) - 1) : Check(SubSeq(bytes, 1, n), 0).st = "incomplete"
=============================================================================
