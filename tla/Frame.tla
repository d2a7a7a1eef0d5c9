-------------------------------- MODULE Frame --------------------------------
(***************************************************************************)
(* The RESP frame codec of src/connection/frame.rs: create_bytes, check    *)
(* and parse over a byte buffer read through a cursor.  A byte is a        *)
(* one-character string; a key or a command verb is a single symbol (a     *)
(* data abstraction: the codec only counts and copies the bytes of a       *)
(* payload).  Results carry the cursor position, so that what check        *)
(* measures can be compared with what parse consumes.                      *)
(***************************************************************************)
EXTENDS Naturals, Sequences, SequencesExt

CR == "\r"
LF == "\n"
CRLF == <<CR, LF>>
Digits == <<"0", "1", "2", "3", "4", "5", "6", "7", "8", "9">>

\* Frame::{Simple, Error, Integer, Bulk, Null, Array}; val holds the bytes
\* (or the elements of an Array), num the u64 of an Integer
Simple(s) == [tag |-> "Simple", val |-> s, num |-> 0]
ErrorFrame(s) == [tag |-> "Error", val |-> s, num |-> 0]
Integer(n) == [tag |-> "Integer", val |-> <<>>, num |-> n]
Bulk(b) == [tag |-> "Bulk", val |-> b, num |-> 0]
Null == [tag |-> "Null", val |-> <<>>, num |-> 0]
Array(fs) == [tag |-> "Array", val |-> fs, num |-> 0]

\* Result<_, FrameError>, with the cursor position after the call.
\* "panic" is the unreachable!() / unimplemented!() of the code.
Ok(p, v) == [st |-> "ok", pos |-> p, val |-> v]
Incomplete == [st |-> "incomplete", pos |-> 0, val |-> <<>>]
Invalid == [st |-> "error", pos |-> 0, val |-> <<>>]
Panic == [st |-> "panic", pos |-> 0, val |-> <<>>]
Failed(r) == r.st # "ok"

-----------------------------------------------------------------------------
(* Conversions.                                                            *)

DigitValue(b) == CHOOSE i \in 0..9 : Digits[i + 1] = b
IsDigit(b) == \E i \in 1..10 : Digits[i] = b

\* Mutant of Decimal: least significant digit first
RECURSIVE DecimalReversed(_)
DecimalReversed(n) == IF n < 10 THEN <<Digits[n + 1]>>
                      ELSE <<Digits[(n % 10) + 1]>> \o DecimalReversed(n \div 10)

\* u64::to_string: decimal digits, most significant first
RECURSIVE Decimal(_)
Decimal(n) == IF n < 10 THEN <<Digits[n + 1]>>
              ELSE Decimal(n \div 10) \o <<Digits[(n % 10) + 1]>>

\* value of the digit string s
RECURSIVE DigitsValue(_)
DigitsValue(s) == IF s = <<>> THEN 0
                  ELSE DigitsValue(Front(s)) * 10 + DigitValue(Last(s))

\* atoi::<u64>: an optional sign, then the longest run of digits; bytes
\* after it are ignored; no digit at all is None.  A negative u64 is None
\* unless it is zero.  (The values here are far below 2^64.)
Atoi(line) ==
    LET sign == IF line # <<>> /\ line[1] \in {"+", "-"} THEN line[1] ELSE ""
        body == IF sign = "" THEN line ELSE Tail(line)
        k == SelectInSeq(body, LAMBDA b : ~IsDigit(b))
        run == IF k = 0 THEN body ELSE SubSeq(body, 1, k - 1)
    IN  IF run = <<>> THEN Invalid
        ELSE IF sign = "-" /\ DigitsValue(run) # 0 THEN Invalid
        ELSE Ok(0, DigitsValue(run))

-----------------------------------------------------------------------------
(* Cursor helpers (frame.rs 237-289).  pos counts the bytes consumed.     *)

\* peek_u8
PeekU8(src, pos) == IF pos >= Len(src) THEN Incomplete ELSE Ok(pos, src[pos + 1])

\* get_u8
GetU8(src, pos) == IF pos >= Len(src) THEN Incomplete ELSE Ok(pos + 1, src[pos + 1])

\* skip
Skip(src, pos, n) == IF Len(src) - pos < n THEN Incomplete ELSE Ok(pos + n, <<>>)

\* get_line: scan i from pos to the second to last byte for "\r\n"; the
\* line is src[pos..i), the cursor moves after the "\n"
GetLine(src, pos) ==
    LET ends == {i \in pos..(Len(src) - 2) : src[i + 1] = CR /\ src[i + 2] = LF}
    IN  IF ends = {} THEN Incomplete
        ELSE LET i == Min(ends) IN Ok(i + 2, SubSeq(src, pos + 1, i))

\* get_decimal: a line, then atoi
GetDecimal(src, pos) ==
    LET l == GetLine(src, pos)
    IN  IF Failed(l) THEN l
        ELSE LET n == Atoi(l.val) IN IF Failed(n) THEN n ELSE Ok(l.pos, n.val)

-----------------------------------------------------------------------------
(* Frame::check (frame.rs 99-130): can a whole frame be decoded?           *)

\* Mutant of CheckNull: skips '-1\r' only
CheckNullShort(src, pos) == Skip(src, pos, 3)

\* the `$-` arm: skip '-1\r\n' without looking at it
CheckNull(src, pos) == Skip(src, pos, 4)

\* Mutant of CheckBulk: forgets one byte of the trailing \r\n
CheckBulkShort(src, pos) ==
    LET n == GetDecimal(src, pos)
    IN  IF Failed(n) THEN n ELSE Skip(src, n.pos, n.val + 1)

\* Mutant of CheckBulk: asks for one byte past the trailing \r\n
CheckBulkLong(src, pos) ==
    LET n == GetDecimal(src, pos)
    IN  IF Failed(n) THEN n ELSE Skip(src, n.pos, n.val + 3)

\* the `$` arm otherwise: a length line, then len + 2 bytes
CheckBulk(src, pos) ==
    LET n == GetDecimal(src, pos)
    IN  IF Failed(n) THEN n ELSE Skip(src, n.pos, n.val + 2)

RECURSIVE Check(_, _), CheckElements(_, _, _)
Check(src, pos) ==
    LET b == GetU8(src, pos)
        p == b.pos
    IN  IF Failed(b) THEN b
        ELSE CASE b.val \in {"+", "-"} ->
                    LET l == GetLine(src, p) IN IF Failed(l) THEN l ELSE Ok(l.pos, <<>>)
               [] b.val = ":" ->
                    LET n == GetDecimal(src, p) IN IF Failed(n) THEN n ELSE Ok(n.pos, <<>>)
               [] b.val = "$" ->
                    LET c == PeekU8(src, p)
                    IN  IF Failed(c) THEN c
                        ELSE IF c.val = "-" THEN CheckNull(src, p) ELSE CheckBulk(src, p)
               [] b.val = "*" ->
                    LET n == GetDecimal(src, p)
                    IN  IF Failed(n) THEN n ELSE CheckElements(src, n.pos, n.val)
               [] OTHER -> Invalid

\* Mutant of CheckElements: the loop checks one element too few
CheckElementsOneShort(src, pos, k) ==
    IF k <= 1 THEN Ok(pos, <<>>)
    ELSE LET r == Check(src, pos)
         IN  IF Failed(r) THEN r ELSE CheckElements(src, r.pos, k - 1)

\* for _ in 0..len { Frame::check(src)? }
CheckElements(src, pos, k) ==
    IF k = 0 THEN Ok(pos, <<>>)
    ELSE LET r == Check(src, pos)
         IN  IF Failed(r) THEN r ELSE CheckElements(src, r.pos, k - 1)

-----------------------------------------------------------------------------
(* Frame::parse (frame.rs 133-181), meant to run after a successful check. *)

\* the `$` arm: `$-1` is Null, any other line starting with `-` an error;
\* otherwise len bytes copied and len + 2 skipped
ParseDollar(src, pos) ==
    LET c == PeekU8(src, pos)
    IN  IF Failed(c) THEN c
        ELSE IF c.val = "-"
        THEN LET l == GetLine(src, pos)
             IN  IF Failed(l) THEN l
                 ELSE IF l.val # <<"-", "1">> THEN Invalid ELSE Ok(l.pos, Null)
        ELSE LET n == GetDecimal(src, pos)
             IN  IF Failed(n) THEN n
                 ELSE IF Len(src) - n.pos < n.val + 2 THEN Incomplete
                 ELSE Ok(n.pos + n.val + 2, Bulk(SubSeq(src, n.pos + 1, n.pos + n.val)))

RECURSIVE Parse(_, _), ParseElements(_, _, _, _)
Parse(src, pos) ==
    LET b == GetU8(src, pos)
        p == b.pos
    IN  IF Failed(b) THEN b
        ELSE CASE b.val = "+" ->
                    LET l == GetLine(src, p) IN IF Failed(l) THEN l ELSE Ok(l.pos, Simple(l.val))
               [] b.val = "-" ->
                    LET l == GetLine(src, p) IN IF Failed(l) THEN l ELSE Ok(l.pos, ErrorFrame(l.val))
               [] b.val = ":" ->
                    LET n == GetDecimal(src, p) IN IF Failed(n) THEN n ELSE Ok(n.pos, Integer(n.val))
               [] b.val = "$" -> ParseDollar(src, p)
               [] b.val = "*" ->
                    LET n == GetDecimal(src, p)
                    IN  IF Failed(n) THEN n ELSE ParseElements(src, n.pos, n.val, <<>>)
               [] OTHER -> Panic

\* for _ in 0..len { out.push(Frame::parse(src)?) }
ParseElements(src, pos, k, out) ==
    IF k = 0 THEN Ok(pos, Array(out))
    ELSE LET r == Parse(src, pos)
         IN  IF Failed(r) THEN r
             ELSE ParseElements(src, r.pos, k - 1, Append(out, r.val))

-----------------------------------------------------------------------------
(* Encoding.                                                               *)

\* Frame::create_bytes (frame.rs 58-94); an Array is unreachable!()
CreateBytes(f) ==
    CASE f.tag = "Simple"  -> <<"+">> \o f.val \o CRLF
      [] f.tag = "Error"   -> <<"-">> \o f.val \o CRLF
      [] f.tag = "Integer" -> <<":">> \o Decimal(f.num) \o CRLF
      [] f.tag = "Null"    -> <<"$", "-", "1">> \o CRLF
      [] f.tag = "Bulk"    -> <<"$">> \o Decimal(Len(f.val)) \o CRLF \o f.val \o CRLF

\* Connection::write_frame (spec 4.3): an Array is its header, then each
\* element through create_bytes; any other frame is create_bytes
WriteFrame(f) ==
    IF f.tag = "Array"
    THEN <<"*">> \o Decimal(Len(f.val)) \o CRLF \o
         FoldLeft(LAMBDA acc, e : acc \o CreateBytes(e), <<>>, f.val)
    ELSE CreateBytes(f)

=============================================================================
