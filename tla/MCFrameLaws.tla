---------------------------- MODULE MCFrameLaws ----------------------------
EXTENDS FrameLaws, TLC

\* headers, lines and lone bytes, including a non-digit after a length and
\* a Null header with no \r\n
MCTokens ==
    { <<"*", "1">> \o CRLF, <<"*", "2">> \o CRLF, <<"$", "1">> \o CRLF,
      <<"$", "-", "1">> \o CRLF, <<"$", "-", "1", CR>>, <<"+", "a">> \o CRLF,
      <<":", "1", "a">> \o CRLF, <<"a">>, CRLF, <<"-">> }

\* the frames of the code's own tests, and multi-digit numbers and lengths
MCTestFrames ==
    { Simple(<<"f", "o", "o">>), ErrorFrame(<<"f", "o", "o">>), Integer(10),
      Integer(0), Integer(123), Null, Bulk(<<"f", "o", "o">>), Bulk(<<>>),
      Bulk(<<CR, LF, "a", "b", "c", "d", "e", "f", "g", "h">>) }
=============================================================================
