---------------------------- MODULE MCConnection ----------------------------
EXTENDS Connection, TLC

K == <<"k">>
V == <<"v">>

\* GET k, SET k v, SET k with its value missing, and an unknown verb
MCRequests ==
    { Array(<<Bulk(<<"GET">>), Bulk(K)>>),
      Array(<<Bulk(<<"SET">>), Bulk(K), Bulk(V)>>),
      Array(<<Bulk(<<"SET">>), Bulk(K)>>),
      Array(<<Bulk(<<"PING">>)>>) }

\* an unknown verb whose name carries "\r\n" and a forged reply
MCInjection ==
    { Array(<<Bulk(<<"SET">>), Bulk(K), Bulk(V)>>),
      Array(<<Bulk(<<CR, LF, "+", "OK">>)>>) }

MCKeys == {K}
=============================================================================
