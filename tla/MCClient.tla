------------------------------ MODULE MCClient ------------------------------
EXTENDS Client, TLC

K == <<"k">>
V == <<"v">>

MCKeys == {K}

\* a value, and the empty value that get must tell from none
MCValues == {V, <<>>}
=============================================================================
