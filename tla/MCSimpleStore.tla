--------------------------- MODULE MCSimpleStore ---------------------------
EXTENDS SimpleStore, TLC

CONSTANTS c1, c2

MCKeys == {"x", "y"}
MCValues == {<<"a">>}
\* a value ending in "\r", which lines() strips together with the "\n"
MCValuesEOL == {<<"\r">>}
MCClients == {c1, c2}
=============================================================================
