------------------------------ MODULE MCServer ------------------------------
EXTENDS Server, TLC

CONSTANTS s1, s2, s3

MCConns == {s1, s2, s3}
=============================================================================
