---------------------------- MODULE MCMiniRedis ----------------------------
(* Model-checking instance of MiniRedis: two keys, one value, two        *)
(* concurrent connection workers, a TTL of 2 ticks.  It extends the proof  *)
(* module so that the inductive invariant IInv is checked before it is     *)
(* proved.                                                                 *)
EXTENDS MiniRedisProofs, TLC

CONSTANTS k1, k2, v1, c1, c2

MCKeys == {k1, k2}
MCValues == {v1}
MCClients == {c1, c2}
=============================================================================
