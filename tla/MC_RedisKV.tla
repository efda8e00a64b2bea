----------------------------- MODULE MC_RedisKV -----------------------------
(* Model-checking instance of RedisKV; constants are given in the .cfg    *)
(* files.                                                                  *)
EXTENDS RedisKV

CONSTANTS k1, k2, m1, v1, v2

\* Values are only stored and compared.
ValSymmetry == Permutations({v1, v2})
=============================================================================
