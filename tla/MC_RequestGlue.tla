--------------------------- MODULE MC_RequestGlue ---------------------------
(* Model values for RequestGlue: two requests sharing one session.        *)
EXTENDS RequestGlue, TLC

CONSTANTS r1, r2, h1, h2, k1, v1, v2

ReqSymmetry == Permutations({r1, r2})
=============================================================================
