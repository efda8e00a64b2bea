-------------------------- MODULE MC_ResponseGlue --------------------------
(* Model values for ResponseGlue.                                          *)
EXTENDS ResponseGlue

CONSTANTS n1, t1, b1
=============================================================================
