------------------------------ MODULE MC_TcpNs ------------------------------
(* Model-checking instance of TcpNs: connections and addresses are model  *)
(* values, given in the .cfg files.                                        *)
EXTENDS TcpNs, TLC

CONSTANTS c1, c2

\* Peer connections are interchangeable.
ConnSymmetry == Permutations({c1, c2})
=============================================================================
