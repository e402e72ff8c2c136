---------------------------- MODULE MCConnections ----------------------------
(* Small instances of Connections for TLC. *)
EXTENDS Connections, TLC

CallSymmetry == Permutations(Calls)
===============================================================================
