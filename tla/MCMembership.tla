---------------------------- MODULE MCMembership ----------------------------
(* Small instances of Membership for TLC. *)
EXTENDS Membership, TLC

CONSTANTS u1, u2, u3

Symmetric == Permutations(Calls) \cup Permutations(Invites)
===============================================================================
