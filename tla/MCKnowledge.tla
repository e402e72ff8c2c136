---------------------------- MODULE MCKnowledge ----------------------------
(* Small instances of Knowledge for TLC. *)
EXTENDS Knowledge, TLC

CONSTANTS k1, k2, all, few, member, project

SeesByKind == (member :> {all, few}) @@ (project :> {few})
KeySymmetry == Permutations(Items)
===============================================================================
