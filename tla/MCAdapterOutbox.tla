-------------------------- MODULE MCAdapterOutbox --------------------------
(* Small instances of AdapterOutbox for TLC. *)
EXTENDS AdapterOutbox, TLC

CONSTANTS main, topic

ThreeTrees == {[branch |-> main, clean |-> TRUE], [branch |-> main, clean |-> FALSE],
               [branch |-> topic, clean |-> TRUE]}

(* Bound: once two hooks replay at once, two events are enough. *)
StolenWithTwo == stolen => fired < 3

HookSymmetry == Permutations(Hooks)
===============================================================================
