------------------------------ MODULE MCHandoffs ------------------------------
(* Small instances of Handoffs for TLC.  i1 belongs to the sender u1; i2 and  *)
(* i3 to the recipient u2.                                                    *)
EXTENDS Handoffs, TLC

CONSTANTS u1, u2, i1, i2, i3, r1, r2, c1, c2, k1, k2

Owners     == (i1 :> u1) @@ (i2 :> u2) @@ (i3 :> u2)
OwnersTwo  == (i1 :> u1) @@ (i2 :> u2)
NoListeners == [i \in Installations |-> {}]
Paired     == [i \in Installations |-> IF i = i1 THEN {i3} ELSE {}]
PairOwners == (i1 :> u1) @@ (i2 :> u2) @@ (i3 :> u1)
RunsByTwo  == (r1 :> i1) @@ (r2 :> i2)
RunOfTwo   == [r \in Runs |-> i2]
AdapterRuns == (r1 :> i3) @@ (r2 :> i1)
NoRuns     == [r \in {} |-> i1]

Clean(c) == [commit |-> c, clean |-> TRUE]
OneTree  == {Clean(c1)}
TwoTrees == {Clean(c1), Clean(c2)}
AllTrees == TwoTrees \cup {[commit |-> c2, clean |-> FALSE]}

Handing(key, to, agent, run, branch) ==
  [tool |-> "handoff_work", key |-> key, to |-> to, agent |-> agent, run |-> run,
   branch |-> branch]
Assigning(key, agent) ==
  [tool |-> "assign_work", key |-> key, to |-> Nobody, agent |-> agent,
   run |-> Nobody, branch |-> FALSE]

ToAnyone  == {Handing(Nobody, Nobody, Nobody, Nobody, FALSE)}
ToEach    == {Handing(Nobody, Nobody, Nobody, Nobody, FALSE),
              Handing(Nobody, u2, Nobody, Nobody, FALSE), Assigning(Nobody, i2)}
FromRun   == {Handing(Nobody, Nobody, Nobody, r1, FALSE), Handing(k1, Nobody, Nobody, Nobody, FALSE),
              Assigning(k2, i2)}
WithCode  == {Handing(Nobody, Nobody, i2, r1, branch) : branch \in BOOLEAN}
WithBranch == {Handing(Nobody, Nobody, Nobody, r1, TRUE)}
Renamed   == {Handing(k1, Nobody, i2, Nobody, FALSE), Handing(k1, Nobody, i3, Nobody, FALSE),
              Assigning(k2, i2), Assigning(k2, i3)}

(* What BegunAtHandedCommit depends on: no action that changes these reads   *)
(* the leases or what is still to be released.                               *)
CodeView == <<offer, calls, sending, receipts, charged, status, began, newest, tree,
              revoked, answered, stood>>

(* Where the source began never matters to a handoff of its run to another    *)
(* agent, and nothing it does once the work is handed over.                   *)
SourceRests ==
  /\ began'[r1] = Nobody
  /\ (\E h \in Handoffs : Exists(h)) => tree'[i1] = tree[i1] /\ newest'[r1] = newest[r1]

(* Checkpoints bear on nothing while no work carries code.                    *)
NothingReported == UNCHANGED <<began, newest>>

HandoffSymmetry == Permutations(Handoffs)
===============================================================================
