--------------------------------- MODULE Work ---------------------------------
(***************************************************************************)
(* What handing work over promises: an offer names the agents that may     *)
(* take it, one of them takes it, and from then on that agent alone works  *)
(* on it until it is done or dropped.                                      *)
(***************************************************************************)
CONSTANTS Handoffs, Agents, Nobody

VARIABLE work

Piece == [phase : {"none", "open", "held", "done", "dropped"},
          for : SUBSET Agents, holder : Agents \cup {Nobody}]

Init == work = [h \in Handoffs |-> [phase |-> "none", for |-> {}, holder |-> Nobody]]

Offer(h, S) ==
  /\ work[h].phase = "none"
  /\ work' = [work EXCEPT ![h] = [phase |-> "open", for |-> S, holder |-> Nobody]]

Take(h, a) ==
  /\ work[h].phase = "open"
  /\ a \in work[h].for
  /\ work' = [work EXCEPT ![h].phase = "held", ![h].holder = a]

Finish(h) ==
  /\ work[h].phase = "held"
  /\ work' = [work EXCEPT ![h].phase = "done"]

Drop(h) ==
  /\ work[h].phase \in {"open", "held"}
  /\ work' = [work EXCEPT ![h].phase = "dropped"]

Next == \E h \in Handoffs :
  \/ \E S \in SUBSET Agents : Offer(h, S)
  \/ \E a \in Agents : Take(h, a)
  \/ Finish(h)
  \/ Drop(h)

Spec == Init /\ [][Next]_work
===============================================================================
