---------------------------- MODULE HandoffsProofs ----------------------------
(***************************************************************************)
(* Proofs about Handoffs, for any number of agents, runs, requests and     *)
(* concurrent calls: what a handoff's life promises, that a request makes  *)
(* one at most and a run hands off once, where work begins, and that the   *)
(* month's allowance counts the handoffs that exist.                       *)
(***************************************************************************)
EXTENDS Handoffs, TLAPS, FiniteSetTheorems

-----------------------------------------------------------------------------
(* Types *)

LEMMA InitTyped == Init => TypeOK
  <1> SUFFICES ASSUME Init PROVE TypeOK
    OBVIOUS
  <1> USE DEF Init
  <1>1. NoOffer \in Offer
    BY DEF NoOffer, Offer, MaybeRun
  <1>2. offer \in [Handoffs -> Offer]
    BY <1>1
  <1>3. /\ calls \subseteq Call /\ receipts \subseteq [inst : Installations, req : Requests, h : Handoffs]
        /\ releasing \subseteq Call /\ revoked \subseteq Installations
        /\ answered \subseteq Installations \X Requests \X Handoffs
        /\ fresh \subseteq Runs \X Handoffs
    OBVIOUS
  <1>4. charged \in 0 .. Cap
    BY BoundsAssumption
  <1>5. stood \subseteq Installations \X Commits
    BY DEF Commits
  <1>6. lease \in [Runs -> 0 .. Lease]
    BY BoundsAssumption
  <1>7. sending \in [Installations -> [req : Requests, run : MaybeRun] \cup {Nobody}]
    OBVIOUS
  <1>8. /\ status \in [Runs -> {"none", "live", "ended"}]
        /\ began \in [Runs -> Report] /\ newest \in [Runs -> Report]
        /\ tree \in [Installations -> Trees]
    BY DEF Report
  <1> QED
    BY <1>2, <1>3, <1>4, <1>5, <1>6, <1>7, <1>8 DEF TypeOK

(* Ending runs keeps the types of what it writes. *)
LEMMA EndRunsTyped ==
  ASSUME TypeOK, NEW R, EndRuns(R)
  PROVE  /\ status' \in [Runs -> {"none", "live", "ended"}]
         /\ lease' \in [Runs -> 0 .. Lease]
         /\ fresh' \subseteq Runs \X Handoffs
  <1>1. status' \in [Runs -> {"none", "live", "ended"}]
    BY DEF TypeOK, EndRuns
  <1>2. lease' \in [Runs -> 0 .. Lease]
    BY BoundsAssumption DEF TypeOK, EndRuns
  <1>3. fresh' \subseteq Runs \X Handoffs
    BY DEF TypeOK, EndRuns
  <1> QED
    BY <1>1, <1>2, <1>3

LEMMA CreateTyped == TypeOK /\ Create => TypeOK'
  <1> SUFFICES ASSUME TypeOK, NEW i \in Installations,
                      \/ \E q \in Requests : SendBegin(i, q) \/ SendReplay(i, q)
                      \/ SendRefused(i)
                      \/ \E h \in Handoffs : SendCommit(i, h)
               PROVE  TypeOK'
    BY ActorsAssumption DEF Create
  <1>1. ASSUME NEW q \in Requests, SendBegin(i, q) PROVE TypeOK'
    <2>1. PICK r \in Sources(i, q) : sending' = [sending EXCEPT ![i] = [req |-> q, run |-> r]]
      BY <1>1 DEF SendBegin
    <2>2. r \in MaybeRun
      BY <2>1, InputsAssumption DEF Sources, LiveRuns, MaybeRun
    <2> QED
      BY <1>1, <2>1, <2>2 DEF SendBegin, TypeOK, runVars
  <1>2. ASSUME NEW q \in Requests, SendReplay(i, q) PROVE TypeOK'
    <2>1. PICK x \in Receipts(i, q) : answered' = answered \cup {<<i, q, x.h>>}
      BY <1>2 DEF SendReplay
    <2>2. x.h \in Handoffs
      BY <2>1 DEF TypeOK, Receipts
    <2> QED
      BY <1>2, <2>1, <2>2 DEF SendReplay, TypeOK, runVars
  <1>3. ASSUME SendRefused(i) PROVE TypeOK'
    BY <1>3 DEF SendRefused, AfterRefusal, TypeOK, runVars
  <1>4. ASSUME NEW h \in Handoffs, SendCommit(i, h) PROVE TypeOK'
    <2> DEFINE s == sending[i]
               row == [NoOffer EXCEPT !.state = "offered", !.by = OwnerOf[i],
                 !.toUser = ToUser(s.req), !.toInst = s.req.agent,
                 !.code = IF Carried(s) # Nobody THEN Carried(s).commit ELSE Nobody, !.from = s.run]
    <2>1. s \in [req : Requests, run : MaybeRun]
      BY <1>4 DEF SendCommit, TypeOK
    <2>2. /\ OwnerOf[i] \in Users
          /\ ToUser(s.req) \in Users \cup {Nobody}
          /\ s.req.agent \in Installations \cup {Nobody}
      BY <2>1, ActorsAssumption, InputsAssumption DEF ToUser
    <2>3. Carried(s) \in Report
      <3>1. s.run \in Runs \/ s.run = Nobody
        BY <2>1 DEF MaybeRun
      <3> QED
        BY <3>1 DEF TypeOK, Report, Carried
    <2>4. (IF Carried(s) # Nobody THEN Carried(s).commit ELSE Nobody) \in Commits \cup {Nobody}
      BY <2>3 DEF Commits, Report
    <2>5. row \in Offer
      <3>1. PICK code \in Commits \cup {Nobody} :
                 code = IF Carried(s) # Nobody THEN Carried(s).commit ELSE Nobody
        BY <2>4
      <3>3. s.run \in MaybeRun
        BY <2>1
      <3>4. row = [NoOffer EXCEPT !.state = "offered", !.by = OwnerOf[i],
                     !.toUser = ToUser(s.req), !.toInst = s.req.agent, !.code = code,
                     !.from = s.run]
        BY <3>1
      <3> HIDE DEF row, s
      <3> QED
        BY <2>2, <3>3, <3>4 DEF Offer, States, NoOffer
    <2>6. offer' = [offer EXCEPT ![h] = row]
      BY <1>4 DEF SendCommit
    <2>7. offer' \in [Handoffs -> Offer]
      BY <2>5, <2>6 DEF TypeOK
    <2>8. charged' \in 0 .. Cap
      BY <1>4, BoundsAssumption DEF SendCommit, Sendable, Within, TypeOK
    <2>9. EndRuns(SourceRuns(s))
      BY <1>4 DEF SendCommit
    <2>10. receipts' \subseteq [inst : Installations, req : Requests, h : Handoffs]
      BY <1>4, <2>1 DEF SendCommit, TypeOK
    <2>11. answered' \subseteq Installations \X Requests \X Handoffs
      BY <1>4, <2>1 DEF SendCommit, TypeOK
    <2>12. sending' \in [Installations -> [req : Requests, run : MaybeRun] \cup {Nobody}]
      BY <1>4 DEF SendCommit, TypeOK
    <2>13. UNCHANGED <<calls, releasing, began, newest, tree, revoked, stood, lost>>
      BY <1>4 DEF SendCommit
    <2> QED
      BY <2>7, <2>8, <2>9, <2>10, <2>11, <2>12, <2>13, EndRunsTyped DEF TypeOK
  <1> QED
    BY <1>1, <1>2, <1>3, <1>4

LEMMA UpdateTyped == TypeOK /\ Update => TypeOK'
  <1> SUFFICES ASSUME TypeOK, Update PROVE TypeOK'
    OBVIOUS
  <1>1. ASSUME NEW c \in Callers, NEW h \in Handoffs, NEW act \in Actions,
               c \in Users => act # "resume",
               NEW report \in Reports(c, act), NEW r \in Named(c, act),
               UpdateBegin(c, h, act, report, r)
        PROVE  TypeOK'
    <2>1. report \in Report
      BY <1>1 DEF Reports, Report, TypeOK, Callers
    <2>2. r \in MaybeRun /\ act \in Verbs
      BY InputsAssumption DEF Named, MaybeRun
    <2>3. calls' \subseteq Call
      BY <1>1, <2>1, <2>2 DEF UpdateBegin, Call, TypeOK
    <2> QED
      BY <1>1, <2>3 DEF UpdateBegin, TypeOK, runVars
  <1>2. ASSUME NEW call \in calls, UpdateMoves(call) PROVE TypeOK'
    <2> DEFINE o == offer[call.h]
               row == [o EXCEPT !.state = Target(call.act),
                                !.holder = IF call.act = "accept" THEN call.by ELSE @,
                                !.resumed = IF call.act = "resume" THEN call ELSE @]
    <2>1. call \in Call /\ o \in Offer
      BY DEF TypeOK, Call
    <2>2. Target(call.act) \in States
      BY <2>1 DEF Call, Verbs, Target, States
    <2>3. call.act = "accept" => call.by \in Installations
      BY <1>2 DEF UpdateMoves, Moves, Permitted
    <2>4. row \in Offer
      <3>1. PICK hd \in Installations \cup {Nobody} :
                 hd = IF call.act = "accept" THEN call.by ELSE o.holder
        BY <2>1, <2>3 DEF Offer
      <3>2. PICK rs \in Call \cup {Nobody} :
                 rs = IF call.act = "resume" THEN call ELSE o.resumed
        BY <2>1 DEF Offer
      <3>3. row = [o EXCEPT !.state = Target(call.act), !.holder = hd, !.resumed = rs]
        BY <2>1, <3>1, <3>2 DEF Offer
      <3> HIDE DEF row
      <3> QED
        BY <2>1, <2>2, <3>3 DEF Offer
    <2>5. offer' = [offer EXCEPT ![call.h] = row]
      BY <1>2 DEF UpdateMoves
    <2>6. offer' \in [Handoffs -> Offer]
      BY <2>1, <2>4, <2>5 DEF TypeOK, Call
    <2>7. calls' \subseteq Call /\ releasing' \subseteq Call
      BY <1>2 DEF UpdateMoves, TypeOK
    <2> QED
      BY <1>2, <2>6, <2>7 DEF UpdateMoves, TypeOK, runVars
  <1>3. ASSUME NEW call \in calls, UpdateReplays(call) \/ UpdateRefused(call) PROVE TypeOK'
    BY <1>3 DEF UpdateReplays, UpdateRefused, TypeOK, runVars
  <1>4. ASSUME NEW call \in releasing, Release(call) PROVE TypeOK'
    <2>1. lease' \in [Runs -> 0 .. Lease]
      BY <1>4, BoundsAssumption DEF Release, TypeOK
    <2>2. fresh' \subseteq Runs \X Handoffs
      BY <1>4 DEF Release, TypeOK
    <2>3. lost' \subseteq Runs \X Handoffs
      BY <1>4 DEF Release, TypeOK, Call
    <2> QED
      BY <1>4, <2>1, <2>2, <2>3 DEF Release, TypeOK
  <1>5. ASSUME NEW call \in releasing, ReleaseFails(call) PROVE TypeOK'
    <2>1. lost' \subseteq Runs \X Handoffs
      BY <1>5 DEF ReleaseFails, TypeOK, Call
    <2> QED
      BY <1>5, <2>1 DEF ReleaseFails, TypeOK, runVars
  <1> QED
    BY <1>1, <1>2, <1>3, <1>4, <1>5 DEF Update

LEMMA SurroundingsTyped == TypeOK /\ Surroundings => TypeOK'
  <1> SUFFICES ASSUME TypeOK, Surroundings PROVE TypeOK'
    OBVIOUS
  <1>1. ASSUME NEW r \in Runs, NEW checkpoint \in {Nobody, tree[InstallationOf[r]]},
               StartRun(r, checkpoint)
        PROVE  TypeOK'
    <2>1. checkpoint \in Report
      BY ActorsAssumption DEF TypeOK, Report
    <2> QED
      BY <1>1, <2>1 DEF StartRun, TypeOK
  <1>2. ASSUME NEW r \in Runs, ReportDelivery(r) PROVE TypeOK'
    <2>1. tree[InstallationOf[r]] \in Report
      BY ActorsAssumption DEF TypeOK, Report
    <2> QED
      BY <1>2, <2>1 DEF ReportDelivery, TypeOK
  <1>3. ASSUME NEW r \in Runs, Declare(r) PROVE TypeOK'
    <2>1. lease' \in [Runs -> 0 .. Lease]
      BY <1>3, BoundsAssumption DEF Declare, TypeOK
    <2>2. fresh' \subseteq Runs \X Handoffs
      BY <1>3 DEF Declare, TypeOK
    <2> QED
      BY <1>3, <2>1, <2>2 DEF Declare, TypeOK
  <1>4. ASSUME NEW r \in Runs, Heartbeat(r) PROVE TypeOK'
    <2>1. lease' \in [Runs -> 0 .. Lease]
      BY <1>4, BoundsAssumption DEF Heartbeat, TypeOK
    <2> QED
      BY <1>4, <2>1 DEF Heartbeat, TypeOK
  <1>5. ASSUME NEW r \in Runs, FinishRun(r) PROVE TypeOK'
    BY <1>5, EndRunsTyped DEF FinishRun, TypeOK
  <1>6. ASSUME NEW i \in Installations, Revoke(i) PROVE TypeOK'
    <2>1. revoked' \subseteq Installations
      BY <1>6 DEF Revoke, TypeOK
    <2> QED
      BY <1>6, <2>1, EndRunsTyped DEF Revoke, TypeOK
  <1>7. ASSUME NEW i \in Installations, NEW t \in Trees, Checkout(i, t) PROVE TypeOK'
    <2>1. stood' \subseteq Installations \X Commits
      BY <1>7 DEF Checkout, TypeOK, Commits
    <2> QED
      BY <1>7, <2>1 DEF Checkout, TypeOK, runVars
  <1>8. ASSUME Tick PROVE TypeOK'
    <2>1. lease' \in [Runs -> 0 .. Lease]
      BY <1>8, BoundsAssumption DEF Tick, TypeOK
    <2>2. fresh' \subseteq Runs \X Handoffs
      BY <1>8 DEF Tick, TypeOK
    <2> QED
      BY <1>8, <2>1, <2>2 DEF Tick, TypeOK
  <1> QED
    BY <1>1, <1>2, <1>3, <1>4, <1>5, <1>6, <1>7, <1>8 DEF Surroundings

LEMMA StepTyped == TypeOK /\ [Next]_vars => TypeOK'
  <1>1. TypeOK /\ UNCHANGED vars => TypeOK'
    BY DEF TypeOK, vars, runVars
  <1> QED
    BY <1>1, CreateTyped, UpdateTyped, SurroundingsTyped DEF Next

(* Handoffs, receipts, runs and checkouts stay well formed and no order of  *)
(* requests passes the allowance (createHandoffOnce, hitCounter).          *)
THEOREM HandoffsTyped == Spec => []TypeOK
  BY InitTyped, StepTyped, PTL DEF Spec

-----------------------------------------------------------------------------
(* The promise *)

(* What a life-cycle call changes in the table. *)
LEMMA MovedRow ==
  ASSUME TypeOK, NEW call \in calls, UpdateMoves(call)
  PROVE  /\ call \in Call /\ offer[call.h] \in Offer
         /\ offer[call.h].state \in From(call.act)
         /\ Permitted(offer[call.h], call)
         /\ Proved(offer[call.h], call)
         /\ offer' \in [Handoffs -> Offer]
         /\ \A h \in Handoffs \ {call.h} : offer'[h] = offer[h]
         /\ offer'[call.h].state = Target(call.act)
         /\ offer'[call.h].holder = IF call.act = "accept" THEN call.by ELSE offer[call.h].holder
         /\ offer'[call.h].toUser = offer[call.h].toUser
         /\ offer'[call.h].toInst = offer[call.h].toInst
         /\ offer'[call.h].code = offer[call.h].code
         /\ offer'[call.h].from = offer[call.h].from
  <1>1. call \in Call /\ offer[call.h] \in Offer /\ call.h \in Handoffs
    BY DEF TypeOK, Call
  <1>2. TypeOK'
    BY UpdateTyped DEF Update
  <1>3. Moves(offer[call.h], call)
    BY DEF UpdateMoves
  <1>4. PICK rs : rs = IF call.act = "resume" THEN call ELSE offer[call.h].resumed
    OBVIOUS
  <1>5. offer' = [offer EXCEPT ![call.h] =
           [offer[call.h] EXCEPT !.state = Target(call.act),
                                 !.holder = IF call.act = "accept" THEN call.by ELSE @,
                                 !.resumed = rs]]
    BY <1>4 DEF UpdateMoves
  <1>6. offer'[call.h] = [offer[call.h] EXCEPT !.state = Target(call.act),
                                 !.holder = IF call.act = "accept" THEN call.by ELSE @,
                                 !.resumed = rs]
    BY <1>1, <1>5 DEF TypeOK
  <1>7. \A h \in Handoffs \ {call.h} : offer'[h] = offer[h]
    BY <1>5 DEF TypeOK
  <1> QED
    BY <1>1, <1>2, <1>3, <1>6, <1>7 DEF Moves, TypeOK, Offer

(* Accepting is taking, completing is finishing, declining and cancelling   *)
(* are dropping, and the other calls do not show.                          *)
LEMMA MoveIsPromised ==
  ASSUME TypeOK, NEW call \in calls, UpdateMoves(call)
  PROVE  [Promise!Next]_WorkView
  <1> DEFINE h == call.h
             o == offer[h]
             p == offer'[h]
  <1>1. /\ call \in Call /\ h \in Handoffs /\ o \in Offer /\ p \in Offer
        /\ o.state \in From(call.act) /\ p.state = Target(call.act)
        /\ Permitted(o, call)
        /\ p.holder = IF call.act = "accept" THEN call.by ELSE o.holder
        /\ p.toUser = o.toUser /\ p.toInst = o.toInst
    BY MovedRow DEF Call
  <1>2. \A g \in Handoffs \ {h} : offer'[g] = offer[g]
    BY MovedRow
  <1>3. o.state # "none" /\ p.state # "none"
    BY <1>1 DEF From, Target, Call, Verbs
  <1>4. AgentsFor(p) = AgentsFor(o)
    BY <1>1, <1>3 DEF AgentsFor
  <1>5. WorkView' = [WorkView EXCEPT ![h] = [phase |-> Phase(p.state), for |-> AgentsFor(o),
                                             holder |-> p.holder]]
    <2>1. WorkView' = [g \in Handoffs |-> [phase |-> Phase(offer'[g].state),
                          for |-> AgentsFor(offer'[g]), holder |-> offer'[g].holder]]
      BY DEF WorkView, AgentsFor, Phase
    <2> QED
      BY <1>1, <1>2, <1>4, <2>1 DEF WorkView
  <1>6. WorkView[h] = [phase |-> Phase(o.state), for |-> AgentsFor(o), holder |-> o.holder]
    BY <1>1 DEF WorkView
  <1> HIDE DEF h, o, p
  <1>7. CASE call.act = "accept"
    <2>1. call.by \in AgentsFor(o)
      BY <1>1, <1>3, <1>7 DEF Permitted, AgentsFor, UserOf
    <2>2. Phase(o.state) = "open" /\ Phase(p.state) = "held" /\ p.holder = call.by
      BY <1>1, <1>7 DEF From, Target, Phase
    <2>3. call.by \in Installations
      BY <2>1 DEF AgentsFor
    <2>4. Promise!Take(h, call.by)
      BY <1>1, <1>5, <1>6, <2>1, <2>2, ZenonT(30) DEF Promise!Take, WorkView
    <2> QED
      BY <1>1, <2>3, <2>4 DEF Promise!Next
  <1>8. CASE call.act \in {"resume", "needs_attention"} \/ (call.act = "cancel" /\ o.state = "declined")
    <2>1. Phase(p.state) = Phase(o.state) /\ p.holder = o.holder
      BY <1>1, <1>8 DEF From, Target, Phase
    <2>2. WorkView' = WorkView
      BY <1>1, <1>5, <1>6, <2>1 DEF WorkView
    <2> QED
      BY <2>2
  <1>9. CASE call.act = "complete"
    <2>1. Phase(o.state) = "held" /\ Phase(p.state) = "done" /\ p.holder = o.holder
      BY <1>1, <1>9 DEF From, Target, Phase
    <2>2. Promise!Finish(h)
      BY <1>1, <1>5, <1>6, <2>1 DEF Promise!Finish, WorkView
    <2> QED
      BY <1>1, <2>2 DEF Promise!Next
  <1>10. CASE call.act = "decline" \/ (call.act = "cancel" /\ o.state # "declined")
    <2>1. /\ Phase(o.state) \in {"open", "held"}
          /\ Phase(p.state) = "dropped" /\ p.holder = o.holder
      BY <1>1, <1>10 DEF From, Target, Phase
    <2>2. Promise!Drop(h)
      BY <1>1, <1>5, <1>6, <2>1 DEF Promise!Drop, WorkView
    <2> QED
      BY <1>1, <2>2 DEF Promise!Next
  <1> QED
    BY <1>1, <1>7, <1>8, <1>9, <1>10 DEF Call, Verbs

LEMMA SendIsPromised ==
  ASSUME TypeOK, TypeOK', NEW i \in Installations, NEW h \in Handoffs, SendCommit(i, h)
  PROVE  [Promise!Next]_WorkView
  <1>1. /\ offer[h].state = "none" /\ offer[h] \in Offer
        /\ \A g \in Handoffs \ {h} : offer'[g] = offer[g]
        /\ offer'[h].state = "offered" /\ offer'[h].holder = Nobody
    BY DEF SendCommit, Exists, TypeOK, NoOffer
  <1>2. PICK S : S = AgentsFor(offer'[h])
    OBVIOUS
  <1>3. S \in SUBSET Installations
    BY <1>1, <1>2 DEF AgentsFor
  <1>4. WorkView' = [WorkView EXCEPT ![h] = [phase |-> "open", for |-> S, holder |-> Nobody]]
    <2>1. WorkView' = [g \in Handoffs |-> [phase |-> Phase(offer'[g].state),
                          for |-> AgentsFor(offer'[g]), holder |-> offer'[g].holder]]
      BY DEF WorkView, AgentsFor, Phase
    <2>2. Phase(offer'[h].state) = "open"
      BY <1>1 DEF Phase
    <2> QED
      BY <1>1, <1>2, <2>1, <2>2 DEF WorkView
  <1>5. WorkView[h].phase = "none"
    BY <1>1 DEF WorkView, Phase
  <1>6. Promise!Offer(h, S)
    BY <1>4, <1>5 DEF Promise!Offer
  <1> QED
    BY <1>3, <1>6 DEF Promise!Next

(* Every step either writes no handoff, creates one or moves one. *)
LEMMA OfferSteps ==
  ASSUME TypeOK, [Next]_vars
  PROVE  \/ UNCHANGED offer
         \/ \E i \in Installations, h \in Handoffs : SendCommit(i, h)
         \/ \E call \in calls : UpdateMoves(call)
  <1>1. CASE Create
    BY <1>1, ActorsAssumption DEF Create, SendBegin, SendReplay, SendRefused
  <1>2. CASE Update
    BY <1>2 DEF Update, UpdateBegin, UpdateReplays, UpdateRefused, Release, ReleaseFails
  <1>3. CASE Surroundings
    BY <1>3 DEF Surroundings, StartRun, ReportDelivery, Declare, Heartbeat, FinishRun,
                Revoke, Checkout, Tick
  <1>4. CASE UNCHANGED vars
    BY <1>4 DEF vars
  <1> QED
    BY <1>1, <1>2, <1>3, <1>4 DEF Next

(* However many agents call at the same time, the table of handoffs keeps   *)
(* the promise of module Work (transitionHandoff).                         *)
THEOREM PromiseKept == Spec => KeepsPromise
  <1>1. Init => Promise!Init
    BY DEF Init, Promise!Init, WorkView, NoOffer, Phase, AgentsFor
  <1>2. TypeOK /\ [Next]_vars => [Promise!Next]_WorkView
    <2> SUFFICES ASSUME TypeOK, [Next]_vars PROVE [Promise!Next]_WorkView
      OBVIOUS
    <2>1. ASSUME UNCHANGED offer PROVE WorkView' = WorkView
      BY <2>1 DEF WorkView, AgentsFor, Phase
    <2> QED
      BY <2>1, OfferSteps, SendIsPromised, MoveIsPromised, StepTyped
  <1> QED
    BY <1>1, <1>2, HandoffsTyped, PTL DEF Spec, KeepsPromise, Promise!Spec

-----------------------------------------------------------------------------
(* A handed-off run *)

(* No step brings a run back that ended, or claims ground for it. *)
LEMMA EndedRunsRest ==
  ASSUME TypeOK, [Next]_vars, NEW r \in Runs, status[r] = "ended", lease[r] = 0
  PROVE  status'[r] = "ended" /\ lease'[r] = 0
  <1>1. ASSUME NEW R, EndRuns(R) PROVE status'[r] = "ended" /\ lease'[r] = 0
    BY <1>1 DEF EndRuns
  <1>2. ASSUME UNCHANGED <<status, lease>> PROVE status'[r] = "ended" /\ lease'[r] = 0
    BY <1>2
  <1>3. CASE Create
    BY <1>1, <1>2, <1>3 DEF Create, SendBegin, SendReplay, SendRefused, SendCommit, runVars
  <1>4. CASE Update
    BY <1>2, <1>4 DEF Update, UpdateBegin, UpdateMoves, UpdateReplays, UpdateRefused,
                      Release, ReleaseFails, runVars
  <1>5. CASE Surroundings
    <2>1. ASSUME NEW q \in Runs, NEW c, StartRun(q, c)
          PROVE  status'[r] = "ended" /\ lease'[r] = 0
      BY <2>1 DEF StartRun, TypeOK
    <2>2. ASSUME NEW q \in Runs, Declare(q) \/ Heartbeat(q)
          PROVE  status'[r] = "ended" /\ lease'[r] = 0
      BY <2>2 DEF Declare, Heartbeat, TypeOK
    <2>3. ASSUME Tick PROVE status'[r] = "ended" /\ lease'[r] = 0
      BY <2>3 DEF Tick
    <2>4. ASSUME NEW q \in Runs, FinishRun(q) PROVE status'[r] = "ended" /\ lease'[r] = 0
      BY <1>1, <2>4 DEF FinishRun
    <2>5. ASSUME NEW i \in Installations, Revoke(i)
          PROVE  status'[r] = "ended" /\ lease'[r] = 0
      BY <1>1, <2>5 DEF Revoke
    <2>6. ASSUME \/ \E q \in Runs : ReportDelivery(q)
                 \/ \E i \in Installations, t \in Trees : Checkout(i, t)
          PROVE  status'[r] = "ended" /\ lease'[r] = 0
      BY <1>2, <2>6 DEF ReportDelivery, Checkout, runVars
    <2> QED
      BY <1>5, <2>1, <2>2, <2>3, <2>4, <2>5, <2>6 DEF Surroundings
  <1>6. CASE UNCHANGED vars
    BY <1>2, <1>6 DEF vars
  <1> QED
    BY <1>3, <1>4, <1>5, <1>6 DEF Next

LEMMA StepHandsOffOnce == TypeOK /\ HandedOffOnce /\ [Next]_vars => HandedOffOnce'
  <1> SUFFICES ASSUME TypeOK, HandedOffOnce, [Next]_vars PROVE HandedOffOnce'
    OBVIOUS
  <1>1. \A h \in Handoffs : offer[h].from \in Runs \cup {Nobody}
    BY DEF TypeOK, Offer, MaybeRun
  <1>2. \A h \in Handoffs : offer[h].from # Nobody =>
           status'[offer[h].from] = "ended" /\ lease'[offer[h].from] = 0
    BY <1>1, EndedRunsRest DEF HandedOffOnce
  <1>3. ASSUME \A h \in Handoffs : offer'[h].from = offer[h].from PROVE HandedOffOnce'
    BY <1>2, <1>3 DEF HandedOffOnce
  <1>4. ASSUME NEW i \in Installations, NEW h \in Handoffs, SendCommit(i, h)
        PROVE  HandedOffOnce'
    <2> DEFINE r == sending[i].run
    <2>1. /\ \A g \in Handoffs \ {h} : offer'[g] = offer[g]
          /\ offer'[h].from = r
      BY <1>4 DEF SendCommit, TypeOK, NoOffer
    <2>2. r # Nobody => r \in Runs /\ status[r] = "live"
      BY <1>4 DEF SendCommit, Sendable, SourceStillLive, TypeOK, MaybeRun
    <2>3. \A g \in Handoffs \ {h} : r # Nobody => offer[g].from # r
      BY <2>2 DEF HandedOffOnce
    <2>4. r # Nobody => status'[r] = "ended" /\ lease'[r] = 0
      BY <1>4, <2>2 DEF SendCommit, SourceRuns, EndRuns
    <2> HIDE DEF r
    <2> QED
      BY <1>2, <2>1, <2>3, <2>4 DEF HandedOffOnce
  <1>5. ASSUME NEW call \in calls, UpdateMoves(call) PROVE HandedOffOnce'
    BY <1>3, <1>5, MovedRow
  <1>6. ASSUME UNCHANGED offer PROVE HandedOffOnce'
    BY <1>3, <1>6
  <1> QED
    BY <1>4, <1>5, <1>6, OfferSteps

(* Work is handed off from a run once, which ends it and the ground it      *)
(* claims for good, whichever agents that may act on the run try it at the  *)
(* same time (handoff_work).                                               *)
THEOREM RunHandedOffOnce == Spec => []HandedOffOnce
  <1>1. Init => HandedOffOnce
    BY DEF Init, HandedOffOnce, NoOffer
  <1> QED
    BY <1>1, StepHandsOffOnce, HandoffsTyped, PTL DEF Spec

-----------------------------------------------------------------------------
(* One handoff per request *)

(* Every answer rests on a receipt. *)
AnswersKept == \A a \in answered :
  HasKey(a[2]) => \E x \in Receipts(a[1], a[2]) : x.h = a[3]

(* A credential has one receipt under a key. *)
OneReceipt == \A x, y \in receipts :
  x.inst = y.inst /\ KeyOf(x.req) = KeyOf(y.req) => x.h = y.h

(* Nobody writes a receipt behind the back of who holds the token row. *)
TokenLocked == \A i \in Installations :
  sending[i] # Nobody => Receipts(i, sending[i].req) = {}

ReceiptInv == TypeOK /\ AnswersKept /\ OneReceipt /\ TokenLocked

LEMMA ReceiptInvImplies == ReceiptInv => OncePerRequest
  <1> SUFFICES ASSUME ReceiptInv, NEW a \in answered, NEW b \in answered,
                      a[1] = b[1], a[2] = b[2], HasKey(a[2])
               PROVE  a[3] = b[3]
    BY DEF OncePerRequest
  <1>1. PICK x \in Receipts(a[1], a[2]) : x.h = a[3]
    BY DEF ReceiptInv, AnswersKept
  <1>2. PICK y \in Receipts(a[1], a[2]) : y.h = b[3]
    BY DEF ReceiptInv, AnswersKept
  <1> QED
    BY <1>1, <1>2 DEF Receipts, ReceiptInv, OneReceipt

(* What concerns a creation is written by creations only. *)
LEMMA CreateSteps ==
  ASSUME TypeOK, [Next]_vars
  PROVE  \/ UNCHANGED <<answered, receipts, sending>>
         \/ \E i \in Installations, q \in Requests : SendBegin(i, q) \/ SendReplay(i, q)
         \/ \E i \in Installations : SendRefused(i)
         \/ \E i \in Installations, h \in Handoffs : SendCommit(i, h)
  <1>1. CASE Create
    BY <1>1, ActorsAssumption DEF Create
  <1>2. CASE Update
    BY <1>2 DEF Update, UpdateBegin, UpdateMoves, UpdateReplays, UpdateRefused, Release,
                ReleaseFails
  <1>3. CASE Surroundings
    BY <1>3 DEF Surroundings, StartRun, ReportDelivery, Declare, Heartbeat, FinishRun,
                Revoke, Checkout, Tick
  <1>4. CASE UNCHANGED vars
    BY <1>4 DEF vars
  <1> QED
    BY <1>1, <1>2, <1>3, <1>4 DEF Next

LEMMA StepKeepsReceipts == ReceiptInv /\ [Next]_vars => ReceiptInv'
  <1> SUFFICES ASSUME ReceiptInv, [Next]_vars PROVE ReceiptInv'
    OBVIOUS
  <1>1. TypeOK /\ TypeOK'
    BY StepTyped DEF ReceiptInv
  <1>2. ASSUME UNCHANGED <<answered, receipts, sending>> PROVE ReceiptInv'
    BY <1>1, <1>2 DEF ReceiptInv, AnswersKept, OneReceipt, TokenLocked, Receipts
  <1>3. ASSUME NEW i \in Installations, NEW q \in Requests, SendBegin(i, q)
        PROVE  ReceiptInv'
    <2>1. UNCHANGED <<answered, receipts>> /\ Receipts(i, q) = {}
      BY <1>3 DEF SendBegin
    <2>2. PICK r : sending' = [sending EXCEPT ![i] = [req |-> q, run |-> r]]
      BY <1>3 DEF SendBegin
    <2>3. TokenLocked'
      BY <1>1, <2>1, <2>2 DEF TypeOK, ReceiptInv, TokenLocked, Receipts
    <2> QED
      BY <1>1, <2>1, <2>3 DEF ReceiptInv, AnswersKept, OneReceipt, Receipts
  <1>4. ASSUME NEW i \in Installations, NEW q \in Requests, SendReplay(i, q)
        PROVE  ReceiptInv'
    <2>1. PICK x \in Receipts(i, q) : answered' = answered \cup {<<i, q, x.h>>}
      BY <1>4 DEF SendReplay
    <2>2. UNCHANGED <<receipts, sending>>
      BY <1>4 DEF SendReplay
    <2>3. AnswersKept'
      BY <2>1, <2>2 DEF ReceiptInv, AnswersKept, Receipts
    <2> QED
      BY <1>1, <2>2, <2>3 DEF ReceiptInv, OneReceipt, TokenLocked, Receipts
  <1>5. ASSUME NEW i \in Installations, SendRefused(i) PROVE ReceiptInv'
    BY <1>1, <1>5 DEF SendRefused, ReceiptInv, AnswersKept, OneReceipt, TokenLocked,
                      Receipts, TypeOK
  <1>6. ASSUME NEW i \in Installations, NEW h \in Handoffs, SendCommit(i, h)
        PROVE  ReceiptInv'
    <2>1. PICK q \in Requests : q = sending[i].req
      BY <1>1, <1>6 DEF SendCommit, TypeOK
    <2>2. PICK new : new = [inst |-> i, req |-> q, h |-> h]
      OBVIOUS
    <2>3. /\ receipts' = receipts \cup (IF HasKey(q) THEN {new} ELSE {})
          /\ answered' = answered \cup {<<i, q, h>>}
          /\ sending' = [sending EXCEPT ![i] = Nobody]
          /\ sending[i] # Nobody
      BY <1>6, <2>1, <2>2 DEF SendCommit
    <2>4. new.inst = i /\ new.req = q /\ new.h = h
      BY <2>2
    <2>5. Receipts(i, q) = {}
      BY <2>1, <2>3 DEF ReceiptInv, TokenLocked
    <2>6. AnswersKept'
      BY <2>3, <2>4 DEF ReceiptInv, AnswersKept, Receipts
    <2>7. OneReceipt'
      <3>1. \A x \in receipts : HasKey(q) => ~(x.inst = i /\ KeyOf(x.req) = KeyOf(q))
        BY <2>5 DEF Receipts
      <3> QED
        BY <2>3, <2>4, <3>1 DEF ReceiptInv, OneReceipt
    <2>8. TokenLocked'
      BY <1>1, <2>3, <2>4 DEF ReceiptInv, TokenLocked, Receipts, TypeOK
    <2> QED
      BY <1>1, <2>6, <2>7, <2>8 DEF ReceiptInv
  <1> QED
    BY <1>1, <1>2, <1>3, <1>4, <1>5, <1>6, CreateSteps

(* However often a request is sent under its key, and however its copies    *)
(* overlap, it makes one handoff (createHandoffOnce).                      *)
THEOREM RequestedOnce == Spec => []OncePerRequest
  <1>1. Init => ReceiptInv
    BY InitTyped DEF Init, ReceiptInv, AnswersKept, OneReceipt, TokenLocked
  <1> QED
    BY <1>1, StepKeepsReceipts, ReceiptInvImplies, PTL DEF Spec

-----------------------------------------------------------------------------
(* Work begins at the handed-over commit *)

Taken == {"accepted", "in_progress", "needs_attention", "completed"}

(* What a clean checkout, a report under way and a start checkpoint say     *)
(* was so.                                                                 *)
TreesStood == \A i \in Installations : tree[i].clean => <<i, tree[i].commit>> \in stood
CallsStood == \A call \in calls :
  call.report # Nobody /\ call.report.clean => <<call.by, call.report.commit>> \in stood
StartsStood == \A r \in Runs :
  began[r] # Nobody /\ began[r].clean => <<InstallationOf[r], began[r].commit>> \in stood
TakenHeld == \A h \in Handoffs : offer[h].state \in Taken => offer[h].holder # Nobody

BeginInv == /\ TypeOK /\ TreesStood /\ CallsStood /\ StartsStood /\ TakenHeld
            /\ BegunAtHandedCommit

LEMMA StoodGrows == ASSUME TypeOK, [Next]_vars PROVE stood \subseteq stood'
  <1>1. CASE Create
    BY <1>1 DEF Create, SendBegin, SendReplay, SendRefused, SendCommit
  <1>2. CASE Update
    BY <1>2 DEF Update, UpdateBegin, UpdateMoves, UpdateReplays, UpdateRefused, Release,
                ReleaseFails
  <1>3. CASE Surroundings
    BY <1>3 DEF Surroundings, StartRun, ReportDelivery, Declare, Heartbeat, FinishRun,
                Revoke, Checkout, Tick
  <1>4. CASE UNCHANGED vars
    BY <1>4 DEF vars
  <1> QED
    BY <1>1, <1>2, <1>3, <1>4 DEF Next

LEMMA StepKeepsEvidence ==
  ASSUME BeginInv, [Next]_vars
  PROVE  TreesStood' /\ CallsStood' /\ StartsStood'
  <1>1. TypeOK /\ stood \subseteq stood'
    BY StoodGrows DEF BeginInv
  <1>2. ASSUME UNCHANGED tree PROVE TreesStood'
    BY <1>1, <1>2 DEF BeginInv, TreesStood
  <1>3. ASSUME calls' \subseteq calls PROVE CallsStood'
    BY <1>1, <1>3 DEF BeginInv, CallsStood
  <1>4. ASSUME UNCHANGED began PROVE StartsStood'
    BY <1>1, <1>4 DEF BeginInv, StartsStood
  <1>5. CASE Create
    BY <1>2, <1>3, <1>4, <1>5
       DEF Create, SendBegin, SendReplay, SendRefused, SendCommit, runVars
  <1>6. CASE Update
    <2>1. ASSUME NEW c \in Callers, NEW h \in Handoffs, NEW act \in Actions,
                 c \in Users => act # "resume",
                 NEW report \in Reports(c, act), NEW r \in Named(c, act),
                 UpdateBegin(c, h, act, report, r)
          PROVE  CallsStood' /\ UNCHANGED <<tree, began>>
      <3>1. report # Nobody => c \in Installations /\ report = tree[c]
        BY <2>1 DEF Reports, Callers
      <3>2. report # Nobody /\ report.clean => <<c, report.commit>> \in stood
        BY <3>1 DEF BeginInv, TreesStood
      <3>3. PICK call : /\ call = [by |-> c, h |-> h, act |-> act, report |-> report, run |-> r]
                        /\ calls' = calls \cup {call}
        BY <2>1 DEF UpdateBegin
      <3>4. call.by = c /\ call.report = report
        BY <3>3
      <3>5. UNCHANGED <<tree, began, stood>>
        BY <2>1 DEF UpdateBegin, runVars
      <3> QED
        BY <3>2, <3>3, <3>4, <3>5 DEF BeginInv, CallsStood
    <2>2. ASSUME NEW call \in calls,
                 UpdateMoves(call) \/ UpdateReplays(call) \/ UpdateRefused(call)
          PROVE  calls' \subseteq calls /\ UNCHANGED <<tree, began>>
      BY <2>2 DEF UpdateMoves, UpdateReplays, UpdateRefused, runVars
    <2>3. ASSUME NEW call \in releasing, Release(call) \/ ReleaseFails(call)
          PROVE  calls' \subseteq calls /\ UNCHANGED <<tree, began>>
      BY <2>3 DEF Release, ReleaseFails, runVars
    <2>4. CallsStood' /\ UNCHANGED <<tree, began>>
      BY <1>3, <1>6, <2>1, <2>2, <2>3 DEF Update
    <2> QED
      BY <1>2, <1>4, <2>4
  <1>7. CASE Surroundings
    <2>1. ASSUME NEW r \in Runs, NEW checkpoint \in {Nobody, tree[InstallationOf[r]]},
                 StartRun(r, checkpoint)
          PROVE  StartsStood' /\ UNCHANGED <<calls, tree>>
      BY <1>1, <2>1, ActorsAssumption
         DEF StartRun, TypeOK, BeginInv, StartsStood, TreesStood
    <2>2. ASSUME NEW i \in Installations, NEW t \in Trees, Checkout(i, t)
          PROVE  TreesStood' /\ UNCHANGED <<calls, began>>
      BY <1>1, <2>2 DEF Checkout, TypeOK, BeginInv, TreesStood, runVars
    <2>3. ASSUME \/ \E r \in Runs :
                      ReportDelivery(r) \/ Declare(r) \/ Heartbeat(r) \/ FinishRun(r)
                 \/ \E i \in Installations : Revoke(i)
                 \/ Tick
          PROVE  UNCHANGED <<calls, tree, began>>
      BY <2>3 DEF ReportDelivery, Declare, Heartbeat, FinishRun, Revoke, Tick
    <2> QED
      BY <1>2, <1>3, <1>4, <1>7, <2>1, <2>2, <2>3 DEF Surroundings
  <1>8. CASE UNCHANGED vars
    BY <1>2, <1>3, <1>4, <1>8 DEF vars
  <1> QED
    BY <1>5, <1>6, <1>7, <1>8 DEF Next

LEMMA StepBegins ==
  ASSUME BeginInv, [Next]_vars
  PROVE  TakenHeld' /\ BegunAtHandedCommit'
  <1>1. TypeOK /\ stood \subseteq stood'
    BY StoodGrows DEF BeginInv
  <1>2. ASSUME UNCHANGED offer PROVE TakenHeld' /\ BegunAtHandedCommit'
    BY <1>1, <1>2 DEF BeginInv, TakenHeld, BegunAtHandedCommit
  <1>3. ASSUME NEW i \in Installations, NEW h \in Handoffs, SendCommit(i, h)
        PROVE  TakenHeld' /\ BegunAtHandedCommit'
    <2>1. /\ \A g \in Handoffs \ {h} : offer'[g] = offer[g]
          /\ offer'[h].state = "offered"
      BY <1>1, <1>3 DEF SendCommit, TypeOK, NoOffer
    <2> QED
      BY <1>1, <2>1 DEF BeginInv, TakenHeld, BegunAtHandedCommit, Taken
  <1>4. ASSUME NEW call \in calls, UpdateMoves(call)
        PROVE  TakenHeld' /\ BegunAtHandedCommit'
    <2> DEFINE o == offer[call.h]
               p == offer'[call.h]
    <2>1. /\ call \in Call /\ call.h \in Handoffs
          /\ o.state \in From(call.act) /\ p.state = Target(call.act)
          /\ Permitted(o, call) /\ Proved(o, call)
          /\ p.holder = IF call.act = "accept" THEN call.by ELSE o.holder
          /\ p.code = o.code
          /\ \A g \in Handoffs \ {call.h} : offer'[g] = offer[g]
      BY <1>1, <1>4, MovedRow DEF Call
    <2>2. o.state \in Taken => o.holder # Nobody
      BY <2>1 DEF BeginInv, TakenHeld
    <2>3. o.state \in {"in_progress", "completed"} /\ o.code # Nobody => <<o.holder, o.code>> \in stood
      BY <2>1 DEF BeginInv, BegunAtHandedCommit
    <2> HIDE DEF o, p
    <2>4. p.state \in Taken => p.holder # Nobody
      <3>1. CASE call.act = "accept"
        BY <2>1, <3>1, ActorsAssumption DEF Permitted
      <3>2. CASE call.act # "accept"
        BY <2>1, <2>2, <3>2 DEF Call, Verbs, From, Target, Taken
      <3> QED
        BY <3>1, <3>2
    <2>5. p.state \in {"in_progress", "completed"} /\ p.code # Nobody
            => <<p.holder, p.code>> \in stood
      <3>1. CASE call.act = "resume"
        <4>1. o.holder = call.by /\ p.holder = call.by
          BY <2>1, <2>2, <3>1 DEF From, Taken, Permitted
        <4>2. ASSUME o.code # Nobody PROVE <<call.by, o.code>> \in stood
          <5>1. CASE ByCheckout(o, call)
            BY <5>1 DEF ByCheckout, At, BeginInv, CallsStood
          <5>2. CASE ByStart(o, call)
            <6>1. PICK r \in Runs : /\ Receiving(call) = {r} /\ began[r] # Nobody
                                    /\ At(o.code, began[r])
              BY <5>2 DEF ByStart, BeganThere
            <6>2. InstallationOf[r] = call.by
              BY <6>1 DEF Receiving, LiveRuns
            <6> QED
              BY <6>1, <6>2 DEF At, BeginInv, StartsStood
          <5> QED
            BY <2>1, <3>1, <4>2, <5>1, <5>2 DEF Proved, Verified
        <4> QED
          BY <2>1, <4>1, <4>2
      <3>2. CASE call.act = "complete"
        BY <2>1, <2>3, <3>2 DEF From
      <3>3. CASE call.act \notin {"resume", "complete"}
        BY <2>1, <3>3 DEF Call, Verbs, Target
      <3> QED
        BY <3>1, <3>2, <3>3
    <2>6. \A g \in Handoffs : offer'[g] = offer[g] \/ (g = call.h /\ offer'[g] = p)
      BY <2>1 DEF p
    <2> QED
      BY <1>1, <2>4, <2>5, <2>6 DEF BeginInv, TakenHeld, BegunAtHandedCommit
  <1> QED
    BY <1>1, <1>2, <1>3, <1>4, OfferSteps

(* Work that carries code is taken up, and reported complete, only by an    *)
(* agent whose checkout has been clean at the commit handed over            *)
(* (transitionHandoff, resume).                                            *)
THEOREM BegunWhereHandedOver == Spec => []BegunAtHandedCommit
  <1>1. Init => BeginInv
    <2> SUFFICES ASSUME Init PROVE BeginInv
      OBVIOUS
    <2>1. TypeOK
      BY InitTyped
    <2>2. TreesStood
      BY DEF Init, TreesStood
    <2>3. CallsStood /\ StartsStood
      BY DEF Init, CallsStood, StartsStood
    <2>4. TakenHeld /\ BegunAtHandedCommit
      BY DEF Init, NoOffer, TakenHeld, BegunAtHandedCommit, Taken
    <2> QED
      BY <2>1, <2>2, <2>3, <2>4 DEF BeginInv
  <1>2. BeginInv /\ [Next]_vars => BeginInv'
    BY StepTyped, StepKeepsEvidence, StepBegins DEF BeginInv
  <1>3. BeginInv => BegunAtHandedCommit
    BY DEF BeginInv
  <1> QED
    BY <1>1, <1>2, <1>3, PTL DEF Spec

-----------------------------------------------------------------------------
(* The allowance *)

Existing == {h \in Handoffs : Exists(h)}

(* The counter moves in the transaction that writes the handoff, or not at all. *)
LEMMA CounterSteps ==
  ASSUME TypeOK, [Next]_vars
  PROVE  \/ UNCHANGED charged
         \/ \E i \in Installations, h \in Handoffs : SendCommit(i, h)
  <1>1. CASE Create
    BY <1>1, ActorsAssumption DEF Create, SendBegin, SendReplay, SendRefused, AfterRefusal
  <1>2. CASE Update
    BY <1>2 DEF Update, UpdateBegin, UpdateMoves, UpdateReplays, UpdateRefused, Release,
                ReleaseFails
  <1>3. CASE Surroundings
    BY <1>3 DEF Surroundings, StartRun, ReportDelivery, Declare, Heartbeat, FinishRun,
                Revoke, Checkout, Tick
  <1>4. CASE UNCHANGED vars
    BY <1>4 DEF vars
  <1> QED
    BY <1>1, <1>2, <1>3, <1>4 DEF Next

(* A move leaves a handoff in existence, and makes no other. *)
LEMMA MovesCreateNone ==
  ASSUME TypeOK, NEW call \in calls, UpdateMoves(call) PROVE Existing' = Existing
  <1>1. call \in Call /\ call.h \in Handoffs /\ call.act \in Verbs
    BY MovedRow DEF Call
  <1>2. offer[call.h].state # "none"
    BY <1>1, MovedRow DEF From, Verbs
  <1>3. offer'[call.h].state # "none"
    BY <1>1, MovedRow DEF Target, Verbs
  <1>4. \A h \in Handoffs : Exists(h)' <=> Exists(h)
    BY <1>2, <1>3, MovedRow DEF Exists
  <1> QED
    BY <1>4 DEF Existing

LEMMA SendAddsOne ==
  ASSUME TypeOK, NEW i \in Installations, NEW h \in Handoffs, SendCommit(i, h)
  PROVE  Existing' = Existing \cup {h} /\ h \notin Existing /\ charged' = charged + 1
  <1>1. ~ Exists(h) /\ charged' = charged + 1
    BY DEF SendCommit
  <1>2. PICK o : offer' = [offer EXCEPT ![h] = [NoOffer EXCEPT !.state = "offered",
                    !.by = OwnerOf[i], !.toUser = o.toUser, !.toInst = o.toInst,
                    !.code = o.code, !.from = o.from]]
    <2> DEFINE s == sending[i]
    <2>1. offer' = [offer EXCEPT ![h] = [NoOffer EXCEPT !.state = "offered",
                    !.by = OwnerOf[i], !.toUser = ToUser(s.req), !.toInst = s.req.agent,
                    !.code = IF Carried(s) # Nobody THEN Carried(s).commit ELSE Nobody,
                    !.from = s.run]]
      BY DEF SendCommit
    <2> HIDE DEF s
    <2> DEFINE o == [toUser |-> ToUser(s.req), toInst |-> s.req.agent,
                     code |-> IF Carried(s) # Nobody THEN Carried(s).commit ELSE Nobody,
                     from |-> s.run]
    <2>2. o.toUser = ToUser(s.req) /\ o.toInst = s.req.agent /\ o.from = s.run
          /\ o.code = IF Carried(s) # Nobody THEN Carried(s).commit ELSE Nobody
      OBVIOUS
    <2> HIDE DEF o
    <2> QED
      BY <2>1, <2>2
  <1>3. offer'[h].state = "offered" /\ \A g \in Handoffs \ {h} : offer'[g] = offer[g]
    BY <1>2 DEF TypeOK, NoOffer
  <1>4. \A g \in Handoffs : Exists(g)' <=> (Exists(g) \/ g = h)
    BY <1>3 DEF Exists
  <1> QED
    BY <1>1, <1>4 DEF Existing

LEMMA StepCharges == TypeOK /\ ChargedForEach /\ [Next]_vars => ChargedForEach'
  <1> SUFFICES ASSUME TypeOK, ChargedForEach, [Next]_vars PROVE ChargedForEach'
    OBVIOUS
  <1>1. charged = Cardinality(Existing)
    BY DEF ChargedForEach, Existing
  <1>2. IsFiniteSet(Existing)
    BY HandoffsAssumption, FS_Subset DEF Existing
  <1>3. SUFFICES charged' = Cardinality(Existing')
    BY DEF ChargedForEach, Existing
  <1>4. ASSUME NEW i \in Installations, NEW h \in Handoffs, SendCommit(i, h)
        PROVE  charged' = Cardinality(Existing')
    BY <1>1, <1>2, <1>4, SendAddsOne, FS_AddElement
  <1>5. ASSUME NEW call \in calls, UpdateMoves(call), UNCHANGED charged
        PROVE  charged' = Cardinality(Existing')
    BY <1>1, <1>5, MovesCreateNone
  <1>6. ASSUME UNCHANGED offer, UNCHANGED charged PROVE charged' = Cardinality(Existing')
    BY <1>1, <1>6 DEF Existing, Exists
  <1> QED
    BY <1>4, <1>5, <1>6, OfferSteps, CounterSteps

(* The allowance counts the handoffs that exist, after any number of        *)
(* refusals, retries and concurrent creations (createHandoffOnce).          *)
THEOREM ChargedOncePerHandoff == Spec => []ChargedForEach
  <1>1. Init => ChargedForEach
    <2>1. ASSUME Init PROVE charged = 0 /\ {h \in Handoffs : Exists(h)} = {}
      BY <2>1 DEF Init, Exists, NoOffer
    <2> QED
      BY <2>1, FS_EmptySet DEF ChargedForEach
  <1> QED
    BY <1>1, StepCharges, HandoffsTyped, PTL DEF Spec

(* So a workspace never has more handoffs than its allowance, however many  *)
(* creations are under way at once.                                         *)
THEOREM WithinAllowance == Spec => [](Cardinality({h \in Handoffs : Exists(h)}) <= Cap)
  <1>1. TypeOK /\ ChargedForEach => Cardinality({h \in Handoffs : Exists(h)}) <= Cap
    BY BoundsAssumption DEF TypeOK, ChargedForEach
  <1> QED
    BY <1>1, HandoffsTyped, ChargedOncePerHandoff, PTL
===============================================================================
