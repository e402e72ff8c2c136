--------------------------- MODULE AgentRunsProofs ---------------------------
(***************************************************************************)
(* Proofs about AgentRuns for any number of runs, any ground, leases and   *)
(* voices, with no assumption beyond those of the module: its type         *)
(* invariant; what the write guard excludes when agents and hooks both     *)
(* state scope; that a heartbeat keeps a scope of its run; that ended runs *)
(* and released rows rest; and that moved ground is told or is one of the  *)
(* moves that slip.  The configurations AgentRuns_v_* show what is lost    *)
(* without the allowances these make.                                      *)
(***************************************************************************)
EXTENDS AgentRuns, TLAPS

(* Rows of work_claims, one per run, claim and source. *)
ClaimsOK(C) ==
  /\ C \subseteq Row
  /\ \A c, d \in C :
       <<c.run, c.key, c.access, c.source>> = <<d.run, d.key, d.access, d.source>> => c = d

(* What a lease is counted in is a natural number. *)
LEMMA LeaseForType == \A st : LeaseFor(st) \in Nat \ {0}
  BY TimesAssumption DEF LeaseFor

(* The first declaration is a stamp of the past, or now. *)
LEMMA FirstDeclaredType ==
  ASSUME TypeOK, NEW r, NEW src, NEW x
  PROVE  FirstDeclared(r, src, x) \in Nat
<1>1. now \in Nat
  BY TimesAssumption DEF TypeOK
<1>2. CASE \E c \in RowsOf(r, src) : Same(c, x)
  <2>1. (CHOOSE c \in RowsOf(r, src) : Same(c, x)) \in RowsOf(r, src)
    BY <1>2
  <2>2. (CHOOSE c \in RowsOf(r, src) : Same(c, x)) \in Row
    BY <2>1 DEF RowsOf, TypeOK
  <2> QED BY <1>2, <2>2 DEF FirstDeclared, Row
<1>3. CASE ~\E c \in RowsOf(r, src) : Same(c, x)
  BY <1>1, <1>3 DEF FirstDeclared
<1> QED BY <1>2, <1>3

(* Restating scope keeps the table well formed. *)
LEMMA RestateOK ==
  ASSUME TypeOK, NEW r \in Runs, NEW src \in {"planned", "observed"},
         NEW S \in SUBSET Claim, NEW minutes \in Nat
  PROVE  ClaimsOK(Restate(r, src, S, minutes))
<1> DEFINE New(x) == [run |-> r, key |-> x.key, access |-> x.access, source |-> src,
                      lease |-> now + minutes, created |-> now,
                      first |-> FirstDeclared(r, src, x)]
<1>1. now \in Nat
  BY TimesAssumption DEF TypeOK
<1>2. \A x \in S : New(x) \in Row
  <2> TAKE x \in S
  <2>1. x.key \in Ground /\ x.access \in Access
    BY DEF Claim
  <2>2. FirstDeclared(r, src, x) \in Nat
    BY FirstDeclaredType
  <2> QED BY <1>1, <2>1, <2>2 DEF Row
<1>3. Restate(r, src, S, minutes) = (claims \ RowsOf(r, src)) \cup {New(x) : x \in S}
  BY DEF Restate
<1>4. Restate(r, src, S, minutes) \subseteq Row
  BY <1>2, <1>3 DEF TypeOK
<1>5. ASSUME NEW c \in Restate(r, src, S, minutes), NEW d \in Restate(r, src, S, minutes),
             <<c.run, c.key, c.access, c.source>> = <<d.run, d.key, d.access, d.source>>
      PROVE  c = d
  <2> HIDE DEF New
  <2>0. \A x \in S : New(x).run = r /\ New(x).source = src
                     /\ New(x).key = x.key /\ New(x).access = x.access
    BY DEF New
  <2>1. CASE c \in claims \ RowsOf(r, src) /\ d \in claims \ RowsOf(r, src)
    BY <1>5, <2>1 DEF TypeOK
  <2>2. CASE c \in {New(x) : x \in S} /\ d \in {New(x) : x \in S}
    <3>1. PICK x \in S : c = New(x)
      BY <2>2
    <3>2. PICK y \in S : d = New(y)
      BY <2>2
    <3>3. x.key = y.key /\ x.access = y.access
      BY <1>5, <2>0, <3>1, <3>2
    <3>4. x = y
      BY <3>3 DEF Claim
    <3> QED BY <3>1, <3>2, <3>4
  <2>3. CASE c \in claims \ RowsOf(r, src) /\ d \in {New(x) : x \in S}
    BY <1>5, <2>0, <2>3 DEF RowsOf
  <2>4. CASE d \in claims \ RowsOf(r, src) /\ c \in {New(x) : x \in S}
    BY <1>5, <2>0, <2>4 DEF RowsOf
  <2> QED BY <1>3, <2>1, <2>2, <2>3, <2>4
<1> QED BY <1>4, <1>5 DEF ClaimsOK

(* Renewing and ending leases change leases and nothing else. *)
LEMMA RenewOK ==
  ASSUME TypeOK, NEW r \in Runs, NEW minutes \in Nat
  PROVE  ClaimsOK(Renew(r, minutes))
<1>1. now \in Nat
  BY TimesAssumption DEF TypeOK
<1>2. \A c \in Row : [c EXCEPT !.lease = now + minutes] \in Row
  BY <1>1 DEF Row
<1>3. Renew(r, minutes) \subseteq Row
  BY <1>2 DEF Renew, Held, TypeOK
<1>4. ASSUME NEW c \in Renew(r, minutes), NEW d \in Renew(r, minutes),
             <<c.run, c.key, c.access, c.source>> = <<d.run, d.key, d.access, d.source>>
      PROVE  c = d
  <2>1. PICK e \in claims : /\ c.run = e.run /\ c.key = e.key /\ c.access = e.access /\ c.source = e.source
                            /\ c = IF e \in Held(r) THEN [e EXCEPT !.lease = now + minutes] ELSE e
    BY DEF Renew, Held, TypeOK, Row
  <2>2. PICK f \in claims : /\ d.run = f.run /\ d.key = f.key /\ d.access = f.access /\ d.source = f.source
                            /\ d = IF f \in Held(r) THEN [f EXCEPT !.lease = now + minutes] ELSE f
    BY DEF Renew, Held, TypeOK, Row
  <2>3. e = f
    BY <1>4, <2>1, <2>2 DEF TypeOK
  <2> QED BY <2>1, <2>2, <2>3
<1> QED BY <1>3, <1>4 DEF ClaimsOK

LEMMA EndLeasesOK ==
  ASSUME TypeOK, NEW R, NEW at \in Nat
  PROVE  ClaimsOK(EndLeases(R, at))
<1> DEFINE End(c) == IF c.run \in R /\ c.source # "released" THEN [c EXCEPT !.lease = at] ELSE c
<1>1. EndLeases(R, at) = {End(c) : c \in claims}
  BY DEF EndLeases
<1>2. \A c \in claims : /\ End(c) \in Row
                        /\ End(c).run = c.run /\ End(c).key = c.key
                        /\ End(c).access = c.access /\ End(c).source = c.source
  BY DEF Row, TypeOK
<1> HIDE DEF End
<1>3. EndLeases(R, at) \subseteq Row
  BY <1>1, <1>2
<1>4. ASSUME NEW c \in EndLeases(R, at), NEW d \in EndLeases(R, at),
             <<c.run, c.key, c.access, c.source>> = <<d.run, d.key, d.access, d.source>>
      PROVE  c = d
  <2>1. PICK e \in claims : c = End(e)
    BY <1>1
  <2>2. PICK f \in claims : d = End(f)
    BY <1>1
  <2>3. e = f
    BY <1>2, <1>4, <2>1, <2>2 DEF TypeOK
  <2> QED BY <2>1, <2>2, <2>3
<1> QED BY <1>3, <1>4 DEF ClaimsOK

LEMMA NowType == TypeOK => now \in Nat /\ now >= 1
  BY TimesAssumption DEF TypeOK

(* What is left is well formed when rows are only taken away. *)
LEMMA ReleaseOK ==
  ASSUME TypeOK, NEW r \in Runs, ReleaseGround(r)
  PROVE  ClaimsOK(claims')
<1> DEFINE Kept == {c \in claims : c.run # r \/ (c.source = "released" /\ \A d \in Held(r) : ~Same(c, d))}
           Let(c) == [run |-> r, key |-> c.key, access |-> c.access, source |-> "released",
                      lease |-> now, created |-> Never, first |-> Never]
<1>1. claims' = Kept \cup {Let(c) : c \in Held(r)}
  BY DEF ReleaseGround
<1>2. \A c \in Held(r) : Let(c) \in Row
  BY NowType DEF Held, TypeOK, Row, Never
<1>3. claims' \subseteq Row
  BY <1>1, <1>2 DEF TypeOK
<1>4. ASSUME NEW c \in claims', NEW d \in claims',
             <<c.run, c.key, c.access, c.source>> = <<d.run, d.key, d.access, d.source>>
      PROVE  c = d
  <2>1. CASE c \in Kept /\ d \in Kept
    BY <1>4, <2>1 DEF TypeOK
  <2>2. CASE c \in {Let(e) : e \in Held(r)} /\ d \in {Let(e) : e \in Held(r)}
    BY <1>4, <2>2
  <2>3. CASE c \in Kept /\ d \in {Let(e) : e \in Held(r)}
    BY <1>4, <2>3 DEF Same, Held
  <2>4. CASE d \in Kept /\ c \in {Let(e) : e \in Held(r)}
    BY <1>4, <2>4 DEF Same, Held
  <2> QED BY <1>1, <2>1, <2>2, <2>3, <2>4
<1> QED BY <1>3, <1>4 DEF ClaimsOK

(* The clock only moves the upper bound of every stamp. *)
LEMMA StampsGrow ==
  ASSUME NEW f \in [Runs -> 0 .. now], now \in Nat, now' = now + 1
  PROVE  f \in [Runs -> 0 .. now']
  OBVIOUS

LEMMA AntedatedType ==
  ASSUME NEW q \in Runs PROVE Antedated(q)' \subseteq Runs \X Runs \X Ground
  BY GroundAssumption DEF Antedated

(* Type correctness: the state of runs and claims stays well formed, and a   *)
(* run never has two rows for one claim under one source, as the unique      *)
(* index of the table demands.                                               *)
THEOREM TypeCorrect == Spec => []TypeOK
<1>1. Init => TypeOK
  BY TimesAssumption DEF Init, TypeOK, Never, Live, Ended
<1>2. TypeOK /\ [Next]_vars => TypeOK'
  <2> SUFFICES ASSUME TypeOK, [Next]_vars PROVE TypeOK'
    OBVIOUS
  <2>0. now \in Nat /\ now \in 1 .. MaxTime /\ MaxTime \in Nat
    BY TimesAssumption DEF TypeOK
  <2>1. ASSUME NEW r \in Runs, NEW S \in Scopes, Start(r, S) PROVE TypeOK'
    <3>1. ClaimsOK(claims')
      BY <2>1, RestateOK, InputsAssumption, TimesAssumption DEF Start
    <3> QED BY <2>0, <2>1, <3>1 DEF TypeOK, Start, ClaimsOK, Live
  <2>2. ASSUME NEW r \in Runs, NEW st \in Reported, NEW S \in Scopes \cup {{}}, NEW v \in Voices,
               Heartbeat(r, st, S, v[1], v[2])
        PROVE  TypeOK'
    <3>1. ClaimsOK(claims')
      <4>1. v[1] \in {"planned", "observed"} /\ S \in SUBSET Claim
        BY InputsAssumption
      <4>2. LeaseFor(st) \in Nat
        BY LeaseForType
      <4> QED BY <2>2, <4>1, <4>2, RestateOK, RenewOK DEF Heartbeat
    <3>2. told' \subseteq Runs \X Runs \X Ground
      BY <2>2 DEF Heartbeat, StaleReport, TypeOK
    <3>3. acks' \subseteq [run : Runs, key : Ground, access : Access, at : 1 .. now']
      <4>1. S \subseteq Claim
        BY InputsAssumption
      <4> QED BY <2>0, <2>2, <4>1 DEF Heartbeat, TypeOK, Claim
    <3>4. st \in Live
      BY InputsAssumption
    <3>5. cleared' \subseteq Runs \X Ground
      BY <2>2 DEF Heartbeat, StillCleared, TypeOK
    <3>6. lapsed' \subseteq Runs \X Ground /\ veiled' \subseteq (Runs \X Ground) \X (Runs \X Ground)
      BY <2>2 DEF Heartbeat, Lapsing, Veiling, TypeOK
    <3> QED BY <2>0, <2>2, <3>1, <3>2, <3>3, <3>4, <3>5, <3>6 DEF TypeOK, Heartbeat, ClaimsOK
  <2>3. ASSUME NEW r \in Runs, NEW k \in Files, GuardClears(r, k) PROVE TypeOK'
    <3>1. k \in Ground
      BY GroundAssumption
    <3>2. ClaimsOK(claims')
      <4> DEFINE S == {[key |-> c.key, access |-> c.access] : c \in RowsOf(r, "planned")} \cup {Write(k)}
      <4>1. S \subseteq Claim
        BY <3>1 DEF RowsOf, TypeOK, Row, Write, Claim, Access
      <4>2. claims' = Restate(r, "planned", S, ClaimLease)
        BY <2>3 DEF GuardClears
      <4> QED BY <4>1, <4>2, RestateOK, TimesAssumption
    <3>3. /\ slipped' \subseteq Runs \X Runs \X Ground
          /\ veiled' \subseteq (Runs \X Ground) \X (Runs \X Ground)
      BY <2>3, GroundAssumption DEF GuardClears, Veiling, TypeOK
    <3> QED BY <2>0, <2>3, <3>1, <3>2, <3>3 DEF TypeOK, GuardClears, ClaimsOK
  <2>4. ASSUME NEW r \in Runs, NEW k \in Files, GuardReportsMove(r, k) PROVE TypeOK'
    <3>1. told' \subseteq Runs \X Runs \X Ground
      BY <2>4, GroundAssumption DEF GuardReportsMove, Movers, TypeOK
    <3> QED BY <2>0, <2>4, <3>1 DEF TypeOK, GuardReportsMove
  <2>5. ASSUME NEW r \in Assigned, ReleaseGround(r) PROVE TypeOK'
    <3>1. ClaimsOK(claims')
      BY <2>5, ReleaseOK, RunsAssumption
    <3>2. cleared' \subseteq Runs \X Ground
      BY <2>5 DEF ReleaseGround, StillCleared, TypeOK
    <3>3. slipped' \subseteq Runs \X Runs \X Ground
      BY <2>5, AntedatedType, RunsAssumption DEF ReleaseGround, TypeOK
    <3> QED BY <2>0, <2>5, <3>1, <3>2, <3>3 DEF TypeOK, ReleaseGround, ClaimsOK
  <2>6. ASSUME NEW r \in Runs, FinishBegin(r) PROVE TypeOK'
    BY <2>0, <2>6 DEF TypeOK, FinishBegin
  <2>7. ASSUME NEW r \in Runs, NEW o \in Outcomes, FinishCommit(r, o) PROVE TypeOK'
    <3>1. finishing[r] \in 0 .. now
      BY DEF TypeOK
    <3>2. ClaimsOK(claims')
      BY <2>0, <2>7, <3>1, EndLeasesOK DEF FinishCommit
    <3>3. o \in Ended
      BY InputsAssumption DEF Ended
    <3>4. status' \in [Runs -> {"none"} \cup Live \cup Ended]
      BY <2>7, <3>3 DEF TypeOK, FinishCommit
    <3>5. /\ ended' \in [Runs -> 0 .. now]
          /\ beat' \in [Runs -> 0 .. now]
          /\ finishing' \in [Runs -> 0 .. now]
      BY <2>0, <2>7, <3>1 DEF TypeOK, FinishCommit, Never
    <3>6. slipped' \subseteq Runs \X Runs \X Ground
      BY <2>7, AntedatedType DEF FinishCommit, TypeOK
    <3> QED BY <2>0, <2>7, <3>2, <3>4, <3>5, <3>6 DEF TypeOK, FinishCommit, ClaimsOK
  <2>8. ASSUME NEW i \in Revocable, RevokeBegin(i) PROVE TypeOK'
    BY <2>0, <2>8, InstallationsAssumption DEF TypeOK, RevokeBegin
  <2>9. ASSUME NEW v \in revoking, RevokeCommit(v) PROVE TypeOK'
    <3>1. ClaimsOK(claims')
      BY <2>0, <2>9, EndLeasesOK DEF RevokeCommit
    <3>2. v.inst \in Installations
      BY DEF TypeOK
    <3> QED BY <2>0, <2>9, <3>1, <3>2 DEF TypeOK, RevokeCommit, ClaimsOK, Ended
  <2>10. ASSUME NEW r \in Runs, Sweep(r) PROVE TypeOK'
    BY <2>0, <2>10 DEF TypeOK, Sweep, Ended
  <2>11. CASE Tick
    <3>1. now' = now + 1 /\ now' \in 1 .. MaxTime
      BY <2>0, <2>11 DEF Tick
    <3>2. /\ started' \in [Runs -> 0 .. now']
          /\ beat' \in [Runs -> 0 .. now']
          /\ ended' \in [Runs -> 0 .. now']
          /\ finishing' \in [Runs -> 0 .. now']
      BY <2>0, <2>11, <3>1, StampsGrow DEF Tick, TypeOK
    <3>3. acks' \subseteq [run : Runs, key : Ground, access : Access, at : 1 .. now']
      <4>1. 1 .. now \subseteq 1 .. now'
        BY <2>0, <3>1
      <4> QED BY <2>11, <4>1 DEF Tick, TypeOK
    <3>4. lapsed' \subseteq Runs \X Ground
      BY <2>11 DEF Tick, Lapsing, TypeOK
    <3> QED BY <2>11, <3>1, <3>2, <3>3, <3>4 DEF TypeOK, Tick
  <2>12. CASE UNCHANGED vars
    BY <2>12 DEF TypeOK, vars
  <2> QED BY <2>1, <2>2, <2>3, <2>4, <2>5, <2>6, <2>7, <2>8, <2>9, <2>10, <2>11, <2>12 DEF Next
<1> QED BY <1>1, <1>2, PTL DEF Spec

-----------------------------------------------------------------------------
(* The write guard excludes.  Of two claims over common ground that no lapse *)
(* and no later row excuses, a cleared one was declared no later than the    *)
(* other, by every row: so the guard has nothing to clear the other for.     *)

Stamped     == \A c \in claims : c.first <= now /\ c.created <= now
Unstarted   == \A c \in claims : status[c.run] # "none"
ClearedHeld == \A x \in cleared : \E c \in HeldWrites(claims, x) : c.source = "planned"
LeasesRun   == \A x \in Runs \X Ground :
                 status[x[1]] \in Live /\ x \notin lapsed /\ HeldWrites(claims, x) # {} =>
                   \E c \in HeldWrites(claims, x) : c.lease > now
Earlier(x, y) ==
  \A c \in HeldWrites(claims, x), e \in HeldWrites(claims, y) : c.first <= e.first
FirstKept   == \A x \in cleared, y \in Runs \X Ground :
                 Rival(x[1], y[1], x[2], y[2]) /\ ~Excused(x, y) => Earlier(x, y)

GuardInv ==
  /\ TypeOK
  /\ Stamped
  /\ Unstarted
  /\ ClearedHeld
  /\ LeasesRun
  /\ ReleasedStaysReleased
  /\ FirstKept
  /\ WriteExclusion

(* A row that was there before, but for its lease. *)
Carried(d) ==
  \E e \in claims : /\ e.run = d.run /\ e.key = d.key /\ e.access = d.access
                    /\ e.source = d.source /\ e.first = d.first

(* A row of the source restated, with the date of the old one or with none.  *)
Restated(d, r, src, minutes) ==
  /\ d.run = r /\ d.source = src /\ d.lease = now + minutes /\ d.created = now
  /\ Carried(d) \/ (d.first = now /\ \A e \in RowsOf(r, src) : ~Same(e, d))

(* Where the rows come from when scope is stated again under one source. *)
LEMMA RestateRow ==
  ASSUME TypeOK, NEW r \in Runs, NEW src \in {"planned", "observed"},
         NEW S \in SUBSET Claim, NEW minutes \in Nat
  PROVE  \A d \in Restate(r, src, S, minutes) : d \in claims \/ Restated(d, r, src, minutes)
<1> TAKE d \in Restate(r, src, S, minutes)
<1>1. CASE d \in claims
  BY <1>1
<1>2. CASE d \notin claims
  <2>1. PICK x \in S : d = [run |-> r, key |-> x.key, access |-> x.access, source |-> src,
                            lease |-> now + minutes, created |-> now,
                            first |-> FirstDeclared(r, src, x)]
    BY <1>2 DEF Restate
  <2>2. d.run = r /\ d.source = src /\ d.lease = now + minutes /\ d.created = now
        /\ d.key = x.key /\ d.access = x.access /\ d.first = FirstDeclared(r, src, x)
    BY <2>1
  <2>3. CASE \E e \in RowsOf(r, src) : Same(e, x)
    <3> DEFINE e == CHOOSE c \in RowsOf(r, src) : Same(c, x)
    <3>1. e \in RowsOf(r, src) /\ Same(e, x)
      BY <2>3
    <3>2. d.first = e.first
      BY <2>2, <2>3 DEF FirstDeclared
    <3> HIDE DEF e
    <3>3. Carried(d)
      BY <2>2, <3>1, <3>2 DEF Carried, RowsOf, Same
    <3> QED BY <2>2, <3>3 DEF Restated
  <2>4. CASE ~\E e \in RowsOf(r, src) : Same(e, x)
    BY <2>2, <2>4 DEF FirstDeclared, Same, Restated
  <2> QED BY <2>3, <2>4
<1> QED BY <1>1, <1>2

(* A step whose rows were there before or are declared now, whose new rows   *)
(* cover no cleared claim, and which notes what its new rows come to hide.   *)
Follows ==
  /\ \A d \in claims' : d.source # "released" => Carried(d) \/ d.first = now
  /\ \A d \in claims' : d.source = "planned" /\ d.access = "write" /\ <<d.run, d.key>> \in cleared
       => Carried(d)
  /\ \/ \A d \in claims' : d.source # "released" /\ d.access = "write" /\ <<d.run, d.key>> \in cleared
           => Carried(d)
     \/ Veiling(claims') \subseteq veiled'
  /\ \A q \in Runs : /\ status'[q] \in Live => status[q] \in Live \cup {"none"}
                     /\ status[q] # "none" => status'[q] # "none"
  /\ \A d \in claims' : d.first <= now /\ d.created <= now /\ status'[d.run] # "none"
  /\ lapsed \subseteq lapsed'
  /\ veiled \subseteq veiled'
  /\ now' = now

(* A claim held after such a step by a row of old was held before. *)
LEMMA CarriedHeld ==
  ASSUME NEW x, NEW d \in HeldWrites(claims', x), Carried(d)
  PROVE  \E e \in HeldWrites(claims, x) : e.first = d.first /\ e.source = d.source
  BY DEF HeldWrites, Carried

(* What contends after such a step contended before, if it was held. *)
LEMMA RivalBehind ==
  ASSUME TypeOK, Unstarted, Follows, NEW x \in Runs \X Ground, NEW y \in Runs \X Ground,
         Rival(x[1], y[1], x[2], y[2])', ~ Excused(x, y)',
         HeldWrites(claims, x) # {}, HeldWrites(claims, y) # {}
  PROVE  Rival(x[1], y[1], x[2], y[2]) /\ ~ Excused(x, y)
<1>1. status[x[1]] # "none" /\ status[y[1]] # "none" /\ x[1] \in Runs /\ y[1] \in Runs
  BY DEF Unstarted, HeldWrites
<1>2. {status'[x[1]], status'[y[1]]} \subseteq Live
  BY DEF Rival
<1>3. {status[x[1]], status[y[1]]} \subseteq Live
  BY <1>1, <1>2 DEF Follows
<1>4. Rival(x[1], y[1], x[2], y[2])
  BY <1>3 DEF Rival
<1>5. ~ Excused(x, y)
  BY DEF Excused, Follows
<1> QED BY <1>4, <1>5

(* A cleared claim stays the earlier one. *)
LEMMA StaysEarlier ==
  ASSUME GuardInv, TypeOK', Follows, NEW x \in cleared, NEW y \in Runs \X Ground,
         Rival(x[1], y[1], x[2], y[2])', ~ Excused(x, y)',
         \E p \in HeldWrites(claims', x) : p.source = "planned"
  PROVE  Earlier(x, y)'
<1> SUFFICES ASSUME NEW c \in HeldWrites(claims', x), NEW e \in HeldWrites(claims', y)
             PROVE  c.first <= e.first
  BY DEF Earlier
<1>0. /\ x \in Runs \X Ground /\ now \in Nat
      /\ \A d \in claims' : d \in Row /\ d.first \in Nat
      /\ \A d \in claims : d.first \in Nat
      /\ c \in claims' /\ e \in claims' /\ c.source # "released" /\ e.source # "released"
  BY NowType DEF GuardInv, TypeOK, Row, HeldWrites
<1>1. CASE e.first = now
  BY <1>0, <1>1 DEF Follows
<1>2. CASE Carried(e)
  <2>1. PICK e0 \in HeldWrites(claims, y) : e0.first = e.first
    BY <1>2, CarriedHeld
  <2>2. PICK p \in HeldWrites(claims', x) : p.source = "planned"
    OBVIOUS
  <2>3. Carried(p)
    <3>1. p \in claims' /\ p.access = "write" /\ <<p.run, p.key>> = x
      BY <1>0, <2>2 DEF HeldWrites
    <3> QED BY <2>2, <3>1 DEF Follows
  <2>4. PICK p0 \in HeldWrites(claims, x) : p0.first = p.first
    BY <2>3, CarriedHeld
  <2>5. Rival(x[1], y[1], x[2], y[2]) /\ ~ Excused(x, y)
    BY <1>0, <2>1, <2>4, RivalBehind DEF GuardInv
  <2>6. Earlier(x, y)
    BY <2>5 DEF GuardInv, FirstKept
  <2>7. CASE Carried(c)
    <3>1. PICK c0 \in HeldWrites(claims, x) : c0.first = c.first
      BY <2>7, CarriedHeld
    <3> QED BY <2>1, <2>6, <3>1 DEF Earlier
  <2>8. CASE ~ Carried(c)
    <3>0. c.access = "write" /\ <<c.run, c.key>> = x
      BY <1>0 DEF HeldWrites
    <3>1. Veiling(claims') \subseteq veiled'
      BY <1>0, <2>8, <3>0 DEF Follows
    <3>2. <<x, y>> \notin Veiling(claims')
      BY <3>1 DEF Excused
    <3>3. x[1] # y[1] /\ <<x[2], y[2]>> \in Overlaps
      BY DEF Rival
    <3>4. ~ (p.first <= e.first /\ e.first < c.first)
      BY <1>0, <2>2, <3>2, <3>3 DEF Veiling
    <3>5. p.first <= e.first
      BY <2>1, <2>4, <2>6 DEF Earlier
    <3>6. e.first \in Nat /\ c.first \in Nat
      BY <1>0
    <3> QED BY <3>4, <3>5, <3>6
  <2> QED BY <2>7, <2>8
<1> QED BY <1>0, <1>1, <1>2 DEF Follows

(* A step that clears nothing keeps what was cleared the earlier, and so     *)
(* keeps the exclusion.                                                      *)
LEMMA ExclusionStays ==
  ASSUME GuardInv, TypeOK', Follows, ClearedHeld', NEW x \in cleared, x \in cleared',
         NEW y \in Runs \X Ground, Rival(x[1], y[1], x[2], y[2])', ~ Excused(x, y)'
  PROVE  Earlier(x, y)' /\ y \notin cleared
<1>1. Earlier(x, y)'
  <2>1. \E p \in HeldWrites(claims', x) : p.source = "planned"
    BY DEF ClearedHeld
  <2> QED BY <2>1, StaysEarlier
<1>2. ASSUME y \in cleared PROVE FALSE
  <2>1. HeldWrites(claims, x) # {} /\ HeldWrites(claims, y) # {} /\ x \in Runs \X Ground
    BY <1>2 DEF GuardInv, ClearedHeld, TypeOK
  <2>2. Rival(x[1], y[1], x[2], y[2]) /\ ~ Excused(x, y)
    BY <2>1, RivalBehind DEF GuardInv
  <2> QED BY <1>2, <2>2 DEF GuardInv, WriteExclusion
<1> QED BY <1>1, <1>2

LEMMA QuietKeeps ==
  ASSUME GuardInv, TypeOK', Follows, ClearedHeld', LeasesRun', ReleasedStaysReleased',
         \A x \in cleared' : x \in cleared
  PROVE  GuardInv'
<1>1. Stamped' /\ Unstarted'
  BY DEF Stamped, Unstarted, Follows
<1>2. FirstKept'
  <2> SUFFICES ASSUME NEW x \in cleared', NEW y \in Runs \X Ground,
                      Rival(x[1], y[1], x[2], y[2])', ~ Excused(x, y)'
               PROVE  Earlier(x, y)'
    BY DEF FirstKept
  <2> QED BY ExclusionStays
<1>3. WriteExclusion'
  <2> SUFFICES ASSUME NEW x \in cleared', NEW y \in cleared',
                      Rival(x[1], y[1], x[2], y[2])', ~ Excused(x, y)'
               PROVE  FALSE
    BY DEF WriteExclusion
  <2>1. y \in Runs \X Ground
    BY DEF TypeOK
  <2> QED BY <2>1, ExclusionStays
<1> QED BY <1>1, <1>2, <1>3 DEF GuardInv

(* Claims of runs whose rows a step leaves alone stay covered. *)
LEMMA LeasesRunOn ==
  ASSUME GuardInv, Follows, NEW x \in Runs \X Ground, status'[x[1]] \in Live, x \notin lapsed',
         HeldWrites(claims', x) # {}, HeldWrites(claims', x) = HeldWrites(claims, x)
  PROVE  \E c \in HeldWrites(claims', x) : c.lease > now
<1>1. PICK c \in HeldWrites(claims, x) : TRUE
  OBVIOUS
<1>2. status[x[1]] # "none" /\ x[1] \in Runs
  BY <1>1 DEF GuardInv, Unstarted, HeldWrites
<1>3. status[x[1]] \in Live /\ x \notin lapsed
  BY <1>2 DEF Follows
<1> QED BY <1>3 DEF GuardInv, LeasesRun

(* The rows of other runs than the one that states scope. *)
LEMMA RestateOthers ==
  ASSUME NEW r, NEW src, NEW S, NEW minutes, claims' = Restate(r, src, S, minutes),
         NEW x, x[1] # r
  PROVE  HeldWrites(claims', x) = HeldWrites(claims, x)
  BY DEF HeldWrites, Restate, RowsOf

(* Every other step keeps rows, but for leases, or lets them go. *)
LEMMA CarryFollows ==
  ASSUME GuardInv, TypeOK', UNCHANGED now, lapsed \subseteq lapsed', veiled \subseteq veiled',
         \A q \in Runs : /\ status'[q] \in Live => status[q] \in Live
                         /\ status[q] # "none" => status'[q] # "none",
         \A d \in claims' : \/ Carried(d) /\ d.created <= now
                            \/ d.source = "released" /\ d.first = 0 /\ d.created = 0 /\ status[d.run] # "none"
  PROVE  Follows
<1>0. now \in Nat /\ \A d \in claims' : d.run \in Runs
  BY NowType DEF GuardInv, TypeOK, Row
<1>1. \A d \in claims' : d.source # "released" => Carried(d)
  OBVIOUS
<1>2. \A d \in claims' : d.source = "planned" => Carried(d)
  OBVIOUS
<1>3. ASSUME NEW d \in claims', Carried(d)
      PROVE  d.first <= now /\ d.created <= now /\ status'[d.run] # "none"
  <2>1. PICK e \in claims : e.run = d.run /\ e.first = d.first
    BY <1>3 DEF Carried
  <2>2. e.first <= now /\ status[e.run] # "none"
    BY DEF GuardInv, Stamped, Unstarted
  <2>3. d.created <= now
    BY <1>0, <1>3
  <2> QED BY <1>0, <2>1, <2>2, <2>3
<1>4. \A d \in claims' : d.first <= now /\ d.created <= now /\ status'[d.run] # "none"
  BY <1>0, <1>3
<1> QED BY <1>1, <1>2, <1>4 DEF Follows

(* Scope stated again by a start, a heartbeat or the guard. *)
LEMMA RestateFollows ==
  ASSUME GuardInv, TypeOK', NEW r \in Runs, NEW src \in {"planned", "observed"},
         NEW S \in SUBSET Claim, NEW minutes \in Nat,
         claims' = Restate(r, src, S, minutes),
         status[r] \in Live \cup {"none"}, status'[r] \in Live,
         \A q \in Runs : q # r => status'[q] = status[q],
         \/ Veiling(claims') \subseteq veiled'
         \/ status[r] = "none",
         UNCHANGED now, lapsed \subseteq lapsed', veiled \subseteq veiled'
  PROVE  Follows
<1>0. /\ TypeOK /\ now \in Nat /\ "none" \notin Live
      /\ \A d \in claims' : d.run \in Runs
      /\ \A d \in claims : d.first <= now /\ d.created <= now /\ status[d.run] # "none" /\ Carried(d)
  BY NowType DEF GuardInv, TypeOK, Row, Live, Stamped, Unstarted, Carried
<1>a. \A d \in claims' : d \in claims \/ Restated(d, r, src, minutes)
  BY <1>0, RestateRow
<1>1. \A d \in claims' : \/ d \in claims
                         \/ /\ d.run = r /\ d.source = src /\ d.created = now
                            /\ \/ Carried(d)
                               \/ d.first = now /\ ~\E e \in RowsOf(r, src) : Same(e, d)
  BY <1>a DEF Restated
<1>2. \A d \in claims' : Carried(d) \/ d.first = now
  BY <1>0, <1>1
<1>3. \A x \in cleared : \E p \in claims : /\ p.run = x[1] /\ p.key = x[2]
                                           /\ p.access = "write" /\ p.source = "planned"
  BY DEF GuardInv, ClearedHeld, HeldWrites
<1>4. ASSUME NEW d \in claims', d.source = "planned", d.access = "write",
             <<d.run, d.key>> \in cleared
      PROVE  Carried(d)
  <2>1. PICK p \in claims : p.run = d.run /\ p.key = d.key /\ p.access = "write" /\ p.source = "planned"
    BY <1>3, <1>4
  <2>2. CASE d.run = r /\ d.source = src
    <3>1. p \in RowsOf(r, src) /\ Same(p, d)
      BY <1>4, <2>1, <2>2 DEF RowsOf, Same
    <3> QED BY <1>0, <1>1, <3>1
  <2> QED BY <1>0, <1>1, <2>2
<1>5. \/ \A d \in claims' : d.source # "released" /\ d.access = "write" /\ <<d.run, d.key>> \in cleared
           => Carried(d)
      \/ Veiling(claims') \subseteq veiled'
  <2>1. CASE status[r] = "none"
    <3>1. \A d \in claims' : <<d.run, d.key>> \in cleared => d.run # r
      BY <1>0, <1>3, <2>1
    <3> QED BY <1>0, <1>1, <3>1
  <2> QED BY <2>1
<1>6. \A q \in Runs : /\ status'[q] \in Live => status[q] \in Live \cup {"none"}
                      /\ status[q] # "none" => status'[q] # "none"
  BY <1>0
<1>7. \A d \in claims' : d.first <= now /\ d.created <= now /\ status'[d.run] # "none"
  <2> SUFFICES ASSUME NEW d \in claims' PROVE d.first <= now /\ d.created <= now /\ status'[d.run] # "none"
    OBVIOUS
  <2>1. CASE d \in claims
    BY <1>0, <1>6, <2>1
  <2>2. CASE d \notin claims
    <3>1. d.run = r /\ d.created = now
      BY <1>1, <2>2
    <3>2. d.first <= now
      BY <1>0, <1>2 DEF Carried
    <3> QED BY <1>0, <3>1, <3>2
  <2> QED BY <2>1, <2>2
<1> QED BY <1>2, <1>4, <1>5, <1>6, <1>7 DEF Follows

LEMMA StartKeeps ==
  ASSUME GuardInv, TypeOK', NEW r \in Runs, NEW S \in Scopes, Start(r, S)
  PROVE  GuardInv'
<1>1. /\ S \in SUBSET Claim /\ ClaimLease \in Nat /\ ClaimLease > 0 /\ now \in Nat
      /\ claims' = Restate(r, "planned", S, ClaimLease)
      /\ status' = [status EXCEPT ![r] = "active"] /\ status[r] = "none"
      /\ UNCHANGED <<now, lapsed, cleared, veiled>>
  BY InputsAssumption, TimesAssumption, NowType DEF Start, GuardInv
<1>2. status'[r] \in Live /\ \A q \in Runs : q # r => status'[q] = status[q]
  BY <1>1 DEF GuardInv, TypeOK, Live
<1>3. \A d \in claims : d.run # r
  BY <1>1 DEF GuardInv, Unstarted
<1>4. Follows
  BY <1>1, <1>2, RestateFollows
<1>5. \A x : x[1] # r => HeldWrites(claims', x) = HeldWrites(claims, x)
  BY <1>1, RestateOthers
<1>6. \A d \in claims' : d \in claims \/ (d.run = r /\ d.source = "planned" /\ d.lease = now + ClaimLease)
  <2>1. \A d \in claims' : d \in claims \/ Restated(d, r, "planned", ClaimLease)
    BY <1>1, RestateRow DEF GuardInv
  <2> QED BY <2>1 DEF Restated
<1>7. ClearedHeld'
  <2> SUFFICES ASSUME NEW x \in cleared PROVE \E c \in HeldWrites(claims', x) : c.source = "planned"
    BY <1>1 DEF ClearedHeld
  <2>1. PICK c \in HeldWrites(claims, x) : c.source = "planned"
    BY DEF GuardInv, ClearedHeld
  <2>2. x[1] # r
    BY <1>3, <2>1 DEF HeldWrites
  <2> QED BY <1>5, <2>1, <2>2
<1>8. LeasesRun'
  <2> SUFFICES ASSUME NEW x \in Runs \X Ground, status'[x[1]] \in Live, x \notin lapsed',
                      HeldWrites(claims', x) # {}
               PROVE  \E c \in HeldWrites(claims', x) : c.lease > now
    BY <1>1 DEF LeasesRun
  <2>1. CASE x[1] = r
    <3>1. PICK c \in HeldWrites(claims', x) : TRUE
      OBVIOUS
    <3>2. c \in claims' /\ c.run = r
      BY <2>1 DEF HeldWrites
    <3>3. c.lease = now + ClaimLease
      BY <1>3, <1>6, <3>2
    <3> QED BY <1>1, <3>1, <3>3
  <2>2. CASE x[1] # r
    BY <1>4, <1>5, <2>2, LeasesRunOn
  <2> QED BY <2>1, <2>2
<1>9. ReleasedStaysReleased'
  BY <1>1, <1>6 DEF ReleasedStaysReleased, GuardInv
<1> QED BY <1>1, <1>4, <1>7, <1>8, <1>9, QuietKeeps

(* Rows renewed are carried over. *)
LEMMA RenewRow ==
  ASSUME TypeOK, NEW r, NEW minutes \in Nat, NEW d \in Renew(r, minutes)
  PROVE  /\ \E e \in claims : /\ e.run = d.run /\ e.key = d.key /\ e.access = d.access
                              /\ e.source = d.source /\ e.first = d.first /\ e.created = d.created
         /\ d.source = "released" => d \in claims
         /\ d.run = r /\ d.source # "released" => d.lease = now + minutes
         /\ d.run # r => d \in claims
<1>1. CASE d \in claims \ Held(r)
  BY <1>1 DEF Held
<1>2. CASE d \notin claims \ Held(r)
  <2>1. PICK e \in Held(r) : d = [e EXCEPT !.lease = now + minutes]
    BY <1>2 DEF Renew
  <2>2. e \in claims /\ e \in Row /\ e.run = r /\ e.source # "released"
    BY <2>1 DEF Held, TypeOK
  <2>3. /\ d.run = e.run /\ d.key = e.key /\ d.access = e.access /\ d.source = e.source
        /\ d.first = e.first /\ d.created = e.created /\ d.lease = now + minutes
    BY <2>1, <2>2 DEF Row
  <2> QED BY <2>2, <2>3
<1> QED BY <1>1, <1>2

LEMMA HeartbeatKeeps ==
  ASSUME GuardInv, TypeOK', NEW r \in Runs, NEW st \in Reported, NEW S \in Scopes \cup {{}},
         NEW src \in {"planned", "observed"}, NEW explicit, Heartbeat(r, st, S, src, explicit)
  PROVE  GuardInv'
<1>1. /\ S \in SUBSET Claim /\ LeaseFor(st) \in Nat /\ st \in Live /\ now \in Nat
      /\ claims' = IF S = {} THEN Renew(r, LeaseFor(st)) ELSE Restate(r, src, S, LeaseFor(st))
      /\ status' = [status EXCEPT ![r] = st] /\ status[r] \in Live
      /\ UNCHANGED now
      /\ lapsed' = lapsed \cup Lapsing(claims', now)
      /\ veiled' = veiled \cup Veiling(claims')
      /\ cleared' = StillCleared(cleared, claims')
  BY InputsAssumption, LeaseForType, NowType DEF Heartbeat, Free, GuardInv
<1>2. status'[r] \in Live /\ \A q \in Runs : q # r => status'[q] = status[q]
  BY <1>1 DEF GuardInv, TypeOK
<1>3. ClearedHeld' /\ \A x \in cleared' : x \in cleared
  BY <1>1 DEF StillCleared, ClearedHeld, HeldWrites
<1>4. LeasesRun'
  <2> SUFFICES ASSUME NEW x \in Runs \X Ground, status'[x[1]] \in Live, x \notin lapsed',
                      HeldWrites(claims', x) # {}
               PROVE  \E c \in HeldWrites(claims', x) : c.lease > now
    BY <1>1 DEF LeasesRun
  <2>1. status[x[1]] \in Live
    BY <1>1, <1>2
  <2>2. PICK c \in HeldWrites(claims', x) : ~(c.lease <= now)
    BY <1>1, <2>1 DEF Lapsing
  <2>3. c.lease \in Nat
    BY <2>2 DEF HeldWrites, TypeOK, Row
  <2> QED BY <1>1, <2>2, <2>3
<1>5. CASE S # {}
  <2>1. claims' = Restate(r, src, S, LeaseFor(st))
    BY <1>1, <1>5
  <2>2. Follows
    BY <1>1, <1>2, <2>1, RestateFollows
  <2>3. \A d \in claims' : d \in claims \/ d.source = src
    <3>1. \A d \in claims' : d \in claims \/ Restated(d, r, src, LeaseFor(st))
      BY <1>1, <2>1, RestateRow DEF GuardInv
    <3> QED BY <3>1 DEF Restated
  <2>4. ReleasedStaysReleased'
    BY <1>1, <2>3 DEF ReleasedStaysReleased, GuardInv
  <2> QED BY <1>3, <1>4, <2>2, <2>4, QuietKeeps
<1>6. CASE S = {}
  <2>1. \A d \in claims' :
          /\ \E e \in claims : /\ e.run = d.run /\ e.key = d.key /\ e.access = d.access
                               /\ e.source = d.source /\ e.first = d.first /\ e.created = d.created
          /\ d.source = "released" => d \in claims
    BY <1>1, <1>6, RenewRow DEF GuardInv
  <2>2. \A d \in claims' : Carried(d) /\ d.created <= now
    BY <2>1 DEF Carried, GuardInv, Stamped
  <2>3. Follows
    <3>1. \A q \in Runs : /\ status'[q] \in Live => status[q] \in Live
                          /\ status[q] # "none" => status'[q] # "none"
      BY <1>1, <1>2 DEF Live
    <3>2. lapsed \subseteq lapsed' /\ veiled \subseteq veiled'
      BY <1>1
    <3> QED BY <1>1, <2>2, <3>1, <3>2, CarryFollows
  <2>4. ReleasedStaysReleased'
    BY <1>1, <2>1 DEF ReleasedStaysReleased, GuardInv
  <2> QED BY <1>3, <1>4, <2>3, <2>4, QuietKeeps
<1> QED BY <1>5, <1>6

(* Others' running rows of a claim that collides with k count as the         *)
(* guard's answer has them: some row of it is later than a row of r's own.   *)
LEMMA GuardChecked ==
  ASSUME GuardInv, NEW r \in Runs, NEW k \in Ground, GuardMayClear(r, k),
         NEW y \in Runs \X Ground, Rival(r, y[1], k, y[2]), y \notin lapsed,
         HeldWrites(claims, y) # {}
  PROVE  \E c \in HeldWrites(claims, <<r, k>>), d \in HeldWrites(claims, y) : c.first < d.first
<1>1. PICK e \in HeldWrites(claims, y) : e.lease > now
  BY DEF GuardInv, LeasesRun, Rival
<1>2. e \in Rivals(r, k)
  BY <1>1 DEF Rivals, Colliding, Write, Rival, HeldWrites
<1>3. PICK d \in Deciding(e), f \in OwnFirst(r, Write(k)) : f < d.first
  BY <1>2 DEF GuardMayClear, MayBeYours
<1>4. PICK c \in Held(r) : Same(c, Write(k)) /\ c.first = f
  BY <1>3 DEF OwnFirst
<1>5. c \in HeldWrites(claims, <<r, k>>)
  BY <1>4 DEF Held, HeldWrites, Same, Write
<1>6. d \in HeldWrites(claims, y)
  <2>1. d \in claims /\ d.run = y[1] /\ d.key = y[2] /\ d.access = "write" /\ d.lease > now
    BY <1>1, <1>3 DEF Deciding, Same, HeldWrites
  <2>2. d.lease \in Nat /\ now \in Nat
    BY <2>1, NowType DEF GuardInv, TypeOK, Row
  <2>3. d.source # "released"
    BY <2>1, <2>2 DEF GuardInv, ReleasedStaysReleased
  <2> QED BY <2>1, <2>3 DEF HeldWrites
<1> QED BY <1>3, <1>4, <1>5, <1>6

(* The guard's answer keeps the invariant: what it clears is the earlier of  *)
(* any two claims that nothing excuses, and no such claim was cleared.       *)
LEMMA GuardKeeps ==
  ASSUME GuardInv, TypeOK', NEW r \in Runs, NEW k \in Files, GuardClears(r, k)
  PROVE  GuardInv'
<1> DEFINE S == {[key |-> c.key, access |-> c.access] : c \in RowsOf(r, "planned")} \cup {Write(k)}
           x0 == <<r, k>>
<1>1. S \in SUBSET Claim /\ k \in Ground
  BY GroundAssumption DEF RowsOf, GuardInv, TypeOK, Row, Write, Claim, Access
<1>2. /\ claims' = Restate(r, "planned", S, ClaimLease)
      /\ UNCHANGED <<now, status, lapsed>>
      /\ veiled' = veiled \cup Veiling(claims')
      /\ cleared' = cleared \cup {<<r, k>>}
      /\ GuardMayClear(r, k)
      /\ status[r] \in Live
      /\ ClaimLease \in Nat /\ ClaimLease > 0 /\ now \in Nat /\ TypeOK
  BY TimesAssumption, NowType DEF GuardClears, Free, GuardInv
<1>3. Write(k) \in S /\ \A c \in RowsOf(r, "planned") : [key |-> c.key, access |-> c.access] \in S
  OBVIOUS
<1> HIDE DEF S
<1>4. Follows
  BY <1>1, <1>2, RestateFollows
<1>5. \A d \in claims' : \/ d \in claims
                         \/ /\ d.run = r /\ d.source = "planned" /\ d.lease = now + ClaimLease
                            /\ \/ Carried(d)
                               \/ d.first = now
  <2>1. \A d \in claims' : d \in claims \/ Restated(d, r, "planned", ClaimLease)
    BY <1>1, <1>2, RestateRow
  <2> QED BY <2>1 DEF Restated
<1>6. \A y : y[1] # r => HeldWrites(claims', y) = HeldWrites(claims, y)
  BY <1>2, RestateOthers
<1>7. \A x \in S : \E c \in claims' : /\ c.run = r /\ c.source = "planned" /\ c.key = x.key
                                      /\ c.access = x.access /\ c.lease = now + ClaimLease
  <2> TAKE x \in S
  <2> DEFINE c == [run |-> r, key |-> x.key, access |-> x.access, source |-> "planned",
                   lease |-> now + ClaimLease, created |-> now,
                   first |-> FirstDeclared(r, "planned", x)]
  <2>1. c \in claims'
    BY <1>2 DEF Restate
  <2> QED BY <2>1
<1>8. ASSUME NEW c \in claims, c.run = r, c.source # "released"
      PROVE  \E d \in claims' : /\ d.run = r /\ d.key = c.key /\ d.access = c.access
                                /\ d.source = c.source /\ d.first = c.first
  <2>1. CASE c.source # "planned"
    BY <1>2, <1>8, <2>1 DEF Restate, RowsOf
  <2>2. CASE c.source = "planned"
    <3>1. c \in RowsOf(r, "planned")
      BY <1>8, <2>2 DEF RowsOf
    <3> DEFINE x == [key |-> c.key, access |-> c.access]
               d == [run |-> r, key |-> x.key, access |-> x.access, source |-> "planned",
                     lease |-> now + ClaimLease, created |-> now,
                     first |-> FirstDeclared(r, "planned", x)]
    <3>2. x \in S
      BY <1>3, <3>1
    <3>3. d \in claims'
      BY <1>2, <3>2 DEF Restate
    <3>4. Same(c, x)
      BY DEF Same
    <3>5. \A e \in RowsOf(r, "planned") : Same(e, x) => e = c
      BY <2>2, <1>8, <1>2 DEF RowsOf, Same, TypeOK
    <3>6. FirstDeclared(r, "planned", x) = c.first
      <4> HIDE DEF x
      <4> QED BY <3>1, <3>4, <3>5 DEF FirstDeclared
    <3> QED BY <2>2, <3>3, <3>6
  <2> QED BY <2>1, <2>2
<1>9. ClearedHeld'
  <2> SUFFICES ASSUME NEW x \in cleared' PROVE \E c \in HeldWrites(claims', x) : c.source = "planned"
    BY DEF ClearedHeld
  <2>1. CASE x = <<r, k>>
    BY <1>3, <1>7, <2>1 DEF HeldWrites, Write
  <2>2. CASE x \in cleared
    <3>1. PICK c \in HeldWrites(claims, x) : c.source = "planned"
      BY <2>2 DEF GuardInv, ClearedHeld
    <3>2. CASE x[1] = r
      <4>1. c \in claims /\ c.run = r /\ c.key = x[2] /\ c.access = "write"
        BY <3>1, <3>2 DEF HeldWrites
      <4>2. PICK d \in claims' : /\ d.run = r /\ d.key = c.key /\ d.access = c.access /\ d.source = c.source
        BY <1>8, <3>1, <4>1
      <4> QED BY <3>1, <3>2, <4>1, <4>2 DEF HeldWrites
    <3>3. CASE x[1] # r
      BY <1>6, <3>1, <3>3
    <3> QED BY <3>2, <3>3
  <2> QED BY <1>2, <2>1, <2>2
<1>10. LeasesRun'
  <2> SUFFICES ASSUME NEW x \in Runs \X Ground, status[x[1]] \in Live, x \notin lapsed,
                      HeldWrites(claims', x) # {}
               PROVE  \E c \in HeldWrites(claims', x) : c.lease > now
    BY <1>2 DEF LeasesRun
  <2>1. CASE x[1] # r
    BY <1>2, <1>4, <1>6, <2>1, LeasesRunOn
  <2>2. CASE x[1] = r /\ \E c \in HeldWrites(claims', x) : c \notin claims
    <3>1. PICK c \in HeldWrites(claims', x) : c \notin claims
      BY <2>2
    <3>2. c.lease = now + ClaimLease
      BY <1>5, <3>1 DEF HeldWrites
    <3> QED BY <1>2, <3>1, <3>2
  <2>3. CASE x[1] = r /\ \A c \in HeldWrites(claims', x) : c \in claims
    <3>1. HeldWrites(claims, x) # {}
      BY <2>3 DEF HeldWrites
    <3>2. PICK c \in HeldWrites(claims, x) : c.lease > now
      BY <3>1 DEF GuardInv, LeasesRun
    <3>3. c \in claims /\ c.run = r /\ c.key = x[2] /\ c.access = "write" /\ c.source # "released"
      BY <2>3, <3>2 DEF HeldWrites
    <3>4. CASE c.source # "planned"
      <4>1. c \in claims'
        BY <1>2, <3>3, <3>4 DEF Restate, RowsOf
      <4> QED BY <3>2, <3>3, <2>3, <4>1 DEF HeldWrites
    <3>5. CASE c.source = "planned"
      <4>1. [key |-> c.key, access |-> c.access] \in S
        BY <1>3, <3>3, <3>5 DEF RowsOf
      <4>2. PICK d \in claims' : /\ d.run = r /\ d.source = "planned" /\ d.key = c.key
                                 /\ d.access = c.access /\ d.lease = now + ClaimLease
        BY <1>7, <4>1
      <4>3. d \in HeldWrites(claims', x)
        BY <2>3, <3>3, <4>2 DEF HeldWrites
      <4> QED BY <1>2, <4>2, <4>3
    <3> QED BY <3>4, <3>5
  <2> QED BY <2>1, <2>2, <2>3
<1>11. ReleasedStaysReleased'
  BY <1>2, <1>5 DEF ReleasedStaysReleased, GuardInv
<1>12. \A d \in claims' : d.first \in Nat
  BY DEF TypeOK, Row
<1>13. ASSUME NEW y \in Runs \X Ground, Rival(r, y[1], k, y[2])', ~ Excused(x0, y)'
       PROVE  Earlier(x0, y)' /\ y \notin cleared /\ y # x0
  <2>0. Rival(r, y[1], k, y[2]) /\ y[1] # r /\ y \notin lapsed /\ x0 \notin lapsed
        /\ x0[1] = r /\ x0[2] = k /\ x0 \in Runs \X Ground
        /\ HeldWrites(claims', y) = HeldWrites(claims, y)
    BY <1>1, <1>2, <1>6, <1>13 DEF Rival, Excused
  <2>1. ASSUME HeldWrites(claims, y) # {}
        PROVE  \E c \in HeldWrites(claims, x0), d \in HeldWrites(claims, y) : c.first < d.first
    BY <1>1, <1>2, <2>0, <2>1, GuardChecked
  <2>2. /\ <<k, y[2]>> \in Overlaps /\ <<y[2], k>> \in Overlaps /\ y[1] # r /\ <<y[1], r>> \notin Siblings
    BY <1>1, <2>0, GroundAssumption, RunsAssumption DEF Rival
  <2>3. <<x0, y>> \notin Veiling(claims') /\ <<y, x0>> \notin Veiling(claims')
    BY <1>2, <1>13 DEF Excused
  <2>4. Earlier(x0, y)'
    <3> SUFFICES ASSUME NEW c \in HeldWrites(claims', x0), NEW e \in HeldWrites(claims', y)
                 PROVE  c.first <= e.first
      BY DEF Earlier
    <3>1. PICK f \in HeldWrites(claims, x0), d \in HeldWrites(claims, y) : f.first < d.first
      BY <2>0, <2>1
    <3>2. f \in claims /\ f.run = r /\ f.key = k /\ f.access = "write" /\ f.source # "released"
      BY <2>0, <3>1 DEF HeldWrites
    <3>3. PICK g \in claims' : /\ g.run = r /\ g.key = k /\ g.access = "write"
                               /\ g.source # "released" /\ g.first = f.first
      BY <1>8, <3>2
    <3>4. g \in HeldWrites(claims', x0) /\ d \in HeldWrites(claims', y)
      BY <2>0, <3>1, <3>3 DEF HeldWrites
    <3>5. c.first \in Nat /\ d.first \in Nat /\ e.first \in Nat /\ g.first \in Nat
      BY <1>12, <3>4 DEF HeldWrites
    <3>6. ~ (e.first <= g.first /\ g.first < d.first)
      BY <2>0, <2>2, <2>3, <3>4 DEF Veiling
    <3>7. ~ (g.first <= e.first /\ e.first < c.first)
      BY <2>0, <2>2, <2>3, <3>4 DEF Veiling
    <3> QED BY <3>1, <3>3, <3>5, <3>6, <3>7
  <2>5. ASSUME y \in cleared PROVE FALSE
    <3>1. HeldWrites(claims, y) # {}
      BY <2>5 DEF GuardInv, ClearedHeld
    <3>2. PICK c \in HeldWrites(claims, x0), d \in HeldWrites(claims, y) : c.first < d.first
      BY <2>1, <3>1
    <3>3. Rival(y[1], x0[1], y[2], x0[2])
      BY <2>0, <2>2 DEF Rival
    <3>4. ~ Excused(y, x0)
      BY <1>2, <1>13 DEF Excused
    <3>5. d.first <= c.first
      BY <2>0, <2>5, <3>2, <3>3, <3>4 DEF GuardInv, FirstKept, Earlier
    <3>6. c.first \in Nat /\ d.first \in Nat
      BY <3>2 DEF HeldWrites, GuardInv, TypeOK, Row
    <3> QED BY <3>2, <3>5, <3>6
  <2> QED BY <2>0, <2>4, <2>5
<1>14. FirstKept'
  <2> SUFFICES ASSUME NEW x \in cleared', NEW y \in Runs \X Ground,
                      Rival(x[1], y[1], x[2], y[2])', ~ Excused(x, y)'
               PROVE  Earlier(x, y)'
    BY DEF FirstKept
  <2>1. CASE x = x0
    BY <1>13, <2>1
  <2>2. CASE x \in cleared
    BY <1>4, <1>9, <2>2, ExclusionStays
  <2> QED BY <1>2, <2>1, <2>2
<1>15. WriteExclusion'
  <2> SUFFICES ASSUME NEW x \in cleared', NEW y \in cleared',
                      Rival(x[1], y[1], x[2], y[2])', ~ Excused(x, y)'
               PROVE  FALSE
    BY DEF WriteExclusion
  <2>0. x \in Runs \X Ground /\ y \in Runs \X Ground
    BY DEF TypeOK
  <2>1. CASE x = x0
    BY <1>2, <1>13, <2>0, <2>1
  <2>2. CASE y = x0
    <3>1. Rival(r, x[1], k, x[2])'
      BY <1>1, <2>0, <2>2, GroundAssumption, RunsAssumption DEF Rival
    <3>2. ~ Excused(x0, x)'
      BY <2>2 DEF Excused
    <3> QED BY <1>2, <1>13, <2>0, <2>1, <3>1, <3>2
  <2>3. CASE x \in cleared /\ y \in cleared
    BY <1>4, <1>9, <2>0, <2>3, ExclusionStays
  <2> QED BY <1>2, <2>1, <2>2, <2>3
<1>16. Stamped' /\ Unstarted'
  BY <1>4 DEF Stamped, Unstarted, Follows
<1> QED BY <1>9, <1>10, <1>11, <1>14, <1>15, <1>16 DEF GuardInv

LEMMA ReleaseKeeps ==
  ASSUME GuardInv, TypeOK', NEW r \in Runs, ReleaseGround(r)
  PROVE  GuardInv'
<1>1. /\ status[r] \in Live /\ UNCHANGED <<now, status, lapsed, veiled>> /\ now \in Nat
      /\ cleared' = StillCleared(cleared, claims')
  BY NowType DEF ReleaseGround, Free, GuardInv
<1>2. ClearedHeld' /\ \A x \in cleared' : x \in cleared
  BY <1>1 DEF StillCleared, ClearedHeld, HeldWrites
<1>3. \A d \in claims' : \/ d \in claims /\ (d.run = r => d.source = "released")
                         \/ /\ d.source = "released" /\ d.lease = now /\ d.first = 0
                            /\ d.created = 0 /\ d.run = r
  BY DEF ReleaseGround, Never, Held
<1>4. \A c \in claims : c.run # r => c \in claims'
  BY DEF ReleaseGround
<1>5. Follows
  <2>1. \A d \in claims' : \/ Carried(d) /\ d.created <= now
                           \/ d.source = "released" /\ d.first = 0 /\ d.created = 0 /\ status[d.run] # "none"
    BY <1>1, <1>3 DEF Carried, GuardInv, Stamped, Live
  <2> QED BY <1>1, <2>1, CarryFollows
<1>6. LeasesRun'
  <2> SUFFICES ASSUME NEW x \in Runs \X Ground, status'[x[1]] \in Live, x \notin lapsed',
                      HeldWrites(claims', x) # {}
               PROVE  \E c \in HeldWrites(claims', x) : c.lease > now
    BY <1>1 DEF LeasesRun
  <2>1. x[1] # r
    BY <1>3 DEF HeldWrites
  <2>2. HeldWrites(claims', x) = HeldWrites(claims, x)
    BY <1>3, <1>4, <2>1 DEF HeldWrites
  <2> QED BY <1>5, <2>2, LeasesRunOn
<1>7. ReleasedStaysReleased'
  BY <1>1, <1>3 DEF ReleasedStaysReleased, GuardInv
<1> QED BY <1>2, <1>5, <1>6, <1>7, QuietKeeps

(* Runs end and their leases with them. *)
LEMMA EndKeeps ==
  ASSUME GuardInv, TypeOK', NEW CONSTANT R, NEW CONSTANT at, claims' = EndLeases(R, at),
         \A q \in Runs : IF q \in R THEN status'[q] \in Ended ELSE status'[q] = status[q],
         UNCHANGED <<now, cleared, lapsed, veiled>>
  PROVE  GuardInv'
<1> DEFINE End(c) == IF c.run \in R /\ c.source # "released" THEN [c EXCEPT !.lease = at] ELSE c
<1>1. claims' = {End(c) : c \in claims}
  BY DEF EndLeases
<1>2. \A c \in claims : /\ End(c).run = c.run /\ End(c).key = c.key /\ End(c).access = c.access
                        /\ End(c).source = c.source /\ End(c).first = c.first /\ End(c).created = c.created
                        /\ c.run \notin R \/ c.source = "released" => End(c) = c
                        /\ c.run \in Runs
  BY DEF GuardInv, TypeOK, Row
<1> HIDE DEF End
<1>3. Ended \cap Live = {} /\ "none" \notin Ended
  BY DEF Ended, Settled, Live
<1>4. \A q \in Runs : /\ status'[q] \in Live => status[q] \in Live /\ q \notin R
                      /\ status[q] # "none" => status'[q] # "none"
  BY <1>3
<1>5. Follows
  <2>1. \A d \in claims' : Carried(d) /\ d.created <= now
    <3> SUFFICES ASSUME NEW c \in claims PROVE Carried(End(c)) /\ End(c).created <= now
      BY <1>1
    <3>1. Carried(End(c))
      BY <1>2 DEF Carried
    <3>2. c.created <= now
      BY DEF GuardInv, Stamped
    <3> QED BY <1>2, <3>1, <3>2
  <2>2. lapsed \subseteq lapsed' /\ veiled \subseteq veiled' /\ now' = now
    OBVIOUS
  <2> QED BY <1>4, <2>1, <2>2, CarryFollows
<1>6. ClearedHeld'
  <2> SUFFICES ASSUME NEW x \in cleared PROVE \E c \in HeldWrites(claims', x) : c.source = "planned"
    BY DEF ClearedHeld
  <2>1. PICK c \in HeldWrites(claims, x) : c.source = "planned"
    BY DEF GuardInv, ClearedHeld
  <2>2. End(c) \in HeldWrites(claims', x) /\ End(c).source = "planned"
    BY <1>1, <1>2, <2>1 DEF HeldWrites
  <2> QED BY <2>2
<1>7. LeasesRun'
  <2> SUFFICES ASSUME NEW x \in Runs \X Ground, status'[x[1]] \in Live, x \notin lapsed',
                      HeldWrites(claims', x) # {}
               PROVE  \E c \in HeldWrites(claims', x) : c.lease > now
    BY DEF LeasesRun
  <2>1. x[1] \notin R
    BY <1>4
  <2>2. HeldWrites(claims', x) = HeldWrites(claims, x)
    BY <1>1, <1>2, <2>1 DEF HeldWrites
  <2> QED BY <1>5, <2>2, LeasesRunOn
<1>8. ReleasedStaysReleased'
  BY <1>1, <1>2 DEF ReleasedStaysReleased, GuardInv
<1> QED BY <1>5, <1>6, <1>7, <1>8, QuietKeeps

(* A step that leaves claims and clearances alone and starts no run. *)
LEMMA StillKeeps ==
  ASSUME GuardInv, TypeOK', UNCHANGED <<now, claims, cleared, lapsed, veiled>>,
         \A q \in Runs : /\ status'[q] \in Live => status[q] \in Live
                         /\ status[q] # "none" => status'[q] # "none"
  PROVE  GuardInv'
<1>1. \A d \in claims' : Carried(d) /\ d.created <= now
  BY DEF Carried, GuardInv, Stamped
<1>2. Follows
  BY <1>1, CarryFollows
<1>3. ClearedHeld' /\ LeasesRun' /\ ReleasedStaysReleased'
  BY DEF ClearedHeld, LeasesRun, ReleasedStaysReleased, GuardInv
<1> QED BY <1>2, <1>3, QuietKeeps

LEMMA TickKeeps ==
  ASSUME GuardInv, TypeOK', Tick
  PROVE  GuardInv'
<1>0. now \in Nat /\ now' = now + 1 /\ lapsed' = lapsed \cup Lapsing(claims, now + 1)
      /\ UNCHANGED <<status, claims, cleared, veiled>>
  BY NowType DEF GuardInv, Tick
<1>1. \A c \in claims : c.first \in Nat /\ c.created \in Nat /\ c.lease \in Nat
  BY DEF GuardInv, TypeOK, Row
<1>2. Stamped' /\ Unstarted' /\ ClearedHeld' /\ ReleasedStaysReleased'
  BY <1>0, <1>1 DEF GuardInv, Stamped, Unstarted, ClearedHeld, ReleasedStaysReleased
<1>3. LeasesRun'
  <2> SUFFICES ASSUME NEW x \in Runs \X Ground, status[x[1]] \in Live, x \notin lapsed',
                      HeldWrites(claims, x) # {}
               PROVE  \E c \in HeldWrites(claims, x) : c.lease > now + 1
    BY <1>0 DEF LeasesRun
  <2>1. PICK c \in HeldWrites(claims, x) : ~(c.lease <= now + 1)
    BY <1>0 DEF Lapsing
  <2> QED BY <1>0, <1>1, <2>1 DEF HeldWrites
<1>4. \A x, y : ~ Excused(x, y)' => ~ Excused(x, y)
  BY <1>0 DEF Excused
<1>5. FirstKept' /\ WriteExclusion'
  BY <1>0, <1>4 DEF GuardInv, FirstKept, WriteExclusion, Rival, Earlier
<1> QED BY <1>2, <1>3, <1>5 DEF GuardInv

(* The inductive invariant of claims and clearances. *)
LEMMA GuardInvKept == Spec => []GuardInv
<1>1. Init => GuardInv
  <2> SUFFICES ASSUME Init PROVE GuardInv
    OBVIOUS
  <2>1. TypeOK
    BY TimesAssumption DEF Init, TypeOK, Never, Live, Ended
  <2>2. claims = {} /\ cleared = {}
    BY DEF Init
  <2> QED BY <2>1, <2>2 DEF GuardInv, Stamped, Unstarted, ClearedHeld, LeasesRun, HeldWrites,
                        ReleasedStaysReleased, FirstKept, WriteExclusion
<1>2. GuardInv /\ TypeOK' /\ [Next]_vars => GuardInv'
  <2> SUFFICES ASSUME GuardInv, TypeOK', [Next]_vars PROVE GuardInv'
    OBVIOUS
  <2>0. status \in [Runs -> {"none"} \cup Live \cup Ended]
    BY DEF GuardInv, TypeOK
  <2>1. ASSUME NEW r \in Runs, NEW S \in Scopes, Start(r, S) PROVE GuardInv'
    BY <2>1, StartKeeps
  <2>2. ASSUME NEW r \in Runs, NEW st \in Reported, NEW S \in Scopes \cup {{}}, NEW v \in Voices,
               Heartbeat(r, st, S, v[1], v[2])
        PROVE  GuardInv'
    <3>1. v[1] \in {"planned", "observed"}
      BY InputsAssumption
    <3> QED BY <2>2, <3>1, HeartbeatKeeps
  <2>3. ASSUME NEW r \in Runs, NEW k \in Files, GuardClears(r, k) PROVE GuardInv'
    BY <2>3, GuardKeeps
  <2>4. ASSUME NEW r \in Runs, NEW k \in Files, GuardReportsMove(r, k) PROVE GuardInv'
    BY <2>4, StillKeeps DEF GuardReportsMove
  <2>5. ASSUME NEW r \in Assigned, ReleaseGround(r) PROVE GuardInv'
    BY <2>5, ReleaseKeeps, RunsAssumption
  <2>6. ASSUME NEW r \in Runs, FinishBegin(r) PROVE GuardInv'
    BY <2>6, StillKeeps DEF FinishBegin
  <2>7. ASSUME NEW r \in Runs, NEW o \in Outcomes, FinishCommit(r, o) PROVE GuardInv'
    <3>1. o \in Ended
      BY InputsAssumption DEF Ended
    <3>2. PICK at : at = finishing[r]
      OBVIOUS
    <3>3. \A q \in Runs : IF q \in {r} THEN status'[q] \in Ended ELSE status'[q] = status[q]
      BY <2>0, <2>7, <3>1 DEF FinishCommit
    <3>4. claims' = EndLeases({r}, at) /\ UNCHANGED <<now, cleared, lapsed, veiled>>
      BY <2>7, <3>2 DEF FinishCommit
    <3> QED BY <3>3, <3>4, EndKeeps
  <2>8. ASSUME NEW i \in Revocable, RevokeBegin(i) PROVE GuardInv'
    BY <2>8, StillKeeps DEF RevokeBegin
  <2>9. ASSUME NEW v \in revoking, RevokeCommit(v) PROVE GuardInv'
    <3>1. PICK at : at = now
      OBVIOUS
    <3>2. \A q \in Runs : IF q \in v.runs THEN status'[q] \in Ended ELSE status'[q] = status[q]
      BY <2>9 DEF RevokeCommit, Ended
    <3>3. claims' = EndLeases(v.runs, at) /\ UNCHANGED <<now, cleared, lapsed, veiled>>
      BY <2>9, <3>1 DEF RevokeCommit
    <3> QED BY <3>2, <3>3, EndKeeps
  <2>10. ASSUME NEW r \in Runs, Sweep(r) PROVE GuardInv'
    <3>1. \A q \in Runs : /\ status'[q] \in Live => status[q] \in Live
                          /\ status[q] # "none" => status'[q] # "none"
      BY <2>0, <2>10 DEF Sweep, Live
    <3> QED BY <2>10, <3>1, StillKeeps DEF Sweep
  <2>11. CASE Tick
    BY <2>11, TickKeeps
  <2>12. CASE UNCHANGED vars
    BY <2>12, StillKeeps DEF vars
  <2> QED BY <2>1, <2>2, <2>3, <2>4, <2>5, <2>6, <2>7, <2>8, <2>9, <2>10, <2>11, <2>12 DEF Next
<1> QED BY <1>1, <1>2, TypeCorrect, PTL DEF Spec

(* Two runs the write guard cleared are never both live over common ground,  *)
(* whatever agents and hooks state in whatever order, unless one of the two  *)
(* claims ran out under its run or hid from the guard, by a later row of     *)
(* its own, that it was declared first.                                      *)
THEOREM GuardExcludes == Spec => []WriteExclusion
<1>1. GuardInv => WriteExclusion
  BY DEF GuardInv
<1> QED BY <1>1, GuardInvKept, PTL

-----------------------------------------------------------------------------
(* A heartbeat keeps a scope of its run.                                     *)

(* What the property says of one run. *)
Covered(q) ==
  status[q] \in Live /\ Held(q) # {} =>
    \E src \in {"planned", "observed"} :
      /\ RowsOf(q, src) # {}
      /\ \A c \in RowsOf(q, src) : c.lease >= beat[q] + ClaimLease

(* A parked run is given no shorter lease than a working one. *)
LEMMA LeaseForCovers == \A st : LeaseFor(st) \in Nat /\ LeaseFor(st) >= ClaimLease
  BY TimesAssumption DEF LeaseFor

(* A run whose rows and last sign of life a step leaves alone. *)
LEMMA CoveredStill ==
  ASSUME NEW q \in Runs, Covered(q), status'[q] \in Live => status[q] \in Live,
         status'[q] \in Live => beat'[q] = beat[q],
         status'[q] \in Live => \A c : c.run = q => (c \in claims' <=> c \in claims)
  PROVE  Covered(q)'
<1> SUFFICES ASSUME status'[q] \in Live, Held(q)' # {}
             PROVE  \E src \in {"planned", "observed"} :
                      /\ RowsOf(q, src)' # {}
                      /\ \A c \in RowsOf(q, src)' : c.lease >= beat'[q] + ClaimLease
  BY DEF Covered
<1>1. Held(q)' = Held(q) /\ \A src : RowsOf(q, src)' = RowsOf(q, src)
  BY DEF Held, RowsOf
<1> QED BY <1>1 DEF Covered

(* A run that states scope, or renews all it holds. *)
LEMMA CoveredAnew ==
  ASSUME TypeOK, TypeOK', NEW q \in Runs, NEW src \in {"planned", "observed"}, NEW S, NEW minutes \in Nat,
         minutes >= ClaimLease, S # {}, claims' = Restate(q, src, S, minutes), UNCHANGED now
  PROVE  Covered(q)'
<1>1. beat'[q] \in Nat /\ beat'[q] <= now /\ now \in Nat /\ ClaimLease \in Nat
  BY NowType, TimesAssumption DEF TypeOK
<1>2. RowsOf(q, src)' # {}
  <2>1. PICK x \in S : TRUE
    OBVIOUS
  <2> DEFINE d == [run |-> q, key |-> x.key, access |-> x.access, source |-> src,
                   lease |-> now + minutes, created |-> now, first |-> FirstDeclared(q, src, x)]
  <2>2. d \in claims'
    BY DEF Restate
  <2> QED BY <2>2 DEF RowsOf
<1>3. \A c \in RowsOf(q, src)' : c.lease = now + minutes
  BY DEF RowsOf, Restate
<1>4. \A c \in RowsOf(q, src)' : c.lease >= beat'[q] + ClaimLease
  BY <1>1, <1>3
<1> QED BY <1>2, <1>4 DEF Covered

LEMMA CoveredRenewed ==
  ASSUME TypeOK, TypeOK', NEW q \in Runs, NEW minutes \in Nat, minutes >= ClaimLease,
         claims' = Renew(q, minutes), UNCHANGED now
  PROVE  Covered(q)'
<1>1. beat'[q] \in Nat /\ beat'[q] <= now /\ now \in Nat /\ ClaimLease \in Nat
  BY NowType, TimesAssumption DEF TypeOK
<1>2. \A c \in claims : c \in Row
  BY DEF TypeOK
<1>3. \A c \in claims' : c.run = q /\ c.source # "released" => c.lease = now + minutes
  BY <1>2 DEF Renew, Held, Row
<1>4. \A c \in claims' : c.source \in {"planned", "observed", "released"}
  BY DEF TypeOK, Row
<1> SUFFICES ASSUME Held(q)' # {}
             PROVE  \E src \in {"planned", "observed"} :
                      /\ RowsOf(q, src)' # {}
                      /\ \A c \in RowsOf(q, src)' : c.lease >= beat'[q] + ClaimLease
  BY DEF Covered
<1>5. PICK c \in claims' : c.run = q /\ c.source # "released"
  BY DEF Held
<1>6. c.source \in {"planned", "observed"} /\ c \in RowsOf(q, c.source)'
  BY <1>4, <1>5 DEF RowsOf
<1>7. \A d \in RowsOf(q, c.source)' : d.lease >= beat'[q] + ClaimLease
  BY <1>1, <1>3, <1>6 DEF RowsOf
<1> QED BY <1>6, <1>7

(* Rows of another run are the old ones, whoever states or renews scope. *)
LEMMA OthersStay ==
  ASSUME TypeOK, NEW r, NEW src, NEW S, NEW minutes, NEW q, q # r,
         claims' = Restate(r, src, S, minutes) \/ claims' = Renew(r, minutes)
  PROVE  \A c : c.run = q => (c \in claims' <=> c \in claims)
<1>1. CASE claims' = Restate(r, src, S, minutes)
  BY <1>1 DEF Restate, RowsOf
<1>2. CASE claims' = Renew(r, minutes)
  <2>1. \A c \in claims : c \in Row
    BY DEF TypeOK
  <2> QED BY <1>2, <2>1 DEF Renew, Held, Row
<1> QED BY <1>1, <1>2

(* A live run that holds ground holds all it declared under some source a    *)
(* whole claim lease beyond its last heartbeat, whatever agents and hooks    *)
(* state in whatever order.                                                  *)
THEOREM HeartbeatKeepsScope == Spec => []AScopeOutlivesHeartbeat
<1>1. Init => AScopeOutlivesHeartbeat
  BY DEF Init, AScopeOutlivesHeartbeat, Live
<1>2. GuardInv /\ AScopeOutlivesHeartbeat /\ TypeOK' /\ [Next]_vars => AScopeOutlivesHeartbeat'
  <2> SUFFICES ASSUME GuardInv, AScopeOutlivesHeartbeat, TypeOK', [Next]_vars, NEW q \in Runs
               PROVE  Covered(q)'
    BY DEF AScopeOutlivesHeartbeat, Covered
  <2>0. /\ TypeOK /\ Covered(q) /\ ClaimLease \in Nat
        /\ status \in [Runs -> {"none"} \cup Live \cup Ended] /\ beat \in [Runs -> 0 .. now]
        /\ "none" \notin Live /\ Ended \cap Live = {} /\ ClaimLease >= ClaimLease
    BY TimesAssumption DEF GuardInv, TypeOK, AScopeOutlivesHeartbeat, Covered, Live, Ended, Settled
  <2>1. ASSUME NEW r \in Runs, NEW S \in Scopes, Start(r, S) PROVE Covered(q)'
    <3>1. claims' = Restate(r, "planned", S, ClaimLease) /\ UNCHANGED now
      BY <2>1 DEF Start
    <3>2. CASE q # r
      <4>1. status'[q] = status[q] /\ beat'[q] = beat[q]
        BY <2>0, <2>1, <3>2 DEF Start
      <4> QED BY <2>0, <3>1, <3>2, <4>1, OthersStay, CoveredStill
    <3>3. CASE q = r /\ S # {}
      BY <2>0, <3>1, <3>3, CoveredAnew
    <3>4. CASE q = r /\ S = {}
      <4>1. \A c \in claims : c.run # q
        BY <2>1, <3>4 DEF GuardInv, Unstarted, Start
      <4>2. Held(q)' = {}
        BY <3>1, <3>4, <4>1 DEF Held, Restate
      <4> QED BY <4>2 DEF Covered
    <3> QED BY <3>2, <3>3, <3>4
  <2>2. ASSUME NEW r \in Runs, NEW st \in Reported, NEW S \in Scopes \cup {{}}, NEW v \in Voices,
               Heartbeat(r, st, S, v[1], v[2])
        PROVE  Covered(q)'
    <3>1. /\ v[1] \in {"planned", "observed"} /\ UNCHANGED now
          /\ LeaseFor(st) \in Nat /\ LeaseFor(st) >= ClaimLease
          /\ claims' = IF S = {} THEN Renew(r, LeaseFor(st)) ELSE Restate(r, v[1], S, LeaseFor(st))
          /\ status[r] \in Live
      BY <2>2, InputsAssumption, LeaseForCovers DEF Heartbeat, Free
    <3>2. CASE q # r
      <4>1. status'[q] = status[q] /\ beat'[q] = beat[q]
        BY <2>0, <2>2, <3>2 DEF Heartbeat
      <4> QED BY <2>0, <3>1, <3>2, <4>1, OthersStay, CoveredStill
    <3>3. CASE q = r /\ S # {}
      BY <2>0, <3>1, <3>3, CoveredAnew
    <3>4. CASE q = r /\ S = {}
      BY <2>0, <3>1, <3>4, CoveredRenewed
    <3> QED BY <3>2, <3>3, <3>4
  <2>3. ASSUME NEW r \in Runs, NEW k \in Files, GuardClears(r, k) PROVE Covered(q)'
    <3>1. PICK S : S # {} /\ claims' = Restate(r, "planned", S, ClaimLease)
      BY <2>3 DEF GuardClears
    <3>2. UNCHANGED <<now, status, beat>>
      BY <2>3 DEF GuardClears
    <3>3. CASE q # r
      BY <2>0, <3>1, <3>2, <3>3, OthersStay, CoveredStill
    <3>4. CASE q = r
      BY <2>0, <3>1, <3>2, <3>4, CoveredAnew
    <3> QED BY <3>3, <3>4
  <2>4. ASSUME NEW r \in Runs, NEW k \in Files, GuardReportsMove(r, k) PROVE Covered(q)'
    BY <2>0, <2>4, CoveredStill DEF GuardReportsMove
  <2>5. ASSUME NEW r \in Assigned, ReleaseGround(r) PROVE Covered(q)'
    <3>1. CASE q = r
      <4>1. Held(q)' = {}
        BY <2>5, <3>1 DEF ReleaseGround, Held
      <4> QED BY <4>1 DEF Covered
    <3>2. CASE q # r
      <4>1. \A c : c.run = q => (c \in claims' <=> c \in claims)
        BY <2>5, <3>2 DEF ReleaseGround
      <4>2. UNCHANGED <<status, beat>>
        BY <2>5 DEF ReleaseGround
      <4> QED BY <2>0, <4>1, <4>2, CoveredStill
    <3> QED BY <3>1, <3>2
  <2>6. ASSUME NEW r \in Runs, FinishBegin(r) PROVE Covered(q)'
    BY <2>0, <2>6, CoveredStill DEF FinishBegin
  <2>a. ASSUME NEW R, NEW at, claims' = EndLeases(R, at), q \notin R
        PROVE  \A c : c.run = q => (c \in claims' <=> c \in claims)
    <3>1. \A c \in claims : c \in Row
      BY <2>0 DEF TypeOK
    <3> QED BY <2>a, <3>1 DEF EndLeases, Row
  <2>7. ASSUME NEW r \in Runs, NEW o \in Outcomes, FinishCommit(r, o) PROVE Covered(q)'
    <3>1. o \in Ended
      BY InputsAssumption DEF Ended
    <3>2. CASE q = r
      <4>1. status'[q] \notin Live
        BY <2>0, <2>7, <3>1, <3>2 DEF FinishCommit
      <4> QED BY <4>1 DEF Covered
    <3>3. CASE q # r
      <4>1. status'[q] = status[q] /\ beat'[q] = beat[q] /\ claims' = EndLeases({r}, finishing[r])
        BY <2>0, <2>7, <3>3 DEF FinishCommit
      <4>2. \A c : c.run = q => (c \in claims' <=> c \in claims)
        BY <2>a, <3>3, <4>1
      <4> QED BY <2>0, <4>1, <4>2, CoveredStill
    <3> QED BY <3>2, <3>3
  <2>8. ASSUME NEW i \in Revocable, RevokeBegin(i) PROVE Covered(q)'
    BY <2>0, <2>8, CoveredStill DEF RevokeBegin
  <2>9. ASSUME NEW v \in revoking, RevokeCommit(v) PROVE Covered(q)'
    <3>1. CASE q \in v.runs
      <4>1. status'[q] \notin Live
        BY <2>9, <3>1 DEF RevokeCommit, Live
      <4> QED BY <4>1 DEF Covered
    <3>2. CASE q \notin v.runs
      <4>1. status'[q] = status[q] /\ beat'[q] = beat[q] /\ claims' = EndLeases(v.runs, now)
        BY <2>9, <3>2 DEF RevokeCommit
      <4>2. \A c : c.run = q => (c \in claims' <=> c \in claims)
        BY <2>a, <3>2, <4>1
      <4> QED BY <2>0, <4>1, <4>2, CoveredStill
    <3> QED BY <3>1, <3>2
  <2>10. ASSUME NEW r \in Runs, Sweep(r) PROVE Covered(q)'
    <3>1. status'[q] \in Live => status[q] \in Live
      BY <2>0, <2>10 DEF Sweep, Free
    <3> QED BY <2>0, <2>10, <3>1, CoveredStill DEF Sweep
  <2>11. CASE Tick
    BY <2>0, <2>11, CoveredStill DEF Tick
  <2>12. CASE UNCHANGED vars
    BY <2>0, <2>12, CoveredStill DEF vars
  <2> QED BY <2>1, <2>2, <2>3, <2>4, <2>5, <2>6, <2>7, <2>8, <2>9, <2>10, <2>11, <2>12 DEF Next
<1> QED BY <1>1, <1>2, GuardInvKept, TypeCorrect, PTL DEF Spec

-----------------------------------------------------------------------------
(* What is over stays over, whoever states scope.                            *)

(* Rows of another run than the caller's are the old ones. *)
LEMMA OthersRows ==
  ASSUME NEW r, NEW src, NEW S, NEW minutes, NEW q, q # r
  PROVE  /\ \A c \in Restate(r, src, S, minutes) : c.run = q => c \in claims
         /\ TypeOK => \A c \in Renew(r, minutes) : c.run = q => c \in claims
<1>1. \A c \in Restate(r, src, S, minutes) : c.run = q => c \in claims
  BY DEF Restate
<1>2. ASSUME TypeOK, NEW c \in Renew(r, minutes), c.run = q PROVE c \in claims
  BY <1>2 DEF Renew, Held, TypeOK, Row
<1> QED BY <1>1, <1>2

(* A released row is changed by its own release alone, which ends its lease  *)
(* at once.                                                                  *)
LEMMA ReleasedRows ==
  ASSUME TypeOK, [Next]_vars, NEW c \in claims', c.source = "released"
  PROVE  c \in claims \/ c.lease = now
<1>0. \A d \in claims : d \in Row
  BY DEF TypeOK
<1>a. ASSUME NEW r, NEW src \in {"planned", "observed"}, NEW S, NEW minutes,
             claims' = Restate(r, src, S, minutes)
      PROVE  c \in claims
  BY <1>a DEF Restate
<1>b. ASSUME NEW r, NEW minutes, claims' = Renew(r, minutes) PROVE c \in claims
  BY <1>0, <1>b DEF Renew, Held, Row
<1>c. ASSUME NEW R, NEW at, claims' = EndLeases(R, at) PROVE c \in claims
  <2>1. PICK d \in claims : c = IF d.run \in R /\ d.source # "released" THEN [d EXCEPT !.lease = at] ELSE d
    BY <1>c DEF EndLeases
  <2> QED BY <1>0, <2>1 DEF Row
<1>1. ASSUME NEW r \in Runs, NEW st \in Reported, NEW S \in Scopes \cup {{}}, NEW v \in Voices,
             Heartbeat(r, st, S, v[1], v[2])
      PROVE  c \in claims
  <2>1. v[1] \in {"planned", "observed"}
    BY InputsAssumption
  <2>2. claims' = IF S = {} THEN Renew(r, LeaseFor(st)) ELSE Restate(r, v[1], S, LeaseFor(st))
    BY <1>1 DEF Heartbeat
  <2> QED BY <1>a, <1>b, <2>1, <2>2
<1>2. ASSUME NEW r \in Runs, NEW S \in Scopes, Start(r, S) PROVE c \in claims
  BY <1>2, <1>a DEF Start
<1>3. ASSUME NEW r \in Runs, NEW k \in Files, GuardClears(r, k) PROVE c \in claims
  BY <1>3, <1>a DEF GuardClears
<1>4. ASSUME NEW r \in Assigned, ReleaseGround(r) PROVE c \in claims \/ c.lease = now
  BY <1>4 DEF ReleaseGround
<1>5. ASSUME NEW r \in Runs, NEW o \in Outcomes, FinishCommit(r, o) PROVE c \in claims
  BY <1>5, <1>c DEF FinishCommit
<1>6. ASSUME NEW v \in revoking, RevokeCommit(v) PROVE c \in claims
  BY <1>6, <1>c DEF RevokeCommit
<1>7. ASSUME UNCHANGED claims PROVE c \in claims
  BY <1>7
<1> QED
  BY <1>1, <1>2, <1>3, <1>4, <1>5, <1>6, <1>7
  DEF Next, vars, GuardReportsMove, FinishBegin, RevokeBegin, Sweep, Tick

(* Ground let go after completed work is never held again by its old row,    *)
(* whoever states scope and whatever the leases.                             *)
THEOREM ReleaseIsFinal == Spec => []ReleasedStaysReleased
<1>1. Init => ReleasedStaysReleased
  BY DEF Init, ReleasedStaysReleased
<1>2. TypeOK /\ ReleasedStaysReleased /\ TypeOK' /\ [Next]_vars => ReleasedStaysReleased'
  <2> SUFFICES ASSUME TypeOK, ReleasedStaysReleased, TypeOK', [Next]_vars,
                      NEW c \in claims', c.source = "released"
               PROVE  c.lease <= now'
    BY DEF ReleasedStaysReleased
  <2>1. now \in Nat /\ now' \in Nat /\ now <= now' /\ c.lease \in Nat
    <3>1. now' = now \/ now' = now + 1
      BY DEF Next, vars, Start, Heartbeat, GuardClears, GuardReportsMove, ReleaseGround, FinishBegin,
             FinishCommit, RevokeBegin, RevokeCommit, Sweep, Tick
    <3> QED BY <3>1, NowType DEF TypeOK, Row
  <2>2. c \in claims \/ c.lease = now
    BY ReleasedRows
  <2>3. c.lease <= now
    BY <2>1, <2>2 DEF ReleasedStaysReleased
  <2> QED BY <2>1, <2>3
<1> QED BY <1>1, <1>2, TypeCorrect, PTL DEF Spec

(* An ended run stays ended and none of its claims is extended, in whatever  *)
(* order late heartbeats, guard answers, releases, finishes and revocations  *)
(* arrive.                                                                   *)
THEOREM EndedForGood == Spec => EndedStaysEnded
<1>1. ASSUME TypeOK, [Next]_vars, NEW r \in Runs, status[r] \in Ended
      PROVE  /\ status'[r] \in Ended
             /\ \A c \in claims' : c.run = r =>
                  \E d \in claims : d.run = r /\ Same(c, d) /\ (c.lease <= d.lease \/ c.lease <= now)
  <2>0. /\ status \in [Runs -> {"none"} \cup Live \cup Ended] /\ now \in Nat
        /\ \A c \in claims : c.lease \in Nat
        /\ Live \cap Ended = {} /\ "none" \notin Ended
        /\ \A q \in Runs : Free(q) => q # r
    BY <1>1, NowType DEF TypeOK, Live, Ended, Settled, Row, Free
  <2> DEFINE Goal == /\ status'[r] \in Ended
                     /\ \A c \in claims' : c.run = r =>
                          \E d \in claims : d.run = r /\ Same(c, d) /\ (c.lease <= d.lease \/ c.lease <= now)
  <2>a. ASSUME status'[r] = status[r], \A c \in claims' : c.run = r => c \in claims
        PROVE  Goal
    BY <1>1, <2>0, <2>a DEF Same
  <2>b. ASSUME NEW R, NEW at \in Nat, at <= now, claims' = EndLeases(R, at), status'[r] \in Ended
        PROVE  Goal
    <3> SUFFICES ASSUME NEW c \in claims', c.run = r
                 PROVE  \E d \in claims : d.run = r /\ Same(c, d) /\ (c.lease <= d.lease \/ c.lease <= now)
      BY <2>b
    <3>1. PICK d \in claims :
            c = IF d.run \in R /\ d.source # "released" THEN [d EXCEPT !.lease = at] ELSE d
      BY <2>b DEF EndLeases
    <3>2. d \in Row
      BY <1>1 DEF TypeOK
    <3>3. d.run = c.run /\ Same(c, d) /\ (c.lease = d.lease \/ c.lease = at)
      BY <3>1, <3>2 DEF Same, Row
    <3> QED BY <2>0, <2>b, <3>3
  <2> HIDE DEF Goal
  <2>1. ASSUME NEW q \in Runs, NEW S \in Scopes, Start(q, S) PROVE Goal
    <3>1. q # r /\ status'[r] = status[r] /\ claims' = Restate(q, "planned", S, ClaimLease)
      BY <1>1, <2>0, <2>1 DEF Start
    <3> QED BY <2>a, <3>1, OthersRows
  <2>2. ASSUME NEW q \in Runs, NEW st \in Reported, NEW S \in Scopes \cup {{}}, NEW v \in Voices,
               Heartbeat(q, st, S, v[1], v[2])
        PROVE  Goal
    <3>1. q # r /\ status'[r] = status[r]
      BY <1>1, <2>0, <2>2 DEF Heartbeat
    <3>2. claims' = IF S = {} THEN Renew(q, LeaseFor(st)) ELSE Restate(q, v[1], S, LeaseFor(st))
      BY <2>2 DEF Heartbeat
    <3> QED BY <1>1, <2>a, <3>1, <3>2, OthersRows
  <2>3. ASSUME NEW q \in Runs, NEW k \in Files, GuardClears(q, k) PROVE Goal
    <3>1. PICK S : claims' = Restate(q, "planned", S, ClaimLease)
      BY <2>3 DEF GuardClears
    <3>2. q # r /\ status'[r] = status[r]
      BY <2>0, <2>3 DEF GuardClears
    <3> QED BY <2>a, <3>1, <3>2, OthersRows
  <2>4. ASSUME NEW q \in Runs, NEW k \in Files, GuardReportsMove(q, k) PROVE Goal
    BY <2>4, <2>a DEF GuardReportsMove
  <2>5. ASSUME NEW q \in Assigned, ReleaseGround(q) PROVE Goal
    <3>1. q # r /\ status'[r] = status[r]
      BY <2>0, <2>5, RunsAssumption DEF ReleaseGround
    <3>2. \A c \in claims' : c.run = r => c \in claims
      BY <2>5, <3>1 DEF ReleaseGround
    <3> QED BY <2>a, <3>1, <3>2
  <2>6. ASSUME NEW q \in Runs, FinishBegin(q) PROVE Goal
    BY <2>6, <2>a DEF FinishBegin
  <2>7. ASSUME NEW q \in Runs, NEW o \in Outcomes, FinishCommit(q, o) PROVE Goal
    <3>1. o \in Ended
      BY InputsAssumption DEF Ended
    <3>2. status'[r] \in Ended
      BY <1>1, <2>0, <2>7, <3>1 DEF FinishCommit
    <3>3. finishing[q] \in Nat /\ finishing[q] <= now
      BY <1>1, <2>0 DEF TypeOK
    <3> QED BY <2>7, <2>b, <3>2, <3>3 DEF FinishCommit
  <2>8. ASSUME NEW i \in Revocable, RevokeBegin(i) PROVE Goal
    BY <2>8, <2>a DEF RevokeBegin
  <2>9. ASSUME NEW v \in revoking, RevokeCommit(v) PROVE Goal
    <3>1. status'[r] \in Ended
      BY <1>1, <2>9 DEF RevokeCommit, Ended
    <3> QED BY <2>0, <2>9, <2>b, <3>1 DEF RevokeCommit
  <2>10. ASSUME NEW q \in Runs, Sweep(q) PROVE Goal
    <3>1. q # r /\ status'[r] = status[r] /\ claims' = claims
      BY <2>0, <2>10 DEF Sweep
    <3> QED BY <2>a, <3>1
  <2>11. ASSUME Tick PROVE Goal
    BY <2>11, <2>a DEF Tick
  <2>12. ASSUME UNCHANGED vars PROVE Goal
    BY <2>12, <2>a DEF vars
  <2>13. Goal
    BY <1>1, <2>1, <2>2, <2>3, <2>4, <2>5, <2>6, <2>7, <2>8, <2>9, <2>10, <2>11, <2>12 DEF Next
  <2> QED BY <2>13 DEF Goal
<1>2. TypeOK /\ [Next]_vars =>
        [\A r \in Runs : status[r] \in Ended =>
           /\ status'[r] \in Ended
           /\ \A c \in claims' : c.run = r =>
                \E d \in claims : d.run = r /\ Same(c, d) /\ (c.lease <= d.lease \/ c.lease <= now)]_vars
  BY <1>1
<1> QED BY <1>2, TypeCorrect, PTL DEF Spec, EndedStaysEnded

-----------------------------------------------------------------------------
(* Moved ground is told.  A reply has told a run of every move that a later  *)
(* declaration of its own could hide, or the move is one that slipped.       *)

Informed ==
  \A r, q \in Runs, k \in Files :
    q \in Movers(r, k) /\ <<r, q, k>> \notin told \cup slipped => ~MayBeOldNews(r, k, q)

(* A step after which q has moved nothing more and r declared nothing more.  *)
LEMMA MovesStay ==
  ASSUME NEW r \in Runs, NEW q \in Runs, NEW k \in Files, UNCHANGED started,
         status'[q] \in Settled => status[q] = status'[q] /\ ended[q] = ended'[q],
         \A c \in claims' : c.run = q /\ (c.source = "released" \/ status'[q] \in Settled) => c \in claims
  PROVE  /\ q \in Movers(r, k)' => q \in Movers(r, k)
         /\ (\A d \in DeclaredAt(r, k)' : d \in DeclaredAt(r, k)) /\ MayBeOldNews(r, k, q)'
              => MayBeOldNews(r, k, q)
<1>1. ASSUME NEW c \in Moved(r)', c.run = q
      PROVE  c \in Moved(r) /\ MoveTime(c)' = MoveTime(c)
  <2>1. c \in claims' /\ (c.source = "released" \/ status'[q] \in Settled)
    BY <1>1 DEF Moved
  <2>2. c \in claims
    BY <1>1, <2>1
  <2> QED BY <1>1, <2>1, <2>2 DEF Moved, MoveTime
<1>2. \A c \in MovesUnder(r, k, q)' : c \in MovesUnder(r, k, q) /\ c.run = q
  BY <1>1 DEF MovesUnder
<1>3. q \in Movers(r, k)' => q \in Movers(r, k)
  BY <1>2 DEF Movers
<1>4. ASSUME NEW c, c.run = q, NEW t \in MoveTimes(r, c)'
      PROVE  t \in MoveTimes(r, c)
  <2>1. PICK d \in Moved(r)' : d.run = c.run /\ d.key = c.key /\ t = MoveTime(d)'
    BY <1>4 DEF MoveTimes
  <2> QED BY <1>1, <1>4, <2>1 DEF MoveTimes
<1>5. ASSUME \A d \in DeclaredAt(r, k)' : d \in DeclaredAt(r, k), MayBeOldNews(r, k, q)'
      PROVE  MayBeOldNews(r, k, q)
  <2>1. PICK c \in MovesUnder(r, k, q)' : \E t \in MoveTimes(r, c)' : \E d \in DeclaredAt(r, k)' : d > t
    BY <1>5 DEF MayBeOldNews
  <2>2. c \in MovesUnder(r, k, q) /\ c.run = q
    BY <1>2, <2>1
  <2> QED BY <1>4, <1>5, <2>1, <2>2 DEF MayBeOldNews
<1> QED BY <1>3, <1>5

(* Only planned rows and acknowledgments of r bear on what r declared. *)
LEMMA DeclaresNoMore ==
  ASSUME NEW r \in Runs, NEW k,
         \A c \in claims' : c.run = r /\ c.source = "planned" /\ c.key = k =>
           \E d \in claims : /\ d.run = r /\ d.source = "planned" /\ d.key = k
                             /\ d.access = c.access /\ d.created = c.created,
         \A a \in acks' : a.run = r /\ a.key = k => a \in acks
  PROVE  \A d \in DeclaredAt(r, k)' : d \in DeclaredAt(r, k)
<1> TAKE d \in DeclaredAt(r, k)'
<1>1. \/ \E c \in claims' : c.run = r /\ c.source = "planned" /\ c.key = k /\ c.access = "write" /\ c.created = d
      \/ \E a \in acks' : a.run = r /\ a.key = k /\ a.access = "write" /\ a.at = d
  BY DEF DeclaredAt, RowsOf, Same, Write
<1>2. \/ \E c \in claims : c.run = r /\ c.source = "planned" /\ c.key = k /\ c.access = "write" /\ c.created = d
      \/ \E a \in acks : a.run = r /\ a.key = k /\ a.access = "write" /\ a.at = d
  BY <1>1
<1> QED BY <1>2 DEF DeclaredAt, RowsOf, Same, Write

(* Ground is told of, or slips, as it moves. *)
LEMMA InformedKept ==
  ASSUME GuardInv, Informed, TypeOK', [Next]_vars
  PROVE  Informed'
<1> SUFFICES ASSUME NEW r \in Runs, NEW q \in Runs, NEW k \in Files, q \in Movers(r, k)',
                    <<r, q, k>> \notin told' \cup slipped', MayBeOldNews(r, k, q)'
             PROVE  FALSE
  BY DEF Informed
<1>0. /\ TypeOK /\ status \in [Runs -> {"none"} \cup Live \cup Ended] /\ ended \in [Runs -> 0 .. now]
      /\ started \in [Runs -> 0 .. now]
      /\ Live \cap Settled = {} /\ "stale" \notin Settled /\ now \in Nat /\ "none" \notin Settled
      /\ \A c \in claims : c \in Row
      /\ r # q
  <2>1. r # q
    BY DEF Movers, MovesUnder, Moved
  <2> QED BY <2>1, NowType DEF GuardInv, TypeOK, Live, Settled
<1>a. ASSUME <<r, q, k>> \notin told \cup slipped, UNCHANGED started,
             status'[q] \in Settled => status[q] = status'[q] /\ ended[q] = ended'[q],
             \A c \in claims' : c.run = q /\ (c.source = "released" \/ status'[q] \in Settled) => c \in claims,
             \A c \in claims' : c.run = r /\ c.source = "planned" /\ c.key = k =>
               \E d \in claims : /\ d.run = r /\ d.source = "planned" /\ d.key = k
                                 /\ d.access = c.access /\ d.created = c.created,
             \A a \in acks' : a.run = r /\ a.key = k => a \in acks
      PROVE  FALSE
  <2>1. \A d \in DeclaredAt(r, k)' : d \in DeclaredAt(r, k)
    BY <1>a, DeclaresNoMore
  <2>2. q \in Movers(r, k) /\ MayBeOldNews(r, k, q)
    BY <1>a, <2>1, MovesStay
  <2> QED BY <1>a, <2>2 DEF Informed
<1>b. ASSUME NEW p \in Runs, NEW src \in {"planned", "observed"}, NEW S, NEW minutes \in Nat,
             claims' = Restate(p, src, S, minutes) \/ claims' = Renew(p, minutes)
      PROVE  /\ \A c : c.run # p => (c \in claims' <=> c \in claims)
             /\ \A c \in claims' : c.source = "released" => c \in claims
  <2>1. ASSUME NEW c, c.run # p PROVE c \in claims' <=> c \in claims
    BY <1>0, <1>b, <2>1, OthersStay
  <2>2. ASSUME NEW c \in claims', c.source = "released" PROVE c \in claims
    BY <1>0, <1>b, <2>2 DEF Restate, Renew, Held, Row
  <2> QED BY <2>1, <2>2
<1>c. ASSUME NEW R, NEW at, claims' = EndLeases(R, at)
      PROVE  /\ \A c \in claims' : c.run \notin R \/ c.source = "released" => c \in claims
             /\ \A c \in claims' : \E d \in claims : /\ d.run = c.run /\ d.source = c.source /\ d.key = c.key
                                                     /\ d.access = c.access /\ d.created = c.created
  <2> SUFFICES ASSUME NEW c \in claims'
               PROVE  /\ c.run \notin R \/ c.source = "released" => c \in claims
                      /\ \E d \in claims : /\ d.run = c.run /\ d.source = c.source /\ d.key = c.key
                                           /\ d.access = c.access /\ d.created = c.created
    OBVIOUS
  <2>1. PICK d \in claims : c = IF d.run \in R /\ d.source # "released" THEN [d EXCEPT !.lease = at] ELSE d
    BY <1>c DEF EndLeases
  <2>2. /\ d.run = c.run /\ d.source = c.source /\ d.key = c.key
        /\ d.access = c.access /\ d.created = c.created
    BY <1>0, <2>1 DEF Row
  <2> QED BY <2>1, <2>2
<1>1. ASSUME NEW p \in Runs, NEW S \in Scopes, Start(p, S) PROVE FALSE
  <2>1. /\ claims' = Restate(p, "planned", S, ClaimLease) /\ status[p] = "none"
        /\ UNCHANGED <<now, ended, acks, told, slipped>>
        /\ \A c : c.run # p => (c \in claims' <=> c \in claims)
        /\ \A c \in claims' : c.source = "released" => c \in claims
    BY <1>1, <1>b, TimesAssumption DEF Start
  <2>2. \A c \in claims : c.run # p
    BY <2>1 DEF GuardInv, Unstarted
  <2>3. CASE r = p
    <3>1. started'[r] = now
      BY <1>0, <1>1, <2>3 DEF Start
    <3>2. PICK c \in claims' : /\ c.run = q
                               /\ \/ status'[q] \in Settled /\ ended'[q] > now
                                  \/ c.source = "released" /\ c.lease > now
      BY <3>1 DEF Movers, MovesUnder, Moved
    <3>3. c \in claims /\ c.lease \in Nat /\ ended[q] <= now /\ ended[q] \in Nat
      BY <1>0, <2>1, <2>3, <3>2 DEF Row
    <3>4. c.source = "released" => c.lease <= now
      BY <3>3 DEF GuardInv, ReleasedStaysReleased
    <3> QED BY <1>0, <2>1, <3>2, <3>3, <3>4
  <2>4. CASE q = p
    <3>1. status'[q] \notin Settled
      BY <1>0, <1>1, <2>4 DEF Start, Settled
    <3>2. PICK c \in claims' : c.run = q /\ c.source = "released"
      BY <3>1 DEF Movers, MovesUnder, Moved
    <3> QED BY <2>1, <2>2, <2>4, <3>2
  <2>5. CASE r # p /\ q # p
    <3>1. started'[r] = started[r] /\ status'[q] = status[q]
      BY <1>0, <1>1, <2>5 DEF Start
    <3>2. \A c : c.run \in {r, q} => (c \in claims' <=> c \in claims)
      BY <2>1, <2>5
    <3>3. \A c \in Moved(r)' : c.run = q => c \in Moved(r) /\ MoveTime(c)' = MoveTime(c)
      BY <2>1, <3>1, <3>2 DEF Moved, MoveTime
    <3>4. \A d \in DeclaredAt(r, k)' : d \in DeclaredAt(r, k)
      BY <2>1, <3>2, DeclaresNoMore
    <3>5. \A c \in MovesUnder(r, k, q)' : c \in MovesUnder(r, k, q) /\ c.run = q
      BY <3>3 DEF MovesUnder
    <3>6. \A c : c.run = q => \A t \in MoveTimes(r, c)' : t \in MoveTimes(r, c)
      BY <3>3 DEF MoveTimes
    <3>7. q \in Movers(r, k)
      BY <3>5 DEF Movers
    <3>8. MayBeOldNews(r, k, q)
      BY <3>4, <3>5, <3>6 DEF MayBeOldNews
    <3> QED BY <2>1, <3>7, <3>8 DEF Informed
  <2> QED BY <2>3, <2>4, <2>5
<1>2. ASSUME NEW p \in Runs, NEW st \in Reported, NEW S \in Scopes \cup {{}}, NEW v \in Voices,
             Heartbeat(p, st, S, v[1], v[2])
      PROVE  FALSE
  <2>1. claims' = Restate(p, v[1], S, LeaseFor(st)) \/ claims' = Renew(p, LeaseFor(st))
    BY <1>2 DEF Heartbeat
  <2>2. /\ UNCHANGED <<now, started, ended, slipped>>
        /\ told' = told \cup StaleReport(claims', p)
        /\ \A x \in Runs : status'[x] = IF x = p THEN st ELSE status[x]
        /\ st \notin Settled
    BY <1>0, <1>2, InputsAssumption DEF Heartbeat
  <2>3. /\ \A c : c.run # p => (c \in claims' <=> c \in claims)
        /\ \A c \in claims' : c.source = "released" => c \in claims
    <3>1. v[1] \in {"planned", "observed"} /\ LeaseFor(st) \in Nat
      BY InputsAssumption, LeaseForType
    <3> QED BY <1>b, <2>1, <3>1
  <2>4. /\ <<r, q, k>> \notin told \cup slipped
        /\ status'[q] \in Settled => status[q] = status'[q] /\ ended[q] = ended'[q]
        /\ \A c \in claims' : c.run = q /\ (c.source = "released" \/ status'[q] \in Settled) => c \in claims
    BY <2>2, <2>3
  <2>5. \A a \in acks' : a \in acks \/ (a.run = p /\ \E m \in StaleReport(claims', p) : m[3] = a.key)
    BY <1>2 DEF Heartbeat
  <2>6. CASE r # p
    <3>1. \A a \in acks' : a.run = r /\ a.key = k => a \in acks
      BY <2>5, <2>6
    <3>2. \A c \in claims' : c.run = r => c \in claims
      BY <2>3, <2>6
    <3> QED BY <1>a, <2>2, <2>4, <3>1, <3>2
  <2>7. CASE r = p
    <3>1. q \in Movers(r, k)
      BY <2>2, <2>4, MovesStay
    <3>2. <<r, q, k>> \notin StaleReport(claims', p)
      BY <2>2
    <3>3. \A c \in claims' : ~(c.run = r /\ c.key = k /\ c.source # "released")
      BY <2>7, <3>1, <3>2, GroundAssumption DEF StaleReport
    <3>4. \A m \in StaleReport(claims', p) : m[3] # k
      BY <2>7, <3>3 DEF StaleReport
    <3>5. \A a \in acks' : a.run = r /\ a.key = k => a \in acks
      BY <2>5, <3>4
    <3> QED BY <1>a, <2>2, <2>4, <3>3, <3>5
  <2> QED BY <2>6, <2>7
<1>3. ASSUME NEW p \in Runs, NEW k0 \in Files, GuardClears(p, k0) PROVE FALSE
  <2>1. PICK S : claims' = Restate(p, "planned", S, ClaimLease)
    BY <1>3 DEF GuardClears
  <2>2. /\ UNCHANGED <<now, status, started, ended, acks, told>>
        /\ slipped' = slipped \cup {m \in {p} \X Runs \X (Files \ {k0}) : m[2] \in Movers(p, m[3])}
        /\ \A x \in Movers(p, k0) : MayBeOldNews(p, k0, x)
        /\ status[p] \notin Settled
    BY <1>0, <1>3 DEF GuardClears, Free
  <2>3. /\ \A c : c.run # p => (c \in claims' <=> c \in claims)
        /\ \A c \in claims' : c.source = "released" => c \in claims
    BY <1>b, <2>1, TimesAssumption
  <2>4. /\ <<r, q, k>> \notin told \cup slipped
        /\ \A c \in claims' : c.run = q /\ (c.source = "released" \/ status'[q] \in Settled) => c \in claims
    BY <2>2, <2>3
  <2>5. CASE r # p
    <3>1. \A c \in claims' : c.run = r => c \in claims
      BY <2>3, <2>5
    <3> QED BY <1>a, <2>2, <2>4, <3>1
  <2>6. CASE r = p
    <3>1. q \in Movers(r, k)
      BY <2>2, <2>4, MovesStay
    <3>2. CASE k = k0
      BY <2>2, <2>4, <2>6, <3>1, <3>2 DEF Informed
    <3>3. CASE k # k0
      <4>1. <<r, q, k>> \in slipped'
        BY <2>2, <2>6, <3>1, <3>3
      <4> QED BY <4>1
    <3> QED BY <3>2, <3>3
  <2> QED BY <2>5, <2>6
<1>4. ASSUME NEW p \in Runs, NEW k0 \in Files, GuardReportsMove(p, k0) PROVE FALSE
  BY <1>4, <1>a DEF GuardReportsMove
<1>5. ASSUME NEW p \in Assigned, ReleaseGround(p) PROVE FALSE
  <2>1. UNCHANGED <<now, status, started, ended, acks, told>> /\ slipped' = slipped \cup Antedated(p)'
    BY <1>5 DEF ReleaseGround
  <2>2. \A c \in claims' : c.source # "released" \/ c.run # p => c \in claims
    BY <1>5 DEF ReleaseGround
  <2>3. CASE q = p
    <3>1. <<r, q, k>> \in Antedated(p)'
      BY <2>3 DEF Antedated
    <3> QED BY <2>1, <3>1
  <2>4. CASE q # p
    BY <1>a, <2>1, <2>2, <2>4
  <2> QED BY <2>3, <2>4
<1>6. ASSUME NEW p \in Runs, FinishBegin(p) PROVE FALSE
  BY <1>6, <1>a DEF FinishBegin
<1>7. ASSUME NEW p \in Runs, NEW o \in Outcomes, FinishCommit(p, o) PROVE FALSE
  <2>1. /\ UNCHANGED <<now, started, acks, told>> /\ slipped' = slipped \cup Antedated(p)'
        /\ claims' = EndLeases({p}, finishing[p])
    BY <1>7 DEF FinishCommit
  <2>2. CASE q = p
    <3>1. <<r, q, k>> \in Antedated(p)'
      BY <2>2 DEF Antedated
    <3> QED BY <2>1, <3>1
  <2>3. CASE q # p
    <3>1. status'[q] = status[q] /\ ended'[q] = ended[q]
      BY <1>0, <1>7, <2>3 DEF FinishCommit
    <3>2. /\ \A c \in claims' : c.run # p => c \in claims
          /\ \A c \in claims' : \E d \in claims : /\ d.run = c.run /\ d.source = c.source /\ d.key = c.key
                                                  /\ d.access = c.access /\ d.created = c.created
      BY <1>c, <2>1
    <3>3. <<r, q, k>> \notin told \cup slipped
      BY <2>1
    <3>4. \A c \in claims' : c.run = q => c \in claims
      BY <2>3, <3>2
    <3>5. \A c \in claims' : c.run = r /\ c.source = "planned" /\ c.key = k =>
            \E d \in claims : /\ d.run = r /\ d.source = "planned" /\ d.key = k
                              /\ d.access = c.access /\ d.created = c.created
      BY <3>2
    <3> QED BY <1>a, <2>1, <3>1, <3>3, <3>4, <3>5
  <2> QED BY <2>2, <2>3
<1>8. ASSUME NEW i \in Revocable, RevokeBegin(i) PROVE FALSE
  BY <1>8, <1>a DEF RevokeBegin
<1>9. ASSUME NEW v \in revoking, RevokeCommit(v) PROVE FALSE
  <2>1. UNCHANGED <<now, started, acks, told, slipped>> /\ claims' = EndLeases(v.runs, now)
    BY <1>9 DEF RevokeCommit
  <2>2. status'[q] \in Settled => q \notin v.runs /\ status'[q] = status[q] /\ ended'[q] = ended[q]
    BY <1>0, <1>9 DEF RevokeCommit
  <2>3. /\ \A c \in claims' : c.run \notin v.runs \/ c.source = "released" => c \in claims
        /\ \A c \in claims' : \E d \in claims : /\ d.run = c.run /\ d.source = c.source /\ d.key = c.key
                                                /\ d.access = c.access /\ d.created = c.created
    BY <1>c, <2>1
  <2> QED BY <1>a, <2>1, <2>2, <2>3
<1>10. ASSUME NEW p \in Runs, Sweep(p) PROVE FALSE
  <2>1. UNCHANGED <<now, started, claims, acks, told, slipped>>
    BY <1>10 DEF Sweep
  <2>2. status'[q] \in Settled => status'[q] = status[q] /\ ended'[q] = ended[q]
    BY <1>0, <1>10 DEF Sweep
  <2> QED BY <1>a, <2>1, <2>2
<1>11. CASE Tick
  BY <1>11, <1>a DEF Tick
<1>12. CASE UNCHANGED vars
  BY <1>12, <1>a DEF vars
<1> QED BY <1>1, <1>2, <1>3, <1>4, <1>5, <1>6, <1>7, <1>8, <1>9, <1>10, <1>11, <1>12 DEF Next

(* The guard lets no write through on moved ground the writer was not told   *)
(* of, save what a restatement for another file or an earlier date hid, for  *)
(* any claims, directories, sources and finishes that take their time.       *)
THEOREM MovesAreTold == Spec => []MovedGroundIsTold
<1>1. Init => Informed
  BY DEF Init, Informed, Movers, MovesUnder, Moved
<1>2. GuardInv /\ Informed /\ TypeOK' /\ [Next]_vars => Informed'
  BY InformedKept
<1>3. Informed => MovedGroundIsTold
  <2> SUFFICES ASSUME Informed, NEW r \in Runs, NEW k \in Files, GuardPasses(r, k), NEW q \in Movers(r, k)
               PROVE  <<r, q, k>> \in told \cup slipped
    BY DEF MovedGroundIsTold
  <2>1. q \in Runs
    BY DEF Movers
  <2> QED BY <2>1 DEF Informed, GuardPasses
<1> QED BY <1>1, <1>2, <1>3, GuardInvKept, TypeCorrect, PTL DEF Spec

==============================================================================
