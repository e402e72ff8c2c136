-------------------------- MODULE MembershipProofs --------------------------
(***************************************************************************)
(* Proofs about Membership for any number of people, invitations and       *)
(* calls: its type invariant, that the plan's limit holds, that an         *)
(* invitation lets in as many as it says, that a revoked one stays dead    *)
(* unless it was being renewed, and that only overlapping role changes can *)
(* take a workspace's last owner.                                          *)
(***************************************************************************)
EXTENDS Membership, TLAPS, FiniteSetTheorems

(* What a call under way has checked. *)
AtWork ==
  \A c \in Calls :
    /\ call[c].phase \in {"taking", "adding", "claiming", "inviting"} => call[c].target \in Users
    /\ call[c].phase \in {"adding", "claiming", "inviting"} => call[c].role \in Roles
    /\ call[c].phase \in {"claiming", "renewing"} => call[c].invite \in Invites
    /\ call[c].invite \in Invites => invite[call[c].invite].state # "none"

(* Who is about to join holds the row, and there is a seat. *)
Seated ==
  /\ SeatsKept
  /\ \A c \in Calls : call[c].phase \in {"adding", "claiming"} =>
       lock = c /\ Room /\ role[call[c].target] = "none"

Counted ==
  \A i \in Invites : /\ joins[i] = invite[i].uses /\ joins[i] <= invite[i].max
                     /\ invite[i].state = "none" => invite[i].uses = 0 /\ i \notin revoked

Dead ==
  /\ RevokedIsDead
  /\ \A c \in Calls : call[c].phase \in {"renewing", "inviting"} /\ call[c].invite \in revoked =>
       call[c].invite \in overtaken

(* Unless two of them overlapped, what a call that takes or changes a role checked is still so. *)
Owned ==
  raced \/ /\ Owners # {}
           /\ \A c \in Calls : call[c].phase = "taking" =>
                /\ role[call[c].target] # "none"
                /\ role[call[c].target] = "owner" => call[c].role = "owner" \/ Cardinality(Owners) > 1

Inv == TypeOK /\ AtWork /\ Seated /\ Counted /\ Dead /\ Owned

-----------------------------------------------------------------------------
(* The three shapes of a step *)

(* A call passes its check: call and perhaps lock change. *)
CheckStep(c, x) ==
  /\ call[c].phase = "idle" /\ x \in Call /\ call' = [call EXCEPT ![c] = x]
  /\ \/ lock' = lock /\ x.phase \in {"taking", "renewing", "inviting"}
     \/ lock = Nobody /\ lock' = c /\ x.phase \in {"taking", "adding", "claiming"}
  /\ x.phase \in {"taking", "adding", "claiming", "inviting"} => x.target \in Users
  /\ x.phase \in {"adding", "claiming", "inviting"} => x.role \in Roles
  /\ x.phase \in {"claiming", "renewing"} => x.invite \in Invites
  /\ x.invite \in Invites => invite[x.invite].state = "live"
  /\ x.phase \in {"adding", "claiming"} => Room /\ role[x.target] = "none"
  /\ x.phase = "taking" =>
       /\ role[x.target] # "none"
       /\ role[x.target] = "owner" => x.role = "owner" \/ Cardinality(Owners) > 1
  /\ UNCHANGED <<role, invite, ghosts>>

(* A call ends: it is idle again and holds nothing. *)
EndStep(c) ==
  /\ call[c].phase # "idle" /\ call' = [call EXCEPT ![c] = Idle]
  /\ lock' = IF lock = c THEN Nobody ELSE lock

LEMMA IdleType == Idle \in Call /\ Idle.phase = "idle" /\ Idle.invite = Nobody /\ Nobody \notin Invites
  BY SetsAssumption DEF Idle, Call

LEMMA MembersFinite ==
  /\ IsFiniteSet(Members) /\ Cardinality(Members) \in Nat
  /\ IsFiniteSet(Owners) /\ Cardinality(Owners) \in Nat
<1>1. Members \in SUBSET Users /\ Owners \in SUBSET Users
  BY DEF Members, Owners
<1> QED BY <1>1, SetsAssumption, FS_Subset, FS_CardinalityType

(* Two owners are more than one. *)
LEMMA AnotherOwner ==
  ASSUME NEW u \in Users, NEW v \in Users, u # v, role[u] = "owner", role[v] = "owner"
  PROVE  Cardinality(Owners) > 1
<1>1. u \in Owners /\ v \in Owners
  BY DEF Owners
<1>2. Cardinality(Owners) # 0
  BY <1>1, MembersFinite, FS_EmptySet
<1>3. Cardinality(Owners) # 1
  BY <1>1, MembersFinite, FS_Singleton
<1> QED BY <1>2, <1>3, MembersFinite

LEMMA InitInv == Init => Inv
<1> SUFFICES ASSUME Init PROVE Inv
  OBVIOUS
<1>1. TypeOK
  <2>1. invite \in [Invites -> Invite]
    BY BoundsAssumption DEF Init, Invite, Roles
  <2> QED BY <2>1, IdleType, SetsAssumption DEF Init, TypeOK, Roles
<1>2. AtWork /\ Counted /\ Dead
  BY IdleType, SetsAssumption DEF Init, AtWork, Counted, Dead, RevokedIsDead
<1>3. Members = {Founder} /\ Owners = {Founder}
  BY SetsAssumption DEF Init, Members, Owners
<1>4. Seated
  <2>1. Cardinality(Members) = 1
    BY <1>3, FS_Singleton
  <2>2. \A c \in Calls : call[c].phase = "idle"
    BY IdleType DEF Init
  <2> QED BY <2>1, <2>2, BoundsAssumption DEF Seated, SeatsKept
<1>5. Owned
  BY <1>3, IdleType DEF Init, Owned
<1> QED BY <1>1, <1>2, <1>4, <1>5 DEF Inv

LEMMA CheckKeeps == ASSUME Inv, NEW c \in Calls, NEW x, CheckStep(c, x) PROVE Inv'
<1>1. \A d \in Calls : call'[d] = IF d = c THEN x ELSE call[d]
  BY DEF CheckStep, Inv, TypeOK
<1>2. UNCHANGED <<role, invite, joins, raced, revoked, overtaken>> /\ Members' = Members /\ Owners' = Owners
  BY DEF CheckStep, ghosts, Members, Owners
<1>3. TypeOK'
  <2>1. call' \in [Calls -> Call] /\ lock' \in Calls \cup {Nobody}
    BY DEF CheckStep, Inv, TypeOK
  <2>2. \A d \in Calls : lock' = d => call'[d].phase \in {"taking", "adding", "claiming"}
    BY <1>1, SetsAssumption DEF CheckStep, Inv, TypeOK
  <2> QED BY <1>2, <2>1, <2>2 DEF Inv, TypeOK
<1>4. AtWork'
  BY <1>1, <1>2 DEF CheckStep, Inv, AtWork
<1>5. Seated'
  <2>1. SeatsKept' /\ Room' = Room
    BY <1>2 DEF Inv, Seated, SeatsKept, Room
  <2>2. ASSUME NEW d \in Calls, call'[d].phase \in {"adding", "claiming"}
        PROVE  lock' = d /\ Room' /\ role'[call'[d].target] = "none"
    BY <1>1, <1>2, <2>1, <2>2, SetsAssumption DEF CheckStep, Inv, Seated
  <2> QED BY <2>1, <2>2 DEF Seated
<1>6. Counted'
  BY <1>2 DEF Inv, Counted
<1>7. Dead'
  <2>1. RevokedIsDead'
    BY <1>2 DEF Inv, Dead, RevokedIsDead
  <2>2. ASSUME NEW d \in Calls, call'[d].phase \in {"renewing", "inviting"}, call'[d].invite \in revoked'
        PROVE  call'[d].invite \in overtaken'
    <3>1. CASE d = c
      <4>1. x.invite \in Invites /\ x.invite \in revoked
        BY <1>1, <1>2, <2>2, <3>1 DEF Inv, TypeOK
      <4> QED BY <1>1, <1>2, <3>1, <4>1 DEF CheckStep, Inv, Dead, RevokedIsDead
    <3>2. CASE d # c
      BY <1>1, <1>2, <2>2, <3>2 DEF Inv, Dead
    <3> QED BY <3>1, <3>2
  <2> QED BY <2>1, <2>2 DEF Dead
<1>8. Owned'
  BY <1>1, <1>2 DEF CheckStep, Inv, Owned
<1> QED BY <1>3, <1>4, <1>5, <1>6, <1>7, <1>8 DEF Inv

-----------------------------------------------------------------------------
(* Every check is a CheckStep *)

LEMMA CheckedType ==
  ASSUME NEW ph \in {"idle", "taking", "adding", "claiming", "renewing", "inviting"},
         NEW u \in Users \cup {Nobody}, NEW r \in Roles \cup {"none"}, NEW i \in Invites \cup {Nobody}
  PROVE  [phase |-> ph, target |-> u, role |-> r, invite |-> i] \in Call
  BY DEF Call

LEMMA TakingChecks ==
  ASSUME Inv, NEW c \in Calls, NEW u \in Users, NEW by \in Users, NEW r \in Roles \cup {"none"},
         Leave(c, u) \/ Remove(c, by, u) \/ (r # "none" /\ SetRole(c, by, u, r)) \/ OperatorTakes(c, u, r)
  PROVE  Inv'
<1>1. ASSUME NEW s \in Roles \cup {"none"}, call[c].phase = "idle", Checked(c, "taking", u, s, Nobody),
             role[u] # "none", role[u] = "owner" => s = "owner" \/ Cardinality(Owners) > 1,
             lock' = lock \/ (lock = Nobody /\ lock' = c), UNCHANGED <<role, invite, ghosts>>
      PROVE  Inv'
  <2> DEFINE x == [phase |-> "taking", target |-> u, role |-> s, invite |-> Nobody]
  <2>1. x \in Call /\ Nobody \notin Invites
    BY CheckedType, SetsAssumption
  <2>2. CheckStep(c, x)
    BY <1>1, <2>1 DEF CheckStep, Checked
  <2> QED BY <2>2, CheckKeeps
<1>2. CASE Leave(c, u)
  BY <1>1, <1>2 DEF Leave, MayLeave
<1>3. CASE Remove(c, by, u)
  <2>1. role[u] = "owner" => Cardinality(Owners) > 1
    BY <1>3, AnotherOwner DEF Remove
  <2> QED BY <1>1, <1>3, <2>1 DEF Remove
<1>4. CASE r # "none" /\ SetRole(c, by, u, r)
  BY <1>1, <1>4 DEF SetRole, MaySetRole, Roles
<1>5. CASE OperatorTakes(c, u, r)
  BY <1>1, <1>5 DEF OperatorTakes, MayLeave, MaySetRole, Roles
<1> QED BY <1>2, <1>3, <1>4, <1>5

LEMMA OperatorAddsKeeps ==
  ASSUME Inv, NEW c \in Calls, NEW u \in Users, NEW r \in Roles, OperatorAdds(c, u, r) PROVE Inv'
<1> DEFINE x == [phase |-> "adding", target |-> u, role |-> r, invite |-> Nobody]
<1>1. x \in Call /\ Nobody \notin Invites
  BY CheckedType, SetsAssumption
<1>2. CheckStep(c, x)
  BY <1>1 DEF CheckStep, Checked, OperatorAdds
<1> QED BY <1>2, CheckKeeps

LEMMA ClaimKeeps ==
  ASSUME Inv, NEW c \in Calls, NEW u \in Users, NEW i \in Invites, Claim(c, u, i) PROVE Inv'
<1> DEFINE x == [phase |-> "claiming", target |-> u, role |-> invite[i].role, invite |-> i]
<1>1. x \in Call /\ invite[i].role \in Roles
  BY CheckedType DEF Inv, TypeOK, Invite
<1>2. CheckStep(c, x)
  BY <1>1 DEF CheckStep, Checked, Claim, Waiting
<1> QED BY <1>2, CheckKeeps

LEMMA SendInviteKeeps ==
  ASSUME Inv, NEW c \in Calls, NEW u \in Users, NEW by \in Users, NEW r \in Roles,
         SendInvite(c, by, u, r)
  PROVE  Inv'
<1>1. PICK j \in Invites \cup {Nobody} : Checked(c, "inviting", u, r, j) /\ (j \in Invites => WaitsFor(j, u))
  BY SetsAssumption DEF SendInvite
<1> DEFINE x == [phase |-> "inviting", target |-> u, role |-> r, invite |-> j]
<1>2. x \in Call
  BY CheckedType
<1>3. CheckStep(c, x)
  BY <1>1, <1>2 DEF CheckStep, Checked, SendInvite, WaitsFor
<1> QED BY <1>3, CheckKeeps

LEMMA ResendKeeps ==
  ASSUME Inv, NEW c \in Calls, NEW by \in Users, NEW i \in Invites, Resend(c, by, i) PROVE Inv'
<1> DEFINE x == [phase |-> "renewing", target |-> Nobody, role |-> "none", invite |-> i]
<1>1. x \in Call
  BY CheckedType
<1>2. CheckStep(c, x)
  BY <1>1 DEF CheckStep, Checked, Resend, MayResend, Waiting
<1> QED BY <1>2, CheckKeeps

-----------------------------------------------------------------------------
(* The writes *)

(* A call that ends leaves the others and the lock as they need them. *)
LEMMA EndKeeps ==
  ASSUME Inv, NEW c \in Calls, EndStep(c)
  PROVE  /\ call' \in [Calls -> Call] /\ lock' \in Calls \cup {Nobody}
         /\ \A d \in Calls : call'[d] = IF d = c THEN Idle ELSE call[d]
         /\ \A d \in Calls : lock' = d <=> lock = d /\ d # c
         /\ \A d \in Calls : lock' = d => call'[d].phase \in {"taking", "adding", "claiming"}
         /\ \A d \in Calls : call'[d].phase # "idle" => d # c /\ call'[d] = call[d]
<1>1. call' \in [Calls -> Call] /\ \A d \in Calls : call'[d] = IF d = c THEN Idle ELSE call[d]
  BY IdleType DEF EndStep, Inv, TypeOK
<1>2. lock' \in Calls \cup {Nobody} /\ \A d \in Calls : lock' = d <=> lock = d /\ d # c
  BY SetsAssumption DEF EndStep, Inv, TypeOK
<1> QED BY <1>1, <1>2, IdleType DEF Inv, TypeOK

LEMMA AbortKeeps == ASSUME Inv, NEW c \in Calls, Abort(c) PROVE Inv'
<1>1. EndStep(c) /\ UNCHANGED <<role, invite, joins, raced, revoked, overtaken>>
  BY DEF Abort, EndStep, Release, ghosts
<1>2. Members' = Members /\ Owners' = Owners
  BY <1>1 DEF Members, Owners
<1>3. TypeOK'
  BY <1>1, EndKeeps DEF Inv, TypeOK
<1>4. AtWork'
  BY <1>1, EndKeeps, IdleType DEF Inv, AtWork
<1>5. Seated'
  BY <1>1, <1>2, EndKeeps DEF Inv, Seated, SeatsKept, Room
<1>6. Counted'
  BY <1>1 DEF Inv, Counted
<1>7. Dead'
  BY <1>1, EndKeeps DEF Inv, Dead, RevokedIsDead
<1>8. Owned'
  BY <1>1, <1>2, EndKeeps DEF Inv, Owned
<1> QED BY <1>3, <1>4, <1>5, <1>6, <1>7, <1>8 DEF Inv

LEMMA TakeKeeps == ASSUME Inv, NEW c \in Calls, Take(c) PROVE Inv'
<1> DEFINE u == call[c].target
           r == call[c].role
<1>1. EndStep(c) /\ UNCHANGED <<invite, joins, revoked, overtaken>>
  BY DEF Take, EndStep, Release
<1>2. u \in Users /\ r \in Roles \cup {"none"}
  BY DEF Inv, AtWork, TypeOK, Call, Take
<1>3. \A v \in Users : role'[v] = IF v = u /\ role[u] # "none" THEN r ELSE role[v]
  BY <1>2 DEF Take, Inv, TypeOK
<1>4. Members' \in SUBSET Members
  BY <1>3 DEF Members
<1>5. Cardinality(Members') <= Cardinality(Members) /\ Cardinality(Members') \in Nat
  BY <1>4, MembersFinite, FS_Subset, FS_CardinalityType
<1>6. TypeOK'
  <2>1. role' \in [Users -> Roles \cup {"none"}]
    BY <1>2 DEF Take, Inv, TypeOK
  <2>2. raced' \in BOOLEAN
    BY DEF Take, Inv, TypeOK
  <2> QED BY <1>1, <2>1, <2>2, EndKeeps DEF Inv, TypeOK
<1>7. AtWork'
  BY <1>1, EndKeeps, IdleType DEF Inv, AtWork
<1>8. Seated'
  <2>1. SeatsKept'
    BY <1>5, MembersFinite, BoundsAssumption DEF Inv, Seated, SeatsKept
  <2>2. ASSUME NEW d \in Calls, call'[d].phase \in {"adding", "claiming"}
        PROVE  lock' = d /\ Room' /\ role'[call'[d].target] = "none"
    <3>1. d # c /\ call'[d] = call[d] /\ lock = d /\ Room /\ role[call[d].target] = "none"
          /\ call[d].target \in Users
      BY <1>1, <2>2, EndKeeps DEF Inv, Seated, AtWork
    <3>2. Room'
      BY <3>1, <1>5, MembersFinite, BoundsAssumption DEF Room
    <3> QED BY <1>1, <1>3, <3>1, <3>2, EndKeeps
  <2> QED BY <2>1, <2>2 DEF Seated
<1>9. Counted'
  BY <1>1 DEF Inv, Counted
<1>10. Dead'
  BY <1>1, EndKeeps DEF Inv, Dead, RevokedIsDead
<1>11. Owned'
  <2>1. CASE raced'
    BY <2>1 DEF Owned
  <2>2. CASE ~raced'
    <3>1. ~raced /\ \A d \in Calls \ {c} : call[d].phase # "taking"
      BY <2>2 DEF Take
    <3>2. \A d \in Calls : call'[d].phase # "taking"
      BY <1>1, <3>1, EndKeeps, IdleType
    <3>3. Owners' # {}
      <4>1. Owners # {} /\ role[u] # "none" /\ (role[u] = "owner" => r = "owner" \/ Cardinality(Owners) > 1)
        BY <3>1 DEF Inv, Owned, Take
      <4>2. CASE role[u] = "owner" /\ r # "owner"
        <5>1. PICK v \in Owners : v # u
          <6>0. Cardinality({u}) = 1
            BY FS_Singleton
          <6>1. Owners # {u}
            BY <4>1, <4>2, <6>0
          <6> QED BY <4>1, <6>1
        <5> QED BY <1>3, <5>1 DEF Owners
      <4>3. CASE ~ (role[u] = "owner" /\ r # "owner")
        BY <1>2, <1>3, <4>1, <4>3 DEF Owners
      <4> QED BY <4>2, <4>3
    <3> QED BY <3>2, <3>3 DEF Owned
  <2> QED BY <2>1, <2>2
<1> QED BY <1>6, <1>7, <1>8, <1>9, <1>10, <1>11 DEF Inv

(* Somebody who is not in comes in under the lock. *)
LEMMA EnterKeeps ==
  ASSUME Inv, NEW c \in Calls, call[c].phase \in {"adding", "claiming"}, EndStep(c),
         role' = [role EXCEPT ![call[c].target] = call[c].role], UNCHANGED raced
  PROVE  role' \in [Users -> Roles \cup {"none"}] /\ Seated' /\ Owned'
<1> DEFINE u == call[c].target
<1>1. u \in Users /\ call[c].role \in Roles /\ lock = c /\ Room /\ role[u] = "none"
  BY DEF Inv, AtWork, Seated
<1>2. role' \in [Users -> Roles \cup {"none"}]
      /\ \A v \in Users : role'[v] = IF v = u THEN call[c].role ELSE role[v]
  BY <1>1 DEF Inv, TypeOK
<1>3. Members' = Members \cup {u}
  BY <1>1, <1>2 DEF Members, Roles
<1>4. Seated'
  <2> DEFINE more == Members \cup {u}
  <2>0. IsFiniteSet(more) /\ Cardinality(more) = IF u \in Members THEN Cardinality(Members)
                                                                ELSE Cardinality(Members) + 1
    BY MembersFinite, FS_AddElement
  <2>1. Cardinality(Members') <= Cardinality(Members) + 1
    BY <1>3, <2>0, MembersFinite
  <2>2. Cardinality(Members') \in Nat
    BY <1>3, <2>0, FS_CardinalityType
  <2>3. SeatsKept'
    BY <1>1, <2>1, <2>2, MembersFinite, BoundsAssumption DEF SeatsKept, Room
  <2>4. \A d \in Calls : call'[d].phase \notin {"adding", "claiming"}
    BY <1>1, EndKeeps, IdleType DEF Inv, Seated
  <2> QED BY <2>3, <2>4 DEF Seated
<1>5. Owned'
  <2>1. Owners \in SUBSET Owners' /\ Owners' \in SUBSET Users
    BY <1>1, <1>2 DEF Owners
  <2>2. Cardinality(Owners) <= Cardinality(Owners') /\ Cardinality(Owners') \in Nat
    BY <2>1, SetsAssumption, FS_Subset, FS_CardinalityType
  <2>3. CASE ~raced
    <3>1. ASSUME NEW d \in Calls, call'[d].phase = "taking"
          PROVE  /\ role'[call'[d].target] # "none"
                 /\ role'[call'[d].target] = "owner" =>
                      call'[d].role = "owner" \/ Cardinality(Owners') > 1
      <4>1. call'[d] = call[d] /\ call[d].target \in Users /\ role[call[d].target] # "none"
        BY <2>3, <3>1, EndKeeps DEF Inv, Owned, AtWork
      <4>2. role'[call[d].target] = role[call[d].target]
        BY <1>1, <1>2, <4>1
      <4>3. role[call[d].target] = "owner" => call[d].role = "owner" \/ Cardinality(Owners) > 1
        BY <2>3, <3>1, <4>1 DEF Inv, Owned
      <4> QED BY <2>2, <4>1, <4>2, <4>3, MembersFinite
    <3>2. Owners' # {}
      BY <2>1, <2>3 DEF Inv, Owned
    <3> QED BY <3>1, <3>2 DEF Owned
  <2>4. CASE raced
    BY <2>4 DEF Owned
  <2> QED BY <2>3, <2>4
<1> QED BY <1>2, <1>4, <1>5

LEMMA AddKeeps == ASSUME Inv, NEW c \in Calls, Add(c) PROVE Inv'
<1>1. EndStep(c) /\ UNCHANGED <<invite, joins, raced, revoked, overtaken>>
      /\ call[c].phase \in {"adding", "claiming"} /\ role' = [role EXCEPT ![call[c].target] = call[c].role]
  BY DEF Add, EndStep, Release, ghosts
<1>2. role' \in [Users -> Roles \cup {"none"}] /\ Seated' /\ Owned'
  BY <1>1, EnterKeeps
<1>3. TypeOK'
  BY <1>1, <1>2, EndKeeps DEF Inv, TypeOK
<1>4. AtWork'
  BY <1>1, EndKeeps, IdleType DEF Inv, AtWork
<1>5. Counted' /\ Dead'
  BY <1>1, EndKeeps DEF Inv, Counted, Dead, RevokedIsDead
<1> QED BY <1>2, <1>3, <1>4, <1>5 DEF Inv

(* An invitation whose state stays, one whose uses are counted among them. *)
LEMMA JoinKeeps == ASSUME Inv, NEW c \in Calls, Join(c) PROVE Inv'
<1> DEFINE u == call[c].target
           i == call[c].invite
           counts == role[u] = "none" /\ invite[i].uses < invite[i].max
<1>1. EndStep(c) /\ UNCHANGED <<raced, revoked, overtaken>> /\ call[c].phase = "claiming"
  BY DEF Join, EndStep, Release
<1>2. i \in Invites /\ u \in Users /\ call[c].role \in Roles /\ invite[i].state # "none"
  BY <1>1 DEF Inv, AtWork
<1>3. CASE counts
  <2>1. /\ role' = [role EXCEPT ![u] = call[c].role]
        /\ invite' = [invite EXCEPT ![i].uses = @ + 1]
        /\ joins' = [joins EXCEPT ![i] = @ + 1]
    BY <1>3 DEF Join
  <2>2. role' \in [Users -> Roles \cup {"none"}] /\ Seated' /\ Owned'
    BY <1>1, <2>1, EnterKeeps
  <2>3. invite[i] \in Invite /\ invite[i].uses \in 0 .. LinkUses /\ invite[i].max \in 1 .. LinkUses
    BY <1>2 DEF Inv, TypeOK, Invite
  <2>4. invite[i].uses + 1 \in 0 .. LinkUses /\ invite[i].uses + 1 <= invite[i].max
    BY <1>3, <2>3, BoundsAssumption
  <2> DEFINE new == [invite[i] EXCEPT !.uses = invite[i].uses + 1]
  <2>5. new \in Invite /\ new.state = invite[i].state /\ new.max = invite[i].max
        /\ new.uses = invite[i].uses + 1
    BY <2>3, <2>4 DEF Invite
  <2>6. invite' = [invite EXCEPT ![i] = new]
    BY <2>1
  <2> HIDE DEF new
  <2>7. invite' \in [Invites -> Invite] /\ \A j \in Invites : invite'[j] = IF j = i THEN new ELSE invite[j]
    BY <1>2, <2>5, <2>6 DEF Inv, TypeOK
  <2>8. joins' \in [Invites -> Nat] /\ \A j \in Invites : joins'[j] = IF j = i THEN joins[j] + 1 ELSE joins[j]
    BY <1>2, <2>1 DEF Inv, TypeOK
  <2>9. TypeOK'
    BY <1>1, <2>2, <2>7, <2>8, EndKeeps DEF Inv, TypeOK
  <2>10. \A j \in Invites : invite'[j].state = invite[j].state
    BY <2>5, <2>7
  <2>11. AtWork' /\ Dead'
    BY <1>1, <2>10, EndKeeps, IdleType DEF Inv, AtWork, Dead, RevokedIsDead, TypeOK
  <2>12. Counted'
    BY <1>1, <1>2, <2>4, <2>5, <2>7, <2>8 DEF Inv, Counted
  <2> QED BY <2>2, <2>9, <2>11, <2>12 DEF Inv
<1>4. CASE ~counts
  <2>1. Abort(c)
    BY <1>1, <1>4 DEF Join, Abort, ghosts
  <2> QED BY <2>1, AbortKeeps
<1> QED BY <1>3, <1>4

-----------------------------------------------------------------------------
(* Invitations *)

(* One invitation is written, the others and the people stay. *)
LEMMA InviteWrites ==
  ASSUME Inv, NEW i \in Invites, NEW v \in Invite, invite' = [invite EXCEPT ![i] = v],
         v.state # "none", v.uses = invite[i].uses, v.max >= v.uses,
         i \in revoked /\ v.state = "live" => i \in overtaken,
         UNCHANGED <<role, joins, raced, revoked, overtaken>>,
         (\E c \in Calls : EndStep(c)) \/ UNCHANGED <<call, lock>>
  PROVE  Inv'
<1>1. invite' \in [Invites -> Invite] /\ \A j \in Invites : invite'[j] = IF j = i THEN v ELSE invite[j]
  BY DEF Inv, TypeOK
<1>2. Members' = Members /\ Owners' = Owners
  BY DEF Members, Owners
<1>3. \A d \in Calls : (call'[d].phase # "idle" => call'[d] = call[d])
                      /\ (call'[d].phase = "idle" => call'[d] \in {Idle, call[d]})
                      /\ (call'[d].phase # "idle" /\ lock = d => lock' = d)
  BY EndKeeps
<1>4. call' \in [Calls -> Call] /\ lock' \in Calls \cup {Nobody}
      /\ \A d \in Calls : lock' = d => call'[d].phase \in {"taking", "adding", "claiming"}
  BY EndKeeps DEF Inv, TypeOK
<1>5. TypeOK'
  BY <1>1, <1>4 DEF Inv, TypeOK
<1>6. AtWork'
  BY <1>1, <1>3, IdleType DEF Inv, AtWork
<1>7. Seated'
  BY <1>2, <1>3 DEF Inv, Seated, SeatsKept, Room
<1>8. Counted'
  BY <1>1 DEF Inv, Counted, TypeOK, Invite
<1>9. Dead'
  <2>1. RevokedIsDead'
    BY <1>1 DEF Inv, Dead, RevokedIsDead, TypeOK, Invite
  <2> QED BY <1>3, <2>1 DEF Inv, Dead
<1>10. Owned'
  BY <1>2, <1>3 DEF Inv, Owned
<1> QED BY <1>5, <1>6, <1>7, <1>8, <1>9, <1>10 DEF Inv

LEMMA NewKeeps ==
  ASSUME Inv, NEW i \in Invites, invite[i].state = "none", NEW u \in Users \cup {Nobody}, NEW r \in Roles,
         NEW max \in 1 .. LinkUses, NewInvite(i, u, r, max),
         UNCHANGED <<role, joins, raced, revoked, overtaken>>,
         (\E c \in Calls : EndStep(c)) \/ UNCHANGED <<call, lock>>
  PROVE  Inv'
<1> DEFINE v == [state |-> "live", email |-> u, role |-> r, uses |-> 0, max |-> max]
<1>1. 0 \in 0 .. LinkUses
  BY BoundsAssumption
<1>2. v \in Invite
  BY <1>1 DEF Invite
<1>3. invite[i].uses = 0 /\ i \notin revoked
  BY DEF Inv, Counted
<1>4. invite' = [invite EXCEPT ![i] = v] /\ v.state = "live" /\ v.uses = 0 /\ v.max = max
  BY DEF NewInvite
<1>5. v.state # "none" /\ v.uses = invite[i].uses /\ v.max >= v.uses
      /\ (i \in revoked /\ v.state = "live" => i \in overtaken)
  BY <1>3, <1>4, BoundsAssumption
<1> HIDE DEF v
<1> QED BY <1>2, <1>4, <1>5, InviteWrites

LEMMA RenewKeeps ==
  ASSUME Inv, NEW i \in Invites, NEW r \in Roles, invite' = [invite EXCEPT ![i] = Renewed(i, r)],
         i \in revoked => i \in overtaken,
         UNCHANGED <<role, joins, raced, revoked, overtaken>>, \E c \in Calls : EndStep(c)
  PROVE  Inv'
<1> DEFINE v == Renewed(i, r)
<1>1. invite[i] \in Invite /\ invite[i].uses <= invite[i].max
  BY DEF Inv, TypeOK, Counted
<1>2. v \in Invite /\ v.state = "live" /\ v.uses = invite[i].uses /\ v.max = invite[i].max
  BY <1>1 DEF Renewed, Invite
<1>3. invite' = [invite EXCEPT ![i] = v]
  OBVIOUS
<1>4. v.state # "none" /\ v.uses = invite[i].uses /\ v.max >= v.uses
      /\ (i \in revoked /\ v.state = "live" => i \in overtaken)
  BY <1>1, <1>2 DEF Invite
<1> HIDE DEF v
<1> QED BY <1>2, <1>3, <1>4, InviteWrites

LEMMA IssueKeeps == ASSUME Inv, NEW c \in Calls, IssueInvite(c) PROVE Inv'
<1>1. EndStep(c) /\ UNCHANGED <<role, joins, raced, revoked, overtaken>> /\ call[c].phase = "inviting"
  BY SetsAssumption DEF IssueInvite, EndStep, ghosts, Inv, TypeOK
<1>2. call[c].target \in Users /\ call[c].role \in Roles /\ call[c].invite \in Invites \cup {Nobody}
  BY <1>1 DEF Inv, AtWork, TypeOK, Call
<1>3. CASE call[c].invite # Nobody
  <2>1. call[c].invite \in revoked => call[c].invite \in overtaken
    BY <1>1 DEF Inv, Dead
  <2>2. invite' = [invite EXCEPT ![call[c].invite] = Renewed(call[c].invite, call[c].role)]
    BY <1>3 DEF IssueInvite
  <2> QED BY <1>1, <1>2, <1>3, <2>1, <2>2, RenewKeeps
<1>4. CASE call[c].invite = Nobody
  <2>1. PICK j \in Invites : invite[j].state = "none" /\ NewInvite(j, call[c].target, call[c].role, 1)
    BY <1>4 DEF IssueInvite
  <2>2. 1 \in 1 .. LinkUses
    BY BoundsAssumption
  <2> QED BY <1>1, <1>2, <2>1, <2>2, NewKeeps
<1> QED BY <1>3, <1>4

LEMMA ResentKeeps == ASSUME Inv, NEW c \in Calls, Resent(c) PROVE Inv'
<1>1. EndStep(c) /\ UNCHANGED <<role, joins, raced, revoked, overtaken>> /\ call[c].phase = "renewing"
  BY SetsAssumption DEF Resent, EndStep, ghosts, Inv, TypeOK
<1>2. call[c].invite \in Invites /\ (call[c].invite \in revoked => call[c].invite \in overtaken)
  BY <1>1 DEF Inv, AtWork, Dead
<1>3. invite[call[c].invite].role \in Roles
  BY <1>2 DEF Inv, TypeOK, Invite
<1>4. invite' = [invite EXCEPT ![call[c].invite] = Renewed(call[c].invite, invite[call[c].invite].role)]
  BY DEF Resent
<1> QED BY <1>1, <1>2, <1>3, <1>4, RenewKeeps

LEMMA LinkKeeps ==
  ASSUME Inv, NEW by \in Users, NEW i \in Invites, NEW r \in Roles, CreateLink(by, i, r) PROVE Inv'
<1>1. PICK max \in {1, LinkUses} : NewInvite(i, Nobody, r, max)
  BY DEF CreateLink
<1>2. max \in 1 .. LinkUses
  BY BoundsAssumption
<1> QED BY <1>1, <1>2, NewKeeps DEF CreateLink, ghosts

LEMMA ExpireKeeps == ASSUME Inv, NEW i \in Invites, Expire(i) PROVE Inv'
<1> DEFINE v == [invite[i] EXCEPT !.state = "ended"]
<1>1. invite[i] \in Invite /\ invite[i].uses <= invite[i].max
  BY DEF Inv, TypeOK, Counted
<1>2. v \in Invite /\ v.state = "ended" /\ v.uses = invite[i].uses /\ v.max = invite[i].max
  BY <1>1 DEF Invite
<1>3. invite' = [invite EXCEPT ![i] = v]
  BY DEF Expire
<1> HIDE DEF v
<1> QED BY <1>1, <1>2, <1>3, InviteWrites DEF Expire, ghosts, Invite

LEMMA RevokeKeeps == ASSUME Inv, NEW by \in Users, NEW i \in Invites, Revoke(by, i) PROVE Inv'
<1> DEFINE v == [invite[i] EXCEPT !.state = "ended"]
<1>1. invite[i] \in Invite /\ invite[i].uses <= invite[i].max
  BY DEF Inv, TypeOK, Counted
<1>2. v \in Invite /\ v.state = "ended" /\ v.uses = invite[i].uses /\ v.max = invite[i].max
  BY <1>1 DEF Invite
<1>3. invite' = [invite EXCEPT ![i] = v] /\ invite[i].state # "none"
  BY DEF Revoke
<1> HIDE DEF v
<1>4. invite' \in [Invites -> Invite] /\ \A j \in Invites : invite'[j] = IF j = i THEN v ELSE invite[j]
  BY <1>2, <1>3 DEF Inv, TypeOK
<1>5. UNCHANGED <<role, lock, call, joins, raced>> /\ revoked' = revoked \cup {i}
      /\ overtaken' \in {overtaken, overtaken \cup {i}}
  BY DEF Revoke
<1>6. TypeOK'
  BY <1>4, <1>5 DEF Inv, TypeOK
<1>7. AtWork'
  BY <1>2, <1>4, <1>5 DEF Inv, AtWork
<1>8. Seated' /\ Owned'
  BY <1>5 DEF Inv, Seated, SeatsKept, Room, Members, Owned, Owners
<1>9. Counted'
  BY <1>2, <1>3, <1>4, <1>5 DEF Inv, Counted
<1>10. Dead'
  <2>1. RevokedIsDead'
    BY <1>2, <1>4, <1>5 DEF Inv, Dead, RevokedIsDead, TypeOK
  <2>2. ASSUME NEW d \in Calls, call[d].phase \in {"renewing", "inviting"}, call[d].invite \in revoked'
        PROVE  call[d].invite \in overtaken'
    BY <1>5, <2>2 DEF Revoke, Inv, Dead
  <2> QED BY <1>5, <2>1, <2>2 DEF Dead
<1> QED BY <1>6, <1>7, <1>8, <1>9, <1>10 DEF Inv

LEMMA InvKept == Inv /\ [Next]_vars => Inv'
<1> SUFFICES ASSUME Inv, [Next]_vars PROVE Inv'
  OBVIOUS
<1>1. ASSUME NEW c \in Calls, Take(c) \/ Add(c) \/ Join(c) \/ IssueInvite(c) \/ Resent(c) \/ Abort(c)
      PROVE  Inv'
  BY <1>1, TakeKeeps, AddKeeps, JoinKeeps, IssueKeeps, ResentKeeps, AbortKeeps
<1>2. ASSUME NEW c \in Calls, NEW u \in Users, NEW by \in Users,
             \/ Leave(c, u) \/ Remove(c, by, u)
             \/ \E r \in Roles \cup {"none"} : OperatorTakes(c, u, r)
             \/ \E r \in Roles : SetRole(c, by, u, r)
      PROVE  Inv'
  <2>1. "owner" \in Roles \cup {"none"} /\ \A r \in Roles : r # "none" /\ r \in Roles \cup {"none"}
    BY DEF Roles
  <2> QED BY <1>2, <2>1, TakingChecks
<1>3. ASSUME NEW c \in Calls, NEW u \in Users,
             (\E r \in Roles : OperatorAdds(c, u, r)) \/ \E i \in Invites : Claim(c, u, i)
      PROVE  Inv'
  BY <1>3, OperatorAddsKeeps, ClaimKeeps
<1>4. ASSUME NEW c \in Calls, NEW u \in Users, NEW by \in Users, NEW r \in Roles, SendInvite(c, by, u, r)
      PROVE  Inv'
  BY <1>4, SendInviteKeeps
<1>5. ASSUME NEW c \in Calls, NEW by \in Users, NEW i \in Invites, Resend(c, by, i) PROVE Inv'
  BY <1>5, ResendKeeps
<1>6. ASSUME NEW i \in Invites, \/ Expire(i)
                               \/ \E by \in Users : Revoke(by, i) \/ \E r \in Roles : CreateLink(by, i, r)
      PROVE  Inv'
  BY <1>6, ExpireKeeps, RevokeKeeps, LinkKeeps
<1>7. CASE UNCHANGED vars
  BY <1>7 DEF Inv, vars, ghosts, TypeOK, AtWork, Seated, SeatsKept, Room, Members, Counted, Dead,
              RevokedIsDead, Owned, Owners
<1> QED BY <1>1, <1>2, <1>3, <1>4, <1>5, <1>6, <1>7 DEF Next

LEMMA InvAlways == Spec => []Inv
  BY InitInv, InvKept, PTL DEF Spec

-----------------------------------------------------------------------------
(* The variables keep their types, and the team's row is held only by a call about to *)
(* write a membership (invites.ts 202-209, admin.tsx 3322-3330).                        *)
THEOREM TypeCorrect == Spec => []TypeOK
<1>1. Inv => TypeOK
  BY DEF Inv
<1> QED BY <1>1, InvAlways, PTL

(* However many people follow links and are added at once, the plan's limit holds *)
(* (claimInviteMembership, invites.ts 202-285).                                     *)
THEOREM LimitHolds == Spec => []SeatsKept
<1>1. Inv => SeatsKept
  BY DEF Inv, Seated
<1> QED BY <1>1, InvAlways, PTL

(* An invitation lets in as many people as it counts, and no more than it says *)
(* (invites.ts 287-300).                                                         *)
THEOREM EveryUseIsAJoin == Spec => []UsesAreJoins
<1>1. Inv => UsesAreJoins
  BY DEF Inv, Counted, UsesAreJoins
<1> QED BY <1>1, InvAlways, PTL

(* A revoked invitation comes back to life only through a call that had read it as *)
(* waiting before (invites.ts 144-172, dashboard.tsx 3036-3054).                     *)
THEOREM RevocationStands == Spec => []RevokedIsDead
<1>1. Inv => RevokedIsDead
  BY DEF Inv, Dead
<1> QED BY <1>1, InvAlways, PTL

(* As long as no two calls that take or change a role overlap there is an owner *)
(* (dashboard.tsx 1922-2068, admin.tsx 3407-3503).                                *)
THEOREM OnlyRacesOrphan == Spec => []OwnedUnlessRaced
<1>1. Inv => OwnedUnlessRaced
  BY DEF Inv, Owned, OwnedUnlessRaced
<1> QED BY <1>1, InvAlways, PTL
===============================================================================
