----------------------------- MODULE Membership -----------------------------
(***************************************************************************)
(* Who is in one workspace (packages/server/src/domain/invites.ts and the  *)
(* membership routes of routes/dashboard.tsx and routes/admin.tsx).        *)
(* People join by invitation or are added by the operator, both under the  *)
(* lock of the team's row; they leave, are removed, promoted and demoted   *)
(* by console routes that check and then write without it, and by operator *)
(* routes that do both under it.  Links and emailed invitations are        *)
(* created, renewed, revoked and expire.                                   *)
(***************************************************************************)
EXTENDS Integers, FiniteSets

CONSTANTS
  Users,        \* accounts, each with one address
  Founder,      \* who created the workspace
  Confirmed,    \* the accounts whose address is confirmed
  Invites,      \* identities of invitations
  LinkUses,     \* how many people a link may let in
  Limit,        \* maxMembers of the plan
  Calls,        \* requests that may be under way at once
  Nobody        \* no account, no call, no invitation

ASSUME SetsAssumption ==
  /\ IsFiniteSet(Users) /\ Founder \in Users /\ Confirmed \subseteq Users
  /\ Nobody \notin Users \cup Calls \cup Invites
ASSUME BoundsAssumption == LinkUses \in Nat \ {0} /\ Limit \in Nat \ {0}

VARIABLES
  role,       \* account |-> its role in the workspace
  invite,     \* the invitations
  lock,       \* the call that holds the team's row
  call,       \* what each call under way has checked and is about to write
  joins,      \* invitation |-> how many people it let in
  raced,      \* a role was taken or changed while another such call was past its check
  revoked,    \* invitations an owner has revoked
  overtaken   \* those a call was about to renew at that moment

ghosts == <<joins, raced, revoked, overtaken>>
vars   == <<role, invite, lock, call, ghosts>>

Roles  == {"member", "owner"}
Invite == [state : {"none", "live", "ended"}, email : Users \cup {Nobody}, role : Roles,
           uses : 0 .. LinkUses, max : 1 .. LinkUses]
Call   == [phase : {"idle", "taking", "adding", "claiming", "renewing", "inviting"},
           target : Users \cup {Nobody}, role : Roles \cup {"none"}, invite : Invites \cup {Nobody}]
Idle   == [phase |-> "idle", target |-> Nobody, role |-> "none", invite |-> Nobody]

Members == {u \in Users : role[u] # "none"}
Owners  == {u \in Users : role[u] = "owner"}

(* Types; the team's row is held only by a call that is about to write a membership. *)
TypeOK ==
  /\ role \in [Users -> Roles \cup {"none"}]
  /\ invite \in [Invites -> Invite]
  /\ lock \in Calls \cup {Nobody}
  /\ call \in [Calls -> Call]
  /\ \A c \in Calls : lock = c => call[c].phase \in {"taking", "adding", "claiming"}
  /\ joins \in [Invites -> Nat]
  /\ raced \in BOOLEAN
  /\ revoked \subseteq Invites /\ overtaken \subseteq revoked

Init ==
  /\ role = [u \in Users |-> IF u = Founder THEN "owner" ELSE "none"]
  /\ invite = [i \in Invites |->
       [state |-> "none", email |-> Nobody, role |-> "member", uses |-> 0, max |-> 1]]
  /\ lock = Nobody
  /\ call = [c \in Calls |-> Idle]
  /\ joins = [i \in Invites |-> 0]
  /\ raced = FALSE
  /\ revoked = {} /\ overtaken = {}

Waiting(i) == invite[i].state = "live" /\ invite[i].uses < invite[i].max

Checked(c, phase, u, r, i) ==
  call' = [call EXCEPT ![c] = [phase |-> phase, target |-> u, role |-> r, invite |-> i]]

-----------------------------------------------------------------------------
(* Leaving, removal and roles: what the routes read, then what they write *)

(* Mutant: a sole owner may leave. *)
MayLeaveAnyway(u) == role[u] # "none"

MayLeave(u) == role[u] # "none" /\ (role[u] = "owner" => Cardinality(Owners) > 1)

(* The console's leave, and the deletion of an account as far as this workspace goes. *)
Leave(c, u) ==
  /\ call[c].phase = "idle" /\ MayLeave(u)
  /\ Checked(c, "taking", u, "none", Nobody)
  /\ UNCHANGED <<role, invite, lock, ghosts>>

(* An owner removes another member, owners included. *)
Remove(c, by, u) ==
  /\ call[c].phase = "idle" /\ role[by] = "owner" /\ u # by /\ role[u] # "none"
  /\ Checked(c, "taking", u, "none", Nobody)
  /\ UNCHANGED <<role, invite, lock, ghosts>>

MaySetRole(u, r) == role[u] \notin {"none", r} /\ (r = "member" => Cardinality(Owners) > 1)

SetRole(c, by, u, r) ==
  /\ call[c].phase = "idle" /\ role[by] = "owner" /\ MaySetRole(u, r)
  /\ Checked(c, "taking", u, r, Nobody)
  /\ UNCHANGED <<role, invite, lock, ghosts>>

(* The operator does the same under the team's row. *)
OperatorTakes(c, u, r) ==
  /\ call[c].phase = "idle" /\ lock = Nobody
  /\ IF r = "none" THEN MayLeave(u) ELSE MaySetRole(u, r)
  /\ Checked(c, "taking", u, r, Nobody)
  /\ lock' = c
  /\ UNCHANGED <<role, invite, ghosts>>

Release(c) == lock' = IF lock = c THEN Nobody ELSE lock

(* The write names the membership only: one that is gone by now is not touched. *)
Take(c) ==
  LET u == call[c].target IN
  /\ call[c].phase = "taking"
  /\ role' = IF role[u] = "none" THEN role ELSE [role EXCEPT ![u] = call[c].role]
  /\ raced' = (raced \/ \E d \in Calls \ {c} : call[d].phase = "taking")
  /\ call' = [call EXCEPT ![c] = Idle]
  /\ Release(c)
  /\ UNCHANGED <<invite, joins, revoked, overtaken>>

-----------------------------------------------------------------------------
(* Joining *)

Room == Cardinality(Members) < Limit

OperatorAdds(c, u, r) ==
  /\ call[c].phase = "idle" /\ lock = Nobody /\ role[u] = "none" /\ Room
  /\ Checked(c, "adding", u, r, Nobody)
  /\ lock' = c
  /\ UNCHANGED <<role, invite, ghosts>>

Add(c) ==
  /\ call[c].phase = "adding"
  /\ role' = [role EXCEPT ![call[c].target] = call[c].role]
  /\ call' = [call EXCEPT ![c] = Idle]
  /\ Release(c)
  /\ UNCHANGED <<invite, ghosts>>

(* Mutant: the link is not for anybody in particular, so the row is not locked. *)
ClaimFreely(c, u, i) ==
  /\ call[c].phase = "idle" /\ Waiting(i) /\ role[u] = "none" /\ Room
  /\ Checked(c, "claiming", u, invite[i].role, i)
  /\ UNCHANGED <<role, invite, lock, ghosts>>

(* Everything is read again once the team's row is locked.  An emailed invitation is for *)
(* its address, once that is confirmed; a member already in consumes nothing.             *)
Claim(c, u, i) ==
  /\ call[c].phase = "idle" /\ lock = Nobody
  /\ Waiting(i) /\ role[u] = "none"
  /\ invite[i].email # Nobody => invite[i].email = u /\ u \in Confirmed
  /\ Room
  /\ Checked(c, "claiming", u, invite[i].role, i)
  /\ lock' = c
  /\ UNCHANGED <<role, invite, ghosts>>

(* The use is counted if one is left, else all of it rolls back.  The stamp the expiry is *)
(* compared with was taken at the check, so a revocation since does not stop it.          *)
Join(c) ==
  LET u == call[c].target
      i == call[c].invite IN
  /\ call[c].phase = "claiming"
  /\ IF role[u] = "none" /\ invite[i].uses < invite[i].max
       THEN /\ role' = [role EXCEPT ![u] = call[c].role]
            /\ invite' = [invite EXCEPT ![i].uses = @ + 1]
            /\ joins' = [joins EXCEPT ![i] = @ + 1]
       ELSE UNCHANGED <<role, invite, joins>>
  /\ call' = [call EXCEPT ![c] = Idle]
  /\ Release(c)
  /\ UNCHANGED <<raced, revoked, overtaken>>

-----------------------------------------------------------------------------
(* Invitations *)

NewInvite(i, u, r, max) ==
  invite' = [invite EXCEPT ![i] = [state |-> "live", email |-> u, role |-> r, uses |-> 0, max |-> max]]

CreateLink(by, i, r) ==
  /\ role[by] = "owner" /\ invite[i].state = "none"
  /\ \E max \in {1, LinkUses} : NewInvite(i, Nobody, r, max)
  /\ UNCHANGED <<role, lock, call, ghosts>>

(* The address is asked whether an invitation waits for it. *)
WaitsFor(i, u) == invite[i].state = "live" /\ invite[i].email = u /\ invite[i].uses = 0

SendInvite(c, by, u, r) ==
  /\ call[c].phase = "idle" /\ role[by] = "owner"
  /\ IF \E i \in Invites : WaitsFor(i, u)
       THEN \E i \in Invites : WaitsFor(i, u) /\ Checked(c, "inviting", u, r, i)
       ELSE Checked(c, "inviting", u, r, Nobody)
  /\ UNCHANGED <<role, invite, lock, ghosts>>

(* Mutant: a renewed invitation starts over. *)
RenewedAnew(i, r) == [invite[i] EXCEPT !.state = "live", !.role = r, !.uses = 0]

Renewed(i, r) == [invite[i] EXCEPT !.state = "live", !.role = r]

(* The waiting one is renewed by its identity, whatever became of it; otherwise a new one. *)
IssueInvite(c) ==
  LET i == call[c].invite IN
  /\ call[c].phase = "inviting"
  /\ IF i # Nobody
       THEN invite' = [invite EXCEPT ![i] = Renewed(i, call[c].role)]
       ELSE \E j \in Invites : invite[j].state = "none" /\ NewInvite(j, call[c].target, call[c].role, 1)
  /\ call' = [call EXCEPT ![c] = Idle]
  /\ UNCHANGED <<role, lock, ghosts>>

(* Mutant: any emailed invitation can be sent again. *)
MayResendAny(i) == invite[i].state # "none" /\ invite[i].email # Nobody

MayResend(i) == invite[i].email # Nobody /\ Waiting(i)

(* Sending again: the row is read, the mail goes out, the row is renewed. *)
Resend(c, by, i) ==
  /\ call[c].phase = "idle" /\ role[by] = "owner" /\ MayResend(i)
  /\ Checked(c, "renewing", Nobody, "none", i)
  /\ UNCHANGED <<role, invite, lock, ghosts>>

Resent(c) ==
  LET i == call[c].invite IN
  /\ call[c].phase = "renewing"
  /\ invite' = [invite EXCEPT ![i] = Renewed(i, invite[i].role)]
  /\ call' = [call EXCEPT ![c] = Idle]
  /\ UNCHANGED <<role, lock, ghosts>>

Revoke(by, i) ==
  /\ role[by] = "owner" /\ invite[i].state # "none"
  /\ invite' = [invite EXCEPT ![i].state = "ended"]
  /\ revoked' = revoked \cup {i}
  /\ overtaken' = IF \E c \in Calls : call[c].phase \in {"renewing", "inviting"} /\ call[c].invite = i
                    THEN overtaken \cup {i} ELSE overtaken
  /\ UNCHANGED <<role, lock, call, joins, raced>>

Expire(i) ==
  /\ invite[i].state = "live"
  /\ invite' = [invite EXCEPT ![i].state = "ended"]
  /\ UNCHANGED <<role, lock, call, ghosts>>

(* The request ends before its write: a refusal, a mail that fails, a process that stops. *)
Abort(c) ==
  /\ call[c].phase # "idle"
  /\ call' = [call EXCEPT ![c] = Idle]
  /\ Release(c)
  /\ UNCHANGED <<role, invite, ghosts>>

Next ==
  \/ \E c \in Calls :
       \/ Take(c) \/ Add(c) \/ Join(c) \/ IssueInvite(c) \/ Resent(c) \/ Abort(c)
       \/ \E u \in Users :
            \/ Leave(c, u)
            \/ \E r \in Roles \cup {"none"} : OperatorTakes(c, u, r)
            \/ \E r \in Roles : OperatorAdds(c, u, r)
            \/ \E i \in Invites : Claim(c, u, i)
            \/ \E by \in Users : \/ Remove(c, by, u)
                                 \/ \E r \in Roles : SetRole(c, by, u, r) \/ SendInvite(c, by, u, r)
       \/ \E by \in Users, i \in Invites : Resend(c, by, i)
  \/ \E i \in Invites :
       \/ Expire(i)
       \/ \E by \in Users : Revoke(by, i) \/ \E r \in Roles : CreateLink(by, i, r)

Spec == Init /\ [][Next]_vars

-----------------------------------------------------------------------------
(* Properties *)

(* However many people follow links and are added at once, the workspace never *)
(* holds more people than its plan allows (claimInviteMembership, invites.ts   *)
(* 194-201).                                                                    *)
SeatsKept == Cardinality(Members) <= Limit

(* An invitation lets in as many people as it says, whatever is renewed while  *)
(* they join; an emailed one lets in one.                                       *)
UsesAreJoins == \A i \in Invites : joins[i] = invite[i].uses /\ joins[i] <= invite[i].max

(* The workspace keeps an owner as long as no two calls that take or change a  *)
(* role overlap; the operator's, under the lock, never overlap each other.      *)
OwnedUnlessRaced == Owners = {} => raced

(* A revoked invitation stays unusable, unless a call that had read it as      *)
(* waiting was still to write it when it was revoked.                           *)
RevokedIsDead == \A i \in revoked : invite[i].state = "ended" \/ i \in overtaken

(* What dashboard.tsx 1967-1971 and lib/memberships.ts 166-168 say: the console    *)
(* and the operator's pages cannot leave a workspace without an owner.          *)
TeamKeepsOwner == Owners # {}

(* What invites.ts 118-125 says: one invitation per address waits.              *)
OneWaitingPerAddress ==
  \A i, j \in Invites : invite[i].email # Nobody /\ WaitsFor(i, invite[i].email)
                          /\ WaitsFor(j, invite[i].email) => i = j
===============================================================================
