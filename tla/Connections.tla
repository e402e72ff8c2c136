---------------------------- MODULE Connections ----------------------------
(***************************************************************************)
(* One agent connection from the owner's consent to its revocation         *)
(* (packages/server/src/routes/oauth.tsx, domain/enrollments.ts and        *)
(* revokeAgentInstallation).  An approval and a one-use code are issued,   *)
(* one exchange redeems both into an installation, a credential and a      *)
(* refresh token; refreshes rotate the token; the console, the client, the *)
(* loss of access or the reuse of a spent token ends the connection.       *)
(* A refresh reads its rows first and waits for the owner's row afterwards.*)
(* A deadline is kept as the ticks still to go and a spend as its age.     *)
(***************************************************************************)
EXTENDS Integers, FiniteSets

CONSTANTS
  Calls,          \* requests that may be under way at once
  MaxTokens,      \* bound on the refresh tokens of the connection
  ApprovalTtl,    \* AGENT_ENROLLMENT_TTL_MINUTES
  CodeTtl,        \* AUTHORIZATION_CODE_TTL_MS
  Grace,          \* REFRESH_REPLAY_GRACE_MS
  Patience,       \* how long the client goes on presenting one token
  CallTime,       \* bound on the duration of a call
  Nobody          \* no call

ASSUME CallsAssumption == Calls # {} /\ IsFiniteSet(Calls) /\ Nobody \notin Calls
ASSUME TimesAssumption ==
  /\ MaxTokens \in Nat \ {0}
  /\ ApprovalTtl \in Nat /\ CodeTtl \in Nat /\ Grace \in Nat /\ Patience \in Nat
  /\ CallTime \in Nat
  /\ Patience + CallTime <= Grace

VARIABLES
  approval,     \* the enrollment: redeemed and revoked are separate stamps
  code,         \* the authorization code issued for it
  installation, \* "none", "active" or "revoked"
  dead,         \* tokens.revoked_at is set
  member,       \* the owner still has the access that was approved
  issued,       \* how many refresh tokens were issued, numbered from 1
  refresh,      \* the refresh tokens
  lock,         \* the call that holds the owner's row
  call,         \* what each call under way knows
  held,         \* the client's refresh token, 0 when it has none
  tried,        \* 0 when it has not presented it, else one more than the ticks since it did
  strayed,      \* the client presented another token, too late, or beside an older call
  made,         \* installations created from the approval
  mark,         \* how many tokens were issued when one was last spent
  said,         \* the console has told the owner that the approval is revoked
  cut           \* why a refresh ended the connection

server == <<approval, code, installation, dead, member, issued, refresh, lock>>
client == <<held, tried, strayed>>
ghosts == <<made, mark, said, cut>>
vars   == <<server, call, client, ghosts>>

Ids      == 1 .. MaxTokens
AgeCap   == Grace + 1
Token    == [status : {"none", "live", "spent", "retired"}, age : 0 .. AgeCap, order : Nat,
             revoked : BOOLEAN]
Seen     == [status : {"none", "live", "spent", "retired"}, order : Nat]
Approval == [status : {"none", "open"}, left : 0 .. ApprovalTtl, redeemed : BOOLEAN, revoked : BOOLEAN]
Code     == [status : {"none", "open", "consumed"}, left : 0 .. CodeTtl]
Call     == [phase : {"idle", "exchanging", "sent", "waiting", "rotating", "cutting", "answering",
                      "revoking", "following"},
             token : 0 .. MaxTokens, seen : Seen, got : 0 .. MaxTokens, age : 0 .. CallTime,
             verdict : {"none", "reuse", "lost", "replay", "spend"}]

NoToken == [status |-> "none", age |-> 0, order |-> 0, revoked |-> FALSE]
Fresh   == [status |-> "live", age |-> 0, order |-> 0, revoked |-> FALSE]
Unread  == [status |-> "none", order |-> 0]
Idle    == [phase |-> "idle", token |-> 0, seen |-> Unread, got |-> 0, age |-> 0, verdict |-> "none"]

(* Types, and the lock on the owner's row: held by the call that is rotating. *)
TypeOK ==
  /\ approval \in Approval
  /\ code \in Code
  /\ installation \in {"none", "active", "revoked"}
  /\ dead \in BOOLEAN /\ member \in BOOLEAN
  /\ issued \in 0 .. MaxTokens
  /\ refresh \in [Ids -> Token]
  /\ lock \in Calls \cup {Nobody}
  /\ \A q \in Calls : lock = q <=> call[q].phase = "rotating"
  /\ call \in [Calls -> Call]
  /\ held \in 0 .. MaxTokens
  /\ tried \in 0 .. AgeCap + 1
  /\ strayed \in BOOLEAN
  /\ made \in Nat
  /\ mark \in 0 .. MaxTokens
  /\ said \in BOOLEAN
  /\ cut \in {"no", "reuse", "lost"}

Init ==
  /\ approval = [status |-> "none", left |-> 0, redeemed |-> FALSE, revoked |-> FALSE]
  /\ code = [status |-> "none", left |-> 0]
  /\ installation = "none"
  /\ dead = FALSE
  /\ member = TRUE
  /\ issued = 0
  /\ refresh = [t \in Ids |-> NoToken]
  /\ lock = Nobody
  /\ call = [q \in Calls |-> Idle]
  /\ held = 0
  /\ tried = 0
  /\ strayed = FALSE
  /\ made = 0
  /\ mark = 0
  /\ said = FALSE
  /\ cut = "no"

-----------------------------------------------------------------------------
(* Consent and exchange *)

(* The owner allows the request: the approval first, then the code for it. *)
Approve ==
  /\ approval.status = "none"
  /\ approval' = [approval EXCEPT !.status = "open", !.left = ApprovalTtl]
  /\ UNCHANGED <<code, installation, dead, member, issued, refresh, lock, call, client, ghosts>>

IssueCode ==
  /\ approval.status = "open" /\ code.status = "none"
  /\ code' = [status |-> "open", left |-> CodeTtl]
  /\ UNCHANGED <<approval, installation, dead, member, issued, refresh, lock, call, client, ghosts>>

CodeGood == code.status = "open" /\ code.left > 0

BeginExchange(q) ==
  /\ call[q].phase = "idle" /\ CodeGood
  /\ call' = [call EXCEPT ![q].phase = "exchanging"]
  /\ UNCHANGED <<server, client, ghosts>>

(* Mutant: the update of the approval has no conditions of its own. *)
RedeemableByMembership == approval.left > 0 /\ member

(* The approval is unexpired, the owner still a member, nothing redeemed or revoked it. *)
Redeemable == approval.left > 0 /\ member /\ ~ approval.redeemed /\ ~ approval.revoked

(* One transaction under the owner's row: consume the code; redeem the approval if it *)
(* still can be.  A refusal after the consumption returns normally, so that commits.   *)
Exchange(q) ==
  /\ call[q].phase = "exchanging" /\ lock = Nobody
  /\ IF CodeGood /\ Redeemable
       THEN /\ approval' = [approval EXCEPT !.redeemed = TRUE]
            /\ installation' = "active"
            /\ issued' = issued + 1
            /\ refresh' = [refresh EXCEPT ![issued + 1] = Fresh]
            /\ made' = made + 1
            /\ call' = [call EXCEPT ![q] = [Idle EXCEPT !.phase = "answering", !.got = issued + 1]]
       ELSE /\ UNCHANGED <<approval, installation, issued, refresh, made>>
            /\ call' = [call EXCEPT ![q] = Idle]
  /\ code' = IF CodeGood THEN [code EXCEPT !.status = "consumed"] ELSE code
  /\ UNCHANGED <<dead, member, lock, client, mark, said, cut>>

-----------------------------------------------------------------------------
(* Refreshing *)

Refreshing(q) == call[q].phase \in {"sent", "waiting", "rotating"}
Presents(q)   == Refreshing(q) \/ call[q].phase = "answering"

(* The client presents a token.  It keeps the protocol when the token is the one it *)
(* holds, not presented for too long, and no call with an older one is under way.    *)
Send(q, t) ==
  /\ call[q].phase = "idle" /\ t <= issued /\ issued < MaxTokens
  /\ call' = [call EXCEPT ![q].phase = "sent", ![q].token = t]
  /\ strayed' = (\/ strayed \/ t # held \/ tried > Patience + 1
                 \/ \E p \in Calls : Presents(p) /\ call[p].token # t)
  /\ tried' = IF t = held /\ tried = 0 THEN 1 ELSE tried
  /\ UNCHANGED <<server, held, ghosts>>

(* The rows are read without a lock; a revoked one ends the call. *)
Read(q) ==
  LET t == call[q].token IN
  /\ call[q].phase = "sent"
  /\ call' = [call EXCEPT ![q] = IF dead \/ refresh[t].revoked THEN Idle
                                 ELSE [@ EXCEPT !.phase = "waiting", !.seen = [status |-> refresh[t].status,
                                                                           order |-> refresh[t].order]]]
  /\ UNCHANGED <<server, client, ghosts>>

LaterSpent(seen) == \E t \in Ids : refresh[t].status = "spent" /\ refresh[t].order > seen.order

(* Mutant: a lost answer is not allowed for. *)
InGraceNever(q) == call[q].seen.status = "none"

(* What was read is spent within the window, and nothing was spent after it.  *)
(* A retired token is stamped before any window.                              *)
InGrace(q) ==
  /\ call[q].seen.status = "spent"
  /\ refresh[call[q].token].age <= Grace
  /\ ~ LaterSpent(call[q].seen)

Verdict(q) ==
  CASE call[q].seen.status # "live" /\ ~ InGrace(q) -> "reuse"
    [] installation # "active" \/ ~ member          -> "lost"
    [] call[q].seen.status # "live"                 -> "replay"
    [] OTHER                                        -> "spend"

(* The owner's row is locked for the rest of the transaction.  The bound on tokens is *)
(* here, so that a call that holds the lock can finish.                                *)
Lock(q) ==
  /\ call[q].phase = "waiting" /\ lock = Nobody
  /\ issued < MaxTokens
  /\ lock' = q
  /\ call' = [call EXCEPT ![q].phase = "rotating", ![q].verdict = Verdict(q)]
  /\ UNCHANGED <<approval, code, installation, dead, member, issued, refresh, client, ghosts>>

RevokedFamily == [t \in Ids |-> IF t <= issued THEN [refresh[t] EXCEPT !.revoked = TRUE] ELSE refresh[t]]

(* Reuse or lost access: this transaction ends the credential, a second one the rest. *)
CutOff(q) ==
  /\ call[q].phase = "rotating" /\ call[q].verdict \in {"reuse", "lost"}
  /\ refresh' = RevokedFamily
  /\ dead' = TRUE
  /\ lock' = Nobody
  /\ call' = [call EXCEPT ![q] = [Idle EXCEPT !.phase = "cutting"]]
  /\ cut' = call[q].verdict
  /\ UNCHANGED <<approval, code, installation, member, issued, client, made, mark, said>>

Live(t)     == refresh[t].status = "live" /\ ~ refresh[t].revoked
NewOrder    == Cardinality({t \in Ids : refresh[t].status = "spent"}) + 1
Spent(t)    == [refresh[t] EXCEPT !.status = "spent", !.age = 0, !.order = NewOrder]

(* Mutant: the second live token is left alone. *)
SpendOnly(t) == [u \in Ids |-> IF u = t THEN Spent(t) ELSE refresh[u]]

(* Spending one live token retires the others. *)
Spend(t) ==
  [u \in Ids |-> IF u = t THEN Spent(t)
                 ELSE IF Live(u) THEN [refresh[u] EXCEPT !.status = "retired"] ELSE refresh[u]]

Answered(q) == [call EXCEPT ![q] = [Idle EXCEPT !.phase = "answering", !.token = call[q].token,
                                                 !.got = issued + 1]]

(* Spend and rotate.  When another call spent the token meanwhile, it is answered too. *)
Rotate(q) ==
  LET t       == call[q].token
      replays == call[q].verdict = "replay"
                   \/ (refresh[t].status \in {"spent", "retired"} /\ ~ refresh[t].revoked)
      spends  == call[q].verdict = "spend" /\ Live(t) IN
  /\ call[q].phase = "rotating" /\ call[q].verdict \in {"replay", "spend"}
  /\ lock' = Nobody
  /\ IF spends \/ replays
       THEN /\ refresh' = [(IF spends THEN Spend(t) ELSE refresh) EXCEPT ![issued + 1] = Fresh]
            /\ issued' = issued + 1
            /\ mark' = IF spends THEN issued ELSE mark
            /\ call' = Answered(q)
       ELSE /\ UNCHANGED <<refresh, issued, mark>>
            /\ call' = [call EXCEPT ![q] = Idle]
  /\ UNCHANGED <<approval, code, installation, dead, member, client, made, said, cut>>

(* The answer arrives, or is lost. *)
Receive(q) ==
  /\ call[q].phase = "answering"
  /\ held' = call[q].got
  /\ tried' = 0
  /\ call' = [call EXCEPT ![q] = Idle]
  /\ UNCHANGED <<server, strayed, ghosts>>

-----------------------------------------------------------------------------
(* Ending the connection *)

(* revokeAgentInstallation: an installation that is not active is left alone. *)
InstallationRevoked ==
  /\ installation' = IF installation = "active" THEN "revoked" ELSE installation
  /\ dead' = (dead \/ installation = "active")

(* The second transaction after reuse or lost access. *)
FinishCut(q) ==
  /\ call[q].phase = "cutting"
  /\ InstallationRevoked
  /\ call' = [call EXCEPT ![q] = Idle]
  /\ UNCHANGED <<approval, code, member, issued, refresh, lock, client, ghosts>>

(* The console's revoke ends here; the client's goes on to the refresh tokens. *)
Disconnect(q) ==
  /\ call[q].phase = "idle" /\ installation # "none"
  /\ InstallationRevoked
  /\ call' \in {call, [call EXCEPT ![q].phase = "revoking"]}
  /\ UNCHANGED <<approval, code, member, issued, refresh, lock, client, ghosts>>

RevokeTokens(q) ==
  /\ call[q].phase = "revoking"
  /\ refresh' = RevokedFamily
  /\ call' = [call EXCEPT ![q] = Idle]
  /\ UNCHANGED <<approval, code, installation, dead, member, issued, lock, client, ghosts>>

(* The owner revokes the approval; one that was redeemed meanwhile is followed. *)
RevokeApproval(q) ==
  /\ call[q].phase = "idle" /\ approval.status = "open"
  /\ IF ~ approval.redeemed /\ ~ approval.revoked
       THEN /\ approval' = [approval EXCEPT !.revoked = TRUE]
            /\ said' = TRUE
            /\ UNCHANGED call
       ELSE /\ call' = [call EXCEPT ![q].phase = "following"]
            /\ UNCHANGED <<approval, said>>
  /\ UNCHANGED <<code, installation, dead, member, issued, refresh, lock, client, made, mark, cut>>

(* Mutant: the page reports the code as used and stops. *)
FollowNowhere(q) ==
  /\ call[q].phase = "following"
  /\ said' = TRUE
  /\ call' = [call EXCEPT ![q] = Idle]
  /\ UNCHANGED <<server, client, made, mark, cut>>

FollowApproval(q) ==
  /\ call[q].phase = "following"
  /\ InstallationRevoked
  /\ said' = (said \/ installation # "none")
  /\ call' = [call EXCEPT ![q] = Idle]
  /\ UNCHANGED <<approval, code, member, issued, refresh, lock, client, made, mark, cut>>

LoseAccess ==
  /\ member /\ member' = FALSE
  /\ UNCHANGED <<approval, code, installation, dead, issued, refresh, lock, call, client, ghosts>>

(* A request or its answer is lost, or its process stops: an open transaction rolls back. *)
Crash(q) ==
  /\ call[q].phase # "idle"
  /\ call' = [call EXCEPT ![q] = Idle]
  /\ lock' = IF lock = q THEN Nobody ELSE lock
  /\ UNCHANGED <<approval, code, installation, dead, member, issued, refresh, client, ghosts>>

Sooner(n)     == IF n = 0 THEN 0 ELSE n - 1
Older(n, cap) == IF n < cap THEN n + 1 ELSE n

Tick ==
  /\ \A q \in Calls : call[q].age < CallTime
  /\ approval' = [approval EXCEPT !.left = Sooner(@)]
  /\ code' = [code EXCEPT !.left = Sooner(@)]
  /\ refresh' = [t \in Ids |-> IF refresh[t].status = "spent"
                                 THEN [refresh[t] EXCEPT !.age = Older(@, AgeCap)] ELSE refresh[t]]
  /\ call' = [q \in Calls |-> IF call[q].phase = "idle" THEN call[q]
                                ELSE [call[q] EXCEPT !.age = @ + 1]]
  /\ tried' = IF tried > 0 THEN Older(tried, AgeCap + 1) ELSE 0
  /\ UNCHANGED <<installation, dead, member, issued, lock, held, strayed, ghosts>>

Next ==
  \/ Approve \/ IssueCode \/ LoseAccess \/ Tick
  \/ \E q \in Calls :
       \/ BeginExchange(q) \/ Exchange(q)
       \/ \E t \in Ids : Send(q, t)
       \/ Read(q) \/ Lock(q) \/ CutOff(q) \/ Rotate(q) \/ Receive(q)
       \/ FinishCut(q) \/ Disconnect(q) \/ RevokeTokens(q)
       \/ RevokeApproval(q) \/ FollowApproval(q)
       \/ Crash(q)

(* A request that was accepted goes on, and time passes. *)
Work(q) == \/ Exchange(q) \/ Read(q) \/ Lock(q) \/ CutOff(q) \/ Rotate(q) \/ FinishCut(q)
           \/ RevokeTokens(q) \/ FollowApproval(q)
Fairness == WF_vars(Tick) /\ \A q \in Calls : WF_vars(Work(q))

Spec     == Init /\ [][Next]_vars
FairSpec == Spec /\ Fairness

-----------------------------------------------------------------------------
(* Properties *)

(* One approval makes one installation at most, and one that the owner revoked *)
(* while it was pending makes none, however exchanges and revocations race.    *)
OneIdentity ==
  /\ made <= 1
  /\ approval.revoked => made = 0

(* Once the console has told the owner that an approval is revoked, nothing it *)
(* made is in use: the revocation follows an exchange that won the race        *)
(* (comment at routes/connections.tsx 1704-1707).                              *)
RevokedMeansRevoked == said => installation # "active"

(* Once a refresh token is spent, none issued before that spend can be spent:  *)
(* what earlier replays left is retired (oauth.tsx 826-830).                   *)
NothingOlderIsLive == \A t \in Ids : t <= mark => ~ Live(t)

(* A client that presents only the token it holds, no longer than its patience *)
(* and never beside a call with an older one, is not cut off for reuse, however*)
(* often its calls race or their answers are lost: while the connection lasts, *)
(* the token it holds is one the server answers.                               *)
HonestClientGoesOn ==
  ~ strayed =>
    /\ cut # "reuse"
    /\ held # 0 /\ ~ dead /\ ~ refresh[held].revoked =>
         \/ refresh[held].status = "live"
         \/ refresh[held].status = "spent" /\ ~ LaterSpent(refresh[held])

(* What the comment at oauth.tsx 757-758 and PRODUCT_FLOWS.md 477-478 say: a   *)
(* spent token is answered only while no later token has been spent.           *)
AnsweredUnlessMovedOn ==
  [][\A q \in Calls :
       call[q].phase = "rotating" /\ call'[q].phase = "answering" =>
         LET t == call[q].token IN
         refresh[t].status = "live" \/ ~ \E u \in Ids : refresh[u].status = "spent"
                                              /\ refresh[u].order > refresh[t].order]_vars

(* What PRODUCT_FLOWS.md 475-476 says: reuse disables the installation too.    *)
ReuseEndsInstallation == cut = "reuse" ~> installation = "revoked"
===============================================================================
