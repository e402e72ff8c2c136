------------------------- MODULE ConnectionsProofs -------------------------
(***************************************************************************)
(* Proofs about Connections for any number of calls and tokens and any     *)
(* times: its type invariant, that an approval makes one identity at most, *)
(* that what the console calls revoked is revoked, that a spend leaves no  *)
(* older token live, and that a client which presents its tokens in order  *)
(* and in time is not cut off for reuse.                                   *)
(***************************************************************************)
EXTENDS Connections, TLAPS, FiniteSetTheorems

LEMMA NoTokenType == NoToken \in Token /\ Fresh \in Token
<1>1. 0 \in 0 .. AgeCap /\ 0 \in Nat
  BY TimesAssumption DEF AgeCap
<1> QED BY <1>1 DEF NoToken, Fresh, Token

LEMMA IdleType == Idle \in Call /\ Idle.phase = "idle"
  BY TimesAssumption DEF Idle, Call, Unread, Seen

LEMMA IdleAt == ASSUME NEW ph \in {"cutting", "answering"}, NEW t \in 0 .. MaxTokens, NEW u \in 0 .. MaxTokens
                PROVE  /\ [Idle EXCEPT !.phase = ph] \in Call
                       /\ [Idle EXCEPT !.phase = ph, !.got = u] \in Call
                       /\ [Idle EXCEPT !.phase = ph, !.token = t, !.got = u] \in Call
<1>1. 0 \in 0 .. MaxTokens /\ 0 \in 0 .. CallTime /\ Unread \in Seen
  BY TimesAssumption DEF Unread, Seen
<1> QED BY <1>1, IdleType DEF Idle, Call

LEMMA OrderType == NewOrder \in Nat
<1>1. IsFiniteSet(Ids)
  BY TimesAssumption, FS_Interval DEF Ids
<1>2. IsFiniteSet({t \in Ids : refresh[t].status = "spent"})
  BY <1>1, FS_Subset
<1>3. Cardinality({t \in Ids : refresh[t].status = "spent"}) \in Nat
  BY <1>2, FS_CardinalityType
<1> QED BY <1>3 DEF NewOrder

LEMMA InitType == Init => TypeOK
<1> SUFFICES ASSUME Init PROVE TypeOK
  OBVIOUS
<1>1. approval \in Approval /\ code \in Code
  BY TimesAssumption DEF Init, Approval, Code
<1>2. refresh \in [Ids -> Token] /\ call \in [Calls -> Call]
  BY NoTokenType, IdleType DEF Init
<1>3. \A q \in Calls : lock = q <=> call[q].phase = "rotating"
  BY CallsAssumption, IdleType DEF Init
<1>4. 0 \in 0 .. MaxTokens /\ 0 \in 0 .. AgeCap + 1
  BY TimesAssumption DEF AgeCap
<1> QED BY <1>1, <1>2, <1>3, <1>4 DEF TypeOK, Init

(* A step of one call that neither takes nor gives back the lock. *)
LEMMA CallKeepsLock ==
  ASSUME TypeOK, NEW q \in Calls, NEW x \in Call, x.phase # "rotating", lock # q,
         call' = [call EXCEPT ![q] = x], lock' = lock
  PROVE  call' \in [Calls -> Call] /\ \A p \in Calls : lock' = p <=> call'[p].phase = "rotating"
  BY DEF TypeOK

(* One that gives it back. *)
LEMMA CallUnlocks ==
  ASSUME TypeOK, NEW q \in Calls, NEW x \in Call, x.phase # "rotating", lock = q,
         call' = [call EXCEPT ![q] = x], lock' = Nobody
  PROVE  call' \in [Calls -> Call] /\ \A p \in Calls : lock' = p <=> call'[p].phase = "rotating"
  BY CallsAssumption DEF TypeOK

LEMMA CallFields ==
  ASSUME TypeOK, NEW q \in Calls
  PROVE  /\ call[q] \in Call /\ call[q].token \in 0 .. MaxTokens /\ call[q].seen \in Seen
         /\ call[q].got \in 0 .. MaxTokens /\ call[q].age \in 0 .. CallTime
         /\ lock = q <=> call[q].phase = "rotating"
  BY DEF TypeOK, Call

LEMMA PhaseType ==
  ASSUME TypeOK, NEW q \in Calls,
         NEW ph \in {"idle", "exchanging", "sent", "waiting", "rotating", "cutting", "answering",
                     "revoking", "following"}
  PROVE  [call[q] EXCEPT !.phase = ph] \in Call
  BY CallFields DEF Call

LEMMA RevokedFamilyType == ASSUME TypeOK PROVE RevokedFamily \in [Ids -> Token]
  BY DEF TypeOK, RevokedFamily, Token

-----------------------------------------------------------------------------
(* Type correctness, an action at a time *)

LEMMA ConsentType == TypeOK /\ (Approve \/ IssueCode \/ LoseAccess) => TypeOK'
<1> SUFFICES ASSUME TypeOK, Approve \/ IssueCode \/ LoseAccess PROVE TypeOK'
  OBVIOUS
<1>1. approval' \in Approval
  <2>1. CASE Approve
    <3>1. approval' = [approval EXCEPT !.status = "open", !.left = ApprovalTtl]
      BY <2>1 DEF Approve
    <3>2. ApprovalTtl \in 0 .. ApprovalTtl
      BY TimesAssumption
    <3> QED BY <3>1, <3>2 DEF TypeOK, Approval
  <2> QED BY <2>1 DEF TypeOK, IssueCode, LoseAccess
<1>2. code' \in Code
  BY TimesAssumption DEF TypeOK, Approve, IssueCode, LoseAccess, Code
<1> QED BY <1>1, <1>2 DEF TypeOK, Approve, IssueCode, LoseAccess, client, ghosts

LEMMA BeginExchangeType == ASSUME TypeOK, NEW q \in Calls, BeginExchange(q) PROVE TypeOK'
<1> DEFINE x == [call[q] EXCEPT !.phase = "exchanging"]
<1>1. x \in Call /\ x.phase # "rotating" /\ lock # q
  <2>1. x \in Call
    BY PhaseType
  <2>2. x.phase = "exchanging" /\ call[q].phase = "idle"
    BY CallFields DEF BeginExchange, Call
  <2> QED BY <2>1, <2>2, CallFields
<1>2. call' = [call EXCEPT ![q] = x] /\ lock' = lock
  BY DEF BeginExchange, server
<1>3. call' \in [Calls -> Call] /\ \A p \in Calls : lock' = p <=> call'[p].phase = "rotating"
  BY <1>1, <1>2, CallKeepsLock
<1> QED BY <1>3 DEF TypeOK, BeginExchange, server, client, ghosts

(* What the approval, the installation and the first token have to do with each other. *)
Consistent ==
  /\ made \in {0, 1}
  /\ approval.redeemed <=> made = 1
  /\ installation = "none" <=> made = 0
  /\ made = 0 => issued = 0
  /\ approval.revoked => made = 0
  /\ said => approval.revoked \/ installation = "revoked"
  /\ \A q \in Calls : call[q].phase = "following" => approval.redeemed \/ approval.revoked

LEMMA ExchangeType == ASSUME TypeOK, Consistent, NEW q \in Calls, Exchange(q) PROVE TypeOK'
<1>1. lock # q /\ lock' = lock
  BY CallFields, CallsAssumption DEF Exchange
<1>2. code' \in Code
  BY DEF TypeOK, Exchange, Code
<1>3. CASE CodeGood /\ Redeemable
  <2>1. issued = 0 /\ issued + 1 \in Ids
    BY <1>3, TimesAssumption DEF Consistent, Redeemable, TypeOK, Ids
  <2>2. issued' = issued + 1 /\ refresh' = [refresh EXCEPT ![issued + 1] = Fresh]
        /\ made' = made + 1 /\ installation' = "active"
        /\ approval' = [approval EXCEPT !.redeemed = TRUE]
        /\ call' = [call EXCEPT ![q] = [Idle EXCEPT !.phase = "answering", !.got = issued + 1]]
    BY <1>3 DEF Exchange
  <2>3. refresh' \in [Ids -> Token]
    BY <2>2, NoTokenType DEF TypeOK
  <2>4. approval' \in Approval
    BY <2>2 DEF TypeOK, Approval
  <2>5. issued + 1 \in 0 .. MaxTokens /\ 0 \in 0 .. MaxTokens
    BY <2>1, TimesAssumption DEF Ids
  <2>6. [Idle EXCEPT !.phase = "answering", !.got = issued + 1] \in Call
    BY <2>5, IdleAt
  <2>7. [Idle EXCEPT !.phase = "answering", !.got = issued + 1].phase # "rotating"
    BY DEF Idle
  <2>8. call' \in [Calls -> Call] /\ \A p \in Calls : lock' = p <=> call'[p].phase = "rotating"
    BY <1>1, <2>2, <2>6, <2>7, CallKeepsLock
  <2>9. made' \in Nat /\ issued' \in 0 .. MaxTokens
    BY <2>2, <2>5 DEF TypeOK
  <2> QED BY <1>1, <1>2, <2>2, <2>3, <2>4, <2>8, <2>9 DEF TypeOK, Exchange, client
<1>4. CASE ~ (CodeGood /\ Redeemable)
  <2>1. call' = [call EXCEPT ![q] = Idle]
    BY <1>4 DEF Exchange
  <2>2. call' \in [Calls -> Call] /\ \A p \in Calls : lock' = p <=> call'[p].phase = "rotating"
    BY <1>1, <2>1, IdleType, CallKeepsLock
  <2> QED BY <1>1, <1>2, <1>4, <2>2 DEF TypeOK, Exchange, client
<1> QED BY <1>3, <1>4

(* A call that does something with the lock free or held by another, and goes on to *)
(* a phase without the lock.                                                        *)
LEMMA PhaseStep ==
  ASSUME TypeOK, NEW q \in Calls, lock' = lock, call[q].phase # "rotating",
         NEW ph \in {"idle", "exchanging", "sent", "waiting", "cutting", "answering", "revoking", "following"},
         call' = [call EXCEPT ![q].phase = ph]
  PROVE  call' \in [Calls -> Call] /\ \A p \in Calls : lock' = p <=> call'[p].phase = "rotating"
<1> DEFINE x == [call[q] EXCEPT !.phase = ph]
<1>1. x \in Call /\ lock # q
  BY PhaseType, CallFields
<1>2. x.phase = ph
  BY CallFields DEF Call
<1>3. call' = [call EXCEPT ![q] = x]
  OBVIOUS
<1> QED BY <1>1, <1>2, <1>3, CallKeepsLock

LEMMA SendType == ASSUME TypeOK, NEW q \in Calls, NEW t \in Ids, Send(q, t) PROVE TypeOK'
<1> DEFINE x == [call[q] EXCEPT !.phase = "sent", !.token = t]
<1>1. x \in Call /\ x.phase = "sent" /\ call[q].phase = "idle"
  <2>1. t \in 0 .. MaxTokens
    BY TimesAssumption DEF Ids
  <2> QED BY <2>1, CallFields DEF Send, Call
<1>2. call' = [call EXCEPT ![q] = x] /\ lock' = lock
  BY DEF Send, server
<1>3. call' \in [Calls -> Call] /\ \A p \in Calls : lock' = p <=> call'[p].phase = "rotating"
  BY <1>1, <1>2, CallFields, CallKeepsLock
<1>4. tried' \in 0 .. AgeCap + 1 /\ strayed' \in BOOLEAN
  BY TimesAssumption DEF Send, TypeOK, AgeCap
<1> QED BY <1>3, <1>4 DEF TypeOK, Send, server, ghosts

LEMMA ReadType == ASSUME TypeOK, NEW q \in Calls, call[q].token \in Ids, Read(q) PROVE TypeOK'
<1> DEFINE t == call[q].token
           s == [status |-> refresh[t].status, order |-> refresh[t].order]
           y == [call[q] EXCEPT !.phase = "waiting", !.seen = s]
           x == IF dead \/ refresh[t].revoked THEN Idle ELSE y
<1>1. s \in Seen
  BY DEF TypeOK, Token, Seen
<1>2. y \in Call /\ y.phase = "waiting" /\ call[q].phase = "sent"
  BY <1>1, CallFields DEF Read, Call
<1>3. x \in Call /\ x.phase # "rotating" /\ lock # q
  BY <1>2, IdleType, CallFields
<1>4. call' = [call EXCEPT ![q] = x] /\ lock' = lock
  BY DEF Read, server
<1>5. call' \in [Calls -> Call] /\ \A p \in Calls : lock' = p <=> call'[p].phase = "rotating"
  BY <1>3, <1>4, CallKeepsLock
<1> QED BY <1>5 DEF TypeOK, Read, server, client, ghosts

LEMMA LockType == ASSUME TypeOK, NEW q \in Calls, Lock(q) PROVE TypeOK'
<1> DEFINE x == [call[q] EXCEPT !.phase = "rotating", !.verdict = Verdict(q)]
<1>1. Verdict(q) \in {"reuse", "lost", "replay", "spend"}
  BY DEF Verdict
<1>2. x \in Call /\ x.phase = "rotating"
  BY <1>1, CallFields DEF Call
<1>3. call' = [call EXCEPT ![q] = x] /\ lock' = q /\ lock = Nobody
  BY DEF Lock
<1>4. call' \in [Calls -> Call] /\ \A p \in Calls : lock' = p <=> call'[p].phase = "rotating"
  BY <1>2, <1>3, CallsAssumption DEF TypeOK
<1> QED BY <1>3, <1>4 DEF TypeOK, Lock, client, ghosts

LEMMA CutOffType == ASSUME TypeOK, NEW q \in Calls, CutOff(q) PROVE TypeOK'
<1>1. [Idle EXCEPT !.phase = "cutting"] \in Call /\ [Idle EXCEPT !.phase = "cutting"].phase = "cutting"
  <2>1. 0 \in 0 .. MaxTokens
    BY TimesAssumption
  <2>2. [Idle EXCEPT !.phase = "cutting"] \in Call
    BY <2>1, IdleAt
  <2> QED BY <2>2 DEF Idle
<1>2. lock = q /\ lock' = Nobody /\ call' = [call EXCEPT ![q] = [Idle EXCEPT !.phase = "cutting"]]
  BY CallFields DEF CutOff
<1>3. call' \in [Calls -> Call] /\ \A p \in Calls : lock' = p <=> call'[p].phase = "rotating"
  BY <1>1, <1>2, CallUnlocks
<1>4. refresh' \in [Ids -> Token] /\ cut' \in {"no", "reuse", "lost"}
  BY RevokedFamilyType DEF CutOff
<1> QED BY <1>2, <1>3, <1>4 DEF TypeOK, CutOff, client

LEMMA SpendType == ASSUME TypeOK, NEW t \in Ids PROVE Spend(t) \in [Ids -> Token]
<1>1. Spent(t) \in Token
  <2>1. 0 \in 0 .. AgeCap
    BY TimesAssumption DEF AgeCap
  <2> QED BY <2>1, OrderType DEF Spent, TypeOK, Token
<1>2. \A u \in Ids : [refresh[u] EXCEPT !.status = "retired"] \in Token
  BY DEF TypeOK, Token
<1> QED BY <1>1, <1>2 DEF Spend, TypeOK

LEMMA RotateType == ASSUME TypeOK, NEW q \in Calls, call[q].token \in Ids, issued < MaxTokens, Rotate(q)
                    PROVE TypeOK'
<1> DEFINE t == call[q].token
           spends == call[q].verdict = "spend" /\ Live(t)
           base == IF spends THEN Spend(t) ELSE refresh
<1>1. lock = q /\ lock' = Nobody
  BY CallFields DEF Rotate
<1>2. issued + 1 \in Ids /\ issued + 1 \in 0 .. MaxTokens /\ issued \in 0 .. MaxTokens
  BY TimesAssumption DEF TypeOK, Ids
<1>3. base \in [Ids -> Token]
  BY SpendType DEF TypeOK
<1>4. \/ /\ refresh' = [base EXCEPT ![issued + 1] = Fresh]
         /\ issued' = issued + 1
         /\ mark' = (IF spends THEN issued ELSE mark)
         /\ call' = Answered(q)
      \/ /\ UNCHANGED <<refresh, issued, mark>>
         /\ call' = [call EXCEPT ![q] = Idle]
  BY DEF Rotate
<1>5. CASE UNCHANGED <<refresh, issued, mark>> /\ call' = [call EXCEPT ![q] = Idle]
  <2>1. call' \in [Calls -> Call] /\ \A p \in Calls : lock' = p <=> call'[p].phase = "rotating"
    BY <1>1, <1>5, IdleType, CallUnlocks
  <2> QED BY <1>1, <1>5, <2>1 DEF TypeOK, Rotate, client
<1>6. CASE /\ refresh' = [base EXCEPT ![issued + 1] = Fresh]
           /\ issued' = issued + 1
           /\ mark' = (IF spends THEN issued ELSE mark)
           /\ call' = Answered(q)
  <2>1. refresh' \in [Ids -> Token]
    BY <1>3, <1>6, NoTokenType
  <2> DEFINE x == [Idle EXCEPT !.phase = "answering", !.token = t, !.got = issued + 1]
  <2>2. x \in Call
    BY <1>2, CallFields, IdleAt
  <2>3. x.phase = "answering"
    BY DEF Idle
  <2>4. call' = [call EXCEPT ![q] = x]
    BY <1>6 DEF Answered
  <2>5. call' \in [Calls -> Call] /\ \A p \in Calls : lock' = p <=> call'[p].phase = "rotating"
    BY <1>1, <2>2, <2>3, <2>4, CallUnlocks
  <2> QED BY <1>1, <1>2, <1>6, <2>1, <2>5 DEF TypeOK, Rotate, client
<1> QED BY <1>4, <1>5, <1>6

LEMMA ReceiveType == ASSUME TypeOK, NEW q \in Calls, Receive(q) PROVE TypeOK'
<1>1. lock # q /\ lock' = lock /\ call' = [call EXCEPT ![q] = Idle]
  BY CallFields DEF Receive, server
<1>2. call' \in [Calls -> Call] /\ \A p \in Calls : lock' = p <=> call'[p].phase = "rotating"
  BY <1>1, IdleType, CallKeepsLock
<1>3. held' \in 0 .. MaxTokens /\ tried' \in 0 .. AgeCap + 1
  BY CallFields, TimesAssumption DEF Receive, AgeCap
<1> QED BY <1>2, <1>3 DEF TypeOK, Receive, server, ghosts

(* The steps that end a connection from a phase without the lock. *)
LEMMA EndingType ==
  ASSUME TypeOK, NEW q \in Calls,
         FinishCut(q) \/ Disconnect(q) \/ RevokeTokens(q) \/ RevokeApproval(q) \/ FollowApproval(q)
  PROVE  TypeOK'
<1>1. call[q].phase # "rotating" /\ lock # q /\ lock' = lock
  BY CallFields DEF FinishCut, Disconnect, RevokeTokens, RevokeApproval, FollowApproval
<1>2. \/ call' = call \/ call' = [call EXCEPT ![q] = Idle]
      \/ call' = [call EXCEPT ![q].phase = "revoking"] \/ call' = [call EXCEPT ![q].phase = "following"]
  BY DEF FinishCut, Disconnect, RevokeTokens, RevokeApproval, FollowApproval
<1>3. call' \in [Calls -> Call] /\ \A p \in Calls : lock' = p <=> call'[p].phase = "rotating"
  <2>1. CASE call' = call
    BY <1>1, <2>1 DEF TypeOK
  <2>2. CASE call' = [call EXCEPT ![q] = Idle]
    BY <1>1, <2>2, IdleType, CallKeepsLock
  <2>3. CASE call' = [call EXCEPT ![q].phase = "revoking"]
    BY <1>1, <2>3, PhaseStep
  <2>4. CASE call' = [call EXCEPT ![q].phase = "following"]
    BY <1>1, <2>4, PhaseStep
  <2> QED BY <1>2, <2>1, <2>2, <2>3, <2>4
<1>4. installation' \in {"none", "active", "revoked"} /\ dead' \in BOOLEAN
  BY DEF TypeOK, InstallationRevoked, FinishCut, Disconnect, RevokeTokens, RevokeApproval, FollowApproval
<1>5. refresh' \in [Ids -> Token]
  BY RevokedFamilyType
     DEF TypeOK, FinishCut, Disconnect, RevokeTokens, RevokeApproval, FollowApproval
<1>6. approval' \in Approval /\ said' \in BOOLEAN
  BY DEF TypeOK, Approval, FinishCut, Disconnect, RevokeTokens, RevokeApproval, FollowApproval, ghosts
<1>7. UNCHANGED <<code, member, issued, lock, held, tried, strayed, made, mark, cut>>
  BY <1>1 DEF FinishCut, Disconnect, RevokeTokens, RevokeApproval, FollowApproval, client, ghosts
<1> QED BY <1>3, <1>4, <1>5, <1>6, <1>7 DEF TypeOK

LEMMA CrashType == ASSUME TypeOK, NEW q \in Calls, Crash(q) PROVE TypeOK'
<1>1. call' = [call EXCEPT ![q] = Idle] /\ lock' = (IF lock = q THEN Nobody ELSE lock)
  BY DEF Crash
<1>2. call' \in [Calls -> Call] /\ \A p \in Calls : lock' = p <=> call'[p].phase = "rotating"
  BY <1>1, IdleType, CallKeepsLock, CallUnlocks
<1>3. lock' \in Calls \cup {Nobody}
  BY <1>1 DEF TypeOK
<1> QED BY <1>2, <1>3 DEF TypeOK, Crash, client, ghosts

LEMMA TickType == TypeOK /\ Tick => TypeOK'
<1> SUFFICES ASSUME TypeOK, Tick PROVE TypeOK'
  OBVIOUS
<1>1. \A n \in Nat : Sooner(n) \in 0 .. n
  BY DEF Sooner
<1>2. approval' \in Approval /\ code' \in Code
  <2>1. Sooner(approval.left) \in 0 .. ApprovalTtl
    BY <1>1, TimesAssumption DEF TypeOK, Approval
  <2>2. Sooner(code.left) \in 0 .. CodeTtl
    BY <1>1, TimesAssumption DEF TypeOK, Code
  <2>3. approval' = [approval EXCEPT !.left = Sooner(approval.left)] /\ code' = [code EXCEPT !.left = Sooner(code.left)]
    BY DEF Tick
  <2>4. approval' \in Approval
    BY <2>1, <2>3 DEF TypeOK, Approval
  <2> QED BY <2>2, <2>3, <2>4 DEF TypeOK, Code
<1>3. refresh' \in [Ids -> Token]
  <2>1. \A t \in Ids : Older(refresh[t].age, AgeCap) \in 0 .. AgeCap
    BY TimesAssumption DEF TypeOK, Token, Older, AgeCap
  <2>2. \A t \in Ids : [refresh[t] EXCEPT !.age = Older(refresh[t].age, AgeCap)] \in Token
    BY <2>1 DEF TypeOK, Token
  <2> QED BY <2>2 DEF TypeOK, Tick
<1>4. \A q \in Calls : [call[q] EXCEPT !.age = call[q].age + 1] \in Call
                       /\ [call[q] EXCEPT !.age = call[q].age + 1].phase = call[q].phase
  BY CallFields, TimesAssumption DEF Tick, Call
<1>5. call' \in [Calls -> Call] /\ \A p \in Calls : call'[p].phase = call[p].phase
  BY <1>4 DEF Tick, TypeOK
<1>6. tried' \in 0 .. AgeCap + 1
  BY TimesAssumption DEF Tick, TypeOK, Older, AgeCap
<1> QED BY <1>2, <1>3, <1>5, <1>6 DEF TypeOK, Tick, ghosts

-----------------------------------------------------------------------------
(* The inductive invariant *)

(* A call that presents a token presents one that was issued, and one that holds the *)
(* owner's row left room for a token when it took it.                                *)
AtWork ==
  \A q \in Calls :
    /\ Refreshing(q) => call[q].token \in 1 .. issued
    /\ call[q].phase = "rotating" => issued < MaxTokens

(* Tokens are numbered as they are issued, and those up to the mark are over. *)
Numbered ==
  /\ \A t \in Ids : t > issued => refresh[t] = NoToken
  /\ mark <= issued
  /\ NothingOlderIsLive

Inv == TypeOK /\ Consistent /\ AtWork /\ Numbered

LEMMA InitInv == Init => Inv
<1> SUFFICES ASSUME Init PROVE Inv
  OBVIOUS
<1>1. TypeOK
  BY InitType
<1>2. \A q \in Calls : call[q].phase = "idle"
  BY IdleType DEF Init
<1>3. Consistent
  BY <1>2 DEF Init, Consistent
<1>4. AtWork
  BY <1>2 DEF AtWork, Refreshing
<1>5. Numbered
  BY DEF Init, Numbered, NothingOlderIsLive, Live, NoToken
<1> QED BY <1>1, <1>3, <1>4, <1>5 DEF Inv

LEMMA IssuedType == TypeOK => issued \in 0 .. MaxTokens /\ \A t \in 1 .. issued : t \in Ids
<1> SUFFICES ASSUME TypeOK PROVE issued \in 0 .. MaxTokens /\ \A t \in 1 .. issued : t \in Ids
  OBVIOUS
<1>1. issued \in 0 .. MaxTokens /\ MaxTokens \in Nat
  BY TimesAssumption DEF TypeOK
<1> QED BY <1>1 DEF Ids

LEMMA NextType == ASSUME Inv, Next PROVE TypeOK'
<1> USE DEF Inv
<1>1. CASE Approve \/ IssueCode \/ LoseAccess
  BY <1>1, ConsentType
<1>2. CASE Tick
  BY <1>2, TickType
<1>3. ASSUME NEW q \in Calls, BeginExchange(q) PROVE TypeOK'
  BY <1>3, BeginExchangeType
<1>4. ASSUME NEW q \in Calls, Exchange(q) PROVE TypeOK'
  BY <1>4, ExchangeType
<1>5. ASSUME NEW q \in Calls, NEW t \in Ids, Send(q, t) PROVE TypeOK'
  BY <1>5, SendType
<1>6. ASSUME NEW q \in Calls, Read(q) PROVE TypeOK'
  <2>1. call[q].token \in Ids
    BY <1>6, IssuedType DEF AtWork, Refreshing, Read
  <2> QED BY <1>6, <2>1, ReadType
<1>7. ASSUME NEW q \in Calls, Lock(q) PROVE TypeOK'
  BY <1>7, LockType
<1>8. ASSUME NEW q \in Calls, CutOff(q) PROVE TypeOK'
  BY <1>8, CutOffType
<1>9. ASSUME NEW q \in Calls, Rotate(q) PROVE TypeOK'
  <2>1. call[q].token \in Ids /\ issued < MaxTokens
    BY <1>9, IssuedType DEF AtWork, Refreshing, Rotate
  <2> QED BY <1>9, <2>1, RotateType
<1>10. ASSUME NEW q \in Calls, Receive(q) PROVE TypeOK'
  BY <1>10, ReceiveType
<1>11. ASSUME NEW q \in Calls,
              FinishCut(q) \/ Disconnect(q) \/ RevokeTokens(q) \/ RevokeApproval(q) \/ FollowApproval(q)
       PROVE  TypeOK'
  BY <1>11, EndingType
<1>12. ASSUME NEW q \in Calls, Crash(q) PROVE TypeOK'
  BY <1>12, CrashType
<1> QED BY <1>1, <1>2, <1>3, <1>4, <1>5, <1>6, <1>7, <1>8, <1>9, <1>10, <1>11, <1>12 DEF Next

(* Every call but the one that takes the step stays in its phase. *)
LEMMA OthersKeep ==
  ASSUME TypeOK, NEW q \in Calls, NEW x, call' = [call EXCEPT ![q] = x]
  PROVE  call'[q] = x /\ \A p \in Calls \ {q} : call'[p] = call[p]
  BY DEF TypeOK

LEMMA ConsistentKept == ASSUME Inv, Next PROVE Consistent'
<1> USE DEF Inv
<1>1. CASE Approve \/ IssueCode \/ LoseAccess
  <2>1. approval'.redeemed = approval.redeemed /\ approval'.revoked = approval.revoked
    BY <1>1 DEF Approve, IssueCode, LoseAccess, TypeOK, Approval
  <2>2. UNCHANGED <<installation, made, issued, said, call>>
    BY <1>1 DEF Approve, IssueCode, LoseAccess, ghosts
  <2> QED BY <2>1, <2>2 DEF Consistent
<1>2. CASE Tick
  <2>1. \A p \in Calls : call'[p].phase = call[p].phase
    BY <1>2, CallFields DEF Tick, Call
  <2>2. approval'.redeemed = approval.redeemed /\ approval'.revoked = approval.revoked
    BY <1>2 DEF Tick, TypeOK, Approval
  <2> QED BY <1>2, <2>1, <2>2 DEF Consistent, Tick, ghosts
<1>3. ASSUME NEW q \in Calls, Exchange(q) PROVE Consistent'
  <2>1. \A p \in Calls : call'[p].phase = "following" => call[p].phase = "following"
    <3>1. \/ call' = [call EXCEPT ![q] = Idle]
          \/ call' = [call EXCEPT ![q] = [Idle EXCEPT !.phase = "answering", !.got = issued + 1]]
      BY <1>3 DEF Exchange
    <3>2. [Idle EXCEPT !.phase = "answering", !.got = issued + 1].phase = "answering"
      BY DEF Idle
    <3>3. call'[q].phase # "following" /\ \A p \in Calls \ {q} : call'[p] = call[p]
      <4>1. CASE call' = [call EXCEPT ![q] = Idle]
        <5>1. call'[q] = Idle /\ \A p \in Calls \ {q} : call'[p] = call[p]
          BY <4>1, OthersKeep
        <5> QED BY <5>1, IdleType
      <4>2. CASE call' = [call EXCEPT ![q] = [Idle EXCEPT !.phase = "answering", !.got = issued + 1]]
        <5> DEFINE next == [Idle EXCEPT !.phase = "answering", !.got = issued + 1]
        <5>1. call'[q] = next /\ \A p \in Calls \ {q} : call'[p] = call[p]
          BY <4>2, OthersKeep
        <5> QED BY <5>1, <3>2
      <4> QED BY <3>1, <4>1, <4>2
    <3> QED BY <3>3
  <2>2. CASE CodeGood /\ Redeemable
    <3>1. approval'.redeemed = TRUE /\ approval'.revoked = approval.revoked
      BY <1>3, <2>2 DEF Exchange, TypeOK, Approval
    <3>2. approval.redeemed = FALSE /\ approval.revoked = FALSE
      BY <2>2 DEF Redeemable, TypeOK, Approval
    <3>3. made = 0 /\ made' = 1 /\ installation' = "active" /\ ~ said /\ said' = said
      BY <1>3, <2>2, <3>2 DEF Exchange, Consistent, TypeOK
    <3> QED BY <2>1, <3>1, <3>2, <3>3 DEF Consistent
  <2>3. CASE ~ (CodeGood /\ Redeemable)
    BY <1>3, <2>1, <2>3 DEF Exchange, Consistent
  <2> QED BY <2>2, <2>3
<1>4. ASSUME NEW q \in Calls,
             BeginExchange(q) \/ (\E t \in Ids : Send(q, t)) \/ Read(q) \/ Lock(q) \/ CutOff(q) \/ Receive(q)
               \/ Crash(q)
      PROVE  Consistent'
  <2>1. UNCHANGED <<approval, installation, made, issued, said>>
    BY <1>4 DEF BeginExchange, Send, Read, Lock, CutOff, Receive, Crash, server, ghosts
  <2>2. \A p \in Calls : call'[p].phase = "following" => call[p].phase = "following"
    <3>1. \A p \in Calls \ {q} : call'[p] = call[p]
      BY <1>4 DEF BeginExchange, Send, Read, Lock, CutOff, Receive, Crash, TypeOK
    <3>2. call'[q].phase # "following"
      <4>1. CASE BeginExchange(q) \/ Receive(q) \/ Crash(q)
        BY <4>1, CallFields, IdleType DEF BeginExchange, Receive, Crash, TypeOK, Call
      <4>2. CASE \E t \in Ids : Send(q, t)
        BY <4>2, CallFields DEF Send, TypeOK, Call
      <4>3. CASE Read(q)
        BY <4>3, CallFields, IdleType DEF Read, TypeOK, Call
      <4>4. CASE Lock(q)
        BY <4>4, CallFields DEF Lock, TypeOK, Call
      <4>5. CASE CutOff(q)
        BY <4>5 DEF CutOff, TypeOK, Idle
      <4> QED BY <1>4, <4>1, <4>2, <4>3, <4>4, <4>5
    <3> QED BY <3>1, <3>2
  <2> QED BY <2>1, <2>2 DEF Consistent
<1>5. ASSUME NEW q \in Calls, Rotate(q) PROVE Consistent'
  <2>1. UNCHANGED <<approval, installation, made, said>> /\ (issued' = issued \/ issued' = issued + 1)
    BY <1>5 DEF Rotate
  <2>2. \A p \in Calls \ {q} : call'[p] = call[p]
    BY <1>5 DEF Rotate, Answered, TypeOK
  <2>3. call'[q].phase # "following"
    BY <1>5, IdleType DEF Rotate, Answered, TypeOK, Idle
  <2>4. made # 0
    BY <1>5 DEF AtWork, Refreshing, Rotate, Consistent
  <2> QED BY <2>1, <2>2, <2>3, <2>4 DEF Consistent
<1>6. ASSUME NEW q \in Calls, FinishCut(q) \/ Disconnect(q) \/ RevokeTokens(q) PROVE Consistent'
  <2>1. UNCHANGED <<approval, made, issued, said>>
    BY <1>6 DEF FinishCut, Disconnect, RevokeTokens, ghosts
  <2>2. installation' = installation \/ (installation = "active" /\ installation' = "revoked")
    BY <1>6 DEF FinishCut, Disconnect, RevokeTokens, InstallationRevoked
  <2>3. \A p \in Calls \ {q} : call'[p] = call[p]
    BY <1>6 DEF FinishCut, Disconnect, RevokeTokens, TypeOK
  <2>4. call'[q].phase = "following" => call[q].phase = "following"
    BY <1>6, CallFields, IdleType DEF FinishCut, Disconnect, RevokeTokens, TypeOK, Call
  <2> QED BY <2>1, <2>2, <2>3, <2>4 DEF Consistent
<1>7. ASSUME NEW q \in Calls, RevokeApproval(q) PROVE Consistent'
  <2>1. UNCHANGED <<installation, made, issued>>
    BY <1>7 DEF RevokeApproval
  <2>2. CASE ~ approval.redeemed /\ ~ approval.revoked
    <3>1. approval'.revoked = TRUE /\ approval'.redeemed = approval.redeemed /\ call' = call
      BY <1>7, <2>2 DEF RevokeApproval, TypeOK, Approval
    <3> QED BY <2>1, <2>2, <3>1 DEF Consistent
  <2>3. CASE approval.redeemed \/ approval.revoked
    <3>1. UNCHANGED <<approval, said>>
      BY <1>7, <2>3 DEF RevokeApproval
    <3> QED BY <2>1, <2>3, <3>1 DEF Consistent
  <2> QED BY <2>2, <2>3 DEF TypeOK, Approval
<1>8. ASSUME NEW q \in Calls, FollowApproval(q) PROVE Consistent'
  <2>1. UNCHANGED <<approval, made, issued>>
    BY <1>8 DEF FollowApproval
  <2>2. installation' = (IF installation = "active" THEN "revoked" ELSE installation)
    BY <1>8 DEF FollowApproval, InstallationRevoked
  <2>3. said' = (said \/ installation # "none")
    BY <1>8 DEF FollowApproval
  <2>4. \A p \in Calls : call'[p].phase = "following" => call[p].phase = "following"
    BY <1>8, IdleType, OthersKeep DEF FollowApproval
  <2> QED BY <2>1, <2>2, <2>3, <2>4 DEF Consistent, TypeOK
<1> QED BY <1>1, <1>2, <1>3, <1>4, <1>5, <1>6, <1>7, <1>8 DEF Next

(* A call that is not taking a step keeps its part of AtWork while no token is issued *)
(* beside it; one is issued under the lock, or when there was none before.             *)
LEMMA AtWorkKept == ASSUME Inv, Next PROVE AtWork'
<1> USE DEF Inv
<1> DEFINE Good(p, n) == /\ p.phase \in {"sent", "waiting", "rotating"} => p.token \in 1 .. n
                         /\ p.phase = "rotating" => n < MaxTokens
<1>0. /\ AtWork <=> \A p \in Calls : Good(call[p], issued)
      /\ AtWork' <=> \A p \in Calls : Good(call'[p], issued')
  BY DEF AtWork, Refreshing
<1>1. CASE Approve \/ IssueCode \/ LoseAccess
  BY <1>0, <1>1 DEF Approve, IssueCode, LoseAccess
<1>2. CASE Tick
  <2>1. \A p \in Calls : call'[p].phase = call[p].phase /\ call'[p].token = call[p].token
    BY <1>2, CallFields DEF Tick, Call
  <2> QED BY <1>0, <1>2, <2>1 DEF Tick
<1>3. ASSUME NEW q \in Calls, issued' = issued, NEW x, call' = [call EXCEPT ![q] = x], Good(x, issued)
      PROVE  AtWork'
  BY <1>0, <1>3, OthersKeep
<1>4. Good(Idle, issued) /\ Idle.phase = "idle"
  BY DEF Idle
<1>5. ASSUME NEW q \in Calls, issued' = issued, call' = [call EXCEPT ![q] = Idle] PROVE AtWork'
  BY <1>3, <1>4, <1>5
<1>6. ASSUME NEW q \in Calls, issued' = issued, NEW ph \in {"exchanging", "revoking", "following"},
             call' = [call EXCEPT ![q].phase = ph]
      PROVE  AtWork'
  <2>1. Good([call[q] EXCEPT !.phase = ph], issued)
    BY CallFields DEF Call
  <2> QED BY <1>3, <1>6, <2>1
<1>7. ASSUME NEW q \in Calls, BeginExchange(q) PROVE AtWork'
  BY <1>6, <1>7 DEF BeginExchange, server
<1>8. ASSUME NEW q \in Calls, Exchange(q) PROVE AtWork'
  <2>1. CASE CodeGood /\ Redeemable
    <3>1. issued = 0
      BY <2>1 DEF Consistent, Redeemable, TypeOK, Approval
    <3>2. \A p \in Calls : call[p].phase \notin {"sent", "waiting", "rotating"}
      BY <1>0, <3>1
    <3>3. call' = [call EXCEPT ![q] = [Idle EXCEPT !.phase = "answering", !.got = issued + 1]]
      BY <1>8, <2>1 DEF Exchange
    <3>4. [Idle EXCEPT !.phase = "answering", !.got = issued + 1].phase = "answering"
      BY DEF Idle
    <3>5. \A p \in Calls : call'[p].phase \notin {"sent", "waiting", "rotating"}
      BY <3>2, <3>3, <3>4, OthersKeep
    <3> QED BY <1>0, <3>5
  <2>2. CASE ~ (CodeGood /\ Redeemable)
    BY <1>5, <1>8, <2>2 DEF Exchange
  <2> QED BY <2>1, <2>2
<1>9. ASSUME NEW q \in Calls, NEW t \in Ids, Send(q, t) PROVE AtWork'
  <2> DEFINE x == [call[q] EXCEPT !.phase = "sent", !.token = t]
  <2>1. t \in 1 .. issued
    BY <1>9, IssuedType, TimesAssumption DEF Send, Ids
  <2>2. Good(x, issued)
    BY <2>1, CallFields DEF Call
  <2> QED BY <1>3, <1>9, <2>2 DEF Send, server
<1>10. ASSUME NEW q \in Calls, Read(q) PROVE AtWork'
  <2> DEFINE t == call[q].token
             s == [status |-> refresh[t].status, order |-> refresh[t].order]
             y == [call[q] EXCEPT !.phase = "waiting", !.seen = s]
             x == IF dead \/ refresh[t].revoked THEN Idle ELSE y
  <2>1. call[q].token \in 1 .. issued
    BY <1>0, <1>10 DEF Read
  <2>2. Good(y, issued)
    BY <2>1, CallFields DEF Call
  <2>3. Good(x, issued)
    BY <1>4, <2>2
  <2> QED BY <1>3, <1>10, <2>3 DEF Read, server
<1>11. ASSUME NEW q \in Calls, Lock(q) PROVE AtWork'
  <2> DEFINE x == [call[q] EXCEPT !.phase = "rotating", !.verdict = Verdict(q)]
  <2>1. call[q].token \in 1 .. issued /\ issued < MaxTokens
    BY <1>0, <1>11 DEF Lock
  <2>2. Good(x, issued)
    BY <2>1, CallFields DEF Call
  <2> QED BY <1>3, <1>11, <2>2 DEF Lock
<1>12. ASSUME NEW q \in Calls, CutOff(q) PROVE AtWork'
  <2>1. Good([Idle EXCEPT !.phase = "cutting"], issued)
    BY DEF Idle
  <2> QED BY <1>3, <1>12, <2>1 DEF CutOff
<1>13. ASSUME NEW q \in Calls, Rotate(q) PROVE AtWork'
  <2>1. CASE call' = [call EXCEPT ![q] = Idle] /\ issued' = issued
    BY <1>5, <2>1
  <2>2. CASE call' = Answered(q) /\ issued' = issued + 1
    <3> DEFINE x == [Idle EXCEPT !.phase = "answering", !.token = call[q].token, !.got = issued + 1]
    <3>1. call' = [call EXCEPT ![q] = x] /\ x.phase = "answering"
      BY <2>2 DEF Answered, Idle
    <3>2. \A p \in Calls \ {q} : call[p].phase # "rotating"
      BY <1>13, CallFields DEF Rotate
    <3>3. issued \in Nat
      BY IssuedType
    <3>4. \A p \in Calls \ {q} : Good(call'[p], issued')
      BY <1>0, <2>2, <3>1, <3>2, <3>3, OthersKeep
    <3> QED BY <1>0, <3>1, <3>4, OthersKeep
  <2> QED BY <1>13, <2>1, <2>2 DEF Rotate
<1>14. ASSUME NEW q \in Calls, Receive(q) \/ Crash(q) \/ FinishCut(q) \/ RevokeTokens(q) \/ FollowApproval(q)
       PROVE  AtWork'
  BY <1>5, <1>14 DEF Receive, Crash, FinishCut, RevokeTokens, FollowApproval, server
<1>15. ASSUME NEW q \in Calls, Disconnect(q) \/ RevokeApproval(q) PROVE AtWork'
  BY <1>0, <1>6, <1>15 DEF Disconnect, RevokeApproval
<1> QED BY <1>1, <1>2, <1>7, <1>8, <1>9, <1>10, <1>11, <1>12, <1>13, <1>14, <1>15 DEF Next

LEMMA NumberedKept == ASSUME Inv, Next PROVE Numbered'
<1> USE DEF Inv
<1>0. issued \in 0 .. MaxTokens /\ mark \in 0 .. MaxTokens /\ MaxTokens \in Nat
  BY TimesAssumption DEF TypeOK
<1>1. ASSUME NEW q \in Calls, Exchange(q) PROVE Numbered'
  <2>1. CASE CodeGood /\ Redeemable
    <3>1. issued = 0 /\ mark = 0 /\ mark' = mark
      BY <1>0, <1>1, <2>1 DEF Exchange, Consistent, Redeemable, Numbered
    <3>2. issued' = issued + 1 /\ refresh' = [refresh EXCEPT ![issued + 1] = Fresh]
      BY <1>1, <2>1 DEF Exchange
    <3>3. \A t \in Ids : t # issued + 1 => refresh'[t] = refresh[t]
      BY <3>2 DEF TypeOK
    <3> QED BY <1>0, <3>1, <3>2, <3>3 DEF Numbered, NothingOlderIsLive, Live, Ids
  <2>2. CASE ~ (CodeGood /\ Redeemable)
    BY <1>1, <2>2 DEF Exchange, Numbered, NothingOlderIsLive, Live
  <2> QED BY <2>1, <2>2
<1>2. ASSUME NEW q \in Calls, Rotate(q) PROVE Numbered'
  <2> DEFINE t == call[q].token
             spends == call[q].verdict = "spend" /\ Live(t)
             base == IF spends THEN Spend(t) ELSE refresh
  <2>1. CASE UNCHANGED <<refresh, issued, mark>>
    BY <2>1 DEF Numbered, NothingOlderIsLive, Live
  <2>2. CASE /\ refresh' = [base EXCEPT ![issued + 1] = Fresh]
             /\ issued' = issued + 1
             /\ mark' = (IF spends THEN issued ELSE mark)
    <3>1. t \in 1 .. issued
      BY <1>2 DEF AtWork, Refreshing, Rotate
    <3>2. \A u \in Ids : u # issued + 1 => refresh'[u] = base[u]
      BY <2>2 DEF Spend, TypeOK
    <3>3. mark' <= issued'
      BY <1>0, <2>2 DEF Numbered
    <3>4. \A u \in Ids : u > issued => refresh[u] = NoToken /\ base[u] = NoToken
      BY <1>0, <3>1 DEF Numbered, Spend, Live, NoToken, Ids
    <3>5. \A u \in Ids : u > issued' => refresh'[u] = NoToken
      BY <1>0, <2>2, <3>2, <3>4 DEF Ids
    <3>6. ASSUME spends, NEW u \in Ids PROVE ~ (base[u].status = "live" /\ ~ base[u].revoked)
      <4>1. refresh[u] \in Token
        BY DEF TypeOK
      <4>2. CASE u = t
        BY <3>6, <4>2 DEF Spend, Spent, TypeOK, Token
      <4>3. CASE u # t /\ Live(u)
        BY <3>6, <4>1, <4>3 DEF Spend, Token
      <4>4. CASE u # t /\ ~ Live(u)
        BY <3>6, <4>4 DEF Spend, Live
      <4> QED BY <4>2, <4>3, <4>4
    <3>7. \A u \in Ids : u <= mark' => ~ (refresh'[u].status = "live" /\ ~ refresh'[u].revoked)
      <4>1. CASE spends
        BY <1>0, <2>2, <3>2, <3>6, <4>1 DEF Ids
      <4>2. CASE ~ spends
        BY <1>0, <2>2, <3>2, <4>2 DEF Numbered, NothingOlderIsLive, Live, Ids
      <4> QED BY <4>1, <4>2
    <3> QED BY <3>3, <3>5, <3>7 DEF Numbered, NothingOlderIsLive, Live
  <2> QED BY <1>2, <2>1, <2>2 DEF Rotate
<1>3. ASSUME NEW q \in Calls, CutOff(q) \/ RevokeTokens(q) PROVE Numbered'
  <2>1. refresh' = RevokedFamily /\ UNCHANGED <<issued, mark>>
    BY <1>3 DEF CutOff, RevokeTokens, ghosts
  <2>2. \A t \in Ids : IF t <= issued THEN refresh'[t].revoked ELSE refresh'[t] = refresh[t]
    BY <2>1 DEF RevokedFamily, TypeOK, Token
  <2> QED BY <1>0, <2>1, <2>2 DEF Numbered, NothingOlderIsLive, Live, Ids
<1>4. CASE Tick
  <2>1. UNCHANGED <<issued, mark>>
    BY <1>4 DEF Tick, ghosts
  <2>2. \A t \in Ids : /\ refresh[t].status # "spent" => refresh'[t] = refresh[t]
                       /\ refresh[t].status = "spent" => refresh'[t].status = "spent"
    BY <1>4 DEF Tick, TypeOK, Token
  <2> QED BY <1>0, <2>1, <2>2 DEF Numbered, NothingOlderIsLive, Live, NoToken, Ids
<1>5. ASSUME UNCHANGED <<issued, mark, refresh>> PROVE Numbered'
  BY <1>5 DEF Numbered, NothingOlderIsLive, Live
<1>6. CASE Approve \/ IssueCode \/ LoseAccess
  BY <1>5, <1>6 DEF Approve, IssueCode, LoseAccess, ghosts
<1>7. ASSUME NEW q \in Calls,
             \/ BeginExchange(q) \/ (\E t \in Ids : Send(q, t)) \/ Read(q) \/ Lock(q) \/ Receive(q)
             \/ FinishCut(q) \/ Disconnect(q) \/ RevokeApproval(q) \/ FollowApproval(q) \/ Crash(q)
      PROVE  UNCHANGED <<issued, mark, refresh>>
  BY <1>7 DEF BeginExchange, Send, Read, Lock, Receive, FinishCut, Disconnect, RevokeApproval,
              FollowApproval, Crash, server, ghosts
<1> QED BY <1>1, <1>2, <1>3, <1>4, <1>5, <1>6, <1>7 DEF Next

LEMMA InvKept == Inv /\ [Next]_vars => Inv'
<1> SUFFICES ASSUME Inv, [Next]_vars PROVE Inv'
  OBVIOUS
<1>1. CASE Next
  BY <1>1, NextType, ConsistentKept, AtWorkKept, NumberedKept DEF Inv
<1>2. CASE UNCHANGED vars
  BY <1>2 DEF Inv, vars, server, client, ghosts, TypeOK, Consistent, AtWork, Refreshing, Numbered,
              NothingOlderIsLive, Live
<1> QED BY <1>1, <1>2

LEMMA InvAlways == Spec => []Inv
  BY InitInv, InvKept, PTL DEF Spec

-----------------------------------------------------------------------------
(* The variables keep their types, and the owner's row is held by the call that is *)
(* rotating and by no other (oauth.tsx 753-754).                                     *)
THEOREM TypeCorrect == Spec => []TypeOK
<1>1. Inv => TypeOK
  BY DEF Inv
<1> QED BY <1>1, InvAlways, PTL

(* One approval makes one installation at most, and none once it was revoked while *)
(* pending, for any number of racing exchanges (enrollments.ts 158-169, 321-335).   *)
THEOREM OneInstallationPerApproval == Spec => []OneIdentity
<1>1. Inv => OneIdentity
  BY DEF Inv, Consistent, OneIdentity
<1> QED BY <1>1, InvAlways, PTL

(* After the console reported the revocation of an approval no installation of it is *)
(* in use (connections.tsx 1700-1722).                                                *)
THEOREM ConsoleTellsTheTruth == Spec => []RevokedMeansRevoked
<1>1. Inv => RevokedMeansRevoked
  BY DEF Inv, Consistent, RevokedMeansRevoked, TypeOK
<1> QED BY <1>1, InvAlways, PTL

(* A spend leaves no token live that was issued before it, whatever replays were *)
(* answered before (oauth.tsx 821-834).                                           *)
THEOREM SpendRetires == Spec => []NothingOlderIsLive
<1>1. Inv => NothingOlderIsLive
  BY DEF Inv, Numbered
<1> QED BY <1>1, InvAlways, PTL

-----------------------------------------------------------------------------
(* The honest client.  While it keeps the protocol all its calls present one *)
(* token, so a token is spent once, by the first of them; the others find it *)
(* spent last of all and, because the client's patience and the length of a  *)
(* call fit in the grace window, in time.                                    *)

SpentTokens == {t \in Ids : refresh[t].status = "spent"}

(* Spends are numbered in the order they happen. *)
Orders == \A t \in SpentTokens : refresh[t].order <= Cardinality(SpentTokens)

(* A token the server answers: live, or spent after every other. *)
Answerable(R, t) ==
  \/ R[t].status = "live"
  \/ R[t].status = "spent" /\ ~ \E u \in Ids : R[u].status = "spent" /\ R[u].order > R[t].order

OneToken == \A p, q \in Calls : Presents(p) /\ Presents(q) => call[p].token = call[q].token

HeldAnswerable ==
  /\ held <= issued
  /\ held # 0 => Answerable(refresh, held)
  /\ held # 0 /\ refresh[held].status = "spent" => refresh[held].age < tried

(* A presented token is answerable; one the client gave up meanwhile was spent, and *)
(* a spend is no older than the client's patience and the call.                      *)
InTime(c, R, h, n) ==
  /\ Answerable(R, c.token)
  /\ c.token = h => n > 0
  /\ c.token # h => R[c.token].status = "spent"
  /\ R[c.token].status = "spent" => R[c.token].age <= Patience + c.age
PresentedInTime == \A q \in Calls : Refreshing(q) => InTime(call[q], refresh, held, tried)

(* An answer carries a live token, and what it answers is spent, or is the exchange. *)
Reply(c, R, h, n) ==
  /\ c.got \in 1 .. n /\ R[c.got].status = "live"
  /\ c.token = 0 => h = 0
  /\ c.token # 0 => c.token <= n /\ R[c.token].status = "spent"
AnswersLive == \A q \in Calls : call[q].phase = "answering" => Reply(call[q], refresh, held, issued)
ExchangeAlone ==
  \A q \in Calls : call[q].phase = "answering" /\ call[q].token = 0 =>
    \A p \in Calls : Presents(p) => p = q

(* What a call read before it waited for the owner's row is still so. *)
StillSo(c, R) ==
  /\ c.phase = "waiting" => \/ c.seen.status = "live"
                            \/ /\ c.seen.status = "spent" /\ R[c.token].status = "spent"
                               /\ c.seen.order = R[c.token].order
  /\ c.phase = "rotating" => /\ c.verdict # "reuse"
                             /\ c.verdict = "replay" => R[c.token].status = "spent"
ReadsHold == \A q \in Calls : StillSo(call[q], refresh)

Honest ==
  /\ OneToken
  /\ HeldAnswerable
  /\ PresentedInTime
  /\ AnswersLive
  /\ ExchangeAlone
  /\ ReadsHold
  /\ cut # "reuse"

Presenting == {"sent", "waiting", "rotating", "answering"}

LEMMA PresentsPhase == \A q : Presents(q) <=> call[q].phase \in Presenting
  BY DEF Presents, Refreshing, Presenting

LEMMA SpentFinite == IsFiniteSet(SpentTokens) /\ Cardinality(SpentTokens) \in Nat
<1>1. IsFiniteSet(Ids)
  BY TimesAssumption, FS_Interval DEF Ids
<1>2. IsFiniteSet(SpentTokens)
  BY <1>1, FS_Subset DEF SpentTokens
<1> QED BY <1>2, FS_CardinalityType

(* What a step leaves of the tokens and of the client, when it only drops calls. *)
LEMMA HonestDrop ==
  ASSUME Inv, Honest, UNCHANGED <<issued, held, tried>>, cut' # "reuse",
         \A t \in Ids : /\ refresh'[t].status = refresh[t].status /\ refresh'[t].order = refresh[t].order
                        /\ refresh'[t].age = refresh[t].age,
         \A p \in Calls : call'[p] = call[p] \/ call'[p].phase \notin Presenting
  PROVE  Honest'
<1>0. issued \in 0 .. MaxTokens /\ held \in 0 .. MaxTokens /\ \A t \in 1 .. issued : t \in Ids
  BY IssuedType DEF Inv, TypeOK
<1>1. \A t \in Ids : Answerable(refresh', t) <=> Answerable(refresh, t)
  BY DEF Answerable
<1>2. \A p \in Calls : Presents(p)' => call'[p] = call[p] /\ Presents(p)
  BY DEF Presents, Refreshing, Presenting
<1>3. OneToken'
  BY <1>2 DEF OneToken, Honest
<1>4. HeldAnswerable'
  <2>1. held # 0 => held \in Ids
    BY <1>0, TimesAssumption DEF Ids
  <2> QED BY <1>1, <2>1 DEF HeldAnswerable, Honest
<1>5. PresentedInTime'
  <2> SUFFICES ASSUME NEW q \in Calls, Refreshing(q)' PROVE InTime(call'[q], refresh', held', tried')
    BY DEF PresentedInTime
  <2>1. call'[q] = call[q] /\ Refreshing(q)
    BY <1>2 DEF Presents, Refreshing
  <2>2. call[q].token \in Ids
    BY <1>0, <2>1 DEF Inv, AtWork
  <2> QED BY <1>1, <2>1, <2>2 DEF PresentedInTime, Honest, InTime
<1>6. AnswersLive'
  <2> SUFFICES ASSUME NEW q \in Calls, call'[q].phase = "answering"
               PROVE  Reply(call'[q], refresh', held', issued')
    BY DEF AnswersLive
  <2>1. call'[q] = call[q] /\ call[q].phase = "answering"
    BY DEF Presenting
  <2>2. call[q].token # 0 => call[q].token \in Ids
    BY CallFields, TimesAssumption DEF Inv, Ids
  <2> QED BY <1>0, <2>1, <2>2 DEF AnswersLive, Honest, Reply
<1>7. ExchangeAlone'
  BY <1>2 DEF ExchangeAlone, Honest, Presenting
<1>8. ReadsHold'
  <2> SUFFICES ASSUME NEW q \in Calls, call'[q].phase \in {"waiting", "rotating"}
               PROVE  StillSo(call'[q], refresh')
    BY DEF ReadsHold, StillSo
  <2>1. call'[q] = call[q] /\ Refreshing(q)
    BY DEF Refreshing, Presenting
  <2>2. call[q].token \in Ids
    BY <1>0, <2>1 DEF Inv, AtWork
  <2> QED BY <2>1, <2>2 DEF ReadsHold, Honest, StillSo
<1> QED BY <1>3, <1>4, <1>5, <1>6, <1>7, <1>8 DEF Honest

(* A rotation that answers: it spends its token, or finds it spent or retired. *)
Rotated(q, t, n) ==
  /\ n \in Ids /\ n = issued + 1 /\ issued' = n
  /\ t \in 1 .. issued /\ t \in Ids
  /\ refresh[n] = NoToken /\ refresh'[n] = Fresh
  /\ call' = [call EXCEPT ![q] = [Idle EXCEPT !.phase = "answering", !.token = t, !.got = n]]
SpendsNow(t, n) ==
  /\ refresh[t].status = "live" /\ refresh'[t].status = "spent"
  /\ refresh'[t].age = 0 /\ refresh'[t].order = Cardinality(SpentTokens) + 1
  /\ \A u \in Ids \ {t, n} :
       /\ refresh'[u].order = refresh[u].order
       /\ \/ refresh'[u].status = refresh[u].status
          \/ refresh[u].status = "live" /\ refresh'[u].status = "retired"
SpentBefore(q, t, n) ==
  /\ \A u \in Ids \ {n} : refresh'[u] = refresh[u]
  /\ call[q].verdict = "replay" \/ refresh[t].status \in {"spent", "retired"}

LEMMA RotateOutcome ==
  ASSUME Inv, NEW q \in Calls, Rotate(q)
  PROVE  \/ call' = [call EXCEPT ![q] = Idle] /\ UNCHANGED <<refresh, issued>>
         \/ /\ Rotated(q, call[q].token, issued + 1)
            /\ \/ SpendsNow(call[q].token, issued + 1)
               \/ SpentBefore(q, call[q].token, issued + 1)
<1> USE DEF Inv
<1> DEFINE t == call[q].token
           n == issued + 1
           spends == call[q].verdict = "spend" /\ Live(t)
           replays == call[q].verdict = "replay"
                        \/ (refresh[t].status \in {"spent", "retired"} /\ ~ refresh[t].revoked)
<1>1. issued \in 0 .. MaxTokens /\ MaxTokens \in Nat /\ t \in 1 .. issued /\ issued < MaxTokens
  BY TimesAssumption DEF TypeOK, AtWork, Refreshing, Rotate
<1>2. n \in Ids /\ t \in Ids /\ n > issued /\ t # n
  BY <1>1 DEF Ids
<1>3. refresh[n] = NoToken
  BY <1>2 DEF Numbered
<1>4. CASE spends \/ replays
  <2>1. /\ refresh' = [(IF spends THEN Spend(t) ELSE refresh) EXCEPT ![n] = Fresh]
        /\ issued' = n /\ call' = Answered(q)
    BY <1>4 DEF Rotate
  <2>2. refresh'[n] = Fresh
    BY <1>2, <2>1 DEF Spend, TypeOK
  <2>3. call' = [call EXCEPT ![q] = [Idle EXCEPT !.phase = "answering", !.token = t, !.got = n]]
    BY <2>1 DEF Answered
  <2>4. Rotated(q, t, n)
    BY <1>1, <1>2, <1>3, <2>1, <2>2, <2>3 DEF Rotated
  <2>5. CASE spends
    <3>1. \A u \in Ids \ {n} : refresh'[u] = Spend(t)[u]
      BY <2>1, <2>5 DEF Spend, TypeOK
    <3>2. refresh'[t] = Spent(t)
      BY <1>2, <3>1 DEF Spend
    <3>3. \A u \in Ids \ {t, n} :
            refresh'[u] = IF Live(u) THEN [refresh[u] EXCEPT !.status = "retired"] ELSE refresh[u]
      BY <3>1 DEF Spend
    <3>4. /\ refresh'[t].status = "spent" /\ refresh'[t].age = 0
          /\ refresh'[t].order = Cardinality(SpentTokens) + 1
      BY <1>2, <3>2 DEF Spent, NewOrder, SpentTokens, TypeOK, Token
    <3>5. \A u \in Ids \ {t, n} :
            /\ refresh'[u].order = refresh[u].order
            /\ \/ refresh'[u].status = refresh[u].status
               \/ refresh[u].status = "live" /\ refresh'[u].status = "retired"
      BY <3>3 DEF Live, TypeOK, Token
    <3> QED BY <2>4, <2>5, <3>4, <3>5 DEF SpendsNow, Live
  <2>6. CASE ~ spends
    <3>1. \A u \in Ids \ {n} : refresh'[u] = refresh[u]
      BY <2>1, <2>6 DEF TypeOK
    <3> QED BY <1>4, <2>4, <2>6, <3>1 DEF SpentBefore
  <2> QED BY <2>5, <2>6
<1>5. CASE ~ (spends \/ replays)
  BY <1>5 DEF Rotate
<1> QED BY <1>4, <1>5

LEMMA OrdersSame ==
  ASSUME Orders, \A t \in Ids : refresh'[t].status = "spent" <=> refresh[t].status = "spent",
         \A t \in Ids : refresh[t].status = "spent" => refresh'[t].order = refresh[t].order
  PROVE  Orders'
<1>1. SpentTokens' = SpentTokens
  BY DEF SpentTokens
<1> QED BY <1>1 DEF Orders, SpentTokens

LEMMA OrdersKept == ASSUME Inv, Orders, Next PROVE Orders'
<1> USE DEF Inv
<1>1. ASSUME UNCHANGED refresh PROVE Orders'
  BY <1>1, OrdersSame
<1>2. ASSUME NEW q \in Calls, Exchange(q) PROVE Orders'
  <2>1. CASE CodeGood /\ Redeemable
    <3>1. refresh' = [refresh EXCEPT ![issued + 1] = Fresh]
      BY <1>2, <2>1 DEF Exchange
    <3>2. issued \in Nat /\ (issued + 1 \in Ids => refresh[issued + 1] = NoToken)
      BY IssuedType DEF Numbered
    <3>3. \A t \in Ids : refresh'[t] = refresh[t] \/ (refresh'[t] = Fresh /\ refresh[t] = NoToken)
      BY <3>1, <3>2 DEF TypeOK
    <3> QED BY <3>3, OrdersSame DEF Fresh, NoToken
  <2>2. CASE ~ (CodeGood /\ Redeemable)
    BY <1>1, <1>2, <2>2 DEF Exchange
  <2> QED BY <2>1, <2>2
<1>3. ASSUME NEW q \in Calls, Rotate(q) PROVE Orders'
  <2> DEFINE t == call[q].token
             n == issued + 1
  <2>1. CASE UNCHANGED refresh
    BY <1>1, <2>1
  <2>2. CASE Rotated(q, t, n) /\ SpentBefore(q, t, n)
    <3>1. \A u \in Ids : refresh'[u] = refresh[u] \/ (refresh'[u] = Fresh /\ refresh[u] = NoToken)
      BY <2>2 DEF Rotated, SpentBefore
    <3> QED BY <3>1, OrdersSame DEF Fresh, NoToken
  <2>3. CASE Rotated(q, t, n) /\ SpendsNow(t, n)
    <3>1. t \notin SpentTokens /\ SpentTokens' = SpentTokens \cup {t}
      BY <2>3 DEF Rotated, SpendsNow, SpentTokens, Fresh, NoToken
    <3>2. Cardinality(SpentTokens') = Cardinality(SpentTokens) + 1
      BY <3>1, SpentFinite, FS_AddElement
    <3>3. \A u \in SpentTokens : refresh'[u].order = refresh[u].order
      BY <2>3, <3>1 DEF Rotated, SpendsNow, SpentTokens, NoToken
    <3>4. \A u \in SpentTokens : refresh[u].order \in Nat
      BY DEF SpentTokens, TypeOK, Token
    <3>5. refresh'[t].order = Cardinality(SpentTokens) + 1
      BY <2>3 DEF SpendsNow
    <3> QED BY <3>1, <3>2, <3>3, <3>4, <3>5, SpentFinite DEF Orders
  <2> QED BY <1>3, <2>1, <2>2, <2>3, RotateOutcome
<1>4. ASSUME NEW q \in Calls, CutOff(q) \/ RevokeTokens(q) PROVE Orders'
  <2>1. refresh' = RevokedFamily
    BY <1>4 DEF CutOff, RevokeTokens
  <2>2. \A t \in Ids : refresh'[t].status = refresh[t].status /\ refresh'[t].order = refresh[t].order
    BY <2>1 DEF RevokedFamily, TypeOK, Token
  <2> QED BY <2>2, OrdersSame
<1>5. CASE Tick
  <2>1. \A t \in Ids : refresh'[t].status = refresh[t].status /\ refresh'[t].order = refresh[t].order
    BY <1>5 DEF Tick, TypeOK, Token
  <2> QED BY <2>1, OrdersSame
<1>6. CASE Approve \/ IssueCode \/ LoseAccess
  BY <1>1, <1>6 DEF Approve, IssueCode, LoseAccess
<1>7. ASSUME NEW q \in Calls,
             \/ BeginExchange(q) \/ (\E t \in Ids : Send(q, t)) \/ Read(q) \/ Lock(q) \/ Receive(q)
             \/ FinishCut(q) \/ Disconnect(q) \/ RevokeApproval(q) \/ FollowApproval(q) \/ Crash(q)
      PROVE  UNCHANGED refresh
  BY <1>7 DEF BeginExchange, Send, Read, Lock, Receive, FinishCut, Disconnect, RevokeApproval,
              FollowApproval, Crash, server
<1> QED BY <1>1, <1>2, <1>3, <1>4, <1>5, <1>6, <1>7 DEF Next

(* The types that the steps of an honest client rest on. *)
LEMMA HonestTypes ==
  ASSUME Inv
  PROVE  /\ issued \in Nat /\ held \in Nat /\ tried \in Nat /\ issued <= MaxTokens /\ MaxTokens \in Nat
         /\ Patience \in Nat /\ CallTime \in Nat /\ Grace \in Nat /\ Patience + CallTime <= Grace
         /\ \A t \in Ids : /\ refresh[t] \in Token /\ refresh[t].age \in 0 .. AgeCap /\ refresh[t].age \in Nat
                           /\ refresh[t].order \in Nat /\ t \in Nat /\ t > 0
         /\ \A q \in Calls : /\ call[q].age \in Nat /\ call[q].age <= CallTime /\ call[q].token \in Nat
                             /\ call[q].token # 0 => call[q].token \in Ids
                             /\ call[q].phase \in {"sent", "waiting", "rotating"} => call[q].token # 0
<1>1. MaxTokens \in Nat /\ AgeCap \in Nat
  BY TimesAssumption DEF AgeCap
<1>2. ASSUME NEW q \in Calls
      PROVE  /\ call[q].age \in Nat /\ call[q].age <= CallTime /\ call[q].token \in Nat
             /\ call[q].token # 0 => call[q].token \in Ids
             /\ call[q].phase \in {"sent", "waiting", "rotating"} => call[q].token # 0
  <2>1. call[q].token \in 0 .. MaxTokens /\ call[q].age \in 0 .. CallTime
    BY CallFields DEF Inv
  <2>2. call[q].phase \in {"sent", "waiting", "rotating"} => call[q].token # 0
    BY DEF Inv, AtWork, Refreshing
  <2> QED BY <1>1, <2>1, <2>2, TimesAssumption DEF Ids
<1>3. ASSUME NEW t \in Ids
      PROVE  /\ refresh[t] \in Token /\ refresh[t].age \in 0 .. AgeCap /\ refresh[t].age \in Nat
             /\ refresh[t].order \in Nat /\ t \in Nat /\ t > 0
  BY <1>1 DEF Inv, TypeOK, Token, Ids
<1> QED BY <1>1, <1>2, <1>3, TimesAssumption DEF Inv, TypeOK, AgeCap

(* The exchange is the first call that has a token to give. *)
LEMMA HonestExchange ==
  ASSUME Inv, Honest, NEW q \in Calls, Exchange(q), CodeGood /\ Redeemable
  PROVE  Honest'
<1> DEFINE x == [Idle EXCEPT !.phase = "answering", !.got = issued + 1]
<1>1. issued = 0 /\ held = 0
  BY HonestTypes DEF Inv, Consistent, Redeemable, TypeOK, Approval, Honest, HeldAnswerable
<1>2. \A p \in Calls : call[p].phase \notin Presenting
  BY <1>1 DEF Inv, AtWork, Refreshing, Honest, AnswersLive, Reply, Presenting
<1>3. /\ refresh' = [refresh EXCEPT ![1] = Fresh] /\ issued' = 1
      /\ UNCHANGED <<held, tried, cut>>
      /\ call' = [call EXCEPT ![q] = x]
  BY <1>1 DEF Exchange, client
<1>4. x.phase = "answering" /\ x.token = 0 /\ x.got = 1
  BY <1>1 DEF Idle
<1> HIDE DEF x
<1>5. call'[q] = x /\ \A p \in Calls \ {q} : call'[p] = call[p]
  BY <1>3, OthersKeep DEF Inv
<1>6. \A p \in Calls \ {q} : call'[p].phase \notin Presenting
  BY <1>2, <1>5
<1>7. 1 \in Ids /\ refresh'[1].status = "live"
  BY <1>3, TimesAssumption DEF Inv, TypeOK, Ids, Fresh
<1>8. OneToken' /\ PresentedInTime' /\ ExchangeAlone' /\ ReadsHold'
  BY <1>4, <1>5, <1>6
  DEF OneToken, PresentedInTime, ExchangeAlone, ReadsHold, StillSo, Presents, Refreshing, Presenting
<1>9. AnswersLive'
  BY <1>1, <1>3, <1>4, <1>5, <1>6, <1>7 DEF AnswersLive, Reply, Presenting
<1>10. HeldAnswerable'
  BY <1>1, <1>3 DEF HeldAnswerable
<1> QED BY <1>3, <1>8, <1>9, <1>10 DEF Honest

(* Presenting what it holds, in time and beside no older call. *)
LEMMA HonestSend ==
  ASSUME Inv, Honest, NEW q \in Calls, NEW t \in Ids, Send(q, t), ~ strayed'
  PROVE  Honest'
<1> DEFINE x == [call[q] EXCEPT !.phase = "sent", !.token = t]
<1>1. /\ t = held /\ held # 0 /\ tried <= Patience + 1
      /\ \A p \in Calls : Presents(p) => call[p].token = t
  BY HonestTypes DEF Send, Inv, TypeOK
<1>2. /\ tried' = (IF tried = 0 THEN 1 ELSE tried)
      /\ UNCHANGED <<held, refresh, issued, cut>> /\ call' = [call EXCEPT ![q] = x]
  BY <1>1 DEF Send, server, ghosts
<1>3. x.phase = "sent" /\ x.token = t /\ x.age = call[q].age
  BY CallFields DEF Inv, Call
<1> HIDE DEF x
<1>4. call'[q] = x /\ \A p \in Calls \ {q} : call'[p] = call[p]
  BY <1>2, OthersKeep DEF Inv
<1>5. tried' > 0 /\ tried' >= tried
  BY <1>2, HonestTypes
<1>6. \A p \in Calls : Presents(p)' => call'[p].token = t
  BY <1>1, <1>3, <1>4 DEF Presents, Refreshing
<1>7. OneToken'
  BY <1>6 DEF OneToken
<1>8. Answerable(refresh, t) /\ (refresh[t].status = "spent" => refresh[t].age < tried)
  BY <1>1 DEF Honest, HeldAnswerable
<1>9. HeldAnswerable'
  BY <1>1, <1>2, <1>5, <1>8, HonestTypes DEF HeldAnswerable, Honest
<1>10. ASSUME NEW p \in Calls, Refreshing(p)' PROVE InTime(call'[p], refresh', held', tried')
  <2>1. CASE p = q
    <3>1. refresh[t].status = "spent" => refresh[t].age <= Patience + call[q].age
      BY <1>1, <1>8, HonestTypes
    <3> QED BY <1>1, <1>2, <1>3, <1>4, <1>5, <1>8, <2>1, <3>1 DEF InTime
  <2>2. CASE p # q
    BY <1>2, <1>4, <1>5, <1>10, <2>2 DEF Honest, PresentedInTime, Refreshing, InTime
  <2> QED BY <2>1, <2>2
<1>11. AnswersLive'
  BY <1>2, <1>3, <1>4 DEF Honest, AnswersLive, Reply
<1>12. ExchangeAlone'
  BY <1>1, <1>6 DEF ExchangeAlone, Presents
<1>13. ReadsHold'
  BY <1>2, <1>3, <1>4 DEF Honest, ReadsHold, StillSo
<1> QED BY <1>2, <1>7, <1>9, <1>10, <1>11, <1>12, <1>13 DEF Honest, PresentedInTime

(* A refreshing call that goes on with its token. *)
LEMMA HonestGoesOn ==
  ASSUME Inv, Honest, NEW q \in Calls, Refreshing(q), NEW x, call' = [call EXCEPT ![q] = x],
         x.phase \in {"waiting", "rotating"}, x.token = call[q].token, x.age = call[q].age,
         StillSo(x, refresh), UNCHANGED <<held, tried, refresh, issued, cut>>
  PROVE  Honest'
<1>1. call'[q] = x /\ \A p \in Calls \ {q} : call'[p] = call[p]
  BY OthersKeep DEF Inv
<1>2. \A p \in Calls :
        /\ Presents(p)' <=> Presents(p)
        /\ Refreshing(p)' <=> Refreshing(p)
        /\ call'[p].token = call[p].token /\ call'[p].age = call[p].age
        /\ call'[p].phase = "answering" => call'[p] = call[p]
  BY <1>1 DEF Presents, Refreshing
<1>3. OneToken' /\ ExchangeAlone'
  BY <1>2 DEF Honest, OneToken, ExchangeAlone
<1>6. PresentedInTime'
  <2> SUFFICES ASSUME NEW p \in Calls, Refreshing(p)' PROVE InTime(call'[p], refresh, held, tried)
    BY DEF PresentedInTime
  <2>1. InTime(call[p], refresh, held, tried)
    BY <1>2 DEF Honest, PresentedInTime
  <2> QED BY <1>2, <2>1 DEF InTime
<1>7. AnswersLive'
  BY <1>2 DEF Honest, AnswersLive
<1>4. HeldAnswerable'
  BY DEF Honest, HeldAnswerable
<1>5. ReadsHold'
  BY <1>1 DEF Honest, ReadsHold
<1> QED BY <1>3, <1>4, <1>5, <1>6, <1>7 DEF Honest

LEMMA HonestRead ==
  ASSUME Inv, Honest, NEW q \in Calls, Read(q), ~ (dead \/ refresh[call[q].token].revoked)
  PROVE  Honest'
<1> DEFINE t == call[q].token
           x == [call[q] EXCEPT !.phase = "waiting",
                                !.seen = [status |-> refresh[t].status, order |-> refresh[t].order]]
<1>1. call' = [call EXCEPT ![q] = x] /\ UNCHANGED <<held, tried, refresh, issued, cut>> /\ Refreshing(q)
  BY DEF Read, server, client, ghosts, Refreshing
<1>2. /\ x.phase = "waiting" /\ x.token = t /\ x.age = call[q].age
      /\ x.seen.status = refresh[t].status /\ x.seen.order = refresh[t].order
  BY CallFields DEF Inv, Call
<1> HIDE DEF x
<1>3. refresh[t].status \in {"live", "spent"}
  BY <1>1 DEF Honest, PresentedInTime, InTime, Answerable
<1>4. StillSo(x, refresh)
  BY <1>2, <1>3 DEF StillSo
<1> QED BY <1>1, <1>2, <1>4, HonestGoesOn

(* The grace window holds for a call of an honest client when it gets the lock. *)
LEMMA HonestLock == ASSUME Inv, Honest, NEW q \in Calls, Lock(q) PROVE Honest'
<1> DEFINE t == call[q].token
           x == [call[q] EXCEPT !.phase = "rotating", !.verdict = Verdict(q)]
<1>1. /\ call' = [call EXCEPT ![q] = x] /\ UNCHANGED <<held, tried, refresh, issued, cut>>
      /\ Refreshing(q) /\ call[q].phase = "waiting"
  BY DEF Lock, server, client, ghosts, Refreshing
<1>2. x.phase = "rotating" /\ x.token = t /\ x.age = call[q].age /\ x.verdict = Verdict(q)
  BY CallFields DEF Inv, Call
<1> HIDE DEF x
<1>3. \/ call[q].seen.status = "live"
      \/ /\ call[q].seen.status = "spent" /\ refresh[t].status = "spent"
         /\ call[q].seen.order = refresh[t].order
  BY <1>1 DEF Honest, ReadsHold, StillSo
<1>4. call[q].seen.status # "live" => InGrace(q)
  <2> SUFFICES ASSUME call[q].seen.status # "live" PROVE InGrace(q)
    OBVIOUS
  <2>1. InTime(call[q], refresh, held, tried)
    BY <1>1 DEF Honest, PresentedInTime
  <2>2. refresh[t].age <= Patience + call[q].age
    BY <1>3, <2>1 DEF InTime
  <2>3. refresh[t].age <= Grace
    <3>1. t \in Ids
      BY <1>1, HonestTypes
    <3>2. refresh[t].age \in Nat
      BY <3>1, HonestTypes
    <3> QED BY <2>2, <3>2, HonestTypes
  <2>4. ~ LaterSpent(call[q].seen)
    BY <1>3, <2>1 DEF InTime, Answerable, LaterSpent
  <2> QED BY <1>3, <2>3, <2>4 DEF InGrace
<1>5. Verdict(q) # "reuse" /\ (Verdict(q) = "replay" => refresh[t].status = "spent")
  BY <1>3, <1>4 DEF Verdict
<1>6. StillSo(x, refresh)
  BY <1>2, <1>5 DEF StillSo
<1> QED BY <1>1, <1>2, <1>6, HonestGoesOn

(* The first call that gets the lock spends the token all of them present. *)
LEMMA HonestSpend ==
  ASSUME Inv, Orders, Honest, NEW q \in Calls, Rotate(q),
         Rotated(q, call[q].token, issued + 1), SpendsNow(call[q].token, issued + 1)
  PROVE  Honest'
<1> DEFINE t == call[q].token
           n == issued + 1
           x == [Idle EXCEPT !.phase = "answering", !.token = t, !.got = n]
<1>1. /\ n \in Ids /\ issued' = n /\ t \in 1 .. issued /\ t \in Ids /\ t # n /\ n \in Nat /\ t # 0
      /\ refresh'[n] = Fresh /\ refresh[n] = NoToken
      /\ call' = [call EXCEPT ![q] = x]
  BY HonestTypes DEF Rotated
<1>2. UNCHANGED <<held, tried, cut>> /\ Refreshing(q) /\ Presents(q) /\ call[q].phase = "rotating"
  BY DEF Rotate, client, Refreshing, Presents
<1>3. x.phase = "answering" /\ x.token = t /\ x.got = n
  BY DEF Idle
<1> HIDE DEF x
<1>4. call'[q] = x /\ \A p \in Calls \ {q} : call'[p] = call[p]
  BY <1>1, OthersKeep DEF Inv
<1>5. refresh[t].status = "live" /\ refresh'[t].status = "spent" /\ refresh'[t].age = 0
  BY DEF SpendsNow
<1>6. InTime(call[q], refresh, held, tried)
  BY <1>2 DEF Honest, PresentedInTime
<1>7. held = t /\ tried > 0
  BY <1>5, <1>6 DEF InTime
<1>8. \A p \in Calls : Presents(p) => call[p].token = t
  BY <1>2 DEF Honest, OneToken
<1>9. \A p \in Calls : call[p].phase # "answering"
  BY <1>1, <1>5, <1>8 DEF Honest, AnswersLive, Reply, Presents
<1>10. Answerable(refresh', t)
  <2> SUFFICES ASSUME NEW u \in Ids, refresh'[u].status = "spent", refresh'[u].order > refresh'[t].order
               PROVE  FALSE
    BY <1>5 DEF Answerable
  <2>1. refresh'[t].order = Cardinality(SpentTokens) + 1
    BY DEF SpendsNow
  <2>2. u # t /\ u # n
    BY <1>1, <2>1, SpentFinite DEF Fresh
  <2>3. u \in SpentTokens /\ refresh'[u].order = refresh[u].order
    BY <2>2 DEF SpendsNow, SpentTokens
  <2>4. refresh[u].order <= Cardinality(SpentTokens) /\ refresh[u].order \in Nat
    BY <2>3, HonestTypes DEF Orders
  <2> QED BY <2>1, <2>3, <2>4, SpentFinite
<1>11. \A p \in Calls : Presents(p)' => call'[p].token = t
  BY <1>3, <1>4, <1>8 DEF Presents, Refreshing
<1>12. OneToken'
  BY <1>11 DEF OneToken
<1>13. HeldAnswerable'
  <2>1. held' = t /\ tried' = tried /\ issued' = n
    BY <1>1, <1>2, <1>7
  <2>2. t <= n /\ 0 < tried
    BY <1>1, <1>7, HonestTypes
  <2> QED BY <1>5, <1>10, <2>1, <2>2 DEF HeldAnswerable
<1>14. PresentedInTime'
  <2> SUFFICES ASSUME NEW p \in Calls, Refreshing(p)' PROVE InTime(call'[p], refresh', held', tried')
    BY DEF PresentedInTime
  <2>1. call'[p].token = t /\ p # q /\ call'[p].age \in Nat
    BY <1>3, <1>4, <1>11, HonestTypes DEF Presents, Refreshing
  <2>2. 0 <= Patience + call'[p].age
    BY <2>1, HonestTypes
  <2> QED BY <1>2, <1>5, <1>7, <1>10, <2>1, <2>2 DEF InTime
<1>15. \A p \in Calls : call'[p].phase = "answering" => p = q
  BY <1>4, <1>9
<1>16. t <= n /\ n \in 1 .. n
  BY <1>1, HonestTypes
<1>17. AnswersLive'
  BY <1>1, <1>3, <1>4, <1>5, <1>15, <1>16 DEF AnswersLive, Reply, Fresh
<1>18. ExchangeAlone'
  BY <1>1, <1>3, <1>4, <1>15 DEF ExchangeAlone
<1>19. ReadsHold'
  <2> SUFFICES ASSUME NEW p \in Calls, call'[p].phase \in {"waiting", "rotating"}
               PROVE  StillSo(call'[p], refresh')
    BY DEF ReadsHold, StillSo
  <2>1. call'[p] = call[p] /\ call[p].token = t
    BY <1>3, <1>4, <1>8 DEF Presents, Refreshing
  <2>2. StillSo(call[p], refresh)
    BY DEF Honest, ReadsHold
  <2> QED BY <1>5, <2>1, <2>2 DEF StillSo
<1> QED BY <1>2, <1>12, <1>13, <1>14, <1>17, <1>18, <1>19 DEF Honest

(* The calls that come after it are answered with tokens of their own. *)
LEMMA HonestReplay ==
  ASSUME Inv, Honest, NEW q \in Calls, Rotate(q),
         Rotated(q, call[q].token, issued + 1), SpentBefore(q, call[q].token, issued + 1)
  PROVE  Honest'
<1> DEFINE t == call[q].token
           n == issued + 1
           x == [Idle EXCEPT !.phase = "answering", !.token = t, !.got = n]
<1>1. /\ n \in Ids /\ issued' = n /\ t \in 1 .. issued /\ t \in Ids /\ t # n /\ n \in Nat /\ t # 0
      /\ refresh'[n] = Fresh /\ refresh[n] = NoToken
      /\ call' = [call EXCEPT ![q] = x]
  BY HonestTypes DEF Rotated
<1>2. UNCHANGED <<held, tried, cut>> /\ Refreshing(q) /\ Presents(q) /\ call[q].phase = "rotating"
  BY DEF Rotate, client, Refreshing, Presents
<1>3. x.phase = "answering" /\ x.token = t /\ x.got = n
  BY DEF Idle
<1> HIDE DEF x
<1>4. call'[q] = x /\ \A p \in Calls \ {q} : call'[p] = call[p]
  BY <1>1, OthersKeep DEF Inv
<1>5. \A u \in Ids : u # n => refresh'[u] = refresh[u]
  BY DEF SpentBefore
<1>6. refresh[t].status = "spent"
  <2>1. InTime(call[q], refresh, held, tried) /\ StillSo(call[q], refresh)
    BY <1>2 DEF Honest, PresentedInTime, ReadsHold
  <2> QED BY <1>2, <2>1 DEF InTime, Answerable, StillSo, SpentBefore
<1>7. \A u \in Ids : u # n => (Answerable(refresh', u) <=> Answerable(refresh, u))
  <2>1. refresh[n].status # "spent" /\ refresh'[n].status # "spent"
    BY <1>1 DEF Fresh, NoToken
  <2> QED BY <1>5, <2>1 DEF Answerable
<1>8. \A p \in Calls : Presents(p) => call[p].token = t
  BY <1>2 DEF Honest, OneToken
<1>9. \A p \in Calls : Presents(p)' => call'[p].token = t
  BY <1>3, <1>4, <1>8 DEF Presents, Refreshing
<1>10. OneToken'
  BY <1>9 DEF OneToken
<1>11. HeldAnswerable'
  <2>1. held <= issued
    BY DEF Honest, HeldAnswerable
  <2>2. held <= n /\ held # n /\ (held # 0 => held \in Ids)
    BY <1>1, <2>1, HonestTypes DEF Ids
  <2>3. held' = held /\ tried' = tried /\ issued' = n
    BY <1>1, <1>2
  <2>4. ASSUME held # 0
        PROVE  refresh'[held] = refresh[held] /\ (Answerable(refresh', held) <=> Answerable(refresh, held))
    BY <1>5, <1>7, <2>2, <2>4
  <2>5. /\ held # 0 => Answerable(refresh, held)
        /\ held # 0 /\ refresh[held].status = "spent" => refresh[held].age < tried
    BY DEF Honest, HeldAnswerable
  <2> QED BY <2>2, <2>3, <2>4, <2>5 DEF HeldAnswerable
<1>12. PresentedInTime'
  <2> SUFFICES ASSUME NEW p \in Calls, Refreshing(p)' PROVE InTime(call'[p], refresh', held', tried')
    BY DEF PresentedInTime
  <2>1. call'[p].token = t /\ p # q /\ call'[p] = call[p] /\ Refreshing(p)
    BY <1>3, <1>4, <1>9 DEF Presents, Refreshing
  <2>2. InTime(call[p], refresh, held, tried)
    BY <2>1 DEF Honest, PresentedInTime
  <2> QED BY <1>1, <1>2, <1>5, <1>7, <2>1, <2>2 DEF InTime
<1>13. t <= n /\ n \in 1 .. n /\ \A u \in 1 .. issued : u \in 1 .. n /\ u # n /\ u \in Ids
  BY <1>1, HonestTypes DEF Ids
<1>14. AnswersLive'
  <2> SUFFICES ASSUME NEW p \in Calls, call'[p].phase = "answering"
               PROVE  Reply(call'[p], refresh', held', issued')
    BY DEF AnswersLive
  <2>1. CASE p = q
    BY <1>1, <1>3, <1>4, <1>5, <1>6, <1>13, <2>1 DEF Reply, Fresh
  <2>2. CASE p # q
    <3>1. call'[p] = call[p] /\ call[p].phase = "answering" /\ call[p].token = t
      BY <1>4, <1>8, <2>2 DEF Presents
    <3>2. Reply(call[p], refresh, held, issued)
      BY <3>1 DEF Honest, AnswersLive
    <3> QED BY <1>1, <1>5, <1>6, <1>13, <3>1, <3>2 DEF Reply
  <2> QED BY <2>1, <2>2
<1>15. ExchangeAlone'
  BY <1>1, <1>9 DEF ExchangeAlone, Presents
<1>16. ReadsHold'
  <2> SUFFICES ASSUME NEW p \in Calls, call'[p].phase \in {"waiting", "rotating"}
               PROVE  StillSo(call'[p], refresh')
    BY DEF ReadsHold, StillSo
  <2>1. call'[p] = call[p] /\ call[p].token = t
    BY <1>3, <1>4, <1>8 DEF Presents, Refreshing
  <2>2. StillSo(call[p], refresh)
    BY DEF Honest, ReadsHold
  <2> QED BY <1>1, <1>5, <2>1, <2>2 DEF StillSo
<1> QED BY <1>2, <1>10, <1>11, <1>12, <1>14, <1>15, <1>16 DEF Honest

(* An answer makes its token the one the client holds; the calls still under way *)
(* present the one before, which is spent.                                       *)
LEMMA HonestReceive == ASSUME Inv, Honest, NEW q \in Calls, Receive(q) PROVE Honest'
<1> DEFINE t == call[q].token
<1>1. /\ held' = call[q].got /\ tried' = 0 /\ UNCHANGED <<refresh, issued, cut>>
      /\ call' = [call EXCEPT ![q] = Idle] /\ call[q].phase = "answering" /\ Presents(q)
  BY DEF Receive, server, ghosts, Presents
<1>2. call'[q] = Idle /\ Idle.phase = "idle" /\ \A p \in Calls \ {q} : call'[p] = call[p]
  BY <1>1, OthersKeep, IdleType DEF Inv
<1>3. \A p \in Calls : Presents(p)' => p # q /\ call'[p] = call[p] /\ Presents(p) /\ call[p].token = t
  BY <1>1, <1>2 DEF Presents, Refreshing, Honest, OneToken
<1>4. Reply(call[q], refresh, held, issued)
  BY <1>1 DEF Honest, AnswersLive
<1>5. \A p \in Calls : Presents(p)' => t # 0 /\ refresh[t].status = "spent"
  BY <1>1, <1>3, <1>4 DEF Honest, ExchangeAlone, Reply
<1>6. call[q].got <= issued /\ refresh[call[q].got].status = "live"
  BY <1>4, HonestTypes DEF Reply
<1>7. OneToken'
  BY <1>3 DEF OneToken
<1>8. HeldAnswerable'
  BY <1>1, <1>6 DEF HeldAnswerable, Answerable
<1>9. PresentedInTime'
  <2> SUFFICES ASSUME NEW p \in Calls, Refreshing(p)' PROVE InTime(call'[p], refresh', held', tried')
    BY DEF PresentedInTime
  <2>1. call'[p] = call[p] /\ call[p].token = t /\ refresh[t].status = "spent" /\ Refreshing(p)
    BY <1>3, <1>5 DEF Presents, Refreshing
  <2>2. InTime(call[p], refresh, held, tried)
    BY <2>1 DEF Honest, PresentedInTime
  <2> QED BY <1>1, <1>6, <2>1, <2>2 DEF InTime
<1>10. AnswersLive'
  <2> SUFFICES ASSUME NEW p \in Calls, call'[p].phase = "answering"
               PROVE  Reply(call'[p], refresh', held', issued')
    BY DEF AnswersLive
  <2>1. call'[p] = call[p] /\ call[p].phase = "answering" /\ call[p].token # 0
    BY <1>3, <1>5 DEF Presents
  <2>2. Reply(call[p], refresh, held, issued)
    BY <2>1 DEF Honest, AnswersLive
  <2> QED BY <1>1, <2>1, <2>2 DEF Reply
<1>11. ExchangeAlone'
  BY <1>3, <1>5 DEF ExchangeAlone, Presents
<1>12. ReadsHold'
  BY <1>1, <1>2 DEF Honest, ReadsHold, StillSo
<1> QED BY <1>1, <1>7, <1>8, <1>9, <1>10, <1>11, <1>12 DEF Honest

(* Time ages a spend no faster than the call that presents it and the client's clock. *)
LEMMA HonestTick == ASSUME Inv, Honest, Tick PROVE Honest'
<1>1. /\ UNCHANGED <<held, issued, cut>>
      /\ tried' = (IF tried > 0 THEN Older(tried, AgeCap + 1) ELSE 0)
  BY DEF Tick, ghosts
<1>2. \A t \in Ids :
        /\ refresh'[t].status = refresh[t].status /\ refresh'[t].order = refresh[t].order
        /\ refresh[t].status = "spent" => refresh'[t].age = Older(refresh[t].age, AgeCap)
  BY DEF Tick, Inv, TypeOK, Token
<1>3. \A p \in Calls :
        /\ call'[p].phase = call[p].phase /\ call'[p].token = call[p].token /\ call'[p].got = call[p].got
        /\ call'[p].seen = call[p].seen /\ call'[p].verdict = call[p].verdict
        /\ call[p].phase # "idle" => call'[p].age = call[p].age + 1
  BY CallFields DEF Tick, Inv, Call
<1>4. \A t \in Ids : Answerable(refresh', t) <=> Answerable(refresh, t)
  BY <1>2 DEF Answerable
<1>5. \A p \in Calls : (Presents(p)' <=> Presents(p)) /\ (Refreshing(p)' <=> Refreshing(p))
  BY <1>3 DEF Presents, Refreshing
<1>6. OneToken' /\ ExchangeAlone'
  BY <1>3, <1>5 DEF Honest, OneToken, ExchangeAlone
<1>7. held # 0 => held \in Ids
  BY HonestTypes DEF Honest, HeldAnswerable, Ids
<1>8. HeldAnswerable'
  <2>1. ASSUME held # 0, refresh[held].status = "spent" PROVE refresh'[held].age < tried'
    <3>1. refresh[held].age < tried /\ refresh[held].age \in 0 .. AgeCap /\ tried \in 0 .. AgeCap + 1
      BY <1>7, <2>1, HonestTypes DEF Honest, HeldAnswerable, Inv, TypeOK
    <3>2. AgeCap \in Nat
      BY TimesAssumption DEF AgeCap
    <3>3. refresh'[held].age = Older(refresh[held].age, AgeCap) /\ tried' = Older(tried, AgeCap + 1)
      BY <1>1, <1>2, <1>7, <2>1, <3>1, <3>2
    <3> QED BY <3>1, <3>2, <3>3 DEF Older
  <2> QED BY <1>1, <1>2, <1>4, <1>7, <2>1 DEF Honest, HeldAnswerable
<1>9. PresentedInTime'
  <2> SUFFICES ASSUME NEW p \in Calls, Refreshing(p)' PROVE InTime(call'[p], refresh', held', tried')
    BY DEF PresentedInTime
  <2>1. InTime(call[p], refresh, held, tried) /\ Refreshing(p) /\ call[p].token \in Ids
    BY <1>5, HonestTypes DEF Honest, PresentedInTime, Refreshing
  <2>2. tried > 0 => tried' > 0
    BY <1>1, HonestTypes, TimesAssumption DEF Older, AgeCap
  <2>3. ASSUME refresh[call[p].token].status = "spent"
        PROVE  refresh'[call[p].token].age <= Patience + call'[p].age
    <3>1. refresh[call[p].token].age <= Patience + call[p].age
      BY <2>1, <2>3 DEF InTime
    <3>2. refresh'[call[p].token].age = Older(refresh[call[p].token].age, AgeCap)
      BY <1>2, <2>1, <2>3
    <3>3. call'[p].age = call[p].age + 1
      BY <1>3, <2>1 DEF Refreshing
    <3>4. refresh[call[p].token].age \in Nat /\ call[p].age \in Nat /\ Patience \in Nat /\ AgeCap \in Nat
      BY <2>1, HonestTypes, TimesAssumption DEF AgeCap
    <3> QED BY <3>1, <3>2, <3>3, <3>4 DEF Older
  <2> QED BY <1>1, <1>2, <1>3, <1>4, <2>1, <2>2, <2>3 DEF InTime
<1>10. AnswersLive'
  <2> SUFFICES ASSUME NEW p \in Calls, call'[p].phase = "answering"
               PROVE  Reply(call'[p], refresh', held', issued')
    BY DEF AnswersLive
  <2>1. Reply(call[p], refresh, held, issued)
    BY <1>3 DEF Honest, AnswersLive
  <2>2. call[p].got \in Ids /\ (call[p].token # 0 => call[p].token \in Ids)
    BY <2>1, IssuedType, HonestTypes DEF Reply, Inv
  <2> QED BY <1>1, <1>2, <1>3, <2>1, <2>2 DEF Reply
<1>11. ReadsHold'
  <2> SUFFICES ASSUME NEW p \in Calls, call[p].phase \in {"waiting", "rotating"}
               PROVE  StillSo(call'[p], refresh')
    BY <1>3 DEF ReadsHold, StillSo
  <2>1. StillSo(call[p], refresh) /\ call[p].token \in Ids
    BY HonestTypes DEF Honest, ReadsHold
  <2> QED BY <1>2, <1>3, <2>1 DEF StillSo
<1> QED BY <1>1, <1>6, <1>8, <1>9, <1>10, <1>11 DEF Honest

HonestInv == Inv /\ Orders /\ (~ strayed => Honest)

LEMMA HonestStep == ASSUME HonestInv, Next, ~ strayed' PROVE Honest'
<1> USE DEF HonestInv
<1>0. ~ strayed /\ Honest
  <2>1. ASSUME NEW q \in Calls, NEW t \in Ids, Send(q, t) PROVE ~ strayed
    BY <2>1 DEF Send
  <2>2. ASSUME Approve \/ IssueCode \/ LoseAccess \/ Tick PROVE UNCHANGED strayed
    BY <2>2 DEF Approve, IssueCode, LoseAccess, Tick, client
  <2>3. ASSUME NEW q \in Calls,
               \/ BeginExchange(q) \/ Exchange(q) \/ Read(q) \/ Lock(q) \/ CutOff(q) \/ Rotate(q)
               \/ Receive(q) \/ FinishCut(q) \/ Disconnect(q) \/ RevokeTokens(q) \/ RevokeApproval(q)
               \/ FollowApproval(q) \/ Crash(q)
        PROVE  UNCHANGED strayed
    BY <2>3 DEF BeginExchange, Exchange, Read, Lock, CutOff, Rotate, Receive, FinishCut, Disconnect,
                RevokeTokens, RevokeApproval, FollowApproval, Crash, client
  <2> QED BY <2>1, <2>2, <2>3 DEF Next
<1>1. \A t \in Ids : UNCHANGED refresh => /\ refresh'[t].status = refresh[t].status
                                         /\ refresh'[t].order = refresh[t].order
                                         /\ refresh'[t].age = refresh[t].age
  OBVIOUS
<1>2. cut # "reuse"
  BY <1>0 DEF Honest
<1>3. CASE Approve \/ IssueCode \/ LoseAccess
  <2>1. UNCHANGED <<issued, held, tried, cut, refresh, call>>
    BY <1>3 DEF Approve, IssueCode, LoseAccess, client, ghosts
  <2> QED BY <1>0, <1>1, <1>2, <2>1, HonestDrop
<1>4. CASE Tick
  BY <1>0, <1>4, HonestTick
<1>5. ASSUME NEW q \in Calls, NEW x, x.phase \notin Presenting, call' = [call EXCEPT ![q] = x] \/ call' = call,
             UNCHANGED <<issued, held, tried>>, cut' # "reuse",
             \A t \in Ids : /\ refresh'[t].status = refresh[t].status
                            /\ refresh'[t].order = refresh[t].order
                            /\ refresh'[t].age = refresh[t].age
      PROVE  Honest'
  <2>1. \A p \in Calls : call'[p] = call[p] \/ call'[p].phase \notin Presenting
    BY <1>5, OthersKeep DEF Inv
  <2> QED BY <1>0, <1>5, <2>1, HonestDrop
<1>6. Idle.phase \notin Presenting
  BY IdleType DEF Presenting
<1>7. \A q \in Calls, ph \in {"exchanging", "revoking", "following"} :
        [call[q] EXCEPT !.phase = ph].phase \notin Presenting
  BY CallFields DEF Call, Presenting
<1>8. \A t \in Ids : /\ RevokedFamily[t].status = refresh[t].status
                     /\ RevokedFamily[t].order = refresh[t].order
                     /\ RevokedFamily[t].age = refresh[t].age
  BY DEF RevokedFamily, Inv, TypeOK, Token
<1>9. ASSUME NEW q \in Calls, NEW x, x.phase \notin Presenting, call' = [call EXCEPT ![q] = x] \/ call' = call,
             UNCHANGED <<refresh, issued, held, tried, cut>>
      PROVE  Honest'
  BY <1>1, <1>2, <1>5, <1>9
<1>10. ASSUME NEW q \in Calls, BeginExchange(q) PROVE Honest'
  <2>1. call' = [call EXCEPT ![q] = [call[q] EXCEPT !.phase = "exchanging"]]
    BY <1>10 DEF BeginExchange
  <2> QED BY <1>7, <1>9, <1>10, <2>1 DEF BeginExchange, server, client, ghosts
<1>11. ASSUME NEW q \in Calls, Exchange(q) PROVE Honest'
  <2>1. CASE CodeGood /\ Redeemable
    BY <1>0, <1>11, <2>1, HonestExchange
  <2>2. CASE ~ (CodeGood /\ Redeemable)
    BY <1>6, <1>9, <1>11, <2>2 DEF Exchange, client
  <2> QED BY <2>1, <2>2
<1>12. ASSUME NEW q \in Calls, NEW t \in Ids, Send(q, t) PROVE Honest'
  BY <1>0, <1>12, HonestSend
<1>13. ASSUME NEW q \in Calls, Read(q) PROVE Honest'
  <2>1. CASE ~ (dead \/ refresh[call[q].token].revoked)
    BY <1>0, <1>13, <2>1, HonestRead
  <2>2. CASE dead \/ refresh[call[q].token].revoked
    <3>1. call' = [call EXCEPT ![q] = Idle]
      BY <1>13, <2>2 DEF Read
    <3> QED BY <1>6, <1>9, <1>13, <3>1 DEF Read, server, client, ghosts
  <2> QED BY <2>1, <2>2
<1>14. ASSUME NEW q \in Calls, Lock(q) PROVE Honest'
  BY <1>0, <1>14, HonestLock
<1>15. ASSUME NEW q \in Calls, CutOff(q) PROVE Honest'
  <2>1. call[q].verdict # "reuse"
    BY <1>0, <1>15 DEF CutOff, Honest, ReadsHold, StillSo
  <2>2. [Idle EXCEPT !.phase = "cutting"].phase \notin Presenting
    BY DEF Idle, Presenting
  <2> QED BY <1>5, <1>8, <1>15, <2>1, <2>2 DEF CutOff, client
<1>16. ASSUME NEW q \in Calls, Rotate(q) PROVE Honest'
  <2>1. CASE call' = [call EXCEPT ![q] = Idle] /\ UNCHANGED <<refresh, issued>>
    BY <1>6, <1>9, <1>16, <2>1 DEF Rotate, client
  <2>2. CASE Rotated(q, call[q].token, issued + 1) /\ SpendsNow(call[q].token, issued + 1)
    BY <1>0, <1>16, <2>2, HonestSpend
  <2>3. CASE Rotated(q, call[q].token, issued + 1) /\ SpentBefore(q, call[q].token, issued + 1)
    BY <1>0, <1>16, <2>3, HonestReplay
  <2> QED BY <1>16, <2>1, <2>2, <2>3, RotateOutcome
<1>17. ASSUME NEW q \in Calls, Receive(q) PROVE Honest'
  BY <1>0, <1>17, HonestReceive
<1>18. ASSUME NEW q \in Calls, FinishCut(q) \/ FollowApproval(q) \/ Crash(q) PROVE Honest'
  BY <1>6, <1>9, <1>18 DEF FinishCut, FollowApproval, Crash, client, ghosts
<1>19. ASSUME NEW q \in Calls, RevokeTokens(q) PROVE Honest'
  BY <1>2, <1>5, <1>6, <1>8, <1>19 DEF RevokeTokens, client, ghosts
<1>20. ASSUME NEW q \in Calls, Disconnect(q) PROVE Honest'
  <2>1. call' = call \/ call' = [call EXCEPT ![q] = [call[q] EXCEPT !.phase = "revoking"]]
    BY <1>20 DEF Disconnect
  <2> QED BY <1>7, <1>9, <1>20, <2>1 DEF Disconnect, client, ghosts
<1>21. ASSUME NEW q \in Calls, RevokeApproval(q) PROVE Honest'
  <2>1. call' = call \/ call' = [call EXCEPT ![q] = [call[q] EXCEPT !.phase = "following"]]
    BY <1>21 DEF RevokeApproval
  <2> QED BY <1>7, <1>9, <1>21, <2>1 DEF RevokeApproval, client
<1> QED BY <1>3, <1>4, <1>10, <1>11, <1>12, <1>13, <1>14, <1>15, <1>16, <1>17, <1>18, <1>19, <1>20, <1>21
        DEF Next

(* A client that presents only the token it holds, no longer than its patience and *)
(* never beside a call with an older one, is never cut off for reuse, and the token *)
(* it holds is one the server answers: for any number of racing and lost calls, as  *)
(* long as its patience and the length of a call fit in the grace window            *)
(* (oauth.tsx 745-775, 800-834).                                                    *)
THEOREM HonestClientIsServed == Spec => []HonestClientGoesOn
<1>1. Init => HonestInv
  <2> SUFFICES ASSUME Init PROVE HonestInv
    OBVIOUS
  <2>1. Inv
    BY InitInv
  <2>2. \A t \in Ids : refresh[t].status # "spent"
    BY DEF Init, NoToken
  <2>3. Orders
    BY <2>2 DEF Orders, SpentTokens
  <2>4. \A q \in Calls : call[q].phase = "idle"
    BY IdleType DEF Init
  <2>5. OneToken /\ PresentedInTime /\ AnswersLive /\ ExchangeAlone /\ ReadsHold
    BY <2>4 DEF OneToken, PresentedInTime, AnswersLive, ExchangeAlone, ReadsHold, StillSo, Presents, Refreshing
  <2>6. HeldAnswerable /\ cut # "reuse"
    BY DEF Init, HeldAnswerable
  <2> QED BY <2>1, <2>3, <2>5, <2>6 DEF HonestInv, Honest
<1>2. HonestInv /\ [Next]_vars => HonestInv'
  <2> SUFFICES ASSUME HonestInv, [Next]_vars PROVE HonestInv'
    OBVIOUS
  <2>1. Inv'
    BY InvKept DEF HonestInv
  <2>2. CASE Next
    BY <2>1, <2>2, OrdersKept, HonestStep DEF HonestInv
  <2>3. CASE UNCHANGED vars
    <3>1. UNCHANGED <<issued, held, tried, cut, refresh, call, strayed>>
      BY <2>3 DEF vars, server, client, ghosts
    <3>2. Orders'
      BY <3>1, OrdersSame DEF HonestInv
    <3>3. ~ strayed' => Honest'
      BY <3>1, HonestDrop DEF HonestInv, Honest
    <3> QED BY <2>1, <3>2, <3>3 DEF HonestInv
  <2> QED BY <2>2, <2>3
<1>3. HonestInv => HonestClientGoesOn
  BY DEF HonestInv, HonestClientGoesOn, Honest, HeldAnswerable, Answerable, LaterSpent
<1> QED BY <1>1, <1>2, <1>3, PTL DEF Spec
===============================================================================
