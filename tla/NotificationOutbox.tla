------------------------- MODULE NotificationOutbox -------------------------
(***************************************************************************)
(* The notification queue of one person and the sweeps that deliver it     *)
(* (packages/server/src/lib/notifications.ts).  A message is stored, then  *)
(* its event is queued or coalesced into the thread's waiting row; sweeps  *)
(* of one or several server processes, which may overlap, claim the due    *)
(* rows under a lease and take them one by one: compose, deliver, settle.  *)
(* A stamp in the future is kept as the ticks still to go, one in the past *)
(* as its age, so the clock itself needs no bound.                         *)
(***************************************************************************)
EXTENDS Integers, FiniteSets

CONSTANTS
  Threads,        \* sessions the person takes part in
  Rows,           \* identities of queue rows; an event that finds none free waits or is lost
  Sweeps,         \* sweeps that may be under way at once
  MaxMessages,    \* bound on the messages of a thread
  Debounce,       \* ticks between an event and its mail
  Lease,          \* DELIVERY_LEASE_MS
  RetryBase,      \* CRITICAL_RETRY_BASE_MS
  Hour,           \* the window of the rate cap
  Cap,            \* NOTIFY_MAX_PER_HOUR
  Elsewhere,      \* how many other mails the person may have had in an hour: the cap counts all
  SweepTime,      \* bound on the duration of a sweep
  Nobody,         \* no sweep, no row
  Choosy,         \* whether the person changes preferences or leaves the team
  Handovers       \* whether a thread may begin with a handoff

ASSUME SetsAssumption ==
  /\ Threads # {}
  /\ IsFiniteSet(Rows)
  /\ Nobody \notin Sweeps \cup Rows
ASSUME QuantitiesAssumption ==
  /\ MaxMessages \in Nat \ {0}
  /\ Debounce \in Nat
  /\ Lease \in Nat \ {0}
  /\ RetryBase \in Nat
  /\ Hour \in Nat
  /\ Cap \in Nat
  /\ Elsewhere \subseteq Nat
  /\ SweepTime \in Nat \ {0}
  /\ Choosy \in BOOLEAN
  /\ Handovers \in BOOLEAN

CriticalAttempts == 3
Attempts == 0 .. CriticalAttempts
Backoff  == <<RetryBase, 2 * RetryBase>>      \* after the first, after the second attempt
SentAge  == Hour + SweepTime + 1              \* older than any window looks

VARIABLES
  posted,    \* thread |-> how many messages it holds, numbered from 1
  seen,      \* thread |-> how far the person has read
  standing,  \* the person "wants" these mails, turned them "off", or is "gone" from the team
  events,    \* stored messages whose event has not been queued yet
  rows,      \* the rows of notification_queue
  sweep,     \* what each sweep under way knows
  mails,     \* row |-> how many mails each attempt put out
  reached,   \* row |-> the last message a mail of it covers
  handled,   \* events that were queued or coalesced
  astray     \* those coalesced into a row already being sent, or begun by a later message

person == <<posted, seen, standing>>
ghosts == <<mails, reached, handled, astray>>
vars   == <<person, events, rows, sweep, ghosts>>

Waiting == {"pending", "sending"}
Over    == {"sent", "skipped", "failed"}
Event   == [thread : Threads, at : 1 .. MaxMessages, critical : BOOLEAN, step : {"insert", "promote"}]
Row     == [status : {"free"} \cup Waiting \cup Over, thread : Threads, since : 1 .. MaxMessages,
            critical : BOOLEAN, attempts : Attempts, wait : Nat, lease : 0 .. Lease,
            owner : Sweeps \cup {Nobody}, sent : 0 .. SentAge,
            why : {"none", "read", "off", "gone", "capped", "undelivered", "expired"}]
Taken   == [attempt : Attempts, critical : BOOLEAN]
Sweep   == [phase : {"idle", "claimed", "ready", "composed", "delivered"},
            age : 0 .. SweepTime, todo : SUBSET Rows, taken : [Rows -> Taken], wants : BOOLEAN,
            spent : Nat, row : Rows \cup {Nobody}, upTo : 0 .. MaxMessages,
            verdict : {"none", "send", "sent", "retry", "failed", "read", "off", "gone", "capped"}]

Untaken == [attempt |-> 0, critical |-> FALSE]
Idle    == [phase |-> "idle", age |-> 0, todo |-> {}, taken |-> [r \in Rows |-> Untaken],
            wants |-> FALSE, spent |-> 0, row |-> Nobody, upTo |-> 0, verdict |-> "none"]

(* Types, and the unique index: one waiting row for a thread. *)
TypeOK ==
  /\ posted \in [Threads -> 0 .. MaxMessages]
  /\ seen \in [Threads -> 0 .. MaxMessages]
  /\ standing \in {"wants", "off", "gone"}
  /\ events \subseteq Event
  /\ rows \in [Rows -> Row]
  /\ sweep \in [Sweeps -> Sweep]
  /\ mails \in [Rows -> [1 .. CriticalAttempts -> Nat]]
  /\ reached \in [Rows -> 0 .. MaxMessages]
  /\ handled \subseteq Threads \X (1 .. MaxMessages)
  /\ astray \subseteq handled
  /\ \A r, q \in Rows :
       rows[r].status \in Waiting /\ rows[q].status \in Waiting
         /\ rows[r].thread = rows[q].thread => r = q

Free(t) ==
  [status |-> "free", thread |-> t, since |-> 1, critical |-> FALSE, attempts |-> 0, wait |-> 0,
   lease |-> 0, owner |-> Nobody, sent |-> 0, why |-> "none"]

Init ==
  /\ posted = [t \in Threads |-> 0]
  /\ seen = [t \in Threads |-> 0]
  /\ standing = "wants"
  /\ events = {}
  /\ rows = [r \in Rows |-> Free(CHOOSE t \in Threads : TRUE)]
  /\ sweep = [w \in Sweeps |-> Idle]
  /\ mails = [r \in Rows |-> [k \in 1 .. CriticalAttempts |-> 0]]
  /\ reached = [r \in Rows |-> 0]
  /\ handled = {}
  /\ astray = {}

-----------------------------------------------------------------------------
(* Messages and their events *)

(* A teammate posts; a handoff is the first message of its thread. *)
Post(t, critical) ==
  /\ posted[t] < MaxMessages
  /\ critical => Handovers /\ posted[t] = 0
  /\ posted' = [posted EXCEPT ![t] = @ + 1]
  /\ events' = events \cup {[thread |-> t, at |-> posted[t] + 1, critical |-> critical,
                             step |-> "insert"]}
  /\ UNCHANGED <<seen, standing, rows, sweep, ghosts>>

Coalesces(t, r) == rows[r].thread = t /\ rows[r].status \in Waiting

Queued(e) ==
  [status |-> "pending", thread |-> e.thread, since |-> e.at, critical |-> e.critical,
   attempts |-> 0, wait |-> Debounce, lease |-> 0, owner |-> Nobody, sent |-> 0, why |-> "none"]

(* Mutant: the index covers rows that are over, so one row serves a thread for good. *)
InsertOnce(e) ==
  IF \E r \in Rows : rows[r].thread = e.thread /\ rows[r].status # "free"
    THEN UNCHANGED rows
    ELSE \E r \in Rows : rows[r].status = "free" /\ rows' = [rows EXCEPT ![r] = Queued(e)]

(* insert ... on conflict do nothing against the partial unique index. *)
Insert(e) ==
  IF \E r \in Rows : Coalesces(e.thread, r)
    THEN UNCHANGED rows
    ELSE \E r \in Rows : rows[r].status = "free" /\ rows' = [rows EXCEPT ![r] = Queued(e)]

GoesAstray(e) ==
  \E r \in Rows : Coalesces(e.thread, r) /\ (rows[r].status = "sending" \/ rows[r].since > e.at)

(* An ordinary event reaches members who want it; a handoff asks only for the *)
(* preference, and promotes the row it coalesced into in a second statement.  *)
Notified(e) == IF e.critical THEN standing # "off" ELSE standing = "wants"

Enqueue(e) ==
  /\ e.step = "insert"
  /\ IF Notified(e)
       THEN /\ Insert(e)
            /\ handled' = handled \cup {<<e.thread, e.at>>}
            /\ astray' = IF GoesAstray(e) THEN astray \cup {<<e.thread, e.at>>} ELSE astray
            /\ events' = (events \ {e}) \cup
                           (IF e.critical THEN {[e EXCEPT !.step = "promote"]} ELSE {})
       ELSE /\ events' = events \ {e}
            /\ UNCHANGED <<rows, handled, astray>>
  /\ UNCHANGED <<person, sweep, mails, reached>>

Promote(e) ==
  /\ e.step = "promote"
  /\ rows' = [r \in Rows |-> IF Coalesces(e.thread, r)
                               THEN [rows[r] EXCEPT !.critical = TRUE] ELSE rows[r]]
  /\ events' = events \ {e}
  /\ UNCHANGED <<person, sweep, ghosts>>

(* The process stops, or queueing fails, after the message was stored. *)
LoseEvent(e) ==
  /\ events' = events \ {e}
  /\ UNCHANGED <<person, rows, sweep, ghosts>>

ReadThread(t) ==
  /\ seen[t] < posted[t]
  /\ seen' = [seen EXCEPT ![t] = posted[t]]
  /\ UNCHANGED <<posted, standing, events, rows, sweep, ghosts>>

ChangeStanding ==
  /\ Choosy
  /\ standing # "gone"
  /\ standing' \in {"wants", "off", "gone"} \ {standing}
  /\ UNCHANGED <<posted, seen, events, rows, sweep, ghosts>>

-----------------------------------------------------------------------------
(* Sweeps *)

LastAttempt(r) == IF rows[r].critical THEN CriticalAttempts ELSE 1

(* Mutant: nothing recovers the row of a sweep that died. *)
ExpiredNever(r) == FALSE

Expired(r)     == rows[r].status = "sending" /\ rows[r].lease = 0
Exhausted(r)   == Expired(r) /\ rows[r].attempts >= LastAttempt(r)

(* Mutant: attempts are not counted. *)
DueAgain(r) == Expired(r) \/ (rows[r].status = "pending" /\ rows[r].wait = 0)

Due(r) ==
  /\ rows[r].attempts < LastAttempt(r)
  /\ Expired(r) \/ (rows[r].status = "pending" /\ rows[r].wait = 0)

(* One transaction: what died on its last attempt fails, what is due is leased. *)
Claim(w) ==
  LET due == {r \in Rows : Due(r)} IN
  /\ sweep[w].phase = "idle"
  /\ \E r \in Rows : Due(r) \/ Exhausted(r)
  /\ rows' = [r \in Rows |->
       IF Exhausted(r)
         THEN [rows[r] EXCEPT !.status = "failed", !.owner = Nobody, !.why = "expired"]
       ELSE IF Due(r)
         THEN [rows[r] EXCEPT !.status = "sending", !.attempts = @ + 1, !.owner = w,
                              !.lease = Lease]
       ELSE rows[r]]
  /\ sweep' = IF due = {} THEN sweep ELSE
       [sweep EXCEPT ![w].phase = "claimed", ![w].todo = due,
                     ![w].taken = [r \in Rows |-> IF Due(r)
                        THEN [attempt |-> rows[r].attempts + 1, critical |-> rows[r].critical]
                        ELSE Untaken]]
  /\ UNCHANGED <<person, events, ghosts>>

CountedAsSent(w) == {r \in Rows : rows[r].status = "sent" /\ rows[r].sent <= sweep[w].age + Hour}

ReadBudget(w) ==
  /\ sweep[w].phase = "claimed"
  /\ \E others \in Elsewhere :
       sweep' = [sweep EXCEPT ![w].phase = "ready", ![w].wants = (standing # "off"),
                              ![w].spent = Cardinality(CountedAsSent(w)) + others]
  /\ UNCHANGED <<person, events, rows, ghosts>>

(* Messages of others from the row's first on that the person has not read. *)
Fresh(r) == {m \in rows[r].since .. posted[rows[r].thread] : m > seen[rows[r].thread]}

Verdict(w, r) ==
  IF ~ sweep[w].wants THEN "off"
  ELSE IF standing = "gone" THEN "gone"
  ELSE IF Fresh(r) = {} THEN "read"
  ELSE IF sweep[w].spent >= Cap THEN "capped"
  ELSE "send"

Compose(w, r) ==
  /\ sweep[w].phase = "ready" /\ r \in sweep[w].todo
  /\ sweep' = [sweep EXCEPT ![w].row = r, ![w].upTo = posted[rows[r].thread],
                 ![w].verdict = Verdict(w, r),
                 ![w].phase = IF Verdict(w, r) = "send" THEN "composed" ELSE "delivered"]
  /\ UNCHANGED <<person, events, rows, ghosts>>

(* A refused delivery is retried while attempts are left, by what the claim returned. *)
Refused(w, r) ==
  LET took == sweep[w].taken[r] IN
  IF took.critical /\ took.attempt < CriticalAttempts THEN "retry" ELSE "failed"

(* Mail and webhook: one arriving is enough; a timeout may hide an arrival. *)
Deliver(w) ==
  LET r == sweep[w].row
      k == sweep[w].taken[r].attempt IN
  /\ sweep[w].phase = "composed"
  /\ \E arrived, confirmed \in BOOLEAN :
       /\ confirmed => arrived
       /\ mails' = IF arrived THEN [mails EXCEPT ![r][k] = @ + 1] ELSE mails
       /\ reached' = IF arrived /\ sweep[w].upTo > reached[r]
                       THEN [reached EXCEPT ![r] = sweep[w].upTo] ELSE reached
       /\ sweep' = [sweep EXCEPT ![w].phase = "delivered",
                                 ![w].verdict = IF confirmed THEN "sent" ELSE Refused(w, r)]
  /\ UNCHANGED <<person, events, rows, handled, astray>>

(* Mutant: settlements go by the row's id alone. *)
HoldsAnyway(w, r) == rows[r].status # "free" /\ w \in Sweeps

(* A settlement counts only for the sweep that still holds the row. *)
Holds(w, r) == rows[r].status = "sending" /\ rows[r].owner = w

AtLeastZero(n) == IF n < 0 THEN 0 ELSE n

Settled(w, r) ==
  LET done    == [rows[r] EXCEPT !.lease = 0, !.owner = Nobody]
      verdict == sweep[w].verdict IN
  CASE verdict = "sent"   -> [done EXCEPT !.status = "sent", !.sent = sweep[w].age, !.why = "none"]
    [] verdict = "retry"  -> [done EXCEPT !.status = "pending", !.why = "undelivered",
                                !.wait = AtLeastZero(Backoff[sweep[w].taken[r].attempt] - sweep[w].age)]
    [] verdict = "failed" -> [done EXCEPT !.status = "failed", !.why = "undelivered"]
    [] OTHER              -> [done EXCEPT !.status = "skipped", !.why = verdict]

(* The next row of the batch, or the end of it. *)
Onward(w) ==
  LET r    == sweep[w].row
      left == sweep[w].todo \ {r}
      sent == Holds(w, r) /\ sweep[w].verdict = "sent" IN
  IF left = {} THEN Idle
  ELSE [sweep[w] EXCEPT !.phase = "ready", !.todo = left, !.row = Nobody, !.upTo = 0,
                        !.verdict = "none", !.spent = IF sent THEN @ + 1 ELSE @]

Settle(w) ==
  LET r == sweep[w].row IN
  /\ sweep[w].phase = "delivered"
  /\ rows' = IF Holds(w, r) THEN [rows EXCEPT ![r] = Settled(w, r)] ELSE rows
  /\ sweep' = [sweep EXCEPT ![w] = Onward(w)]
  /\ UNCHANGED <<person, events, ghosts>>

(* The process stops, or a query fails, in the middle of a sweep. *)
Crash(w) ==
  /\ sweep[w].phase # "idle"
  /\ sweep' = [sweep EXCEPT ![w] = Idle]
  /\ UNCHANGED <<person, events, rows, ghosts>>

Older(r) ==
  [rows[r] EXCEPT !.wait = AtLeastZero(@ - 1), !.lease = AtLeastZero(@ - 1),
                  !.sent = IF rows[r].status = "sent" /\ @ < SentAge THEN @ + 1 ELSE @]

Tick ==
  /\ \A w \in Sweeps : sweep[w].age < SweepTime
  /\ rows' = [r \in Rows |-> Older(r)]
  /\ sweep' = [w \in Sweeps |->
       IF sweep[w].phase = "idle" THEN sweep[w] ELSE [sweep[w] EXCEPT !.age = @ + 1]]
  /\ UNCHANGED <<person, events, ghosts>>

Next ==
  \/ \E t \in Threads : ReadThread(t) \/ \E critical \in BOOLEAN : Post(t, critical)
  \/ \E e \in events : Enqueue(e) \/ Promote(e) \/ LoseEvent(e)
  \/ ChangeStanding
  \/ \E w \in Sweeps :
       \/ Claim(w) \/ ReadBudget(w) \/ Deliver(w) \/ Settle(w) \/ Crash(w)
       \/ \E r \in Rows : Compose(w, r)
  \/ Tick

(* A timer starts sweeps, every transport has a timeout, and time passes. *)
Work(w) == Claim(w) \/ ReadBudget(w) \/ (\E r \in Rows : Compose(w, r)) \/ Deliver(w) \/ Settle(w)
Fairness == WF_vars(Tick) /\ \A w \in Sweeps : WF_vars(Work(w))

Spec     == Init /\ [][Next]_vars
FairSpec == Spec /\ Fairness

-----------------------------------------------------------------------------
(* Properties *)

(* No attempt puts out two mails, none is made beyond the row's limit, and a  *)
(* row of ordinary activity is mailed once at most, whatever crashes, lease   *)
(* expiries and overlapping sweeps come between (claimDueNotifications).      *)
OneMailPerAttempt ==
  \A r \in Rows :
    /\ rows[r].attempts <= LastAttempt(r)
    /\ \A k \in 1 .. CriticalAttempts : mails[r][k] <= IF k <= rows[r].attempts THEN 1 ELSE 0

(* A row that was sent, skipped or given up stays as it was settled: a sweep  *)
(* that lost its lease, or a handoff that comes late, changes nothing of it.  *)
OverIsOver ==
  [][\A r \in Rows : rows[r].status \in Over =>
       /\ rows'[r].status = rows[r].status /\ rows'[r].why = rows[r].why
       /\ rows'[r].critical = rows[r].critical]_rows

(* An event that is queued, or joins a waiting row begun no later, is never   *)
(* forgotten: its row still waits, a mail reached the person that covers it,  *)
(* the person has read it, or the row ended for a reason the code gives up on.*)
QueuedIsNotForgotten ==
  \A e \in handled \ astray : \E r \in Rows :
    /\ rows[r].status # "free" /\ rows[r].thread = e[1] /\ rows[r].since <= e[2]
    /\ \/ rows[r].status \in Waiting
       \/ e[2] <= reached[r] \/ e[2] <= seen[e[1]]
       \/ rows[r].status = "failed"
       \/ rows[r].status = "skipped" /\ rows[r].why # "read"

(* However often sweeps crash or overlap, every queued row is settled.        *)
EveryRowIsSettled ==
  \A r \in Rows : rows[r].status \in Waiting ~> rows[r].status \in Over

(* What the comment in enqueue says (192-194): the window of the row an event *)
(* coalesces into already includes it.                                        *)
WindowIncludesEvent ==
  \A e \in handled : \E r \in Rows :
    /\ rows[r].status # "free" /\ rows[r].thread = e[1]
    /\ \/ rows[r].status \in Waiting
       \/ rows[r].since <= e[2] /\ e[2] <= reached[r]
       \/ e[2] <= seen[e[1]]
       \/ rows[r].status = "failed"
       \/ rows[r].status = "skipped" /\ rows[r].why # "read"
===============================================================================
