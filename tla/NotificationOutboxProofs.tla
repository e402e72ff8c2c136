---------------------- MODULE NotificationOutboxProofs ----------------------
(***************************************************************************)
(* Proofs about NotificationOutbox for any threads, any number of sweeps,  *)
(* and any delays: its type invariant, that an attempt puts out one mail   *)
(* at most, that a settled row stays settled, and that no event a row took *)
(* in is forgotten.                                                        *)
(***************************************************************************)
EXTENDS NotificationOutbox, TLAPS, FiniteSetTheorems

LEMMA AtLeastZeroType == \A n \in Int : AtLeastZero(n) \in Nat
  BY DEF AtLeastZero

LEMMA IdleType == Idle \in Sweep
  BY QuantitiesAssumption DEF Idle, Sweep, Untaken, Taken, Attempts, CriticalAttempts

LEMMA SentAgeType == SentAge \in Nat /\ Hour \in 0 .. SentAge /\ SweepTime \in 0 .. SentAge
  BY QuantitiesAssumption DEF SentAge

LEMMA InitType == Init => TypeOK
<1> SUFFICES ASSUME Init PROVE TypeOK
  OBVIOUS
<1>1. (CHOOSE t \in Threads : TRUE) \in Threads
  BY SetsAssumption
<1>2. \A t \in Threads : Free(t) \in Row
  BY QuantitiesAssumption, SentAgeType DEF Free, Row, Attempts, CriticalAttempts
<1>3. rows \in [Rows -> Row]
  BY <1>1, <1>2 DEF Init
<1>4. sweep \in [Sweeps -> Sweep]
  BY IdleType DEF Init
<1>5. \A r \in Rows : rows[r].status = "free"
  BY DEF Init, Free
<1>6. mails \in [Rows -> [1 .. CriticalAttempts -> Nat]] /\ reached \in [Rows -> 0 .. MaxMessages]
  BY QuantitiesAssumption DEF Init
<1>7. posted \in [Threads -> 0 .. MaxMessages] /\ seen \in [Threads -> 0 .. MaxMessages]
  BY QuantitiesAssumption DEF Init
<1>8. events \subseteq Event /\ handled \subseteq Threads \X (1 .. MaxMessages) /\ astray \subseteq handled
  BY DEF Init
<1>9. standing \in {"wants", "off", "gone"}
  BY DEF Init
<1> QED BY <1>3, <1>4, <1>5, <1>6, <1>7, <1>8, <1>9 DEF TypeOK, Waiting

(* The one waiting row of a thread survives whatever starts no new one. *)
UniqueWaiting(q) ==
  \A r, s \in Rows :
    q[r].status \in Waiting /\ q[s].status \in Waiting /\ q[r].thread = q[s].thread => r = s

LEMMA UniqueKept ==
  ASSUME UniqueWaiting(rows), NEW q,
         \A r \in Rows : q[r].thread = rows[r].thread
                         /\ (q[r].status \in Waiting => rows[r].status \in Waiting)
  PROVE  UniqueWaiting(q)
  BY DEF UniqueWaiting

LEMMA PostType == ASSUME TypeOK, NEW t \in Threads, NEW critical \in BOOLEAN, Post(t, critical)
                  PROVE  TypeOK'
<1>1. posted[t] + 1 \in 1 .. MaxMessages
  BY QuantitiesAssumption DEF TypeOK, Post
<1>2. posted' \in [Threads -> 0 .. MaxMessages]
  BY <1>1, QuantitiesAssumption DEF TypeOK, Post
<1>3. events' \subseteq Event
  BY <1>1 DEF TypeOK, Post, Event
<1> QED BY <1>2, <1>3 DEF TypeOK, Post, ghosts

LEMMA EnqueueType == ASSUME TypeOK, NEW e \in events, Enqueue(e) PROVE TypeOK'
<1>1. e \in Event /\ e.thread \in Threads /\ e.at \in 1 .. MaxMessages /\ e.critical \in BOOLEAN
  BY DEF TypeOK, Event
<1>2. <<e.thread, e.at>> \in Threads \X (1 .. MaxMessages)
  BY <1>1
<1>3. [e EXCEPT !.step = "promote"] \in Event
  BY <1>1 DEF Event
<1>4. Queued(e) \in Row
  BY <1>1, QuantitiesAssumption, SentAgeType DEF Queued, Row, Waiting, Attempts, CriticalAttempts
<1>5. CASE ~ Notified(e)
  BY <1>5 DEF TypeOK, Enqueue, person
<1>6. CASE Notified(e)
  <2>1. Insert(e) /\ handled' = handled \cup {<<e.thread, e.at>>}
        /\ astray' = (IF GoesAstray(e) THEN astray \cup {<<e.thread, e.at>>} ELSE astray)
        /\ events' \subseteq events \cup {[e EXCEPT !.step = "promote"]}
    BY <1>6 DEF Enqueue
  <2>2. handled' \subseteq Threads \X (1 .. MaxMessages) /\ astray' \subseteq handled'
    BY <1>2, <2>1 DEF TypeOK
  <2>3. events' \subseteq Event
    BY <1>3, <2>1 DEF TypeOK
  <2>4. rows' \in [Rows -> Row] /\ UniqueWaiting(rows')
    <3>1. CASE \E r \in Rows : Coalesces(e.thread, r)
      BY <2>1, <3>1 DEF Insert, TypeOK, UniqueWaiting
    <3>2. CASE ~ \E r \in Rows : Coalesces(e.thread, r)
      <4>1. PICK r \in Rows : rows' = [rows EXCEPT ![r] = Queued(e)]
        BY <2>1, <3>2 DEF Insert
      <4>2. rows' \in [Rows -> Row]
        BY <1>4, <4>1 DEF TypeOK
      <4>3. \A s \in Rows \ {r} : rows'[s] = rows[s]
        BY <4>1 DEF TypeOK
      <4>4. rows'[r].thread = e.thread
        BY <4>1 DEF TypeOK, Queued
      <4>5. \A s \in Rows : rows[s].thread = e.thread => rows[s].status \notin Waiting
        BY <3>2 DEF Coalesces
      <4>6. UniqueWaiting(rows')
        BY <4>3, <4>4, <4>5 DEF UniqueWaiting, TypeOK
      <4> QED BY <4>2, <4>6
    <3> QED BY <3>1, <3>2
  <2> QED BY <2>2, <2>3, <2>4 DEF TypeOK, Enqueue, person, UniqueWaiting
<1> QED BY <1>5, <1>6

LEMMA PromoteType == ASSUME TypeOK, NEW e \in events, Promote(e) PROVE TypeOK'
<1>1. \A r \in Rows : rows[r] \in Row
  BY DEF TypeOK
<1>2. \A r \in Rows : [rows[r] EXCEPT !.critical = TRUE] \in Row
  BY <1>1 DEF Row
<1>3. rows' \in [Rows -> Row]
  BY <1>1, <1>2 DEF Promote
<1>4. \A r \in Rows : rows'[r].status = rows[r].status /\ rows'[r].thread = rows[r].thread
  BY <1>1 DEF Promote, Row
<1>5. UniqueWaiting(rows')
  BY <1>4 DEF TypeOK, UniqueWaiting
<1> QED BY <1>3, <1>5 DEF TypeOK, Promote, person, ghosts, UniqueWaiting

(* What every row is made of, for steps that change some of its fields. *)
LEMMA RowFields ==
  ASSUME TypeOK, NEW r \in Rows
  PROVE  /\ rows[r] \in Row /\ rows[r].thread \in Threads /\ rows[r].since \in 1 .. MaxMessages
         /\ rows[r].critical \in BOOLEAN /\ rows[r].attempts \in Attempts /\ rows[r].wait \in Nat
         /\ rows[r].lease \in 0 .. Lease /\ rows[r].sent \in 0 .. SentAge
  BY DEF TypeOK, Row

LEMMA SweepFields ==
  ASSUME TypeOK, NEW w \in Sweeps
  PROVE  /\ sweep[w] \in Sweep /\ sweep[w].age \in 0 .. SweepTime /\ sweep[w].todo \subseteq Rows
         /\ sweep[w].taken \in [Rows -> Taken] /\ sweep[w].spent \in Nat
         /\ sweep[w].row \in Rows \cup {Nobody} /\ sweep[w].upTo \in 0 .. MaxMessages
  BY DEF TypeOK, Sweep

LEMMA ClaimType == ASSUME TypeOK, NEW w \in Sweeps, Claim(w) PROVE TypeOK'
<1> DEFINE Failed(r) == [rows[r] EXCEPT !.status = "failed", !.owner = Nobody, !.why = "expired"]
           Leased(r) == [rows[r] EXCEPT !.status = "sending", !.attempts = @ + 1, !.owner = w,
                                        !.lease = Lease]
<1>1. \A r \in Rows : rows'[r] = IF Exhausted(r) THEN Failed(r)
                                 ELSE IF Due(r) THEN Leased(r) ELSE rows[r]
  BY DEF Claim
<1>2. \A r \in Rows : Due(r) => rows[r].attempts + 1 \in 1 .. CriticalAttempts
  BY RowFields DEF Due, LastAttempt, CriticalAttempts, Attempts
<1>3. \A r \in Rows : Failed(r) \in Row
  BY RowFields DEF Row, Waiting, Over
<1>4. ASSUME NEW r \in Rows, Due(r) PROVE Leased(r) \in Row
  <2>1. rows[r].attempts + 1 \in Attempts
    BY <1>2, <1>4 DEF Attempts, CriticalAttempts
  <2>2. Lease \in 0 .. Lease
    BY QuantitiesAssumption
  <2>3. rows[r] \in Row
    BY RowFields
  <2> QED BY <2>1, <2>2, <2>3 DEF Row, Waiting
<1>5. rows' \in [Rows -> Row]
  <2>1. \A r \in Rows : rows'[r] \in Row
    BY <1>1, <1>3, <1>4, RowFields
  <2>2. rows' = [r \in Rows |-> rows'[r]]
    BY DEF Claim
  <2> QED BY <2>1, <2>2
<1>6. \A r \in Rows : rows'[r].thread = rows[r].thread
                      /\ (rows'[r].status \in Waiting => rows[r].status \in Waiting)
  BY <1>1, RowFields DEF Row, Waiting, Due, Expired
<1>7. UniqueWaiting(rows')
  BY <1>6 DEF TypeOK, UniqueWaiting
<1>8. sweep' \in [Sweeps -> Sweep]
  <2> DEFINE due == {r \in Rows : Due(r)}
             taken == [r \in Rows |-> IF Due(r)
                        THEN [attempt |-> rows[r].attempts + 1, critical |-> rows[r].critical]
                        ELSE Untaken]
  <2>1. taken \in [Rows -> Taken]
    BY <1>2, RowFields DEF Taken, Untaken, Attempts, CriticalAttempts
  <2>2. [sweep[w] EXCEPT !.phase = "claimed", !.todo = due, !.taken = taken] \in Sweep
    BY <2>1, SweepFields DEF Sweep
  <2>3. sweep' = sweep \/ sweep' = [sweep EXCEPT ![w] =
                     [sweep[w] EXCEPT !.phase = "claimed", !.todo = due, !.taken = taken]]
    BY DEF Claim, TypeOK
  <2> QED BY <2>2, <2>3 DEF TypeOK
<1> QED BY <1>5, <1>7, <1>8 DEF TypeOK, Claim, person, ghosts, UniqueWaiting

LEMMA ReadBudgetType == ASSUME TypeOK, NEW w \in Sweeps, ReadBudget(w) PROVE TypeOK'
<1>1. Cardinality(CountedAsSent(w)) \in Nat
  BY SetsAssumption, FS_Subset, FS_CardinalityType DEF CountedAsSent
<1>2. PICK others \in Elsewhere :
        sweep' = [sweep EXCEPT ![w] = [sweep[w] EXCEPT !.phase = "ready", !.wants = (standing # "off"),
                                         !.spent = Cardinality(CountedAsSent(w)) + others]]
  BY DEF ReadBudget
<1>3. sweep' \in [Sweeps -> Sweep]
  <2>1. Cardinality(CountedAsSent(w)) + others \in Nat
    BY <1>1, QuantitiesAssumption
  <2>2. [sweep[w] EXCEPT !.phase = "ready", !.wants = (standing # "off"),
                         !.spent = Cardinality(CountedAsSent(w)) + others] \in Sweep
    BY <2>1, SweepFields DEF Sweep
  <2> QED BY <1>2, <2>2 DEF TypeOK
<1> QED BY <1>3 DEF TypeOK, ReadBudget, person, ghosts

LEMMA ComposeType == ASSUME TypeOK, NEW w \in Sweeps, NEW r \in Rows, Compose(w, r) PROVE TypeOK'
<1>1. posted[rows[r].thread] \in 0 .. MaxMessages
  BY RowFields DEF TypeOK
<1>2. Verdict(w, r) \in {"off", "gone", "read", "capped", "send"}
  BY DEF Verdict
<1>4. \A p \in {"composed", "delivered"} :
        [sweep[w] EXCEPT !.row = r, !.upTo = posted[rows[r].thread], !.verdict = Verdict(w, r),
                         !.phase = p] \in Sweep
  BY <1>1, <1>2, SweepFields DEF Sweep
<1>3. sweep' \in [Sweeps -> Sweep]
  BY <1>4 DEF Compose, TypeOK
<1> QED BY <1>3 DEF TypeOK, Compose, person, ghosts

(* Where a sweep is, what it holds: enough for Deliver and Settle to be typed. *)
AtHand ==
  \A w \in Sweeps :
    /\ sweep[w].phase \in {"composed", "delivered"} => sweep[w].row \in sweep[w].todo
    /\ sweep[w].phase = "idle" => sweep[w].todo = {}
    /\ sweep[w].phase \in {"idle", "claimed", "ready"} => sweep[w].verdict = "none"
    /\ sweep[w].phase = "composed" => sweep[w].verdict = "send"
    /\ sweep[w].phase = "delivered" => sweep[w].verdict \notin {"none", "send"}
    /\ sweep[w].verdict = "retry" => sweep[w].taken[sweep[w].row].attempt < CriticalAttempts
    /\ \A r \in sweep[w].todo : sweep[w].taken[r].attempt >= 1

LEMMA DeliverType ==
  ASSUME TypeOK, AtHand, NEW w \in Sweeps, Deliver(w) PROVE TypeOK'
<1> DEFINE r == sweep[w].row
           k == sweep[w].taken[r].attempt
<1>1. r \in Rows /\ k \in 1 .. CriticalAttempts /\ sweep[w].upTo \in 0 .. MaxMessages
  BY SweepFields DEF Deliver, AtHand, Taken, Attempts, CriticalAttempts
<1>2. PICK arrived \in BOOLEAN, confirmed \in BOOLEAN :
        /\ mails' = IF arrived THEN [mails EXCEPT ![r][k] = @ + 1] ELSE mails
        /\ reached' = IF arrived /\ sweep[w].upTo > reached[r]
                        THEN [reached EXCEPT ![r] = sweep[w].upTo] ELSE reached
        /\ sweep' = [sweep EXCEPT ![w].phase = "delivered",
                                  ![w].verdict = IF confirmed THEN "sent" ELSE Refused(w, r)]
  BY DEF Deliver
<1> HIDE DEF r, k
<1>3. mails' \in [Rows -> [1 .. CriticalAttempts -> Nat]]
  <2>1. mails[r] \in [1 .. CriticalAttempts -> Nat]
    BY <1>1 DEF TypeOK
  <2>2. [mails[r] EXCEPT ![k] = @ + 1] \in [1 .. CriticalAttempts -> Nat]
    <3>1. mails[r][k] + 1 \in Nat
      BY <1>1, <2>1 DEF CriticalAttempts
    <3> QED BY <1>1, <2>1, <3>1
  <2>3. mails' = mails \/ mails' = [mails EXCEPT ![r] = [mails[r] EXCEPT ![k] = @ + 1]]
    BY <1>1, <1>2 DEF TypeOK
  <2> QED BY <2>2, <2>3 DEF TypeOK
<1>4. reached' \in [Rows -> 0 .. MaxMessages]
  BY <1>1, <1>2 DEF TypeOK
<1>5. Refused(w, r) \in {"retry", "failed"}
  BY DEF Refused
<1>6. \A v \in {"sent", "retry", "failed"} :
        [sweep[w] EXCEPT !.phase = "delivered", !.verdict = v] \in Sweep
  BY SweepFields DEF Sweep
<1>7. sweep' \in [Sweeps -> Sweep]
  BY <1>2, <1>5, <1>6 DEF TypeOK
<1> QED BY <1>3, <1>4, <1>7 DEF TypeOK, Deliver, person

LEMMA SettledType ==
  ASSUME TypeOK, AtHand, NEW w \in Sweeps, sweep[w].phase = "delivered"
  PROVE  /\ sweep[w].row \in Rows
         /\ Settled(w, sweep[w].row) \in Row
         /\ Settled(w, sweep[w].row).thread = rows[sweep[w].row].thread
         /\ Settled(w, sweep[w].row).attempts = rows[sweep[w].row].attempts
         /\ Settled(w, sweep[w].row).critical = rows[sweep[w].row].critical
         /\ Settled(w, sweep[w].row).status \in {"pending"} \cup Over
<1> DEFINE r    == sweep[w].row
           done == [rows[r] EXCEPT !.lease = 0, !.owner = Nobody]
           v    == sweep[w].verdict
           wait == AtLeastZero(Backoff[sweep[w].taken[r].attempt] - sweep[w].age)
<1>1. r \in Rows
  BY SweepFields DEF AtHand
<1>2. v \in {"sent", "retry", "failed", "read", "off", "gone", "capped"}
  BY SweepFields DEF AtHand, Sweep
<1>3. rows[r] \in Row
  BY <1>1, RowFields
<1>4. done \in Row /\ done.thread = rows[r].thread /\ done.attempts = rows[r].attempts
                   /\ done.critical = rows[r].critical
  <2>1. 0 \in 0 .. Lease
    BY QuantitiesAssumption
  <2> QED BY <1>3, <2>1 DEF Row
<1>5. sweep[w].age \in 0 .. SentAge
  BY SweepFields, SentAgeType, QuantitiesAssumption DEF SentAge
<1>6. v = "retry" => wait \in Nat
  <2> HAVE v = "retry"
  <2>1. sweep[w].taken[r].attempt \in {1, 2}
    BY <1>1, SweepFields DEF AtHand, Taken, Attempts, CriticalAttempts
  <2>2. Backoff[sweep[w].taken[r].attempt] \in Int
    BY <2>1, QuantitiesAssumption DEF Backoff
  <2>3. sweep[w].age \in Int
    BY SweepFields
  <2> QED BY <2>2, <2>3, AtLeastZeroType
<1> HIDE DEF r, done, v, wait
<1>7. CASE v = "sent"
  <2>1. Settled(w, r) = [done EXCEPT !.status = "sent", !.sent = sweep[w].age, !.why = "none"]
    BY <1>7 DEF Settled, done, v, r
  <2> QED BY <1>1, <1>4, <1>5, <2>1 DEF Row, Over, r
<1>8. CASE v = "retry"
  <2>1. Settled(w, r) = [done EXCEPT !.status = "pending", !.why = "undelivered", !.wait = wait]
    BY <1>8 DEF Settled, done, v, r, wait
  <2> QED BY <1>1, <1>4, <1>6, <1>8, <2>1 DEF Row, Waiting, r
<1>9. CASE v = "failed"
  <2>1. Settled(w, r) = [done EXCEPT !.status = "failed", !.why = "undelivered"]
    BY <1>9 DEF Settled, done, v, r
  <2> QED BY <1>1, <1>4, <2>1 DEF Row, Over, r
<1>10. CASE v \in {"read", "off", "gone", "capped"}
  <2>1. Settled(w, r) = [done EXCEPT !.status = "skipped", !.why = v]
    BY <1>10 DEF Settled, done, v, r
  <2> QED BY <1>1, <1>4, <1>10, <2>1 DEF Row, Over, r
<1> QED BY <1>2, <1>7, <1>8, <1>9, <1>10

LEMMA SettleType ==
  ASSUME TypeOK, AtHand, NEW w \in Sweeps, Settle(w) PROVE TypeOK'
<1> DEFINE r == sweep[w].row
<1>1. sweep[w].phase = "delivered"
  BY DEF Settle
<1>2. rows' = rows \/ (Holds(w, r) /\ rows' = [rows EXCEPT ![r] = Settled(w, r)])
  BY DEF Settle
<1>3. rows' \in [Rows -> Row]
  BY <1>1, <1>2, SettledType DEF TypeOK
<1>4. \A s \in Rows : rows'[s].thread = rows[s].thread
                      /\ (rows'[s].status \in Waiting => rows[s].status \in Waiting)
  BY <1>1, <1>2, SettledType DEF TypeOK, Holds, Waiting
<1>5. UniqueWaiting(rows')
  BY <1>4 DEF TypeOK, UniqueWaiting
<1>6. sweep[w] \in Sweep /\ 0 \in 0 .. MaxMessages
  BY SweepFields, QuantitiesAssumption
<1>7. sweep[w].todo \ {r} \in SUBSET Rows /\ sweep[w].spent \in Nat /\ sweep[w].spent + 1 \in Nat
  BY SweepFields
<1>8. Onward(w) \in Sweep
  <2> DEFINE n == IF Holds(w, r) /\ sweep[w].verdict = "sent" THEN sweep[w].spent + 1
                                                              ELSE sweep[w].spent
             S == sweep[w].todo \ {r}
  <2>1. n \in Nat /\ S \in SUBSET Rows
    BY <1>7
  <2>2. Onward(w) = IF S = {} THEN Idle
          ELSE [sweep[w] EXCEPT !.phase = "ready", !.todo = S, !.row = Nobody, !.upTo = 0,
                                !.verdict = "none", !.spent = n]
    BY DEF Onward
  <2> HIDE DEF n, S
  <2>3. [sweep[w] EXCEPT !.phase = "ready", !.todo = S, !.row = Nobody, !.upTo = 0,
                         !.verdict = "none", !.spent = n] \in Sweep
    BY <1>6, <2>1 DEF Sweep
  <2> QED BY <2>2, <2>3, IdleType
<1>9. sweep' \in [Sweeps -> Sweep]
  BY <1>8 DEF TypeOK, Settle
<1> QED BY <1>3, <1>5, <1>9 DEF TypeOK, Settle, person, ghosts, UniqueWaiting

LEMMA OlderType ==
  ASSUME TypeOK, NEW r \in Rows
  PROVE  /\ Older(r) \in Row /\ Older(r).status = rows[r].status
         /\ Older(r).thread = rows[r].thread /\ Older(r).attempts = rows[r].attempts
         /\ Older(r).critical = rows[r].critical /\ Older(r).why = rows[r].why
         /\ Older(r).since = rows[r].since
<1>1. AtLeastZero(rows[r].wait - 1) \in Nat
  BY RowFields, AtLeastZeroType
<1>2. AtLeastZero(rows[r].lease - 1) \in 0 .. Lease
  BY RowFields, QuantitiesAssumption DEF AtLeastZero
<1>3. (IF rows[r].status = "sent" /\ rows[r].sent < SentAge THEN rows[r].sent + 1 ELSE rows[r].sent)
        \in 0 .. SentAge
  BY RowFields, SentAgeType
<1>4. rows[r] \in Row
  BY RowFields
<1> QED BY <1>1, <1>2, <1>3, <1>4 DEF Older, Row

LEMMA TickType == ASSUME TypeOK, Tick PROVE TypeOK'
<1>1. rows' \in [Rows -> Row]
  BY OlderType DEF Tick
<1>2. \A s \in Rows : rows'[s].thread = rows[s].thread
                      /\ (rows'[s].status \in Waiting => rows[s].status \in Waiting)
  BY OlderType DEF Tick
<1>3. UniqueWaiting(rows')
  BY <1>2 DEF TypeOK, UniqueWaiting
<1>4. ASSUME NEW w \in Sweeps PROVE [sweep[w] EXCEPT !.age = @ + 1] \in Sweep
  <2>1. sweep[w].age + 1 \in 0 .. SweepTime
    BY SweepFields, QuantitiesAssumption DEF Tick
  <2> QED BY <2>1, SweepFields DEF Sweep
<1>5. sweep' \in [Sweeps -> Sweep]
  BY <1>4, SweepFields DEF Tick
<1> QED BY <1>1, <1>3, <1>5 DEF TypeOK, Tick, person, ghosts, UniqueWaiting

LEMMA AtHandStep ==
  ASSUME TypeOK, AtHand, NEW w \in Sweeps,
         \/ Claim(w) \/ ReadBudget(w) \/ Deliver(w) \/ Settle(w) \/ Crash(w)
         \/ \E r \in Rows : Compose(w, r)
  PROVE  AtHand'
<1>1. \A v \in Sweeps \ {w} : sweep'[v] = sweep[v]
  BY DEF Claim, ReadBudget, Deliver, Settle, Crash, Compose, TypeOK
<1>2. SUFFICES /\ sweep'[w].phase \in {"composed", "delivered"} => sweep'[w].row \in sweep'[w].todo
               /\ sweep'[w].phase = "idle" => sweep'[w].todo = {}
               /\ sweep'[w].phase \in {"idle", "claimed", "ready"} => sweep'[w].verdict = "none"
               /\ sweep'[w].phase = "composed" => sweep'[w].verdict = "send"
               /\ sweep'[w].phase = "delivered" => sweep'[w].verdict \notin {"none", "send"}
               /\ sweep'[w].verdict = "retry"
                    => sweep'[w].taken[sweep'[w].row].attempt < CriticalAttempts
               /\ \A r \in sweep'[w].todo : sweep'[w].taken[r].attempt >= 1
  BY <1>1 DEF AtHand
<1>3. sweep[w] \in Sweep
  BY SweepFields
<1>4. CASE Claim(w)
  <2> DEFINE taken == [r \in Rows |-> IF Due(r)
                        THEN [attempt |-> rows[r].attempts + 1, critical |-> rows[r].critical]
                        ELSE Untaken]
             due == {r \in Rows : Due(r)}
  <2>1. sweep[w].phase = "idle" /\ sweep[w].verdict = "none"
    BY <1>4 DEF Claim, AtHand
  <2>2. CASE due = {}
    <3>1. sweep' = sweep
      BY <1>4, <2>2 DEF Claim
    <3> QED BY <3>1 DEF AtHand
  <2>3. CASE due # {}
    <3>1. sweep' = [sweep EXCEPT ![w].phase = "claimed", ![w].todo = due, ![w].taken = taken]
      BY <1>4, <2>3 DEF Claim
    <3>2. sweep'[w].phase = "claimed" /\ sweep'[w].todo = due /\ sweep'[w].taken = taken
          /\ sweep'[w].verdict = "none"
      BY <1>3, <2>1, <3>1 DEF TypeOK, Sweep
    <3>3. \A r \in due : rows[r].attempts \in Nat
      BY RowFields DEF Attempts, CriticalAttempts
    <3>4. \A r \in due : taken[r].attempt >= 1
      BY <3>3
    <3> QED BY <3>2, <3>4
  <2> QED BY <2>2, <2>3
<1>5. CASE ReadBudget(w)
  <2>0. PICK spent : sweep' = [sweep EXCEPT ![w].phase = "ready", ![w].wants = (standing # "off"),
                                               ![w].spent = spent]
    BY <1>5 DEF ReadBudget
  <2>1. sweep'[w].phase = "ready" /\ sweep'[w].todo = sweep[w].todo
        /\ sweep'[w].taken = sweep[w].taken /\ sweep'[w].verdict = sweep[w].verdict
    BY <1>3, <2>0 DEF TypeOK, Sweep
  <2> QED BY <1>5, <2>1 DEF ReadBudget, AtHand
<1>6. CASE \E r \in Rows : Compose(w, r)
  <2>1. PICK r \in Rows : Compose(w, r)
    BY <1>6
  <2>2. sweep'[w].row = r /\ sweep'[w].todo = sweep[w].todo /\ sweep'[w].taken = sweep[w].taken
        /\ sweep'[w].verdict = Verdict(w, r)
        /\ sweep'[w].phase = IF Verdict(w, r) = "send" THEN "composed" ELSE "delivered"
    BY <1>3, <2>1 DEF Compose, TypeOK, Sweep
  <2>3. Verdict(w, r) \in {"off", "gone", "read", "capped", "send"}
    BY DEF Verdict
  <2>4. r \in sweep[w].todo /\ \A q \in sweep[w].todo : sweep[w].taken[q].attempt >= 1
    BY <2>1 DEF Compose, AtHand
  <2>5. CASE Verdict(w, r) = "send"
    BY <2>2, <2>4, <2>5
  <2>6. CASE Verdict(w, r) # "send"
    BY <2>2, <2>3, <2>4, <2>6
  <2> QED BY <2>5, <2>6
<1>7. CASE Deliver(w)
  <2>1. PICK c \in BOOLEAN : sweep' = [sweep EXCEPT ![w].phase = "delivered",
                               ![w].verdict = IF c THEN "sent" ELSE Refused(w, sweep[w].row)]
    BY <1>7 DEF Deliver
  <2>2. sweep'[w].phase = "delivered" /\ sweep'[w].todo = sweep[w].todo
        /\ sweep'[w].taken = sweep[w].taken /\ sweep'[w].row = sweep[w].row
        /\ sweep'[w].verdict = IF c THEN "sent" ELSE Refused(w, sweep[w].row)
    BY <1>3, <2>1 DEF TypeOK, Sweep
  <2>3. Refused(w, sweep[w].row) \in {"retry", "failed"}
        /\ (Refused(w, sweep[w].row) = "retry"
              => sweep[w].taken[sweep[w].row].attempt < CriticalAttempts)
    BY DEF Refused
  <2>4. sweep[w].row \in sweep[w].todo /\ \A r \in sweep[w].todo : sweep[w].taken[r].attempt >= 1
    BY <1>7 DEF Deliver, AtHand
  <2> QED BY <2>2, <2>3, <2>4
<1>8. CASE Settle(w)
  <2>1. sweep'[w] = Onward(w)
    BY <1>8 DEF Settle, TypeOK
  <2>2. CASE sweep[w].todo \ {sweep[w].row} = {}
    BY <2>1, <2>2 DEF Onward, Idle
  <2>3. CASE sweep[w].todo \ {sweep[w].row} # {}
    <3>1. sweep'[w].phase = "ready" /\ sweep'[w].todo = sweep[w].todo \ {sweep[w].row}
          /\ sweep'[w].taken = sweep[w].taken /\ sweep'[w].verdict = "none"
      BY <1>3, <2>1, <2>3 DEF Onward, Sweep
    <3> QED BY <3>1 DEF AtHand
  <2> QED BY <2>2, <2>3
<1>9. CASE Crash(w)
  BY <1>9 DEF Crash, Idle, TypeOK
<1> QED BY <1>4, <1>5, <1>6, <1>7, <1>8, <1>9

LEMMA AtHandTick == ASSUME TypeOK, AtHand, Tick PROVE AtHand'
<1>1. ASSUME NEW w \in Sweeps
      PROVE  /\ sweep'[w].phase = sweep[w].phase /\ sweep'[w].todo = sweep[w].todo
             /\ sweep'[w].taken = sweep[w].taken /\ sweep'[w].row = sweep[w].row
             /\ sweep'[w].verdict = sweep[w].verdict
  BY SweepFields DEF Tick, Sweep
<1> QED BY <1>1 DEF AtHand

LEMMA TypeStep == ASSUME TypeOK, AtHand, [Next]_vars PROVE TypeOK' /\ AtHand'
<1>1. CASE UNCHANGED vars
  BY <1>1 DEF vars, person, ghosts, TypeOK, AtHand
<1>2. ASSUME NEW t \in Threads, ReadThread(t) PROVE TypeOK' /\ AtHand'
  <2>1. posted[t] \in 0 .. MaxMessages
    BY DEF TypeOK
  <2>2. seen' \in [Threads -> 0 .. MaxMessages]
    BY <1>2, <2>1 DEF ReadThread, TypeOK
  <2> QED BY <1>2, <2>2 DEF ReadThread, ghosts, TypeOK, AtHand
<1>3. ASSUME NEW t \in Threads, NEW critical \in BOOLEAN, Post(t, critical) PROVE TypeOK' /\ AtHand'
  BY <1>3, PostType DEF Post, AtHand
<1>4. ASSUME NEW e \in events, Enqueue(e) PROVE TypeOK' /\ AtHand'
  BY <1>4, EnqueueType DEF Enqueue, AtHand
<1>5. ASSUME NEW e \in events, Promote(e) PROVE TypeOK' /\ AtHand'
  BY <1>5, PromoteType DEF Promote, AtHand
<1>6. ASSUME NEW e \in events, LoseEvent(e) PROVE TypeOK' /\ AtHand'
  BY <1>6 DEF LoseEvent, person, ghosts, TypeOK, AtHand
<1>7. CASE ChangeStanding
  BY <1>7 DEF ChangeStanding, ghosts, TypeOK, AtHand
<1>8. ASSUME NEW w \in Sweeps,
             \/ Claim(w) \/ ReadBudget(w) \/ Deliver(w) \/ Settle(w) \/ Crash(w)
             \/ \E r \in Rows : Compose(w, r)
      PROVE  TypeOK' /\ AtHand'
  <2>1. AtHand'
    BY <1>8, AtHandStep
  <2>2. CASE Crash(w)
    <3>1. sweep' \in [Sweeps -> Sweep]
      BY <2>2, IdleType DEF Crash, TypeOK
    <3> QED BY <2>1, <2>2, <3>1 DEF Crash, person, ghosts, TypeOK
  <2> QED BY <1>8, <2>1, <2>2, ClaimType, ReadBudgetType, DeliverType, SettleType, ComposeType
<1>9. CASE Tick
  BY <1>9, TickType, AtHandTick
<1> QED BY <1>1, <1>2, <1>3, <1>4, <1>5, <1>6, <1>7, <1>8, <1>9 DEF Next

LEMMA InitAtHand == Init => AtHand
  BY DEF Init, AtHand, Idle

(* The queue, the sweeps and what they carry stay well formed, and a thread   *)
(* never has two waiting rows.                                                *)
THEOREM TypeCorrect == Spec => []TypeOK
<1>1. Spec => [](TypeOK /\ AtHand)
  BY InitType, InitAtHand, TypeStep, PTL DEF Spec
<1> QED BY <1>1, PTL

(* Why an attempt mails once: a claim raises the row's attempts, so no two    *)
(* sweeps carry the same attempt of a row, and one that has not delivered yet *)
(* left no mail.                                                              *)
Delivered(w, r) == sweep[w].phase = "delivered" /\ sweep[w].row = r
Carried ==
  /\ OneMailPerAttempt
  /\ \A r \in Rows : rows[r].status = "free" => rows[r].attempts = 0
  /\ \A w \in Sweeps : \A r \in sweep[w].todo :
       /\ sweep[w].taken[r].attempt <= rows[r].attempts
       /\ Delivered(w, r) \/ mails[r][sweep[w].taken[r].attempt] = 0
  /\ \A w, v \in Sweeps : \A r \in sweep[w].todo \cap sweep[v].todo :
       sweep[w].taken[r].attempt = sweep[v].taken[r].attempt => w = v

(* Attempts rise and the rest of Carried is untouched by a step that leaves   *)
(* sweeps and mails alone.                                                    *)
LEMMA RowsMayChange ==
  ASSUME TypeOK, TypeOK', Carried, sweep' = sweep, mails' = mails,
         \A r \in Rows :
           \/ rows'[r].attempts = rows[r].attempts
              /\ rows'[r].attempts <= (IF rows'[r].critical THEN CriticalAttempts ELSE 1)
              /\ (rows'[r].status = "free" => rows[r].status = "free")
           \/ rows[r].status = "free" /\ rows'[r].attempts = 0
  PROVE  Carried'
<1>1. \A r \in Rows : rows'[r].attempts = rows[r].attempts
  BY DEF Carried
<1>2. \A r \in Rows : rows'[r].attempts <= (IF rows'[r].critical THEN CriticalAttempts ELSE 1)
  BY DEF CriticalAttempts
<1>3. \A r \in Rows : rows'[r].status = "free" => rows'[r].attempts = 0
  BY <1>1 DEF Carried
<1>4. OneMailPerAttempt'
  BY <1>1, <1>2 DEF Carried, OneMailPerAttempt, LastAttempt
<1>5. \A w \in Sweeps : sweep[w].todo \subseteq Rows
  BY SweepFields
<1>6. \A w \in Sweeps : \A r \in sweep[w].todo :
        sweep[w].taken[r].attempt <= rows'[r].attempts
  BY <1>1, <1>5 DEF Carried
<1> QED BY <1>3, <1>4, <1>6 DEF Carried, Delivered

LEMMA CarriedClaim ==
  ASSUME TypeOK, AtHand, Carried, NEW w \in Sweeps, Claim(w) PROVE Carried'
<1> DEFINE taken == [r \in Rows |-> IF Due(r)
                       THEN [attempt |-> rows[r].attempts + 1, critical |-> rows[r].critical]
                       ELSE Untaken]
           due == {r \in Rows : Due(r)}
<1>1. ASSUME NEW r \in Rows
      PROVE  /\ rows'[r].attempts = IF Due(r) THEN rows[r].attempts + 1 ELSE rows[r].attempts
             /\ rows'[r].critical = rows[r].critical
             /\ rows'[r].status = "free" => rows[r].status = "free" /\ ~ Due(r)
  <2>1. rows[r] \in Row
    BY RowFields
  <2>2. rows'[r] = IF Exhausted(r)
          THEN [rows[r] EXCEPT !.status = "failed", !.owner = Nobody, !.why = "expired"]
          ELSE IF Due(r)
          THEN [rows[r] EXCEPT !.status = "sending", !.attempts = @ + 1, !.owner = w, !.lease = Lease]
          ELSE rows[r]
    BY DEF Claim
  <2>3. Exhausted(r) => ~ Due(r)
    BY RowFields DEF Exhausted, Due, LastAttempt, CriticalAttempts, Attempts
  <2>4. CASE Exhausted(r)
    BY <2>1, <2>2, <2>3, <2>4 DEF Row
  <2>5. CASE ~ Exhausted(r) /\ Due(r)
    BY <2>1, <2>2, <2>5 DEF Row
  <2>6. CASE ~ Exhausted(r) /\ ~ Due(r)
    BY <2>2, <2>6
  <2> QED BY <2>4, <2>5, <2>6
<1>2. \A r \in Rows : rows[r].attempts \in Nat /\ rows'[r].attempts \in Nat
                      /\ rows[r].attempts <= rows'[r].attempts
  BY <1>1, RowFields DEF Attempts, CriticalAttempts
<1>3. \A r \in Rows : rows'[r].attempts <= (IF rows'[r].critical THEN CriticalAttempts ELSE 1)
  BY <1>1, <1>2 DEF Due, LastAttempt, CriticalAttempts, Carried, OneMailPerAttempt
<1>4. mails' = mails
  BY DEF Claim, ghosts
<1>5. \A r \in Rows : \A k \in 1 .. CriticalAttempts :
        mails[r][k] <= IF k <= rows'[r].attempts THEN 1 ELSE 0
  <2> SUFFICES ASSUME NEW r \in Rows, NEW k \in 1 .. CriticalAttempts
               PROVE  mails[r][k] <= IF k <= rows'[r].attempts THEN 1 ELSE 0
    OBVIOUS
  <2>1. mails[r][k] \in Nat /\ k \in Nat
    BY DEF TypeOK, CriticalAttempts
  <2>2. mails[r][k] <= IF k <= rows[r].attempts THEN 1 ELSE 0
    BY DEF Carried, OneMailPerAttempt
  <2> QED BY <1>2, <2>1, <2>2
<1>6. OneMailPerAttempt'
  BY <1>3, <1>4, <1>5 DEF OneMailPerAttempt, LastAttempt
<1>7. \A r \in Rows : rows'[r].status = "free" => rows'[r].attempts = 0
  BY <1>1 DEF Carried
<1>8. sweep[w].phase = "idle" /\ sweep[w].todo = {}
  BY DEF Claim, AtHand
<1>9. \A v \in Sweeps \ {w} : sweep'[v] = sweep[v]
  BY DEF Claim, TypeOK
<1>10. ASSUME NEW v \in Sweeps, NEW r \in sweep[v].todo
       PROVE  sweep[v].taken[r].attempt <= rows[r].attempts /\ sweep[v].taken[r].attempt \in Nat
              /\ r \in Rows
  BY SweepFields DEF Carried, Taken, Attempts, CriticalAttempts
<1>11. CASE due = {}
  <2>1. sweep' = sweep
    BY <1>11 DEF Claim
  <2>2. \A v \in Sweeps : \A r \in sweep[v].todo : sweep[v].taken[r].attempt <= rows'[r].attempts
    BY <1>2, <1>10
  <2> QED BY <1>4, <1>6, <1>7, <2>1, <2>2 DEF Carried, Delivered
<1>12. CASE due # {}
  <2>1. sweep'[w].todo = due /\ sweep'[w].taken = taken /\ sweep'[w].phase = "claimed"
    BY <1>12, SweepFields DEF Claim, TypeOK, Sweep
  <2>2. \A r \in due : taken[r].attempt = rows'[r].attempts /\ taken[r].attempt = rows[r].attempts + 1
    BY <1>1
  <2>3. ASSUME NEW r \in due PROVE mails[r][taken[r].attempt] = 0
    <3>1. taken[r].attempt \in 1 .. CriticalAttempts /\ ~ (taken[r].attempt <= rows[r].attempts)
      BY <1>2, <1>3, <2>2 DEF CriticalAttempts
    <3>2. mails[r][taken[r].attempt] \in Nat
      BY <3>1 DEF TypeOK
    <3> HIDE DEF taken
    <3>3. mails[r][taken[r].attempt] <= 0
      BY <3>1 DEF Carried, OneMailPerAttempt
    <3> QED BY <3>2, <3>3
  <2> HIDE DEF taken, due
  <2>4. ASSUME NEW v \in Sweeps, NEW r \in sweep'[v].todo
        PROVE  sweep'[v].taken[r].attempt <= rows'[r].attempts
               /\ (Delivered(v, r)' \/ mails'[r][sweep'[v].taken[r].attempt] = 0)
    <3>1. CASE v = w
      BY <1>2, <1>4, <2>1, <2>2, <2>3, <3>1 DEF due
    <3>2. CASE v # w
      BY <1>2, <1>4, <1>9, <1>10, <3>2 DEF Carried, Delivered
    <3> QED BY <3>1, <3>2
  <2>5. ASSUME NEW u \in Sweeps, NEW v \in Sweeps, NEW r \in sweep'[u].todo \cap sweep'[v].todo,
               sweep'[u].taken[r].attempt = sweep'[v].taken[r].attempt, u # v
        PROVE  FALSE
    <3>1. CASE u = w
      <4>1. r \in due /\ r \in sweep[v].todo /\ sweep[v].taken[r].attempt = rows[r].attempts + 1
        BY <1>9, <2>1, <2>2, <2>5, <3>1
      <4> QED BY <1>2, <1>10, <4>1
    <3>2. CASE v = w
      <4>1. r \in due /\ r \in sweep[u].todo /\ sweep[u].taken[r].attempt = rows[r].attempts + 1
        BY <1>9, <2>1, <2>2, <2>5, <3>2
      <4> QED BY <1>2, <1>10, <4>1
    <3>3. CASE u # w /\ v # w
      BY <1>9, <2>5, <3>3 DEF Carried
    <3> QED BY <3>1, <3>2, <3>3
  <2> QED BY <1>6, <1>7, <2>4, <2>5 DEF Carried
<1> QED BY <1>11, <1>12

(* A sweep that only moves on, or drops rows, carries nothing new. *)
LEMMA SweepMovesOn ==
  ASSUME TypeOK, Carried, NEW w \in Sweeps, mails' = mails,
         \A r \in Rows : rows'[r].attempts = rows[r].attempts /\ rows'[r].critical = rows[r].critical
                         /\ (rows'[r].status = "free" => rows[r].status = "free"),
         \A v \in Sweeps \ {w} : sweep'[v] = sweep[v],
         sweep'[w].todo \subseteq sweep[w].todo,
         \A r \in sweep'[w].todo : sweep'[w].taken[r] = sweep[w].taken[r]
                                   /\ (Delivered(w, r) => Delivered(w, r)')
  PROVE  Carried'
<1>1. OneMailPerAttempt' /\ \A r \in Rows : rows'[r].status = "free" => rows'[r].attempts = 0
  BY DEF Carried, OneMailPerAttempt, LastAttempt
<1>2. ASSUME NEW v \in Sweeps, NEW r \in sweep'[v].todo
      PROVE  sweep'[v].taken[r] = sweep[v].taken[r] /\ r \in sweep[v].todo /\ r \in Rows
             /\ (Delivered(v, r) => Delivered(v, r)')
  BY SweepFields DEF Delivered
<1>3. \A v \in Sweeps : \A r \in sweep'[v].todo :
        sweep'[v].taken[r].attempt <= rows'[r].attempts
        /\ (Delivered(v, r)' \/ mails'[r][sweep'[v].taken[r].attempt] = 0)
  BY <1>2 DEF Carried
<1>4. \A u, v \in Sweeps : \A r \in sweep'[u].todo \cap sweep'[v].todo :
        sweep'[u].taken[r].attempt = sweep'[v].taken[r].attempt => u = v
  BY <1>2 DEF Carried
<1> QED BY <1>1, <1>3, <1>4 DEF Carried

LEMMA CarriedDeliver ==
  ASSUME TypeOK, AtHand, Carried, NEW w \in Sweeps, Deliver(w) PROVE Carried'
<1> DEFINE r == sweep[w].row
           k == sweep[w].taken[r].attempt
<1>1. r \in Rows /\ r \in sweep[w].todo /\ k \in 1 .. CriticalAttempts /\ k <= rows[r].attempts
  BY SweepFields DEF Deliver, AtHand, Taken, Attempts, CriticalAttempts, Carried
<1>2. ~ Delivered(w, r) /\ mails[r][k] = 0
  BY <1>1 DEF Deliver, Delivered, Carried
<1>3. PICK arrived \in BOOLEAN, confirmed \in BOOLEAN :
        /\ mails' = IF arrived THEN [mails EXCEPT ![r][k] = @ + 1] ELSE mails
        /\ sweep' = [sweep EXCEPT ![w].phase = "delivered",
                                  ![w].verdict = IF confirmed THEN "sent" ELSE Refused(w, r)]
  BY DEF Deliver
<1>4. rows' = rows
  BY DEF Deliver
<1>5. sweep'[w].phase = "delivered" /\ sweep'[w].todo = sweep[w].todo /\ sweep'[w].row = r
      /\ sweep'[w].taken = sweep[w].taken
  BY <1>3, SweepFields DEF TypeOK, Sweep
<1>6. \A v \in Sweeps \ {w} : sweep'[v] = sweep[v]
  BY <1>3 DEF TypeOK
<1> HIDE DEF r, k
<1>7. mails'[r][k] \in {0, 1}
      /\ \A q \in Rows : \A j \in 1 .. CriticalAttempts : q # r \/ j # k => mails'[q][j] = mails[q][j]
  BY <1>1, <1>2, <1>3 DEF TypeOK
<1>8. OneMailPerAttempt'
  <2>1. \A q \in Rows : \A j \in 1 .. CriticalAttempts :
          mails'[q][j] <= IF j <= rows[q].attempts THEN 1 ELSE 0
    BY <1>1, <1>7 DEF Carried, OneMailPerAttempt
  <2> QED BY <1>4, <2>1 DEF Carried, OneMailPerAttempt, LastAttempt
<1>9. ASSUME NEW v \in Sweeps, NEW q \in sweep'[v].todo
      PROVE  Delivered(v, q)' \/ mails'[q][sweep'[v].taken[q].attempt] = 0
  <2>1. q \in Rows /\ sweep'[v].taken = sweep[v].taken /\ q \in sweep[v].todo
    BY <1>5, <1>6, SweepFields
  <2>2. sweep[v].taken[q].attempt \in 1 .. CriticalAttempts
    BY <2>1, SweepFields DEF AtHand, Taken, Attempts, CriticalAttempts
  <2>3. CASE q = r /\ sweep[v].taken[q].attempt = k
    <3>1. v = w
      BY <1>1, <2>1, <2>3 DEF Carried, k, r
    <3> QED BY <1>5, <2>3, <3>1 DEF Delivered
  <2>4. CASE q # r \/ sweep[v].taken[q].attempt # k
    <3>1. mails'[q][sweep[v].taken[q].attempt] = mails[q][sweep[v].taken[q].attempt]
      BY <1>7, <2>1, <2>2, <2>4
    <3>2. Delivered(v, q) => Delivered(v, q)'
      BY <1>5, <1>6 DEF Delivered, r
    <3> QED BY <2>1, <3>1, <3>2 DEF Carried
  <2> QED BY <2>3, <2>4
<1>10. \A v \in Sweeps : sweep'[v].todo = sweep[v].todo /\ sweep'[v].taken = sweep[v].taken
  BY <1>5, <1>6
<1> QED BY <1>4, <1>8, <1>9, <1>10 DEF Carried

LEMMA CarriedSettle ==
  ASSUME TypeOK, AtHand, Carried, NEW w \in Sweeps, Settle(w) PROVE Carried'
<1>1. \A r \in Rows : rows'[r].attempts = rows[r].attempts /\ rows'[r].critical = rows[r].critical
                      /\ (rows'[r].status = "free" => rows[r].status = "free")
  BY SettledType DEF Settle, TypeOK, Over
<1>2. \A v \in Sweeps \ {w} : sweep'[v] = sweep[v]
  BY DEF Settle, TypeOK
<1>3. sweep'[w] = Onward(w)
  BY DEF Settle, TypeOK
<1>4. CASE sweep[w].todo \ {sweep[w].row} = {}
  <2>1. sweep'[w].todo = {}
    BY <1>3, <1>4 DEF Onward, Idle
  <2> QED BY <1>1, <1>2, <2>1, SweepMovesOn DEF Settle, ghosts
<1>5. CASE sweep[w].todo \ {sweep[w].row} # {}
  <2>1. sweep'[w].todo = sweep[w].todo \ {sweep[w].row} /\ sweep'[w].taken = sweep[w].taken
    BY <1>3, <1>5, SweepFields DEF Onward, Sweep
  <2>2. \A r \in sweep'[w].todo : ~ Delivered(w, r)
    BY <2>1 DEF Delivered
  <2> QED BY <1>1, <1>2, <2>1, <2>2, SweepMovesOn DEF Settle, ghosts
<1> QED BY <1>4, <1>5

LEMMA CarriedStep ==
  ASSUME TypeOK, TypeOK', AtHand, Carried, [Next]_vars PROVE Carried'
<1>1. CASE UNCHANGED vars \/ ChangeStanding \/ \E t \in Threads :
             ReadThread(t) \/ \E critical \in BOOLEAN : Post(t, critical)
  <2>1. rows' = rows /\ sweep' = sweep /\ mails' = mails
    BY <1>1 DEF vars, person, ghosts, ChangeStanding, ReadThread, Post
  <2> QED BY <2>1 DEF Carried, OneMailPerAttempt, LastAttempt, Delivered
<1>2. ASSUME NEW e \in events, Enqueue(e) PROVE Carried'
  <2>1. sweep' = sweep /\ mails' = mails
    BY <1>2 DEF Enqueue
  <2>2. rows' = rows \/ \E r \in Rows : rows[r].status = "free" /\ rows' = [rows EXCEPT ![r] = Queued(e)]
    BY <1>2 DEF Enqueue, Insert
  <2>3. Queued(e).attempts = 0
    BY DEF Queued
  <2>4. \A r \in Rows : rows'[r] = rows[r] \/ (rows[r].status = "free" /\ rows'[r].attempts = 0)
    BY <2>2, <2>3 DEF TypeOK
  <2>5. \A r \in Rows : rows[r].attempts <= (IF rows[r].critical THEN CriticalAttempts ELSE 1)
    BY DEF Carried, OneMailPerAttempt, LastAttempt
  <2> QED BY <2>1, <2>4, <2>5, RowsMayChange
<1>3. ASSUME NEW e \in events, Promote(e) PROVE Carried'
  <2>1. sweep' = sweep /\ mails' = mails
    BY <1>3 DEF Promote, ghosts
  <2>2. \A r \in Rows : rows'[r].attempts = rows[r].attempts /\ rows'[r].status = rows[r].status
                        /\ (rows[r].critical => rows'[r].critical) /\ rows'[r].critical \in BOOLEAN
    BY <1>3, RowFields DEF Promote, Row
  <2>3. \A r \in Rows : rows[r].attempts <= (IF rows[r].critical THEN CriticalAttempts ELSE 1)
    BY DEF Carried, OneMailPerAttempt, LastAttempt
  <2>4. \A r \in Rows : rows[r].attempts \in Nat
    BY RowFields DEF Attempts, CriticalAttempts
  <2>5. \A r \in Rows : rows'[r].attempts <= (IF rows'[r].critical THEN CriticalAttempts ELSE 1)
    BY <2>2, <2>3, <2>4, RowFields DEF CriticalAttempts
  <2> QED BY <2>1, <2>2, <2>5, RowsMayChange
<1>4. ASSUME NEW e \in events, LoseEvent(e) PROVE Carried'
  BY <1>4 DEF LoseEvent, ghosts, Carried, OneMailPerAttempt, LastAttempt, Delivered
<1>5. ASSUME NEW w \in Sweeps, ReadBudget(w) PROVE Carried'
  <2>1. sweep'[w].todo = sweep[w].todo /\ sweep'[w].taken = sweep[w].taken
        /\ \A r \in Rows : ~ Delivered(w, r)
    BY <1>5, SweepFields DEF ReadBudget, TypeOK, Sweep, Delivered
  <2>2. \A v \in Sweeps \ {w} : sweep'[v] = sweep[v]
    BY <1>5 DEF ReadBudget, TypeOK
  <2>3. sweep[w].todo \subseteq Rows
    BY SweepFields
  <2>4. rows' = rows /\ mails' = mails
    BY <1>5 DEF ReadBudget, ghosts
  <2> QED BY <2>1, <2>2, <2>3, <2>4, SweepMovesOn
<1>6. ASSUME NEW w \in Sweeps, NEW r \in Rows, Compose(w, r) PROVE Carried'
  <2>1. sweep'[w].todo = sweep[w].todo /\ sweep'[w].taken = sweep[w].taken
        /\ \A q \in Rows : ~ Delivered(w, q)
    BY <1>6, SweepFields DEF Compose, TypeOK, Sweep, Delivered
  <2>2. \A v \in Sweeps \ {w} : sweep'[v] = sweep[v]
    BY <1>6 DEF Compose, TypeOK
  <2>3. sweep[w].todo \subseteq Rows
    BY SweepFields
  <2>4. rows' = rows /\ mails' = mails
    BY <1>6 DEF Compose, ghosts
  <2> QED BY <2>1, <2>2, <2>3, <2>4, SweepMovesOn
<1>7. ASSUME NEW w \in Sweeps, Crash(w) PROVE Carried'
  <2>1. sweep'[w].todo = {} /\ \A v \in Sweeps \ {w} : sweep'[v] = sweep[v]
    BY <1>7 DEF Crash, TypeOK, Idle
  <2>2. rows' = rows /\ mails' = mails
    BY <1>7 DEF Crash, ghosts
  <2> QED BY <2>1, <2>2, SweepMovesOn
<1>8. CASE Tick
  <2>1. \A r \in Rows : rows'[r].attempts = rows[r].attempts /\ rows'[r].critical = rows[r].critical
                        /\ rows'[r].status = rows[r].status
    BY <1>8, OlderType DEF Tick
  <2>2. \A w \in Sweeps : sweep'[w].phase = sweep[w].phase /\ sweep'[w].todo = sweep[w].todo
                          /\ sweep'[w].taken = sweep[w].taken /\ sweep'[w].row = sweep[w].row
    BY <1>8, SweepFields DEF Tick, Sweep
  <2>3. mails' = mails
    BY <1>8 DEF Tick, ghosts
  <2>4. \A w \in Sweeps : sweep[w].todo \subseteq Rows
    BY SweepFields
  <2>5. OneMailPerAttempt' /\ \A r \in Rows : rows'[r].status = "free" => rows'[r].attempts = 0
    BY <2>1, <2>3 DEF Carried, OneMailPerAttempt, LastAttempt
  <2> QED BY <2>1, <2>2, <2>3, <2>4, <2>5 DEF Carried, Delivered
<1> QED BY <1>1, <1>2, <1>3, <1>4, <1>5, <1>6, <1>7, <1>8, CarriedClaim, CarriedDeliver,
           CarriedSettle DEF Next

LEMMA InitCarried == Init => Carried
<1> SUFFICES ASSUME Init PROVE Carried
  OBVIOUS
<1>1. \A r \in Rows : rows[r].attempts = 0 /\ rows[r].status = "free" /\ rows[r].critical = FALSE
  BY DEF Init, Free
<1>2. \A r \in Rows : \A k \in 1 .. CriticalAttempts : mails[r][k] = 0
  BY DEF Init
<1>3. \A w \in Sweeps : sweep[w].todo = {}
  BY DEF Init, Idle
<1>4. OneMailPerAttempt
  BY <1>1, <1>2 DEF OneMailPerAttempt, LastAttempt, CriticalAttempts
<1> QED BY <1>1, <1>3, <1>4 DEF Carried

(* Whatever crashes, lapses or overlaps, an attempt puts out one mail at most *)
(* and there are no attempts beyond the limit: one mail for ordinary          *)
(* activity, three for a handoff.                                             *)
THEOREM MailedOncePerAttempt == Spec => []OneMailPerAttempt
<1>1. Spec => [](TypeOK /\ AtHand /\ Carried)
  BY InitType, InitAtHand, InitCarried, TypeStep, CarriedStep, PTL DEF Spec
<1>2. Carried => OneMailPerAttempt
  BY DEF Carried
<1> QED BY <1>1, <1>2, PTL

(* No later claim, settlement or promotion changes a row that is over. *)
THEOREM OverForGood == Spec => OverIsOver
<1> DEFINE Kept(r) == rows[r].status \in Over =>
             /\ rows'[r].status = rows[r].status /\ rows'[r].why = rows[r].why
             /\ rows'[r].critical = rows[r].critical
<1>1. ASSUME TypeOK, AtHand, [Next]_vars, NEW r \in Rows PROVE Kept(r)
  <2>1. CASE rows' = rows
    BY <2>1
  <2>2. ASSUME NEW e \in events, Enqueue(e) PROVE Kept(r)
    <3>1. rows' = rows \/ \E q \in Rows : rows[q].status = "free" /\ rows' = [rows EXCEPT ![q] = Queued(e)]
      BY <2>2 DEF Enqueue, Insert
    <3>2. rows'[r] = rows[r] \/ rows[r].status = "free"
      BY <1>1, <3>1 DEF TypeOK
    <3> QED BY <3>2 DEF Over
  <2>3. ASSUME NEW e \in events, Promote(e) PROVE Kept(r)
    BY <2>3 DEF Promote, Coalesces, Waiting, Over
  <2>4. ASSUME NEW w \in Sweeps, Claim(w) PROVE Kept(r)
    BY <2>4 DEF Claim, Exhausted, Due, Expired, Over
  <2>5. ASSUME NEW w \in Sweeps, Settle(w) PROVE Kept(r)
    BY <1>1, <2>5, SettledType DEF Settle, Holds, Over, TypeOK
  <2>6. CASE Tick
    BY <1>1, <2>6, OlderType DEF Tick
  <2> QED BY <1>1, <2>1, <2>2, <2>3, <2>4, <2>5, <2>6
          DEF Next, vars, person, ghosts, ReadThread, Post, LoseEvent, ChangeStanding, ReadBudget,
              Deliver, Crash, Compose
<1>2. TypeOK /\ AtHand /\ [Next]_vars => [\A r \in Rows : Kept(r)]_rows
  BY <1>1
<1>3. Spec => [](TypeOK /\ AtHand)
  BY InitType, InitAtHand, TypeStep, PTL DEF Spec
<1> QED BY <1>2, <1>3, PTL DEF Spec, OverIsOver

-----------------------------------------------------------------------------
(* Nothing queued is forgotten *)

(* An event the window of row r reaches back to. *)
OfRow(e, r) == rows[r].status # "free" /\ rows[r].thread = e[1] /\ rows[r].since <= e[2]

(* Sweep w has composed the mail of row r, which is still its own. *)
InHand(w, r) == sweep[w].phase \in {"composed", "delivered"} /\ sweep[w].row = r /\ Holds(w, r)

(* What w is about to settle r with is true of the event. *)
Answered(w, r, e) ==
  /\ sweep[w].verdict = "send" => e[2] <= sweep[w].upTo
  /\ sweep[w].verdict = "sent" => e[2] <= reached[r]
  /\ sweep[w].verdict = "read" => e[2] <= seen[e[1]]

(* Row r has not lost the event. *)
Accounted(r, e) ==
  \/ rows[r].status \in Waiting
  \/ e[2] <= reached[r] \/ e[2] <= seen[e[1]]
  \/ rows[r].status = "failed"
  \/ rows[r].status = "skipped" /\ rows[r].why # "read"

(* The events were posted, and what a sweep holds covers the events that kept *)
(* to its row: none can join after the claim, for the row is being sent.      *)
Known == /\ \A e \in events : e.at <= posted[e.thread]
         /\ \A e \in handled : e[2] <= posted[e[1]]
Held  == \A w \in Sweeps : \A r \in Rows : \A e \in handled \ astray :
           InHand(w, r) /\ OfRow(e, r) => Answered(w, r, e)
Kept  == \A e \in handled \ astray : \E r \in Rows : OfRow(e, r) /\ Accounted(r, e)
Reckoned == Known /\ Held /\ Kept

LEMMA HandledFields ==
  ASSUME TypeOK, NEW e \in handled
  PROVE  e[1] \in Threads /\ e[2] \in 1 .. MaxMessages /\ e = <<e[1], e[2]>>
  BY DEF TypeOK

(* A row that holds its place and its reasons keeps its events. *)
LEMMA KeptStays ==
  ASSUME Kept, handled' = handled, astray' = astray,
         \A r \in Rows : \A e \in handled \ astray :
           OfRow(e, r) /\ Accounted(r, e) => OfRow(e, r)' /\ Accounted(r, e)'
  PROVE  Kept'
  BY DEF Kept

(* A sweep that was not at row r, or has not moved, owes nothing new. *)
LEMMA AnsweredStays ==
  ASSUME TypeOK, TypeOK', Held, NEW w \in Sweeps, NEW r \in Rows, NEW e \in handled \ astray,
         InHand(w, r), OfRow(e, r), reached[r] <= reached'[r], seen[e[1]] <= seen'[e[1]],
         sweep'[w].verdict = sweep[w].verdict, sweep'[w].upTo = sweep[w].upTo
  PROVE  Answered(w, r, e)'
<1>1. e[1] \in Threads /\ e[2] \in Nat
  BY HandledFields
<1>2. reached[r] \in Nat /\ reached'[r] \in Nat /\ seen[e[1]] \in Nat /\ seen'[e[1]] \in Nat
  BY <1>1 DEF TypeOK
<1>3. Answered(w, r, e)
  BY DEF Held
<1> QED BY <1>1, <1>2, <1>3 DEF Answered

(* Steps that touch no message, no row but its clock, and no mail. *)
LEMMA ReckonedQuiet ==
  ASSUME TypeOK, TypeOK', Reckoned, handled' = handled, astray' = astray, reached' = reached,
         \A t \in Threads : posted[t] <= posted'[t] /\ seen[t] <= seen'[t],
         \A e \in events' : e \in events \/ e.at <= posted'[e.thread],
         \A r \in Rows : rows'[r].status = rows[r].status /\ rows'[r].thread = rows[r].thread
                         /\ rows'[r].since = rows[r].since /\ rows'[r].why = rows[r].why
                         /\ rows'[r].owner = rows[r].owner,
         \A w \in Sweeps : sweep'[w].phase \in {"composed", "delivered"} =>
           /\ sweep'[w].phase = sweep[w].phase /\ sweep'[w].row = sweep[w].row
           /\ sweep'[w].verdict = sweep[w].verdict /\ sweep'[w].upTo = sweep[w].upTo
  PROVE  Reckoned'
<1>1. \A r \in Rows : reached[r] \in Nat
  BY DEF TypeOK
<1>2. \A t \in Threads : seen[t] \in Nat /\ seen'[t] \in Nat /\ posted[t] \in Nat /\ posted'[t] \in Nat
  BY DEF TypeOK
<1>3. Known'
  <2>1. ASSUME NEW e \in events' PROVE e.at <= posted'[e.thread]
    <3>1. e.thread \in Threads /\ e.at \in Nat
      BY DEF TypeOK, Event
    <3> QED BY <1>2, <3>1 DEF Reckoned, Known
  <2>2. \A e \in handled : e[2] <= posted'[e[1]]
    BY <1>2, HandledFields DEF Reckoned, Known
  <2> QED BY <2>1, <2>2 DEF Known
<1>4. Held'
  <2>1. ASSUME NEW w \in Sweeps, NEW r \in Rows, NEW e \in handled' \ astray',
               InHand(w, r)', OfRow(e, r)'
        PROVE  Answered(w, r, e)'
    <3>1. InHand(w, r) /\ OfRow(e, r) /\ e \in handled \ astray
          /\ sweep'[w].verdict = sweep[w].verdict /\ sweep'[w].upTo = sweep[w].upTo
      BY <2>1 DEF InHand, OfRow, Holds
    <3> QED BY <1>1, <3>1, AnsweredStays, HandledFields DEF Reckoned
  <2> QED BY <2>1 DEF Held
<1>5. Kept'
  <2>1. ASSUME NEW r \in Rows, NEW e \in handled \ astray, OfRow(e, r), Accounted(r, e)
        PROVE  OfRow(e, r)' /\ Accounted(r, e)'
    BY <1>2, <2>1, HandledFields DEF OfRow, Accounted
  <2> QED BY <2>1, KeptStays DEF Reckoned
<1> QED BY <1>3, <1>4, <1>5 DEF Reckoned

(* An event joins the row that waits, or begins one; a row being sent, or     *)
(* begun by a later message, leaves it astray.                                *)
LEMMA ReckonedEnqueue ==
  ASSUME TypeOK, TypeOK', Reckoned, NEW e \in events, Enqueue(e) PROVE Reckoned'
<1>1. e.thread \in Threads /\ e.at \in 1 .. MaxMessages
  BY DEF TypeOK, Event
<1>2. posted' = posted /\ seen' = seen /\ sweep' = sweep /\ reached' = reached
  BY DEF Enqueue, person
<1>3. Known'
  <2>1. \A d \in events' : d \in events \/ d = [e EXCEPT !.step = "promote"]
    BY DEF Enqueue
  <2>2. [e EXCEPT !.step = "promote"].at = e.at /\ [e EXCEPT !.step = "promote"].thread = e.thread
    BY DEF TypeOK, Event
  <2>3. \A d \in handled' : d \in handled \/ (d[1] = e.thread /\ d[2] = e.at)
    BY DEF Enqueue
  <2>4. e.at <= posted[e.thread]
    BY DEF Reckoned, Known
  <2>5. \A d \in events' : d.at <= posted[d.thread]
    BY <2>1, <2>2, <2>4 DEF Reckoned, Known
  <2>6. \A d \in handled' : d[2] <= posted[d[1]]
    BY <2>3, <2>4 DEF Reckoned, Known
  <2> QED BY <1>2, <2>5, <2>6 DEF Known
<1>4. CASE ~ Notified(e)
  <2>1. rows' = rows /\ handled' = handled /\ astray' = astray
    BY <1>4 DEF Enqueue
  <2> QED BY <1>2, <1>3, <2>1
          DEF Reckoned, Held, Kept, InHand, OfRow, Answered, Accounted, Holds
<1>5. CASE Notified(e)
  <2> DEFINE x == <<e.thread, e.at>>
  <2>1. Insert(e) /\ handled' = handled \cup {x}
        /\ astray' = IF GoesAstray(e) THEN astray \cup {x} ELSE astray
    BY <1>5 DEF Enqueue
  <2>2. \A d \in handled' \ astray' : d \in handled \ astray \/ (d = x /\ ~ GoesAstray(e))
    BY <2>1
  <2>3. \A r \in Rows : rows'[r] = rows[r] \/ (rows[r].status = "free" /\ rows'[r] = Queued(e))
    BY <2>1 DEF Insert, TypeOK
  <2>4. \A r \in Rows : rows[r].status # "free" => rows'[r] = rows[r]
    BY <2>3
  <2>5. \A r \in Rows : rows'[r].status = "sending" => rows[r].status = "sending" /\ rows'[r] = rows[r]
    BY <2>3 DEF Queued
  <2>6. Held'
    <3>1. ASSUME NEW w \in Sweeps, NEW r \in Rows, NEW d \in handled' \ astray',
                 InHand(w, r)', OfRow(d, r)'
          PROVE  Answered(w, r, d)'
      <4>1. rows[r].status = "sending" /\ rows'[r] = rows[r]
        BY <2>5, <3>1 DEF InHand, Holds
      <4>2. InHand(w, r) /\ OfRow(d, r)
        BY <1>2, <3>1, <4>1 DEF InHand, Holds, OfRow
      <4>3. d \in handled \ astray
        <5>1. ASSUME d = x PROVE GoesAstray(e)
          BY <4>1, <4>2, <5>1 DEF GoesAstray, Coalesces, Waiting, OfRow
        <5> QED BY <2>2, <5>1
      <4>4. Answered(w, r, d)
        BY <4>2, <4>3 DEF Reckoned, Held
      <4> QED BY <1>2, <4>4 DEF Answered
    <3> QED BY <3>1 DEF Held
  <2>7. Kept'
    <3>2. ASSUME NEW d \in handled \ astray PROVE \E r \in Rows : OfRow(d, r)' /\ Accounted(r, d)'
      <4>1. PICK r \in Rows : OfRow(d, r) /\ Accounted(r, d)
        BY DEF Reckoned, Kept
      <4>2. rows'[r] = rows[r]
        BY <2>4, <4>1 DEF OfRow
      <4> QED BY <1>2, <4>1, <4>2 DEF OfRow, Accounted
    <3>3. ASSUME ~ GoesAstray(e) PROVE \E r \in Rows : OfRow(x, r)' /\ Accounted(r, x)'
      <4>1. CASE \E r \in Rows : Coalesces(e.thread, r)
        <5>1. PICK r \in Rows : Coalesces(e.thread, r)
          BY <4>1
        <5>2. rows'[r] = rows[r] /\ rows[r].status \in Waiting /\ rows[r].thread = e.thread
          BY <2>4, <5>1 DEF Coalesces, Waiting
        <5>3. rows[r].since <= e.at
          <6>1. ~ (rows[r].since > e.at)
            BY <3>3, <5>1 DEF GoesAstray
          <6> QED BY <1>1, <6>1, RowFields
        <5> QED BY <5>2, <5>3 DEF OfRow, Accounted, Waiting
      <4>2. CASE ~ \E r \in Rows : Coalesces(e.thread, r)
        <5>1. PICK r \in Rows : rows' = [rows EXCEPT ![r] = Queued(e)]
          BY <2>1, <4>2 DEF Insert
        <5>2. rows'[r] = Queued(e)
          BY <5>1 DEF TypeOK
        <5>3. rows'[r].status = "pending" /\ rows'[r].thread = e.thread /\ rows'[r].since = e.at
          BY <5>2 DEF Queued
        <5> QED BY <1>1, <5>3 DEF OfRow, Accounted, Waiting
      <4> QED BY <4>1, <4>2
    <3> QED BY <2>2, <3>2, <3>3 DEF Kept
  <2> QED BY <1>3, <2>6, <2>7 DEF Reckoned
<1> QED BY <1>4, <1>5

(* A claim gives up what died on its last attempt and begins the others anew. *)
LEMMA ReckonedClaim ==
  ASSUME TypeOK, TypeOK', Reckoned, NEW w \in Sweeps, Claim(w) PROVE Reckoned'
<1>1. /\ posted' = posted /\ seen' = seen /\ events' = events
      /\ reached' = reached /\ handled' = handled /\ astray' = astray
  BY DEF Claim, person, ghosts
<1>2. \A v \in Sweeps \ {w} : sweep'[v] = sweep[v]
  BY DEF Claim, TypeOK
<1>3. sweep'[w].phase \in {"idle", "claimed"}
  <2>1. sweep[w] \in Sweep
    BY SweepFields
  <2> QED BY <2>1 DEF Claim, TypeOK, Sweep
<1>4. \A r \in Rows :
        /\ rows'[r].thread = rows[r].thread /\ rows'[r].since = rows[r].since
        /\ \/ rows'[r] = rows[r]
           \/ rows[r].status \in Waiting /\ rows'[r].status = "failed"
           \/ rows[r].status \in Waiting /\ rows'[r].status = "sending" /\ rows'[r].owner = w
  BY RowFields DEF Claim, Exhausted, Due, Expired, Row, Waiting
<1>5. Held'
  <2>1. ASSUME NEW v \in Sweeps, NEW r \in Rows, NEW e \in handled' \ astray',
               InHand(v, r)', OfRow(e, r)'
        PROVE  Answered(v, r, e)'
    <3>1. v # w /\ sweep'[v] = sweep[v]
      BY <1>2, <1>3, <2>1 DEF InHand
    <3>2. rows'[r] = rows[r]
      BY <1>4, <2>1, <3>1 DEF InHand, Holds
    <3>3. Answered(v, r, e)
      BY <1>1, <2>1, <3>1, <3>2 DEF Reckoned, Held, InHand, OfRow, Holds
    <3> QED BY <1>1, <3>1, <3>3 DEF Answered
  <2> QED BY <2>1 DEF Held
<1>6. Kept'
  <2>1. ASSUME NEW r \in Rows, NEW e \in handled \ astray, OfRow(e, r), Accounted(r, e)
        PROVE  OfRow(e, r)' /\ Accounted(r, e)'
    BY <1>1, <1>4, <2>1 DEF OfRow, Accounted, Waiting
  <2> QED BY <1>1, <2>1, KeptStays DEF Reckoned
<1> QED BY <1>1, <1>5, <1>6 DEF Reckoned, Known

(* The mail is composed over everything posted by then, queued or not. *)
LEMMA ReckonedCompose ==
  ASSUME TypeOK, TypeOK', Reckoned, NEW w \in Sweeps, NEW q \in Rows, Compose(w, q) PROVE Reckoned'
<1>1. /\ posted' = posted /\ seen' = seen /\ events' = events /\ rows' = rows
      /\ reached' = reached /\ handled' = handled /\ astray' = astray
  BY DEF Compose, person, ghosts
<1>2. \A v \in Sweeps \ {w} : sweep'[v] = sweep[v]
  BY DEF Compose, TypeOK
<1>3. sweep'[w].row = q /\ sweep'[w].upTo = posted[rows[q].thread]
      /\ sweep'[w].verdict = Verdict(w, q)
  BY SweepFields DEF Compose, TypeOK, Sweep
<1>4. Held'
  <2>1. ASSUME NEW v \in Sweeps, NEW r \in Rows, NEW e \in handled' \ astray',
               InHand(v, r)', OfRow(e, r)'
        PROVE  Answered(v, r, e)'
    <3>1. CASE v # w
      <4>1. sweep'[v] = sweep[v]
        BY <1>2, <3>1
      <4>2. Answered(v, r, e)
        BY <1>1, <2>1, <4>1 DEF Reckoned, Held, InHand, OfRow, Holds
      <4> QED BY <1>1, <4>1, <4>2 DEF Answered
    <3>2. CASE v = w
      <4>1. r = q /\ rows[q].thread = e[1] /\ rows[q].since <= e[2]
        BY <1>1, <1>3, <2>1, <3>2 DEF InHand, OfRow
      <4>2. e[2] <= posted[e[1]] /\ e[1] \in Threads /\ e[2] \in Nat
        BY <1>1, HandledFields DEF Reckoned, Known
      <4>3. Verdict(w, q) # "sent"
        BY DEF Verdict
      <4>4. ASSUME Verdict(w, q) = "read" PROVE e[2] <= seen[e[1]]
        <5>1. Fresh(q) = {}
          BY <4>4 DEF Verdict
        <5>2. rows[q].since \in Nat /\ posted[e[1]] \in Nat /\ seen[e[1]] \in Nat
          BY <4>2, RowFields DEF TypeOK
        <5>3. e[2] \in rows[q].since .. posted[rows[q].thread]
          BY <4>1, <4>2, <5>2
        <5>4. ~ (e[2] > seen[rows[q].thread])
          BY <5>1, <5>3 DEF Fresh
        <5> QED BY <4>1, <4>2, <5>2, <5>4
      <4> QED BY <1>1, <1>3, <3>2, <4>1, <4>2, <4>3, <4>4 DEF Answered
    <3> QED BY <3>1, <3>2
  <2> QED BY <2>1 DEF Held
<1> QED BY <1>1, <1>4 DEF Reckoned, Known, Kept, OfRow, Accounted

(* Only a mail that arrived is taken for sent, and it covers what it was composed over. *)
LEMMA ReckonedDeliver ==
  ASSUME TypeOK, TypeOK', AtHand, Reckoned, NEW w \in Sweeps, Deliver(w) PROVE Reckoned'
<1> DEFINE q == sweep[w].row
<1>1. /\ posted' = posted /\ seen' = seen /\ events' = events /\ rows' = rows
      /\ handled' = handled /\ astray' = astray
  BY DEF Deliver, person
<1>2. q \in Rows /\ sweep[w].phase = "composed" /\ sweep[w].verdict = "send"
      /\ sweep[w].upTo \in 0 .. MaxMessages
  BY SweepFields DEF Deliver, AtHand
<1>3. PICK arrived \in BOOLEAN, confirmed \in BOOLEAN :
        /\ confirmed => arrived
        /\ reached' = IF arrived /\ sweep[w].upTo > reached[q]
                        THEN [reached EXCEPT ![q] = sweep[w].upTo] ELSE reached
        /\ sweep' = [sweep EXCEPT ![w].phase = "delivered",
                                  ![w].verdict = IF confirmed THEN "sent" ELSE Refused(w, q)]
  BY DEF Deliver
<1>4. Refused(w, q) \in {"retry", "failed"}
  BY DEF Refused
<1>5. sweep'[w].row = q
      /\ sweep'[w].verdict = IF confirmed THEN "sent" ELSE Refused(w, q)
  BY <1>3, SweepFields DEF TypeOK, Sweep
<1>6. \A v \in Sweeps \ {w} : sweep'[v] = sweep[v]
  BY <1>3 DEF TypeOK
<1> HIDE DEF q
<1>7. \A r \in Rows : reached[r] \in Nat /\ reached'[r] \in Nat /\ reached[r] <= reached'[r]
  BY <1>2, <1>3 DEF TypeOK
<1>8. confirmed => sweep[w].upTo <= reached'[q]
  BY <1>2, <1>3, <1>7 DEF TypeOK
<1>9. Held'
  <2>1. ASSUME NEW v \in Sweeps, NEW r \in Rows, NEW e \in handled' \ astray',
               InHand(v, r)', OfRow(e, r)'
        PROVE  Answered(v, r, e)'
    <3>0. e \in handled \ astray /\ OfRow(e, r) /\ Holds(v, r)
      BY <1>1, <2>1 DEF OfRow, InHand, Holds
    <3>1. CASE v # w
      <4>1. sweep'[v] = sweep[v]
        BY <1>6, <3>1
      <4>2. InHand(v, r)
        BY <2>1, <3>0, <4>1 DEF InHand
      <4>3. seen'[e[1]] = seen[e[1]] /\ seen[e[1]] \in Nat
        BY <1>1, <3>0, HandledFields DEF TypeOK
      <4>4. seen[e[1]] <= seen'[e[1]]
        BY <4>3
      <4> QED BY <1>7, <3>0, <4>1, <4>2, <4>4, AnsweredStays DEF Reckoned
    <3>2. CASE v = w
      <4>1. r = q
        BY <1>5, <2>1, <3>2 DEF InHand
      <4>2. InHand(w, q)
        BY <1>2, <3>0, <3>2, <4>1 DEF InHand, q
      <4>3. e[2] <= sweep[w].upTo
        BY <1>2, <3>0, <4>1, <4>2 DEF Reckoned, Held, Answered
      <4>4. e[2] \in Nat
        BY <3>0, HandledFields
      <4>5. confirmed => e[2] <= reached'[q]
        BY <1>2, <1>7, <1>8, <4>3, <4>4
      <4>6. sweep'[w].verdict # "send" /\ sweep'[w].verdict # "read"
            /\ (sweep'[w].verdict = "sent" => confirmed)
        BY <1>4, <1>5
      <4> QED BY <3>2, <4>1, <4>5, <4>6 DEF Answered
    <3> QED BY <3>1, <3>2
  <2> QED BY <2>1 DEF Held
<1>10. Kept'
  <2>1. ASSUME NEW r \in Rows, NEW e \in handled \ astray, OfRow(e, r), Accounted(r, e)
        PROVE  OfRow(e, r)' /\ Accounted(r, e)'
    <3>1. e[2] \in Nat
      BY HandledFields
    <3>2. e[2] <= reached[r] => e[2] <= reached'[r]
      BY <1>7, <3>1
    <3> QED BY <1>1, <2>1, <3>2 DEF OfRow, Accounted
  <2> QED BY <1>1, <2>1, KeptStays DEF Reckoned
<1> QED BY <1>1, <1>9, <1>10 DEF Reckoned, Known

(* What a settlement says of a row. *)
LEMMA SettledHow ==
  ASSUME TypeOK, AtHand, NEW w \in Sweeps, sweep[w].phase = "delivered"
  PROVE  LET S == Settled(w, sweep[w].row) IN
         /\ S.since = rows[sweep[w].row].since
         /\ \/ S.status = "pending" \/ S.status = "failed"
            \/ S.status = "sent" /\ sweep[w].verdict = "sent"
            \/ S.status = "skipped" /\ S.why = sweep[w].verdict
<1> DEFINE r    == sweep[w].row
           done == [rows[r] EXCEPT !.lease = 0, !.owner = Nobody]
           v    == sweep[w].verdict
           wait == AtLeastZero(Backoff[sweep[w].taken[r].attempt] - sweep[w].age)
<1>1. v \in {"sent", "retry", "failed", "read", "off", "gone", "capped"}
  BY SweepFields DEF AtHand, Sweep
<1>2. rows[r] \in Row
  BY SweepFields, RowFields DEF AtHand
<1>3. Settled(w, r) = CASE v = "sent"   -> [done EXCEPT !.status = "sent", !.sent = sweep[w].age, !.why = "none"]
                        [] v = "retry"  -> [done EXCEPT !.status = "pending", !.why = "undelivered", !.wait = wait]
                        [] v = "failed" -> [done EXCEPT !.status = "failed", !.why = "undelivered"]
                        [] OTHER        -> [done EXCEPT !.status = "skipped", !.why = v]
  BY DEF Settled
<1> HIDE DEF r, v, wait
<1>5. CASE v = "sent"
  BY <1>2, <1>3, <1>5 DEF Row, r, v
<1>6. CASE v = "retry"
  BY <1>2, <1>3, <1>6 DEF Row, r, v
<1>7. CASE v = "failed"
  BY <1>2, <1>3, <1>7 DEF Row, r, v
<1>8. CASE v \in {"read", "off", "gone", "capped"}
  BY <1>2, <1>3, <1>8 DEF Row, r, v
<1> QED BY <1>1, <1>5, <1>6, <1>7, <1>8

(* Only the sweep that holds the row settles it, and with what is true of its events. *)
LEMMA ReckonedSettle ==
  ASSUME TypeOK, TypeOK', AtHand, Reckoned, NEW w \in Sweeps, Settle(w) PROVE Reckoned'
<1> DEFINE q == sweep[w].row
<1>1. /\ posted' = posted /\ seen' = seen /\ events' = events
      /\ reached' = reached /\ handled' = handled /\ astray' = astray
  BY DEF Settle, person, ghosts
<1>2. q \in Rows /\ sweep[w].phase = "delivered"
  BY SettledType DEF Settle
<1>3. \A v \in Sweeps \ {w} : sweep'[v] = sweep[v]
  BY DEF Settle, TypeOK
<1>4. sweep'[w].phase \in {"idle", "ready"}
  <2>1. sweep'[w] = Onward(w) /\ sweep[w] \in Sweep
    BY SweepFields DEF Settle, TypeOK
  <2> QED BY <2>1 DEF Onward, Idle, Sweep
<1>5. CASE ~ Holds(w, q)
  <2>1. rows' = rows
    BY <1>5 DEF Settle
  <2>2. ASSUME NEW v \in Sweeps, NEW r \in Rows, NEW e \in handled' \ astray',
               InHand(v, r)', OfRow(e, r)'
        PROVE  Answered(v, r, e)'
    <3>1. sweep'[v] = sweep[v]
      BY <1>3, <1>4, <2>2 DEF InHand
    <3>2. Answered(v, r, e)
      BY <1>1, <2>1, <2>2, <3>1 DEF Reckoned, Held, InHand, OfRow, Holds
    <3> QED BY <1>1, <3>1, <3>2 DEF Answered
  <2> QED BY <1>1, <2>1, <2>2 DEF Reckoned, Known, Held, Kept, OfRow, Accounted
<1>6. CASE Holds(w, q)
  <2> DEFINE S == Settled(w, q)
  <2>1. rows' = [rows EXCEPT ![q] = S]
    BY <1>6 DEF Settle
  <2>2. S.thread = rows[q].thread /\ S.since = rows[q].since
        /\ S.status \in {"pending"} \cup Over
    BY <1>2, SettledType, SettledHow
  <2>3. \/ S.status = "pending" \/ S.status = "failed"
        \/ S.status = "sent" /\ sweep[w].verdict = "sent"
        \/ S.status = "skipped" /\ S.why = sweep[w].verdict
    BY <1>2, SettledHow
  <2> HIDE DEF S
  <2>4. rows'[q] = S /\ \A r \in Rows \ {q} : rows'[r] = rows[r]
    BY <1>2, <2>1 DEF TypeOK
  <2>5. Held'
    <3>1. ASSUME NEW v \in Sweeps, NEW r \in Rows, NEW e \in handled' \ astray',
                 InHand(v, r)', OfRow(e, r)'
          PROVE  Answered(v, r, e)'
      <4>1. sweep'[v] = sweep[v]
        BY <1>3, <1>4, <3>1 DEF InHand
      <4>2. rows'[r] = rows[r]
        BY <2>2, <2>4, <3>1 DEF InHand, Holds, Over
      <4>3. Answered(v, r, e)
        BY <1>1, <3>1, <4>1, <4>2 DEF Reckoned, Held, InHand, OfRow, Holds
      <4> QED BY <1>1, <4>1, <4>3 DEF Answered
    <3> QED BY <3>1 DEF Held
  <2>6. Kept'
    <3>1. ASSUME NEW r \in Rows, NEW e \in handled \ astray, OfRow(e, r), Accounted(r, e)
          PROVE  OfRow(e, r)' /\ Accounted(r, e)'
      <4>1. CASE r # q
        BY <1>1, <2>4, <3>1, <4>1 DEF OfRow, Accounted
      <4>2. CASE r = q
        <5>1. InHand(w, q)
          BY <1>2, <1>6 DEF InHand
        <5>2. Answered(w, q, e)
          BY <1>2, <3>1, <4>2, <5>1 DEF Reckoned, Held
        <5>3. OfRow(e, r)'
          BY <2>2, <2>4, <3>1, <4>2 DEF OfRow, Over
        <5>4. Accounted(r, e)'
          BY <1>1, <2>3, <2>4, <4>2, <5>2 DEF Accounted, Answered, Waiting
        <5> QED BY <5>3, <5>4
      <4> QED BY <4>1, <4>2
    <3> QED BY <1>1, <3>1, KeptStays DEF Reckoned
  <2> QED BY <1>1, <2>5, <2>6 DEF Reckoned, Known
<1> QED BY <1>5, <1>6

LEMMA ReckonedStep ==
  ASSUME TypeOK, TypeOK', AtHand, Reckoned, [Next]_vars PROVE Reckoned'
<1>0. \A t \in Threads : posted[t] \in Nat /\ seen[t] \in Nat
  BY DEF TypeOK
<1>1. CASE UNCHANGED vars \/ ChangeStanding \/ \E t \in Threads : ReadThread(t)
  <2>1. /\ rows' = rows /\ sweep' = sweep /\ events' = events
        /\ handled' = handled /\ astray' = astray /\ reached' = reached
    BY <1>1 DEF vars, person, ghosts, ChangeStanding, ReadThread
  <2>2. \A t \in Threads : posted[t] <= posted'[t] /\ seen[t] <= seen'[t]
    BY <1>0, <1>1 DEF vars, person, ChangeStanding, ReadThread, TypeOK
  <2> QED BY <2>1, <2>2, ReckonedQuiet
<1>2. ASSUME NEW t \in Threads, NEW critical \in BOOLEAN, Post(t, critical) PROVE Reckoned'
  <2>1. /\ rows' = rows /\ sweep' = sweep /\ seen' = seen
        /\ handled' = handled /\ astray' = astray /\ reached' = reached
    BY <1>2 DEF Post, ghosts
  <2>2. posted'[t] = posted[t] + 1 /\ \A u \in Threads : posted[u] <= posted'[u]
    BY <1>0, <1>2 DEF Post, TypeOK
  <2>3. \A e \in events' : e \in events \/ e.at <= posted'[e.thread]
    <3>1. \A e \in events' : e \in events \/ (e.thread = t /\ e.at = posted[t] + 1)
      BY <1>2 DEF Post
    <3> QED BY <1>0, <2>2, <3>1
  <2>4. \A u \in Threads : seen[u] <= seen'[u]
    BY <1>0, <2>1
  <2> QED BY <2>1, <2>2, <2>3, <2>4, ReckonedQuiet
<1>3. ASSUME NEW e \in events, Promote(e) PROVE Reckoned'
  <2>1. /\ posted' = posted /\ seen' = seen /\ sweep' = sweep /\ events' \subseteq events
        /\ handled' = handled /\ astray' = astray /\ reached' = reached
    BY <1>3 DEF Promote, person, ghosts
  <2>2. \A r \in Rows : rows'[r].status = rows[r].status /\ rows'[r].thread = rows[r].thread
                        /\ rows'[r].since = rows[r].since /\ rows'[r].why = rows[r].why
                        /\ rows'[r].owner = rows[r].owner
    BY <1>3, RowFields DEF Promote, Row
  <2>3. \A u \in Threads : posted[u] <= posted'[u] /\ seen[u] <= seen'[u]
    BY <1>0, <2>1
  <2> QED BY <2>1, <2>2, <2>3, ReckonedQuiet
<1>4. ASSUME NEW e \in events, LoseEvent(e) PROVE Reckoned'
  <2>1. /\ posted' = posted /\ seen' = seen /\ sweep' = sweep /\ events' \subseteq events
        /\ handled' = handled /\ astray' = astray /\ reached' = reached /\ rows' = rows
    BY <1>4 DEF LoseEvent, person, ghosts
  <2>2. \A u \in Threads : posted[u] <= posted'[u] /\ seen[u] <= seen'[u]
    BY <1>0, <2>1
  <2> QED BY <2>1, <2>2, ReckonedQuiet
<1>5. ASSUME NEW w \in Sweeps, ReadBudget(w) \/ Crash(w) PROVE Reckoned'
  <2>1. /\ posted' = posted /\ seen' = seen /\ events' = events
        /\ handled' = handled /\ astray' = astray /\ reached' = reached /\ rows' = rows
    BY <1>5 DEF ReadBudget, Crash, person, ghosts
  <2>2. \A u \in Threads : posted[u] <= posted'[u] /\ seen[u] <= seen'[u]
    BY <1>0, <2>1
  <2>3. sweep'[w].phase \in {"ready", "idle"} /\ \A v \in Sweeps \ {w} : sweep'[v] = sweep[v]
    <3>1. CASE ReadBudget(w)
      <4>1. PICK n : sweep' = [sweep EXCEPT ![w].phase = "ready", ![w].wants = (standing # "off"),
                                            ![w].spent = n]
        BY <3>1 DEF ReadBudget
      <4> QED BY <4>1, SweepFields DEF TypeOK, Sweep
    <3>2. CASE Crash(w)
      BY <3>2 DEF Crash, Idle, TypeOK
    <3> QED BY <1>5, <3>1, <3>2
  <2> QED BY <2>1, <2>2, <2>3, ReckonedQuiet
<1>6. CASE Tick
  <2>1. /\ posted' = posted /\ seen' = seen /\ events' = events
        /\ handled' = handled /\ astray' = astray /\ reached' = reached
    BY <1>6 DEF Tick, person, ghosts
  <2>2. \A u \in Threads : posted[u] <= posted'[u] /\ seen[u] <= seen'[u]
    BY <1>0, <2>1
  <2>3. \A r \in Rows : rows'[r].status = rows[r].status /\ rows'[r].thread = rows[r].thread
                        /\ rows'[r].since = rows[r].since /\ rows'[r].why = rows[r].why
                        /\ rows'[r].owner = rows[r].owner
    <3>1. \A r \in Rows : rows[r] \in Row /\ rows'[r] = Older(r)
      BY <1>6, RowFields DEF Tick
    <3>2. \A r \in Rows : Older(r).owner = rows[r].owner
      BY <3>1 DEF Older, Row
    <3> QED BY <3>1, <3>2, OlderType
  <2>4. \A w \in Sweeps : sweep'[w].phase = sweep[w].phase /\ sweep'[w].row = sweep[w].row
                          /\ sweep'[w].verdict = sweep[w].verdict /\ sweep'[w].upTo = sweep[w].upTo
    BY <1>6, SweepFields DEF Tick, Sweep
  <2> QED BY <2>1, <2>2, <2>3, <2>4, ReckonedQuiet
<1> QED BY <1>1, <1>2, <1>3, <1>4, <1>5, <1>6, ReckonedEnqueue, ReckonedClaim, ReckonedCompose,
           ReckonedDeliver, ReckonedSettle DEF Next

LEMMA InitReckoned == Init => Reckoned
  BY DEF Init, Reckoned, Known, Held, Kept

(* An event that was queued, or joined a waiting row begun no later, is in the *)
(* window of a row that still waits, or was mailed, or read, or the row ended  *)
(* for a reason the code gives up on: for any number of overlapping sweeps,    *)
(* crashes and lapsed leases.                                                  *)
THEOREM NothingQueuedIsForgotten == Spec => []QueuedIsNotForgotten
<1>1. Spec => [](TypeOK /\ AtHand /\ Reckoned)
  BY InitType, InitAtHand, InitReckoned, TypeStep, ReckonedStep, PTL DEF Spec
<1>2. Reckoned => QueuedIsNotForgotten
  BY DEF Reckoned, Kept, QueuedIsNotForgotten, OfRow, Accounted
<1> QED BY <1>1, <1>2, PTL
===============================================================================
