------------------------- MODULE ChangeStreamProofs -------------------------
(***************************************************************************)
(* Proofs about ChangeStream for any number of processes, pages, streams   *)
(* and any patience of the timer: its type invariant, that a page is not   *)
(* behind for long, that no news is dropped on the way, and that a stream  *)
(* tells once more at most after its person has left.                      *)
(***************************************************************************)
EXTENDS ChangeStream, TLAPS

LEMMA Quantities == QuietTurns \in Nat /\ QuietTurns > 0 /\ Quiet = 2 * QuietTurns /\ MaxFlight \in Nat
  BY BoundsAssumption DEF Quiet, Turn

LEMMA BlankTypes == Idle \in Stream /\ Fresh \in Page
<1>1. 0 \in -1 .. Quiet
  BY Quantities
<1> QED BY <1>1 DEF Idle, Stream, Phases, Fresh, Page

LEMMA InitType == Init => TypeOK
  BY BlankTypes, Quantities DEF Init, TypeOK

(* What the several operators make of a stream or a page. *)

LEMMA BrokenType == ASSUME NEW pg \in Page PROVE BreaksOff(pg) \in Page
  BY DEF BreaksOff, Page

LEMMA HeardType == ASSUME NEW pg \in Page PROVE Heard(pg) \in Page
<1>1. -1 \in -1 .. Quiet
  BY Quantities
<1> QED BY <1>1 DEF Heard, Page

LEMMA ReadyType == ASSUME NEW pg \in Page PROVE Ready(pg) \in Page
  BY DEF Ready, Page

LEMMA NextPassType ==
  ASSUME NEW st \in Stream PROVE NextPass(st) \in Stream
  BY BlankTypes DEF NextPass, Stream, Phases

LEMMA DeliverType == ASSUME TypeOK, NEW r \in Replicas, deliver(r) PROVE stream' \in [Streams -> Stream]
<1> SUFFICES ASSUME NEW s \in Streams PROVE [stream[s] EXCEPT !.news = TRUE] \in Stream
  BY DEF TypeOK, deliver
<1> QED BY DEF TypeOK, Stream

LEMMA MissingType == ASSUME TypeOK, NEW who, Missing(who) PROVE page' \in [Pages -> Page]
<1> SUFFICES ASSUME NEW p \in Pages
             PROVE  [page[p] EXCEPT !.missed = @ \/ (p \in who /\ page[p].behind)] \in Page
  BY DEF Missing
<1>1. (page[p].missed \/ (p \in who /\ page[p].behind)) \in BOOLEAN
  OBVIOUS
<1> QED BY <1>1 DEF TypeOK, Page

LEMMA LostType == ASSUME TypeOK, NEW r \in Replicas
                  PROVE  Lost(r) \in [Writers \X Replicas -> 0 .. MaxFlight]
  BY Quantities DEF Lost, TypeOK

LEMMA OutdatedType == ASSUME TypeOK
                      PROVE  /\ Outdated \in [Pages -> Page]
                             /\ [p \in Pages |-> [Outdated[p] EXCEPT !.missed = TRUE]] \in [Pages -> Page]
<1> SUFFICES ASSUME NEW p \in Pages
             PROVE  /\ [page[p] EXCEPT !.behind = TRUE] \in Page
                    /\ [[page[p] EXCEPT !.behind = TRUE] EXCEPT !.missed = TRUE] \in Page
  BY DEF Outdated
<1> QED BY DEF TypeOK, Page

LEMMA PublishType ==
  ASSUME TypeOK, NEW r \in Writers, NEW sent \in BOOLEAN, publishChange(r, sent)
  PROVE  /\ stream' \in [Streams -> Stream] /\ page' \in [Pages -> Page]
         /\ flight' \in [Writers \X Replicas -> 0 .. MaxFlight]
         /\ line' = line /\ member' = member
<1> DEFINE others == Receivers(r, sent)
<1>1. r \in Replicas
  BY StreamAssumption
<1>2. deliver(r) /\ Missing(Pages \ PagesAt({r} \cup others)) /\ line' = line /\ member' = member
  BY DEF publishChange
<1>3. flight' = [way \in Writers \X Replicas |->
                   IF way[1] = r /\ way[2] \in others THEN flight[way] + 1 ELSE flight[way]]
  BY DEF publishChange, TypeOK
<1>4. \A q \in others : flight[<<r, q>>] < MaxFlight
  BY DEF publishChange
<1>5. ASSUME NEW way \in Writers \X Replicas, way[1] = r, way[2] \in others
      PROVE  flight[way] + 1 \in 0 .. MaxFlight
  <2>1. way = <<r, way[2]>>
    BY <1>5
  <2>2. flight[way] < MaxFlight /\ flight[way] \in 0 .. MaxFlight
    BY <1>4, <1>5, <2>1 DEF TypeOK
  <2> QED BY <2>2, Quantities
<1>6. flight' \in [Writers \X Replicas -> 0 .. MaxFlight]
  BY <1>3, <1>5 DEF TypeOK
<1> QED BY <1>1, <1>2, <1>6, DeliverType, MissingType

-----------------------------------------------------------------------------
(* Type correctness *)

LEMMA WritingType == ASSUME TypeOK, NEW r \in Writers, Writing(r) PROVE TypeOK'
<1>1. CASE Commit(r)
  BY <1>1, OutdatedType DEF Commit, TypeOK
<1>2. CASE TrackFails(r)
  BY <1>2, MissingType DEF TrackFails, TypeOK
<1>3. CASE CommitTold(r)
  BY <1>3, OutdatedType DEF CommitTold, TypeOK
<1>4. CASE RollBack(r)
  BY <1>4 DEF RollBack, TypeOK
<1>5. ASSUME NEW sent \in BOOLEAN, TellKept(r, sent) \/ TellFirst(r, sent) PROVE TypeOK'
  <2>1. publishChange(r, sent) /\ write' \in [Writers -> {"none", "told", "kept"}]
    BY <1>5 DEF TellKept, TellFirst, TypeOK
  <2> QED BY <2>1, PublishType DEF TypeOK
<1> QED BY <1>1, <1>2, <1>3, <1>4, <1>5 DEF Writing

LEMMA TransportType == ASSUME TypeOK, NEW r \in Replicas, Transport(r) PROVE TypeOK'
<1>1. ASSUME NEW from \in Writers, Receive(from, r) PROVE TypeOK'
  <2>1. flight[<<from, r>>] \in 0 .. MaxFlight /\ flight[<<from, r>>] > 0
    BY <1>1 DEF Receive, TypeOK
  <2>2. flight[<<from, r>>] - 1 \in 0 .. MaxFlight
    BY <2>1, Quantities
  <2>3. flight' \in [Writers \X Replicas -> 0 .. MaxFlight]
    BY <1>1, <2>2 DEF Receive, TypeOK
  <2> QED BY <1>1, <2>3, DeliverType DEF Receive, TypeOK
<1>2. CASE attachChangeTransport(r)
  BY <1>2 DEF attachChangeTransport, TypeOK
<1>3. CASE ListenerDies(r)
  BY <1>3, LostType, MissingType DEF ListenerDies, TypeOK
<1>4. CASE ListenerReturns(r)
  BY <1>4 DEF ListenerReturns, TypeOK
<1>5. CASE Restart(r)
  <2>1. stream' \in [Streams -> Stream] /\ page' \in [Pages -> Page]
    BY <1>5, BlankTypes, MissingType DEF Restart, TypeOK
  <2>2. write' \in [Writers -> {"none", "told", "kept"}]
    BY <1>5 DEF Restart, TypeOK
  <2> QED BY <1>5, <2>1, <2>2, LostType DEF Restart, TypeOK
<1> QED BY <1>1, <1>2, <1>3, <1>4, <1>5 DEF Transport

LEMMA EnterType ==
  ASSUME TypeOK, NEW s \in Streams, NEW ph \in Phases, Enter(s, ph)
  PROVE  stream' \in [Streams -> Stream]
<1>1. [stream[s] EXCEPT !.phase = ph] \in Stream
  BY DEF TypeOK, Stream
<1> QED BY <1>1 DEF Enter, TypeOK

LEMMA CloseType ==
  ASSUME TypeOK, NEW s \in Streams, Close(s)
  PROVE  stream' \in [Streams -> Stream] /\ page' \in [Pages -> Page]
<1>1. stream' \in [Streams -> Stream]
  BY BlankTypes DEF Close, TypeOK
<1>2. ASSUME NEW p \in Pages PROVE page[p] \in Page /\ BreaksOff(page[p]) \in Page
  BY BrokenType DEF TypeOK
<1> QED BY <1>1, <1>2 DEF Close, AtPage

LEMMA ServingType == ASSUME TypeOK, NEW s \in Streams, Serving(s) PROVE TypeOK'
<1>0. \A p \in Pages : page[p] \in Page
  BY DEF TypeOK
<1>1. CASE Greet(s)
  <2>1. page' \in [Pages -> Page]
    BY <1>0, <1>1, ReadyType DEF Greet, AtPage
  <2> QED BY <1>1, <2>1, EnterType DEF Greet, TypeOK, Phases
<1>2. CASE Look(s)
  <2>1. CASE Enter(s, "looked") /\ UNCHANGED page
    BY <1>2, <2>1, EnterType DEF Look, TypeOK, Phases
  <2>2. CASE Close(s)
    BY <1>2, <2>2, CloseType DEF Look, TypeOK
  <2> QED BY <1>2, <2>1, <2>2 DEF Look
<1>3. CASE Tell(s)
  <2> DEFINE st == [stream[s] EXCEPT !.news = FALSE, !.late = IF member THEN 0 ELSE @ + 1]
  <2> DEFINE n == IF member THEN 0 ELSE stream[s].late + 1
  <2>0. stream[s] \in Stream /\ n \in Nat
    BY DEF TypeOK, Stream
  <2>1. st \in Stream
    <3>1. [stream[s] EXCEPT !.news = FALSE, !.late = n] \in Stream
      BY <2>0 DEF Stream
    <3> QED BY <3>1
  <2>2. stream' \in [Streams -> Stream]
    BY <1>3, <2>1, NextPassType DEF Tell, PassEnds, TypeOK
  <2>3. ASSUME NEW p \in Pages PROVE Heard(page[p]) \in Page /\ BreaksOff(Heard(page[p])) \in Page
    BY <1>0, HeardType, BrokenType
  <2>4. page' \in [Pages -> Page]
    BY <1>0, <1>3, <2>3 DEF Tell, PassEnds, AtPage
  <2> QED BY <1>3, <2>2, <2>4 DEF Tell, TypeOK
<1>4. CASE Ping(s)
  <2>1. stream' \in [Streams -> Stream]
    BY <1>4, NextPassType DEF Ping, PassEnds, TypeOK
  <2>2. page' \in [Pages -> Page]
    BY <1>0, <1>4, BrokenType DEF Ping, PassEnds, AtPage, Pinged
  <2> QED BY <1>4, <2>1, <2>2 DEF Ping, TypeOK
<1>5. CASE Abort(s)
  BY <1>5, CloseType DEF Abort, TypeOK
<1>6. CASE Age(s) \/ Cut(s)
  <2>1. [stream[s] EXCEPT !.old = TRUE] \in Stream /\ [stream[s] EXCEPT !.whole = FALSE] \in Stream
    BY DEF TypeOK, Stream
  <2> QED BY <1>6, <2>1 DEF Age, Cut, TypeOK
<1> QED BY <1>1, <1>2, <1>3, <1>4, <1>5, <1>6 DEF Serving, Handler

LEMMA ReloadType ==
  ASSUME TypeOK, NEW p \in Pages, Reload(p)
  PROVE  stream' \in [Streams -> Stream] /\ page' \in [Pages -> Page]
<1>1. ASSUME NEW s \in Streams PROVE [stream[s] EXCEPT !.whole = FALSE] \in Stream
  BY DEF TypeOK, Stream
<1> QED BY <1>1, BlankTypes DEF Reload, TypeOK

LEMMA PageFields ==
  ASSUME TypeOK, NEW p \in Pages
  PROVE  /\ page[p] \in Page /\ page[p].behind \in BOOLEAN /\ page[p].quiet \in -1 .. Quiet
         /\ page[p].pending \in {"no", "set", "overtaken"} /\ page[p].busy \in BOOLEAN
         /\ page[p].stalled \in Nat /\ page[p].missed \in BOOLEAN
         /\ page[p].es \in Streams \cup {Nobody} /\ Elapsed(p) \in -1 .. Quiet
<1>1. page[p] \in Page /\ page[p].quiet \in -1 .. Quiet
  BY DEF TypeOK, Page
<1>2. Elapsed(p) \in -1 .. Quiet
  BY <1>1, Quantities DEF Elapsed, Turn
<1> QED BY <1>1, <1>2 DEF Page

LEMMA WatchingType == ASSUME TypeOK, NEW p \in Pages, Watching(p) PROVE TypeOK'
<1>0. page[p] \in Page
  BY PageFields
<1>1. ASSUME NEW s \in Streams, NEW r \in Replicas, Connect(p, s, r) PROVE TypeOK'
  <2>1. [Idle EXCEPT !.phase = "greet", !.at = r, !.whole = TRUE, !.team = member] \in Stream
    BY BlankTypes DEF TypeOK, Stream, Idle, Phases
  <2>2. [page[p] EXCEPT !.es = s, !.missed = @ \/ page[p].behind] \in Page
    BY <1>0 DEF Page
  <2> QED BY <1>1, <2>1, <2>2 DEF Connect, TypeOK
<1>2. CASE Error(p)
  BY <1>0, <1>2, BrokenType DEF Error, TypeOK
<1>3. CASE Pending(p)
  <2>1. CASE Reload(p)
    BY <1>3, <2>1, ReloadType DEF Pending, TypeOK
  <2>2. CASE ~Reload(p)
    <3>1. [page[p] EXCEPT !.pending = "no", !.missed = @ \/ page[p].behind] \in Page
      BY <1>0 DEF Page
    <3> QED BY <1>3, <2>2, <3>1 DEF Pending, TypeOK
  <2> QED BY <2>1, <2>2
<1>4. CASE Timer(p)
  <2>1. CASE Reload(p)
    BY <1>4, <2>1, ReloadType DEF Timer, TypeOK
  <2>2. CASE ~Reload(p)
    <3> DEFINE pd == IF page[p].pending = "set" THEN "overtaken" ELSE page[p].pending
               n  == IF page[p].behind /\ ~page[p].busy THEN page[p].stalled + 1 ELSE 0
    <3>1. Elapsed(p) \in -1 .. Quiet /\ pd \in {"no", "set", "overtaken"} /\ n \in Nat
      BY PageFields
    <3>2. [page[p] EXCEPT !.quiet = Elapsed(p), !.pending = pd, !.stalled = n] \in Page
      BY <1>0, <3>1 DEF Page
    <3>3. /\ page' = [page EXCEPT ![p] =
                        [page[p] EXCEPT !.quiet = Elapsed(p), !.pending = pd, !.stalled = n]]
          /\ UNCHANGED <<write, line, flight, member, stream>>
      BY <1>4, <2>2 DEF Timer
    <3> HIDE DEF pd, n
    <3> QED BY <3>2, <3>3 DEF TypeOK
  <2> QED BY <2>1, <2>2
<1>5. CASE Occupy(p)
  <2>1. [page[p] EXCEPT !.busy = ~@, !.stalled = 0] \in Page
    BY <1>0 DEF Page
  <2> QED BY <1>5, <2>1 DEF Occupy, TypeOK
<1> QED BY <1>1, <1>2, <1>3, <1>4, <1>5 DEF Watching

LEMMA MembershipType == TypeOK /\ ChangeMembership => TypeOK'
<1> SUFFICES ASSUME TypeOK, ChangeMembership PROVE TypeOK'
  OBVIOUS
<1>1. ASSUME NEW s \in Streams PROVE [stream[s] EXCEPT !.late = 0] \in Stream
  BY DEF TypeOK, Stream
<1> QED BY <1>1 DEF ChangeMembership, TypeOK

(* Every variable stays within its type (stream.ts, routes/stream.ts,       *)
(* ui/client.ts).                                                          *)
THEOREM TypeCorrect == Spec => []TypeOK
<1>1. ASSUME TypeOK, [Next]_vars PROVE TypeOK'
  <2>1. CASE UNCHANGED vars
    BY <1>1, <2>1 DEF vars, TypeOK
  <2> QED BY <1>1, <2>1, WritingType, TransportType, MembershipType, ServingType, WatchingType DEF Next
<1> QED BY <1>1, InitType, PTL DEF Spec

-----------------------------------------------------------------------------
(* A page is not behind for long: each turn it has been behind is a turn    *)
(* since it last heard, until a reload is pending.                          *)

Patient(pg) ==
  /\ pg.busy => pg.stalled = 0
  /\ pg.pending = "no" => 2 * pg.stalled <= pg.quiet + 1
  /\ pg.pending = "set" => pg.stalled <= QuietTurns
  /\ pg.stalled <= QuietTurns + 1

AllPatient == \A p \in Pages : Patient(page[p])

LEMMA FreshPatient == Patient(Fresh)
  BY Quantities DEF Patient, Fresh

LEMMA UntouchedPatient ==
  ASSUME NEW pg \in Page, NEW pg2 \in Page, Patient(pg), pg2.busy = pg.busy,
         pg2.stalled = pg.stalled, pg2.pending = pg.pending, pg2.quiet = pg.quiet
  PROVE  Patient(pg2)
  BY DEF Patient

LEMMA HeardPatient == ASSUME NEW pg \in Page, Patient(pg) PROVE Patient(Heard(pg))
<1>0. pg.stalled \in Nat /\ pg.quiet \in -1 .. Quiet
  BY DEF Page
<1>1. pg.pending = "no" => pg.stalled <= QuietTurns
  BY <1>0, Quantities DEF Patient
<1>2. /\ Heard(pg).pending = IF pg.pending = "no" THEN "set" ELSE pg.pending
      /\ Heard(pg).stalled = pg.stalled /\ Heard(pg).busy = pg.busy
  BY DEF Heard, Page
<1> QED BY <1>1, <1>2 DEF Patient

LEMMA BrokenPatient == ASSUME NEW pg \in Page, Patient(pg) PROVE Patient(BreaksOff(pg))
<1>1. BreaksOff(pg).busy = pg.busy /\ BreaksOff(pg).stalled = pg.stalled
      /\ BreaksOff(pg).pending = pg.pending /\ BreaksOff(pg).quiet = pg.quiet
  BY DEF BreaksOff, Page
<1> QED BY <1>1, BrokenType, UntouchedPatient

LEMMA ReadyPatient == ASSUME NEW pg \in Page, Patient(pg) PROVE Patient(Ready(pg))
<1>1. Ready(pg).busy = pg.busy /\ Ready(pg).stalled = pg.stalled
      /\ Ready(pg).pending = pg.pending /\ Ready(pg).quiet = pg.quiet
  BY DEF Ready, Page
<1> QED BY <1>1, ReadyType, UntouchedPatient

LEMMA MissingPatient == ASSUME TypeOK, AllPatient, NEW who, Missing(who) PROVE AllPatient'
<1> SUFFICES ASSUME NEW p \in Pages PROVE Patient(page'[p])
  BY DEF AllPatient
<1>1. page'[p] \in Page /\ page[p] \in Page /\ Patient(page[p])
  BY MissingType DEF TypeOK, AllPatient
<1>2. page'[p] = [page[p] EXCEPT !.missed = @ \/ (p \in who /\ page[p].behind)]
  BY DEF Missing
<1>3. page'[p].busy = page[p].busy /\ page'[p].stalled = page[p].stalled
      /\ page'[p].pending = page[p].pending /\ page'[p].quiet = page[p].quiet
  BY <1>1, <1>2 DEF Page
<1> QED BY <1>1, <1>3, UntouchedPatient

LEMMA OutdatedPatient ==
  ASSUME TypeOK, AllPatient,
         page' = Outdated \/ page' = [p \in Pages |-> [Outdated[p] EXCEPT !.missed = TRUE]]
  PROVE  AllPatient'
<1> SUFFICES ASSUME NEW p \in Pages PROVE Patient(page'[p])
  BY DEF AllPatient
<1>1. page'[p] \in Page /\ page[p] \in Page /\ Patient(page[p])
  BY OutdatedType DEF TypeOK, AllPatient
<1>2. \/ page'[p] = [page[p] EXCEPT !.behind = TRUE]
      \/ page'[p] = [[page[p] EXCEPT !.behind = TRUE] EXCEPT !.missed = TRUE]
  BY DEF Outdated
<1>3. page'[p].busy = page[p].busy /\ page'[p].stalled = page[p].stalled
      /\ page'[p].pending = page[p].pending /\ page'[p].quiet = page[p].quiet
  BY <1>1, <1>2 DEF Page
<1> QED BY <1>1, <1>3, UntouchedPatient

LEMMA ServingPatient == ASSUME TypeOK, AllPatient, NEW s \in Streams, Serving(s) PROVE AllPatient'
<1> SUFFICES ASSUME NEW p \in Pages PROVE Patient(page'[p])
  BY DEF AllPatient
<1>0. page[p] \in Page /\ Patient(page[p])
  BY DEF TypeOK, AllPatient
<1>1. /\ Patient(BreaksOff(page[p])) /\ Patient(Ready(page[p])) /\ Patient(Heard(page[p]))
      /\ Patient(BreaksOff(Heard(page[p])))
  BY <1>0, BrokenPatient, ReadyPatient, HeardPatient, HeardType
<1>2. CASE Greet(s)
  BY <1>0, <1>1, <1>2 DEF Greet, AtPage
<1>3. CASE Look(s) \/ Abort(s)
  BY <1>0, <1>1, <1>3 DEF Look, Abort, Close, AtPage
<1>4. CASE Tell(s)
  BY <1>0, <1>1, <1>4 DEF Tell, PassEnds, AtPage
<1>5. CASE Ping(s)
  BY <1>0, <1>1, <1>5 DEF Ping, PassEnds, AtPage, Pinged
<1>6. CASE Age(s) \/ Cut(s)
  BY <1>0, <1>6 DEF Age, Cut
<1> QED BY <1>2, <1>3, <1>4, <1>5, <1>6 DEF Serving, Handler

LEMMA TimerPatient == ASSUME TypeOK, AllPatient, NEW p \in Pages, Timer(p) PROVE Patient(page'[p])
<1>0. page[p] \in Page /\ Patient(page[p]) /\ page[p].stalled \in Nat /\ page[p].quiet \in -1 .. Quiet
      /\ page[p].pending \in {"no", "set"} /\ page[p].busy \in BOOLEAN /\ Elapsed(p) \in -1 .. Quiet
  BY PageFields DEF AllPatient, Timer
<1>1. CASE Reload(p)
  BY <1>1, FreshPatient DEF Reload, TypeOK
<1>2. CASE ~Reload(p)
  <2> DEFINE n == IF page[p].behind /\ ~page[p].busy THEN page[p].stalled + 1 ELSE 0
  <2>1. HeardOf(p) \/ page[p].busy
    BY <1>2 DEF Timer
  <2>2. /\ page'[p].quiet = Elapsed(p) /\ page'[p].stalled = n /\ page'[p].busy = page[p].busy
        /\ page'[p].pending = IF page[p].pending = "set" THEN "overtaken" ELSE page[p].pending
    BY <1>0, <1>2 DEF Timer, TypeOK, Page
  <2>3. n \in Nat /\ (page[p].busy => n = 0)
    BY <1>0
  <2>4. CASE page[p].pending = "set"
    <3>1. n <= QuietTurns + 1
      BY <1>0, <2>4, Quantities DEF Patient
    <3> QED BY <2>2, <2>3, <2>4, <3>1 DEF Patient
  <2>5. CASE page[p].pending = "no" /\ page[p].busy
    BY <1>0, <2>2, <2>3, <2>5, Quantities DEF Patient
  <2>6. CASE page[p].pending = "no" /\ ~page[p].busy
    <3>1. Elapsed(p) = page[p].quiet + 2 /\ Elapsed(p) < Quiet
      BY <1>0, <2>1, <2>6, Quantities DEF HeardOf, Elapsed, Turn
    <3>2. 2 * page[p].stalled <= page[p].quiet + 1
      BY <1>0, <2>6 DEF Patient
    <3>3. 2 * n <= Elapsed(p) + 1
      BY <1>0, <3>1, <3>2
    <3>4. n <= QuietTurns
      BY <1>0, <2>3, <3>1, <3>3, Quantities
    <3> QED BY <2>2, <2>3, <2>6, <3>3, <3>4, Quantities DEF Patient
  <2> QED BY <1>0, <2>4, <2>5, <2>6
<1> QED BY <1>1, <1>2

LEMMA WatchingPatient == ASSUME TypeOK, AllPatient, NEW p \in Pages, Watching(p) PROVE AllPatient'
<1>1. \A q \in Pages \ {p} : page'[q] = page[q]
  BY DEF TypeOK, Watching, Connect, Error, Pending, Timer, Occupy, Reload
<1>2. page[p] \in Page /\ Patient(page[p])
  BY DEF TypeOK, AllPatient
<1>3. Patient(page'[p])
  <2>1. ASSUME NEW s \in Streams, NEW r \in Replicas, Connect(p, s, r) PROVE Patient(page'[p])
    <3>1. page'[p] = [page[p] EXCEPT !.es = s, !.missed = @ \/ page[p].behind]
      BY <2>1 DEF Connect, TypeOK
    <3>2. page'[p].busy = page[p].busy /\ page'[p].stalled = page[p].stalled
          /\ page'[p].pending = page[p].pending /\ page'[p].quiet = page[p].quiet
      BY <1>2, <3>1 DEF Page
    <3> QED BY <1>2, <3>2 DEF Patient
  <2>2. CASE Error(p)
    BY <1>2, <2>2, BrokenPatient DEF Error, TypeOK
  <2>3. CASE Pending(p)
    <3>1. CASE Reload(p)
      BY <3>1, FreshPatient DEF Reload, TypeOK
    <3>2. CASE ~Reload(p)
      <4>1. /\ page'[p].busy /\ page[p].busy /\ page'[p].stalled = page[p].stalled
            /\ page'[p].pending = "no" /\ page'[p].quiet = page[p].quiet
        BY <1>2, <2>3, <3>2 DEF Pending, TypeOK, Page
      <4> QED BY <1>2, <4>1, Quantities DEF Patient, Page
    <3> QED BY <3>1, <3>2
  <2>4. CASE Timer(p)
    BY <2>4, TimerPatient
  <2>5. CASE Occupy(p)
    <3>1. page'[p].stalled = 0 /\ page'[p].quiet = page[p].quiet
      BY <1>2, <2>5 DEF Occupy, TypeOK, Page
    <3> QED BY <1>2, <3>1, Quantities DEF Patient, Page
  <2> QED BY <2>1, <2>2, <2>3, <2>4, <2>5 DEF Watching
<1> QED BY <1>1, <1>3 DEF AllPatient

LEMMA StepPatient == TypeOK /\ AllPatient /\ [Next]_vars => AllPatient'
<1> SUFFICES ASSUME TypeOK, AllPatient, [Next]_vars PROVE AllPatient'
  OBVIOUS
<1>1. ASSUME NEW r \in Writers, Writing(r) PROVE AllPatient'
  <2>1. CASE Commit(r) \/ CommitTold(r)
    BY <2>1, OutdatedPatient DEF Commit, CommitTold
  <2>2. CASE TrackFails(r)
    BY <2>2, MissingPatient DEF TrackFails
  <2>3. CASE RollBack(r)
    BY <2>3 DEF RollBack, AllPatient
  <2>4. ASSUME NEW sent \in BOOLEAN, TellKept(r, sent) \/ TellFirst(r, sent) PROVE AllPatient'
    BY <2>4, MissingPatient DEF TellKept, TellFirst, publishChange
  <2> QED BY <1>1, <2>1, <2>2, <2>3, <2>4 DEF Writing
<1>2. ASSUME NEW r \in Replicas, Transport(r) PROVE AllPatient'
  <2>1. CASE UNCHANGED page
    BY <2>1 DEF AllPatient
  <2>2. CASE ListenerDies(r)
    BY <2>2, MissingPatient DEF ListenerDies
  <2>3. CASE Restart(r)
    BY <2>3, MissingPatient DEF Restart
  <2> QED BY <1>2, <2>1, <2>2, <2>3 DEF Transport, Receive, attachChangeTransport, ListenerReturns
<1>3. CASE ChangeMembership \/ UNCHANGED vars
  BY <1>3 DEF ChangeMembership, vars, AllPatient
<1> QED BY <1>1, <1>2, <1>3, ServingPatient, WatchingPatient DEF Next

(* However the channel fails, a page that may reload is behind for one turn *)
(* more than the silence its timer allows, at most (ui/client.ts).          *)
THEOREM NotStaleForLong == Spec => []StaleNotForLong
<1>1. Init => AllPatient
  BY FreshPatient DEF Init, AllPatient
<1>2. AllPatient => StaleNotForLong
  BY DEF AllPatient, Patient, StaleNotForLong
<1> QED BY <1>1, <1>2, StepPatient, TypeCorrect, PTL DEF Spec

-----------------------------------------------------------------------------
(* A stream tells once more at most: what it has told since its person left *)
(* was told after the last look, and the next one closes it.  Whatever is   *)
(* subscribed is so at some process.                                        *)

Orderly(st) ==
  /\ st.phase # "idle" => st.at \in Replicas
  /\ st.news => st.team
  /\ st.late > 0 => st.phase = "wait" /\ st.team /\ ~member
  /\ st.late <= 1

AllOrderly == \A s \in Streams : Orderly(stream[s])

LEMMA IdleOrderly == Orderly(Idle)
  BY DEF Orderly, Idle

LEMMA StreamFields ==
  ASSUME TypeOK, NEW s \in Streams
  PROVE  /\ stream[s] \in Stream /\ stream[s].late \in Nat /\ stream[s].news \in BOOLEAN
         /\ stream[s].team \in BOOLEAN /\ stream[s].whole \in BOOLEAN /\ stream[s].old \in BOOLEAN
         /\ stream[s].phase \in Phases
<1>1. stream[s] \in Stream
  BY DEF TypeOK
<1> QED BY <1>1 DEF Stream

LEMMA DeliverOrderly ==
  ASSUME TypeOK, AllOrderly, NEW r \in Replicas, deliver(r), member' = member PROVE AllOrderly'
<1> SUFFICES ASSUME NEW s \in Streams PROVE Orderly(stream[s])'
  BY DEF AllOrderly
<1>1. stream[s] \in Stream /\ Orderly(stream[s])
  BY StreamFields DEF AllOrderly
<1>2. CASE s \in Watchers(r)
  <2>1. stream'[s] = [stream[s] EXCEPT !.news = TRUE] /\ stream[s].team
    BY <1>2 DEF deliver, Watchers
  <2>2. /\ stream'[s].team = stream[s].team /\ stream'[s].late = stream[s].late
        /\ stream'[s].phase = stream[s].phase /\ stream'[s].at = stream[s].at
    BY <1>1, <2>1 DEF Stream
  <2> QED BY <1>1, <2>1, <2>2 DEF Orderly
<1>3. CASE s \notin Watchers(r)
  BY <1>1, <1>3 DEF deliver, Orderly
<1> QED BY <1>2, <1>3

LEMMA ServingOrderly == ASSUME TypeOK, AllOrderly, NEW s \in Streams, Serving(s) PROVE AllOrderly'
<1>0. member' = member
  BY DEF Serving, Handler, Greet, Look, Tell, Ping, Abort, Age, Cut
<1>1. \A q \in Streams \ {s} : stream'[q] = stream[q]
  BY DEF TypeOK, Serving, Handler, Greet, Look, Tell, Ping, Abort, Age, Cut, Enter, Close, PassEnds
<1>2. stream[s] \in Stream /\ Orderly(stream[s]) /\ stream[s].late \in Nat
  BY StreamFields DEF AllOrderly
<1>3. Orderly(stream[s])'
  <2>1. CASE Greet(s)
    <3>1. stream[s].phase = "greet" /\ stream'[s] = [stream[s] EXCEPT !.phase = "wait"]
      BY <2>1 DEF Greet, Enter, TypeOK
    <3>2. stream[s].late = 0
      BY <1>2, <3>1 DEF Orderly
    <3> QED BY <1>2, <3>1, <3>2 DEF Orderly, Stream
  <2>2. CASE Look(s) /\ Enter(s, "looked") /\ stream[s].team = member
    <3>1. stream'[s] = [stream[s] EXCEPT !.phase = "looked"]
      BY <2>2 DEF Enter, TypeOK
    <3>2. stream[s].late = 0 /\ stream[s].at \in Replicas
      BY <1>2, <2>2 DEF Look, Orderly
    <3> QED BY <1>2, <3>1, <3>2 DEF Orderly, Stream
  <2>3. CASE Close(s)
    BY <2>3, IdleOrderly, <1>0 DEF Close, TypeOK, Orderly
  <2>4. CASE Tell(s)
    <3> DEFINE n  == IF member THEN 0 ELSE stream[s].late + 1
               st == [stream[s] EXCEPT !.news = FALSE, !.late = n]
    <3>1. stream[s].late = 0 /\ stream[s].team /\ n \in {0, 1} /\ (n = 1 => ~member)
          /\ stream[s].at \in Replicas
      BY <1>2, <2>4 DEF Tell, Orderly
    <3>2. stream'[s] = NextPass(st)
      BY <2>4 DEF Tell, PassEnds, TypeOK
    <3>3. CASE st.old
      BY <1>0, <3>2, <3>3, IdleOrderly DEF NextPass, Orderly
    <3>4. CASE ~st.old
      <4>1. stream'[s] = [st EXCEPT !.phase = "wait"]
        BY <3>2, <3>4 DEF NextPass
      <4>2. /\ stream'[s].phase = "wait" /\ stream'[s].team = stream[s].team
            /\ stream'[s].news = FALSE /\ stream'[s].late = n /\ stream'[s].at = stream[s].at
        BY <1>2, <4>1 DEF Stream
      <4> QED BY <1>0, <3>1, <4>2 DEF Orderly
    <3> QED BY <3>3, <3>4
  <2>5. CASE Ping(s)
    <3>1. stream[s].phase = "looked" /\ stream'[s] = NextPass(stream[s])
      BY <2>5 DEF Ping, PassEnds, TypeOK
    <3>2. stream[s].late = 0
      BY <1>2, <3>1 DEF Orderly
    <3> QED BY <1>0, <1>2, <3>1, <3>2, IdleOrderly DEF NextPass, Orderly, Stream
  <2>6. CASE Age(s) \/ Cut(s)
    <3>1. \/ stream'[s] = [stream[s] EXCEPT !.old = TRUE]
          \/ stream'[s] = [stream[s] EXCEPT !.whole = FALSE]
      BY <2>6 DEF Age, Cut, TypeOK
    <3>2. /\ stream'[s].phase = stream[s].phase /\ stream'[s].team = stream[s].team
          /\ stream'[s].news = stream[s].news /\ stream'[s].late = stream[s].late
          /\ stream'[s].at = stream[s].at
      BY <1>2, <3>1 DEF Stream
    <3> QED BY <1>0, <1>2, <3>2 DEF Orderly
  <2> QED BY <2>1, <2>2, <2>3, <2>4, <2>5, <2>6 DEF Serving, Handler, Look, Abort
<1> QED BY <1>0, <1>1, <1>3 DEF AllOrderly, Orderly

LEMMA ReloadOrderly ==
  ASSUME TypeOK, AllOrderly, NEW p \in Pages, Reload(p), member' = member PROVE AllOrderly'
<1> SUFFICES ASSUME NEW s \in Streams PROVE Orderly(stream[s])'
  BY DEF AllOrderly
<1>1. stream[s] \in Stream /\ Orderly(stream[s])
  BY StreamFields DEF AllOrderly
<1>2. stream'[s] = stream[s] \/ stream'[s] = [stream[s] EXCEPT !.whole = FALSE]
  BY DEF Reload
<1>3. /\ stream'[s].phase = stream[s].phase /\ stream'[s].team = stream[s].team
      /\ stream'[s].news = stream[s].news /\ stream'[s].late = stream[s].late
      /\ stream'[s].at = stream[s].at
  BY <1>1, <1>2 DEF Stream
<1> QED BY <1>1, <1>3 DEF Orderly

LEMMA StepOrderly == TypeOK /\ AllOrderly /\ [Next]_vars => AllOrderly'
<1> SUFFICES ASSUME TypeOK, AllOrderly, [Next]_vars PROVE AllOrderly'
  OBVIOUS
<1>1. CASE UNCHANGED <<stream, member>>
  BY <1>1 DEF AllOrderly, Orderly
<1>2. ASSUME NEW r \in Writers, NEW sent \in BOOLEAN, TellKept(r, sent) \/ TellFirst(r, sent)
      PROVE  AllOrderly'
  BY <1>2, DeliverOrderly, StreamAssumption DEF TellKept, TellFirst, publishChange
<1>3. ASSUME NEW r \in Replicas, NEW from \in Writers, Receive(from, r) PROVE AllOrderly'
  BY <1>3, DeliverOrderly DEF Receive
<1>4. ASSUME NEW r \in Replicas, Restart(r) PROVE AllOrderly'
  BY <1>4, IdleOrderly DEF Restart, AllOrderly, Orderly
<1>5. CASE ChangeMembership
  <2> SUFFICES ASSUME NEW s \in Streams PROVE Orderly(stream[s])'
    BY DEF AllOrderly
  <2>1. stream[s] \in Stream /\ Orderly(stream[s])
    BY StreamFields DEF AllOrderly
  <2>2. stream'[s] = [stream[s] EXCEPT !.late = 0]
    BY <1>5 DEF ChangeMembership
  <2>3. stream'[s].late = 0 /\ stream'[s].news = stream[s].news /\ stream'[s].team = stream[s].team
        /\ stream'[s].phase = stream[s].phase /\ stream'[s].at = stream[s].at
    BY <2>1, <2>2 DEF Stream
  <2> QED BY <2>1, <2>3 DEF Orderly
<1>6. ASSUME NEW p \in Pages, Watching(p) PROVE AllOrderly'
  <2>1. member' = member
    BY <1>6 DEF Watching, Connect, Error, Pending, Timer, Occupy
  <2>2. CASE Reload(p)
    BY <2>1, <2>2, ReloadOrderly
  <2>3. ASSUME NEW s \in Streams, NEW r \in Replicas, Connect(p, s, r) PROVE AllOrderly'
    <3>1. Orderly(stream[s])'
      BY <2>3 DEF Connect, TypeOK, Orderly, Idle
    <3>2. \A q \in Streams \ {s} : stream'[q] = stream[q]
      BY <2>3 DEF Connect, TypeOK
    <3> QED BY <2>1, <3>1, <3>2 DEF AllOrderly, Orderly
  <2>4. CASE UNCHANGED stream
    BY <2>1, <2>4 DEF AllOrderly, Orderly
  <2> QED BY <1>6, <2>2, <2>3, <2>4 DEF Watching, Error, Pending, Timer, Occupy
<1> QED BY <1>1, <1>2, <1>3, <1>4, <1>5, <1>6, ServingOrderly
  DEF Next, vars, Writing, Transport, Commit, TrackFails, CommitTold, RollBack,
      attachChangeTransport, ListenerDies, ListenerReturns

(* Of a team its person has left a stream tells once at most, then it is    *)
(* closed (/app/stream).                                                    *)
THEOREM ToldOnceMore == Spec => []OneMoreAtMost
<1>1. Init => AllOrderly
  BY DEF Init, AllOrderly, Orderly, Idle
<1>2. AllOrderly => OneMoreAtMost
  BY DEF AllOrderly, Orderly, OneMoreAtMost
<1> QED BY <1>1, <1>2, StepOrderly, TypeCorrect, PTL DEF Spec

-----------------------------------------------------------------------------
(* No news is dropped: each step that takes the news from one place puts it *)
(* into the next one, or marks the pages it is lost for.                    *)

Told(p) == page[p].behind /\ Follows(p) /\ ~page[p].missed => OnItsWay(p)

(* A delivery reaches every page that follows there; elsewhere nothing      *)
(* changes.                                                                 *)
LEMMA DeliverFields ==
  ASSUME TypeOK, NEW r \in Replicas, deliver(r), NEW s \in Streams
  PROVE  /\ stream'[s].phase = stream[s].phase /\ stream'[s].at = stream[s].at
         /\ stream'[s].whole = stream[s].whole /\ stream'[s].team = stream[s].team
         /\ stream[s].news => stream'[s].news
         /\ Subscribed(s) /\ stream[s].team /\ stream[s].at = r => stream'[s].news
<1>1. stream[s] \in Stream
  BY StreamFields
<1>2. CASE s \in Watchers(r)
  <2>1. stream'[s] = [stream[s] EXCEPT !.news = TRUE]
    BY <1>2 DEF deliver
  <2> QED BY <1>1, <2>1 DEF Stream
<1>3. CASE s \notin Watchers(r)
  <2>1. stream'[s] = stream[s]
    BY <1>3 DEF deliver
  <2>2. ~(Subscribed(s) /\ stream[s].team /\ stream[s].at = r)
    BY <1>3 DEF Watchers, Subscribers
  <2> QED BY <2>1, <2>2
<1> QED BY <1>2, <1>3

LEMMA MissingFields ==
  ASSUME TypeOK, NEW who, Missing(who), NEW p \in Pages
  PROVE  /\ page'[p].behind = page[p].behind /\ page'[p].es = page[p].es
         /\ page'[p].pending = page[p].pending
         /\ ~page'[p].missed /\ page'[p].behind => ~page[p].missed /\ p \notin who
<1>1. page[p] \in Page
  BY PageFields
<1>2. page'[p] = [page[p] EXCEPT !.missed = @ \/ (p \in who /\ page[p].behind)]
  BY DEF Missing
<1> QED BY <1>1, <1>2 DEF Page

LEMMA FollowedStream ==
  ASSUME TypeOK, NEW p \in Pages, Follows(p)
  PROVE  page[p].es \in Streams /\ stream[page[p].es] \in Stream
  BY PageFields, StreamFields DEF Follows

LEMMA PublishTold ==
  ASSUME TypeOK, NEW r \in Writers, NEW sent \in BOOLEAN, publishChange(r, sent),
         NEW p \in Pages, Told(p), \A w \in Writers \ {r} : write'[w] = write[w],
         write[r] = "kept" => write'[r] \in {"none", "kept"}
  PROVE  Told(p)'
<1> DEFINE others == Receivers(r, sent)
           s == page[p].es
<1> SUFFICES ASSUME page'[p].behind, Follows(p)', ~page'[p].missed PROVE OnItsWay(p)'
  BY DEF Told
<1>1. deliver(r) /\ Missing(Pages \ PagesAt({r} \cup others)) /\ r \in Replicas
  BY StreamAssumption DEF publishChange
<1>2. /\ page[p].behind /\ page'[p].es = s /\ page'[p].pending = page[p].pending
      /\ ~page[p].missed /\ p \in PagesAt({r} \cup others)
  <2> DEFINE unreached == Pages \ PagesAt({r} \cup others)
  <2>1. Missing(unreached)
    BY <1>1
  <2> HIDE DEF unreached
  <2>2. /\ page'[p].behind = page[p].behind /\ page'[p].es = s
        /\ page'[p].pending = page[p].pending /\ ~page[p].missed /\ p \notin unreached
    BY <2>1, MissingFields
  <2> QED BY <2>2 DEF unreached
<1>3. s \in Streams
  BY <1>2, PageFields DEF Follows
<1>4. Follows(p)
  BY <1>1, <1>2, <1>3, DeliverFields DEF Follows, Subscribed
<1>5. stream[s].at \in {r} \cup others
  BY <1>2 DEF PagesAt
<1>6. CASE stream[s].at = r
  BY <1>1, <1>2, <1>3, <1>4, <1>6, DeliverFields DEF Follows, OnItsWay
<1>7. CASE stream[s].at \in others
  <2>1. <<r, stream[s].at>> \in Writers \X Replicas
    BY <1>7 DEF Receivers
  <2>2. flight'[<<r, stream[s].at>>] = flight[<<r, stream[s].at>>] + 1
    BY <1>7, <2>1 DEF publishChange, TypeOK
  <2>3. flight[<<r, stream[s].at>>] \in 0 .. MaxFlight
    BY <2>1 DEF TypeOK
  <2>4. flight'[<<r, stream[s].at>>] > 0
    BY <2>2, <2>3, Quantities
  <2>5. stream'[s].at = stream[s].at
    BY <1>1, <1>3, DeliverFields
  <2> QED BY <1>2, <2>4, <2>5 DEF OnItsWay
<1> QED BY <1>5, <1>6, <1>7

LEMMA WritingTold ==
  ASSUME TypeOK, NEW r \in Writers, Writing(r), NEW p \in Pages, Told(p) PROVE Told(p)'
<1>0. page[p] \in Page
  BY PageFields
<1>1. CASE Commit(r)
  <2>1. write'[r] = "kept"
    BY <1>1 DEF Commit, TypeOK
  <2> QED BY <2>1 DEF Told, OnItsWay
<1>2. CASE TrackFails(r)
  <2>1. page'[p].behind => page'[p].missed
    <3>1. page'[p].behind = page[p].behind /\ (~page'[p].missed /\ page'[p].behind => p \notin Pages)
      BY <1>2, MissingFields DEF TrackFails
    <3> QED BY <3>1
  <2> QED BY <2>1 DEF Told
<1>3. CASE CommitTold(r)
  <2>1. page'[p] = [[page[p] EXCEPT !.behind = TRUE] EXCEPT !.missed = TRUE]
    BY <1>3 DEF CommitTold, Outdated
  <2>2. page'[p].missed
    BY <1>0, <2>1 DEF Page
  <2> QED BY <2>2 DEF Told
<1>4. CASE RollBack(r)
  <2>1. \A w \in Writers : write[w] = "kept" => write'[w] = "kept"
    BY <1>4 DEF RollBack, TypeOK
  <2> QED BY <1>4, <2>1 DEF RollBack, Told, OnItsWay, Follows, Subscribed
<1>5. ASSUME NEW sent \in BOOLEAN, TellKept(r, sent) \/ TellFirst(r, sent) PROVE Told(p)'
  <2>1. \A w \in Writers \ {r} : write'[w] = write[w]
    BY <1>5 DEF TellKept, TellFirst, TypeOK
  <2>2. write[r] = "kept" => write'[r] \in {"none", "kept"}
    BY <1>5 DEF TellKept, TellFirst, TypeOK
  <2>3. publishChange(r, sent)
    BY <1>5 DEF TellKept, TellFirst
  <2> QED BY <2>1, <2>2, <2>3, PublishTold
<1> QED BY <1>1, <1>2, <1>3, <1>4, <1>5 DEF Writing

LEMMA TransportTold ==
  ASSUME TypeOK, AllOrderly, NEW r \in Replicas, Transport(r), NEW p \in Pages, Told(p)
  PROVE  Told(p)'
<1> DEFINE s == page[p].es
<1>1. ASSUME NEW from \in Writers, Receive(from, r) PROVE Told(p)'
  <2> SUFFICES ASSUME page'[p].behind, Follows(p)', ~page'[p].missed PROVE OnItsWay(p)'
    BY DEF Told
  <2>1. deliver(r) /\ page' = page /\ write' = write
    BY <1>1 DEF Receive
  <2>2. s \in Streams
    BY <2>1, PageFields DEF Follows
  <2>3. Follows(p)
    BY <2>1, <2>2, DeliverFields DEF Follows, Subscribed
  <2>4. OnItsWay(p)
    BY <2>1, <2>3 DEF Told
  <2>5. CASE stream[s].at = r
    BY <2>1, <2>2, <2>3, <2>5, DeliverFields DEF Follows, OnItsWay
  <2>6. CASE stream[s].at # r
    <3>1. \A w \in Writers : flight'[<<w, stream[s].at>>] = flight[<<w, stream[s].at>>]
      BY <1>1, <2>6 DEF Receive, TypeOK
    <3>2. stream'[s].at = stream[s].at /\ (stream[s].news => stream'[s].news)
      BY <2>1, <2>2, DeliverFields
    <3> QED BY <2>1, <2>4, <3>1, <3>2 DEF OnItsWay
  <2> QED BY <2>5, <2>6
<1>2. CASE attachChangeTransport(r) \/ ListenerReturns(r)
  BY <1>2 DEF attachChangeTransport, ListenerReturns, Told, Follows, Subscribed, OnItsWay
<1>3. CASE ListenerDies(r)
  <2> SUFFICES ASSUME page'[p].behind, Follows(p)', ~page'[p].missed PROVE OnItsWay(p)'
    BY DEF Told
  <2>1. /\ Missing(IF flight' = flight THEN {} ELSE PagesAt({r})) /\ stream' = stream /\ write' = write
        /\ flight' = Lost(r)
    BY <1>3 DEF ListenerDies
  <2>2. /\ page[p].behind /\ page'[p].es = s /\ page'[p].pending = page[p].pending
        /\ ~page[p].missed /\ p \notin (IF flight' = flight THEN {} ELSE PagesAt({r}))
    BY <2>1, MissingFields
  <2>3. Follows(p)
    BY <2>1, <2>2 DEF Follows, Subscribed
  <2>4. OnItsWay(p)
    BY <2>2, <2>3 DEF Told
  <2>5. CASE flight' = flight
    BY <2>1, <2>2, <2>4, <2>5 DEF OnItsWay
  <2>6. CASE flight' # flight
    <3>1. stream[s].at # r
      BY <2>2, <2>3, <2>6 DEF PagesAt, Follows
    <3>2. stream[s].at \in Replicas
      BY <2>3, FollowedStream DEF Follows, Subscribed, AllOrderly, Orderly
    <3>3. \A w \in Writers : flight[<<w, stream[s].at>>] > 0 => flight'[<<w, stream[s].at>>] > 0
      <4>1. SUFFICES ASSUME NEW w \in Writers, flight[<<w, stream[s].at>>] > 0
                     PROVE  flight'[<<w, stream[s].at>>] > 0
        OBVIOUS
      <4> QED BY <2>1, <3>1, <3>2, <4>1 DEF Lost, TypeOK
    <3> QED BY <2>1, <2>2, <2>4, <3>3 DEF OnItsWay
  <2> QED BY <2>5, <2>6
<1>5. CASE Restart(r)
  <2> SUFFICES ASSUME page'[p].behind, Follows(p)', ~page'[p].missed PROVE OnItsWay(p)'
    BY DEF Told
  <2> DEFINE lost == IF r \in Writers /\ write[r] = "kept" THEN Pages ELSE {}
  <2>1. /\ Missing(lost) /\ flight' = Lost(r)
        /\ stream' = [q \in Streams |-> IF q \in Subscribers(r) THEN Idle ELSE stream[q]]
    BY <1>5 DEF Restart
  <2>2. /\ page[p].behind /\ page'[p].es = s /\ page'[p].pending = page[p].pending
        /\ ~page[p].missed /\ p \notin lost
    BY <2>1, MissingFields
  <2>3. s \in Streams
    BY <2>2, PageFields DEF Follows
  <2>4. s \notin Subscribers(r) /\ stream'[s] = stream[s]
    BY <2>1, <2>2, <2>3 DEF Follows, Subscribed, Idle
  <2>5. Follows(p) /\ stream[s].at # r
    BY <2>2, <2>3, <2>4 DEF Follows, Subscribed, Subscribers
  <2>6. OnItsWay(p)
    BY <2>2, <2>5 DEF Told
  <2>7. \A w \in Writers : write[w] = "kept" => write'[w] = "kept"
    BY <1>5, <2>2 DEF Restart
  <2>8. \A w \in Writers : flight[<<w, stream[s].at>>] > 0 => flight'[<<w, stream[s].at>>] > 0
    <3>1. stream[s].at \in Replicas
      BY <2>5, FollowedStream DEF Follows, Subscribed, AllOrderly, Orderly
    <3> QED BY <2>1, <2>5, <3>1 DEF Lost, TypeOK
  <2> QED BY <2>2, <2>4, <2>6, <2>7, <2>8 DEF OnItsWay
<1> QED BY <1>1, <1>2, <1>3, <1>5 DEF Transport

LEMMA ServingTold ==
  ASSUME TypeOK, NEW s \in Streams, Serving(s), NEW p \in Pages, Told(p) PROVE Told(p)'
<1> SUFFICES ASSUME page'[p].behind, Follows(p)', ~page'[p].missed PROVE OnItsWay(p)'
  BY DEF Told
<1>0. /\ page[p] \in Page /\ page[p].es \in Streams \cup {Nobody} /\ stream[s] \in Stream
      /\ write' = write /\ flight' = flight /\ Nobody \notin Streams
      /\ \A q \in Streams \ {s} : stream'[q] = stream[q]
  BY PageFields, StreamFields, StreamAssumption
     DEF TypeOK, Serving, Handler, Greet, Look, Tell, Ping, Abort, Age, Cut, Enter, Close, PassEnds
<1>1. CASE page[p].es # s
  <2>1. page'[p] = page[p]
    BY <1>1 DEF Serving, Handler, Greet, Look, Tell, Ping, Abort, Age, Cut, Close, PassEnds, AtPage
  <2>2. page[p].es \in Streams \ {s}
    BY <1>0, <1>1, <2>1 DEF Follows
  <2> QED BY <1>0, <2>1, <2>2 DEF Told, Follows, Subscribed, OnItsWay
<1>2. CASE page[p].es = s
  <2>1. CASE Greet(s)
    <3>1. stream'[s] = [stream[s] EXCEPT !.phase = "wait"] /\ stream[s].phase = "greet"
      BY <2>1 DEF Greet, Enter, TypeOK
    <3>2. page'[p] = page[p] \/ page'[p] = [page[p] EXCEPT !.live = TRUE]
      BY <2>1 DEF Greet, AtPage, Ready
    <3>3. /\ page'[p].es = s /\ page'[p].behind = page[p].behind
          /\ page'[p].missed = page[p].missed /\ page'[p].pending = page[p].pending
      BY <1>0, <1>2, <3>2 DEF Page
    <3>4. /\ stream'[s].at = stream[s].at /\ stream'[s].whole = stream[s].whole
          /\ stream'[s].team = stream[s].team /\ stream'[s].news = stream[s].news
      BY <1>0, <3>1 DEF Stream
    <3> QED BY <1>0, <1>2, <3>1, <3>3, <3>4 DEF Told, Follows, Subscribed, OnItsWay
  <2>2. CASE Look(s) /\ Enter(s, "looked") /\ page' = page
    <3>1. stream'[s] = [stream[s] EXCEPT !.phase = "looked"] /\ stream[s].phase = "wait"
      BY <2>2 DEF Look, Enter, TypeOK
    <3> QED BY <1>0, <1>2, <2>2, <3>1 DEF Told, Follows, Subscribed, OnItsWay, Stream
  <2>3. CASE Close(s)
    <3>1. stream'[s] = Idle
      BY <2>3 DEF Close, TypeOK
    <3>2. page'[p] = page[p] \/ page'[p] = BreaksOff(page[p])
      BY <2>3 DEF Close, AtPage
    <3>3. page'[p].es = s \/ page'[p].es = Nobody
      BY <1>0, <1>2, <3>2 DEF BreaksOff, Page
    <3> QED BY <3>1, <3>3 DEF Follows, Subscribed, Idle
  <2>4. CASE Tell(s)
    <3> DEFINE st == [stream[s] EXCEPT !.news = FALSE, !.late = IF member THEN 0 ELSE @ + 1]
    <3>1. stream'[s] = NextPass(st) /\ stream[s].phase = "looked" /\ st.old = stream[s].old
          /\ st.whole = stream[s].whole
      BY <1>0, <2>4 DEF Tell, PassEnds, TypeOK, Stream
    <3>2. CASE ~stream[s].whole
      <4>1. page'[p] = page[p]
        BY <2>4, <3>2 DEF Tell, PassEnds, AtPage
      <4>2. ~stream'[s].whole
        BY <1>0, <3>1, <3>2 DEF NextPass, Idle, Stream
      <4> QED BY <1>2, <4>1, <4>2 DEF Follows
    <3>3. CASE stream[s].whole /\ stream[s].old
      <4>1. page'[p] = BreaksOff(Heard(page[p]))
        BY <1>2, <2>4, <3>3 DEF Tell, PassEnds, AtPage
      <4>2. page'[p].es = Nobody
        BY <1>0, <4>1, HeardType DEF BreaksOff, Page
      <4> QED BY <4>2 DEF Follows
    <3>4. CASE stream[s].whole /\ ~stream[s].old
      <4>1. page'[p] = Heard(page[p])
        BY <1>2, <2>4, <3>4 DEF Tell, PassEnds, AtPage
      <4>2. page'[p].pending # "no"
        BY <1>0, <4>1 DEF Heard, Page
      <4> QED BY <4>2 DEF OnItsWay
    <3> QED BY <1>0, <3>2, <3>3, <3>4 DEF Stream
  <2>5. CASE Ping(s)
    <3>1. stream'[s] = NextPass(stream[s]) /\ stream[s].phase = "looked"
      BY <2>5 DEF Ping, PassEnds, TypeOK
    <3>2. CASE stream[s].old
      <4>1. stream'[s] = Idle
        BY <3>1, <3>2 DEF NextPass
      <4>2. page'[p] = page[p] \/ page'[p] = BreaksOff(page[p])
        BY <2>5, <3>2 DEF Ping, PassEnds, AtPage, Pinged
      <4>3. page'[p].es = s \/ page'[p].es = Nobody
        BY <1>0, <1>2, <4>2 DEF BreaksOff, Page
      <4> QED BY <4>1, <4>3 DEF Follows, Subscribed, Idle
    <3>3. CASE ~stream[s].old
      <4>1. stream'[s] = [stream[s] EXCEPT !.phase = "wait"]
        BY <3>1, <3>3 DEF NextPass
      <4>2. page'[p] = page[p]
        BY <2>5, <3>3 DEF Ping, PassEnds, AtPage, Pinged
      <4> QED BY <1>0, <1>2, <3>1, <4>1, <4>2 DEF Told, Follows, Subscribed, OnItsWay, Stream
    <3> QED BY <3>2, <3>3
  <2>6. CASE Age(s)
    <3>1. stream'[s] = [stream[s] EXCEPT !.old = TRUE] /\ page' = page
      BY <2>6 DEF Age, TypeOK
    <3> QED BY <1>0, <1>2, <3>1 DEF Told, Follows, Subscribed, OnItsWay, Stream
  <2>7. CASE Cut(s)
    <3>1. ~stream'[s].whole /\ page' = page
      BY <1>0, <2>7 DEF Cut, TypeOK, Stream
    <3> QED BY <1>2, <3>1 DEF Follows
  <2> QED BY <2>1, <2>2, <2>3, <2>4, <2>5, <2>6, <2>7 DEF Serving, Handler, Look, Abort
<1> QED BY <1>1, <1>2

(* A page's own steps leave the other pages alone, or at most end a stream  *)
(* of theirs.                                                               *)
LEMMA ReloadTold == ASSUME TypeOK, NEW p \in Pages, Reload(p), UNCHANGED <<write, flight>>,
                           NEW q \in Pages, Told(q) PROVE Told(q)'
<1> SUFFICES ASSUME page'[q].behind, Follows(q)', ~page'[q].missed PROVE OnItsWay(q)'
  BY DEF Told
<1>1. CASE q = p
  BY <1>1 DEF Reload, TypeOK, Fresh
<1>2. CASE q # p
  <2>1. page'[q] = page[q] /\ page[q].es \in Streams
    BY <1>2, PageFields DEF Reload, TypeOK, Follows
  <2>2. stream[page[q].es] \in Stream
    BY <2>1, StreamFields
  <2>3. \/ stream'[page[q].es] = stream[page[q].es]
        \/ stream'[page[q].es] = [stream[page[q].es] EXCEPT !.whole = FALSE]
    BY <2>1 DEF Reload
  <2>4. stream'[page[q].es] = stream[page[q].es]
    BY <2>1, <2>2, <2>3 DEF Follows, Stream
  <2> QED BY <2>1, <2>4 DEF Told, Follows, Subscribed, OnItsWay
<1> QED BY <1>1, <1>2

LEMMA WatchingTold ==
  ASSUME TypeOK, NEW p \in Pages, Watching(p), NEW q \in Pages, Told(q) PROVE Told(q)'
<1>0. write' = write /\ flight' = flight /\ page[p] \in Page
  BY PageFields DEF Watching, Connect, Error, Pending, Timer, Occupy
<1>1. CASE Reload(p)
  BY <1>0, <1>1, ReloadTold
<1>2. ASSUME NEW s \in Streams, NEW r \in Replicas, Connect(p, s, r) PROVE Told(q)'
  <2>1. CASE q = p
    <3>1. page'[p] = [page[p] EXCEPT !.es = s, !.missed = @ \/ page[p].behind]
      BY <1>2 DEF Connect, TypeOK
    <3>2. page'[p].behind => page'[p].missed
      BY <1>0, <3>1 DEF Page
    <3> QED BY <2>1, <3>2 DEF Told
  <2>2. CASE q # p
    <3>1. page'[q] = page[q] /\ page[q].es # s
      BY <1>2, <2>2 DEF Connect, TypeOK
    <3>2. page[q].es \in Streams => stream'[page[q].es] = stream[page[q].es]
      BY <1>2, <3>1 DEF Connect, TypeOK
    <3>3. page[q].es \in Streams \cup {Nobody}
      BY PageFields
    <3> QED BY <1>0, <3>1, <3>2, <3>3 DEF Told, Follows, Subscribed, OnItsWay
  <2> QED BY <2>1, <2>2
<1>3. CASE stream' = stream /\ page'[q] = page[q]
  BY <1>0, <1>3 DEF Told, Follows, Subscribed, OnItsWay
<1>4. CASE stream' = stream /\ q = p /\ Error(p)
  <2>1. page'[p].es = Nobody
    BY <1>0, <1>4 DEF Error, BreaksOff, TypeOK, Page
  <2> QED BY <1>4, <2>1 DEF Told, Follows
<1>5. CASE q = p /\ Pending(p) /\ ~Reload(p)
  <2>1. page'[p].missed = (page[p].missed \/ page[p].behind) /\ page'[p].behind = page[p].behind
    BY <1>0, <1>5 DEF Pending, TypeOK, Page
  <2> QED BY <1>5, <2>1 DEF Told
<1>6. CASE q = p /\ Timer(p) /\ ~Reload(p)
  <2>1. /\ stream' = stream /\ page'[p].behind = page[p].behind /\ page'[p].es = page[p].es
        /\ page'[p].missed = page[p].missed /\ (page[p].pending # "no" => page'[p].pending # "no")
    BY <1>0, <1>6 DEF Timer, TypeOK, Page
  <2> QED BY <1>0, <1>6, <2>1 DEF Told, Follows, Subscribed, OnItsWay
<1>7. CASE q = p /\ Occupy(p)
  <2>1. /\ stream' = stream /\ page'[p].behind = page[p].behind /\ page'[p].es = page[p].es
        /\ page'[p].missed = page[p].missed /\ page'[p].pending = page[p].pending
    BY <1>0, <1>7 DEF Occupy, TypeOK, Page
  <2> QED BY <1>0, <1>7, <2>1 DEF Told, Follows, Subscribed, OnItsWay
<1>8. CASE q # p /\ ~Reload(p) /\ (Error(p) \/ Pending(p) \/ Timer(p) \/ Occupy(p))
  <2>1. stream' = stream /\ page'[q] = page[q]
    BY <1>8 DEF Error, Pending, Timer, Occupy, TypeOK
  <2> QED BY <1>3, <2>1
<1> QED BY <1>1, <1>2, <1>4, <1>5, <1>6, <1>7, <1>8 DEF Watching, Error

LEMMA StepTold ==
  TypeOK /\ AllOrderly /\ NothingIsDropped /\ [Next]_vars => NothingIsDropped'
<1> SUFFICES ASSUME TypeOK, AllOrderly, \A q \in Pages : Told(q), [Next]_vars, NEW p \in Pages
             PROVE  Told(p)'
  BY DEF NothingIsDropped, Told
<1>1. CASE ChangeMembership
  <2>1. \A s \in Streams : stream'[s] = [stream[s] EXCEPT !.late = 0] /\ stream[s] \in Stream
    BY <1>1, StreamFields DEF ChangeMembership
  <2>2. page[p].es \in Streams \cup {Nobody}
    BY PageFields
  <2> QED BY <1>1, <2>1, <2>2 DEF ChangeMembership, Told, Follows, Subscribed, OnItsWay, Stream
<1>2. CASE UNCHANGED vars
  BY <1>2 DEF vars, Told, Follows, Subscribed, OnItsWay
<1> QED BY <1>1, <1>2, WritingTold, TransportTold, ServingTold, WatchingTold DEF Next

(* A page with a stream is behind only while the news is on its way, unless *)
(* it was lost in one of the ways that are marked (publishChange,           *)
(* /app/stream).                                                            *)
THEOREM NewsIsNotDropped == Spec => []NothingIsDropped
<1>1. Init => NothingIsDropped
  BY DEF Init, NothingIsDropped, Fresh
<1>2. Init => AllOrderly
  BY DEF Init, AllOrderly, Orderly, Idle
<1> QED BY <1>1, <1>2, StepOrderly, StepTold, TypeCorrect, PTL DEF Spec
=============================================================================
