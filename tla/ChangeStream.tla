---------------------------- MODULE ChangeStream ----------------------------
(***************************************************************************)
(* How a watch page of the console stays true: the change channel between  *)
(* and inside the server processes (packages/server/src/lib/stream.ts),    *)
(* one server-sent stream per page (routes/stream.ts) and the page's own   *)
(* timer (ui/client.ts).  The channel carries news, never data, and may    *)
(* lose it; a page that hears nothing falls back to reloading by itself.   *)
(* The pages belong to one person and show one team's work.  Time is the   *)
(* page's own timer, and the moments between two firings of it.            *)
(***************************************************************************)
EXTENDS Integers, FiniteSets

CONSTANTS
  Replicas,        \* server processes of one deployment
  Writers,         \* those whose writes and news are followed
  Pages,           \* open pages with data-autorefresh
  Streams,         \* identities of requests for /app/stream
  Nobody,          \* no stream, no process
  QuietTurns,      \* the 120 s a live page waits for news, in turns of its 30 s timer
  MaxSubscribers,  \* MAX_SUBSCRIBERS
  MaxFlight        \* bound on notifications under way from one replica to another

ASSUME StreamAssumption == Writers \subseteq Replicas /\ Nobody \notin Streams \cup Replicas
ASSUME BoundsAssumption ==
  QuietTurns \in Nat \ {0} /\ MaxSubscribers \in Nat \ {0} /\ MaxFlight \in Nat \ {0}

(* Half a turn of the timer is the unit: a load is where the turns are      *)
(* counted from, an event falls inside one.                                 *)
Turn  == 2
Quiet == Turn * QuietTurns

VARIABLES
  write,   \* replica |-> its write: "none", "told" but not committed, "kept" but not told
  line,    \* replica |-> its LISTEN connection: "off" (poll only), "up", "down"
  flight,  \* sender and receiver |-> notifications under way
  member,  \* whether the person is in the team
  stream,  \* the requests and their queues, as the server has them
  page     \* the pages, as the browsers have them

vars == <<write, line, flight, member, stream, page>>

Phases == {"idle", "greet", "wait", "looked"}
Stream == [phase : Phases, at : Replicas \cup {Nobody}, whole : BOOLEAN, team : BOOLEAN,
           news : BOOLEAN, old : BOOLEAN, late : Nat]
Page   == [behind : BOOLEAN, quiet : -1 .. Quiet, pending : {"no", "set", "overtaken"},
           es : Streams \cup {Nobody}, live : BOOLEAN, busy : BOOLEAN,
           stalled : Nat, missed : BOOLEAN]

TypeOK ==
  /\ write \in [Writers -> {"none", "told", "kept"}]
  /\ line \in [Replicas -> {"off", "up", "down"}]
  /\ flight \in [Writers \X Replicas -> 0 .. MaxFlight]
  /\ member \in BOOLEAN
  /\ stream \in [Streams -> Stream]
  /\ page \in [Pages -> Page]

Idle  == [phase |-> "idle", at |-> Nobody, whole |-> FALSE, team |-> FALSE, news |-> FALSE,
          old |-> FALSE, late |-> 0]
Fresh == [behind |-> FALSE, quiet |-> 0, pending |-> "no", es |-> Nobody, live |-> FALSE,
          busy |-> FALSE, stalled |-> 0, missed |-> FALSE]

Init ==
  /\ write = [r \in Writers |-> "none"]
  /\ line = [r \in Replicas |-> "off"]
  /\ flight = [way \in Writers \X Replicas |-> 0]
  /\ member = TRUE
  /\ stream = [s \in Streams |-> Idle]
  /\ page = [p \in Pages |-> Fresh]

Subscribed(s)  == stream[s].phase # "idle"
Subscribers(r) == {s \in Streams : Subscribed(s) /\ stream[s].at = r}
(* Mutant: the subscription begins when the browser has been greeted. *)
SubscribedWhenReady(r) == {s \in Subscribers(r) : stream[s].team /\ stream[s].phase # "greet"}
Watchers(r)    == {s \in Subscribers(r) : stream[s].team}

(* `late` counts what a stream told after the person left the team, and     *)
(* `missed` marks the pages that news was lost for: neither is in the code. *)
Missing(who) ==
  page' = [p \in Pages |-> [page[p] EXCEPT !.missed = @ \/ (p \in who /\ page[p].behind)]]
Outdated     == [p \in Pages |-> [page[p] EXCEPT !.behind = TRUE]]
PagesAt(rs)  == {p \in Pages : page[p].es # Nobody /\ stream[page[p].es].at \in rs}

-----------------------------------------------------------------------------
(* A change and the news of it *)

deliver(r) ==
  stream' = [s \in Streams |-> IF s \in Watchers(r) THEN [stream[s] EXCEPT !.news = TRUE]
                               ELSE stream[s]]

(* The process that sent a notification drops its own copy.                 *)
Receivers(r, sent) ==
  {q \in Replicas \ {r} : sent /\ line[r] # "off" /\ line[q] = "up"}

publishChange(r, sent) ==
  LET others == Receivers(r, sent) IN
    /\ deliver(r)
    /\ \A q \in others : flight[<<r, q>>] < MaxFlight
    /\ flight' = [way \in DOMAIN flight |->
                    IF way[1] = r /\ way[2] \in others THEN flight[way] + 1 ELSE flight[way]]
    /\ Missing(Pages \ PagesAt({r} \cup others))
    /\ UNCHANGED <<line, member>>

Commit(r) ==
  /\ write[r] = "none"
  /\ write' = [write EXCEPT ![r] = "kept"]
  /\ page' = Outdated
  /\ UNCHANGED <<line, flight, member, stream>>

TellKept(r, sent) ==
  /\ write[r] = "kept"
  /\ write' = [write EXCEPT ![r] = "none"]
  /\ publishChange(r, sent)

(* The feed row cannot be stored: the change is not announced.              *)
TrackFails(r) ==
  /\ write[r] = "kept"
  /\ write' = [write EXCEPT ![r] = "none"]
  /\ Missing(Pages)
  /\ UNCHANGED <<line, flight, member, stream>>

(* Claims are announced inside the transaction that writes them.            *)
TellFirst(r, sent) ==
  /\ write[r] = "none"
  /\ write' = [write EXCEPT ![r] = "told"]
  /\ publishChange(r, sent)

CommitTold(r) ==
  /\ write[r] = "told"
  /\ write' = [write EXCEPT ![r] = "none"]
  /\ page' = [p \in Pages |-> [Outdated[p] EXCEPT !.missed = TRUE]]
  /\ UNCHANGED <<line, flight, member, stream>>

RollBack(r) ==
  /\ write[r] = "told"
  /\ write' = [write EXCEPT ![r] = "none"]
  /\ UNCHANGED <<line, flight, member, stream, page>>

Receive(from, r) ==
  /\ flight[<<from, r>>] > 0
  /\ flight' = [flight EXCEPT ![<<from, r>>] = @ - 1]
  /\ deliver(r)
  /\ UNCHANGED <<write, line, member, page>>

attachChangeTransport(r) ==
  /\ line[r] = "off"
  /\ line' = [line EXCEPT ![r] = "up"]
  /\ UNCHANGED <<write, flight, member, stream, page>>

Lost(r) == [way \in DOMAIN flight |-> IF way[2] = r THEN 0 ELSE flight[way]]

ListenerDies(r) ==
  /\ line[r] = "up"
  /\ line' = [line EXCEPT ![r] = "down"]
  /\ flight' = Lost(r)
  /\ Missing(IF flight' = flight THEN {} ELSE PagesAt({r}))
  /\ UNCHANGED <<write, member, stream>>

ListenerReturns(r) ==
  /\ line[r] = "down"
  /\ line' = [line EXCEPT ![r] = "up"]
  /\ UNCHANGED <<write, flight, member, stream, page>>

(* The process stops and another takes its place: its streams break off,    *)
(* what it had committed and not told is never told.                        *)
Restart(r) ==
  /\ write' = [w \in Writers |-> IF w = r THEN "none" ELSE write[w]]
  /\ line' = [line EXCEPT ![r] = "off"]
  /\ flight' = Lost(r)
  /\ stream' = [s \in Streams |-> IF s \in Subscribers(r) THEN Idle ELSE stream[s]]
  /\ Missing(IF r \in Writers /\ write[r] = "kept" THEN Pages ELSE {})
  /\ UNCHANGED member

ChangeMembership ==
  /\ member' = ~member
  /\ stream' = [s \in Streams |-> [stream[s] EXCEPT !.late = 0]]
  /\ UNCHANGED <<write, line, flight, page>>

-----------------------------------------------------------------------------
(* The stream of a page *)

BreaksOff(pg) == [pg EXCEPT !.es = Nobody, !.live = FALSE]

(* A page's view of something its stream does, if the wire still carries it.*)
AtPage(s, f(_)) ==
  page' = [p \in Pages |-> IF page[p].es = s /\ stream[s].whole THEN f(page[p]) ELSE page[p]]

(* A process at its ceiling answers "unavailable" and hangs up, which       *)
(* leaves the page where it was.                                            *)
Connect(p, s, r) ==
  /\ page[p].es = Nobody
  /\ ~Subscribed(s) /\ \A q \in Pages : page[q].es # s
  /\ Cardinality(Subscribers(r)) < MaxSubscribers
  /\ stream' = [stream EXCEPT ![s] =
                  [Idle EXCEPT !.phase = "greet", !.at = r, !.whole = TRUE, !.team = member]]
  /\ page' = [page EXCEPT ![p].es = s, ![p].missed = @ \/ page[p].behind]
  /\ UNCHANGED <<write, line, flight, member>>

Enter(s, phase) == stream' = [stream EXCEPT ![s].phase = phase]

Close(s) ==
  /\ stream' = [stream EXCEPT ![s] = Idle]
  /\ AtPage(s, BreaksOff)

Ready(pg) == [pg EXCEPT !.live = TRUE]

Greet(s) ==
  /\ stream[s].phase = "greet"
  /\ Enter(s, "wait")
  /\ AtPage(s, Ready)
  /\ UNCHANGED <<write, line, flight, member>>

(* The server may notice, while it waits, that the browser is gone.         *)
Abort(s) ==
  /\ stream[s].phase = "wait" /\ ~stream[s].whole
  /\ Close(s)
  /\ UNCHANGED <<write, line, flight, member>>

(* Mutant: the membership read at the start is not read again. *)
LookAway(s) ==
  /\ stream[s].phase = "wait"
  /\ Enter(s, "looked")
  /\ UNCHANGED <<write, line, flight, member, page>>

(* Woken by news or by the ping's timer.  The stream ends where the person's *)
(* teams are others by now, or cannot be read.                              *)
Look(s) ==
  /\ stream[s].phase = "wait"
  /\ \/ stream[s].team = member /\ Enter(s, "looked") /\ UNCHANGED page
     \/ Close(s)
  /\ UNCHANGED <<write, line, flight, member>>

(* Mutant: the loop does not look at the deadline. *)
NoDeadline(st) == [st EXCEPT !.phase = "wait"]
(* The pass ends, and with it the stream whose deadline has come.           *)
NextPass(st) == IF st.old THEN Idle ELSE [st EXCEPT !.phase = "wait"]

PassEnds(s, st, f(_)) ==
  /\ stream' = [stream EXCEPT ![s] = NextPass(st)]
  /\ AtPage(s, LAMBDA pg : IF stream[s].old THEN BreaksOff(f(pg)) ELSE f(pg))

Heard(pg) == [pg EXCEPT !.quiet = -1, !.pending = IF @ = "no" THEN "set" ELSE @]

Tell(s) ==
  /\ stream[s].phase = "looked" /\ stream[s].news
  /\ PassEnds(s, [stream[s] EXCEPT !.news = FALSE, !.late = IF member THEN 0 ELSE @ + 1], Heard)
  /\ UNCHANGED <<write, line, flight, member>>

(* Mutant: a ping counts as hearing from the server. *)
PingIsAnEvent(pg) == [pg EXCEPT !.quiet = -1]
Pinged(pg) == pg

Ping(s) ==
  /\ stream[s].phase = "looked" /\ ~stream[s].news
  /\ PassEnds(s, stream[s], Pinged)
  /\ UNCHANGED <<write, line, flight, member>>

(* MAX_LIFETIME passes.                                                     *)
Age(s) ==
  /\ stream[s].phase \in {"wait", "looked"} /\ ~stream[s].old
  /\ stream' = [stream EXCEPT ![s].old = TRUE]
  /\ UNCHANGED <<write, line, flight, member, page>>

(* The connection is dead and neither end has been told.                    *)
Cut(s) ==
  /\ Subscribed(s) /\ stream[s].whole
  /\ stream' = [stream EXCEPT ![s].whole = FALSE]
  /\ UNCHANGED <<write, line, flight, member, page>>

-----------------------------------------------------------------------------
(* The page *)

(* The browser finds its connection gone and will connect again.            *)
Error(p) ==
  /\ page[p].es # Nobody /\ ~stream[page[p].es].whole
  /\ page' = [page EXCEPT ![p] = BreaksOff(@)]
  /\ UNCHANGED <<write, line, flight, member, stream>>

Reload(p) ==
  /\ page' = [page EXCEPT ![p] = Fresh]
  /\ stream' = [s \in Streams |-> IF s = page[p].es THEN [stream[s] EXCEPT !.whole = FALSE]
                                  ELSE stream[s]]

(* 400 ms after the first event of a burst.                                 *)
Pending(p) ==
  /\ page[p].pending # "no"
  /\ \/ ~page[p].busy /\ Reload(p)
     \/ /\ page[p].busy
        /\ page' = [page EXCEPT ![p].pending = "no", ![p].missed = @ \/ page[p].behind]
        /\ UNCHANGED stream
  /\ UNCHANGED <<write, line, flight, member>>

Elapsed(p)   == IF page[p].quiet + Turn > Quiet THEN Quiet ELSE page[p].quiet + Turn
HeardOf(p)   == page[p].live /\ Elapsed(p) < Quiet

(* The timer's 30 s pass; the 400 ms of a pending reload see one firing at  *)
(* most.                                                                   *)
Timer(p) ==
  /\ page[p].pending # "overtaken"
  /\ \/ ~HeardOf(p) /\ ~page[p].busy /\ Reload(p)
     \/ /\ HeardOf(p) \/ page[p].busy
        /\ page' = [page EXCEPT
             ![p].quiet = Elapsed(p),
             ![p].pending = IF @ = "set" THEN "overtaken" ELSE @,
             ![p].stalled = IF page[p].behind /\ ~page[p].busy THEN @ + 1 ELSE 0]
        /\ UNCHANGED stream
  /\ UNCHANGED <<write, line, flight, member>>

(* The view is frozen, a dialog is open or the person types; or no more.    *)
Occupy(p) ==
  /\ page' = [page EXCEPT ![p].busy = ~@, ![p].stalled = 0]
  /\ UNCHANGED <<write, line, flight, member, stream>>

-----------------------------------------------------------------------------
Writing(r) ==
  \/ Commit(r) \/ TrackFails(r) \/ CommitTold(r) \/ RollBack(r)
  \/ \E sent \in BOOLEAN : TellKept(r, sent) \/ TellFirst(r, sent)

Transport(r) ==
  \/ \E from \in Writers : Receive(from, r)
  \/ attachChangeTransport(r) \/ ListenerDies(r) \/ ListenerReturns(r) \/ Restart(r)

Handler(s) == Greet(s) \/ Look(s) \/ Tell(s) \/ Ping(s)
Serving(s) == Handler(s) \/ Abort(s) \/ Age(s) \/ Cut(s)

Watching(p) ==
  \/ \E s \in Streams, r \in Replicas : Connect(p, s, r)
  \/ Error(p) \/ Pending(p) \/ Timer(p) \/ Occupy(p)

Next ==
  \/ \E r \in Writers : Writing(r)
  \/ \E r \in Replicas : Transport(r)
  \/ ChangeMembership
  \/ \E s \in Streams : Serving(s)
  \/ \E p \in Pages : Watching(p)

Spec == Init /\ [][Next]_vars

(* The handler of a stream is woken at the latest by its own timer, its     *)
(* reads and writes return, and the clock runs.                             *)
FairSpec ==
  /\ Spec
  /\ \A s \in Streams : WF_vars(Handler(s)) /\ WF_vars(Age(s))

-----------------------------------------------------------------------------
(* Properties *)

(* A page that may reload is behind the database for one turn of its timer  *)
(* more than the silence it allows, whatever news was lost: no stream that  *)
(* looks alive keeps it from the timer for longer (setInterval).            *)
StaleNotForLong == \A p \in Pages : page[p].stalled <= QuietTurns + 1

(* The 30 seconds of the timer are all that lost news costs (README.md).    *)
PollIsTheFloor == \A p \in Pages : page[p].stalled <= 1

Follows(p) ==
  LET s == page[p].es IN
    s # Nobody /\ Subscribed(s) /\ stream[s].whole /\ stream[s].team

OnItsWay(p) ==
  LET s == page[p].es IN
    \/ page[p].pending # "no"
    \/ stream[s].news
    \/ \E r \in Writers : write[r] = "kept" \/ flight[<<r, stream[s].at>>] > 0

(* A page with a stream is behind only while the news is on its way to it,  *)
(* unless the news came before the commit, a listener, a notification or a  *)
(* process was lost, or the page was occupied or between two streams.  No   *)
(* step of subscribing, queueing, checking and writing loses any           *)
(* (publishChange, /app/stream).                                            *)
NothingIsDropped ==
  \A p \in Pages : page[p].behind /\ Follows(p) /\ ~page[p].missed => OnItsWay(p)

(* A stream tells at most once more of a team its person has left, and      *)
(* closes at its next look (/app/stream).                                   *)
OneMoreAtMost == \A s \in Streams : stream[s].late <= 1

(* A subscription whose browser is gone does not stay, noticed or not, so   *)
(* its place under the ceiling becomes free (MAX_LIFETIME_MS).              *)
GoneIsForgotten ==
  \A s \in Streams : Subscribed(s) /\ ~stream[s].whole ~> ~Subscribed(s)
=============================================================================
