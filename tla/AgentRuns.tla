------------------------------ MODULE AgentRuns ------------------------------
(***************************************************************************)
(* Agent runs, the ground they claim and the write guard of one project    *)
(* (packages/server/src/domain/agents.ts).  Every transaction that takes   *)
(* the claim-workspace lock is one step; the two that do not hold it from  *)
(* their first read to their last write, finishing a run and revoking an   *)
(* installation, are two steps each.                                       *)
(***************************************************************************)
EXTENDS Integers, FiniteSets

CONSTANTS
  Runs,            \* run identities, each one start request
  Installations,   \* registered agents
  InstallationOf,  \* the installation that opens each run
  TokenBound,      \* installations whose credential is revoked with them
  Revocable,       \* installations their owner may disable
  Assigned,        \* runs that carry handed-off work they report complete
  Siblings,        \* pairs of runs that are parallel attempts at one task
  Ground,          \* resource keys: files, directories, globs
  Files,           \* the keys a file tool may name to the write guard
  Overlaps,        \* pairs of keys that name common ground
  Scopes,          \* the sets of claims a call may declare
  Observable,      \* the claims a hook may report: changed files of a checkout
  Voices,          \* who sends a heartbeat: the source it states scope under and
                   \* whether the agent sent it itself, <<source, explicit>>
  Reported,        \* the statuses a heartbeat may report
  Outcomes,        \* the statuses a run may be finished with
  ClaimLease, WaitingLease, StaleAfter,   \* minutes, in ticks
  ScopeCap,        \* most planned claims the guard lets a run hold
  SlowFinish,      \* whether the clock may advance inside a finish
  MaxTime          \* bound on the clock

Access  == {"read", "write"}
Live    == {"active", "waiting", "blocked"}
Parked  == {"waiting", "blocked"}
Settled == {"completed", "failed"}
Ended   == Settled \cup {"stale"}
Claim   == [key : Ground, access : Access]
Never   == 0

ASSUME InstallationsAssumption ==
  /\ InstallationOf \in [Runs -> Installations]
  /\ TokenBound \subseteq Installations
  /\ Revocable \subseteq Installations
ASSUME GroundAssumption ==
  /\ Files \subseteq Ground
  /\ Overlaps \subseteq Ground \X Ground
  /\ \A k, m \in Ground : <<k, m>> \in Overlaps => <<m, k>> \in Overlaps
  /\ \A k \in Ground : <<k, k>> \in Overlaps
ASSUME RunsAssumption ==
  /\ Assigned \subseteq Runs
  /\ Siblings \subseteq Runs \X Runs
  /\ \A r, q \in Runs : <<r, q>> \in Siblings => <<q, r>> \in Siblings
ASSUME InputsAssumption ==
  /\ Scopes \subseteq SUBSET Claim
  /\ Observable \subseteq Claim
  /\ Voices \subseteq {"planned", "observed"} \X BOOLEAN
  /\ Reported \subseteq Live
  /\ Outcomes \subseteq Settled
  /\ SlowFinish \in BOOLEAN
ASSUME TimesAssumption ==
  /\ ClaimLease \in Nat \ {0}
  /\ WaitingLease \in Nat
  /\ StaleAfter \in Nat
  /\ ScopeCap \in Nat
  /\ MaxTime \in Nat \ {0}

VARIABLES
  now,        \* the server's clock
  status,     \* run |-> "none" or its status
  started,    \* run |-> when it started
  beat,       \* run |-> its last heartbeat
  ended,      \* run |-> when it ended
  claims,     \* the rows of work_claims
  acks,       \* ground_acknowledged events
  finishing,  \* run |-> the stamp of a finish that holds its row, or Never
  revoked,    \* installations whose revocation committed
  revoking,   \* revocations in progress: the installation and the runs read
  \* history that the properties speak of and no call reads:
  told,       \* <<r, q, k>>: r was told that q moved ground under its claim k
  slipped,    \* <<r, q, k>>: such a move that a later declaration came to hide
  cleared,    \* <<r, k>>: the guard let r write k and r has held k since
  lapsed,     \* <<r, k>>: write claims of live runs with every lease run out
  veiled      \* <<<<r, k>>, <<q, m>>>>: a later row of the first claim may
              \* hide that it was declared before the second

vars == <<now, status, started, beat, ended, claims, acks, finishing, revoked,
          revoking, told, slipped, cleared, lapsed, veiled>>

Row == [run : Runs, key : Ground, access : Access,
        source : {"planned", "observed", "released"},
        lease : Nat, created : Nat, first : Nat]

(* Types, and the unique index on a run's claims. *)
TypeOK ==
  /\ now \in 1 .. MaxTime
  /\ status \in [Runs -> {"none"} \cup Live \cup Ended]
  /\ started \in [Runs -> 0 .. now]
  /\ beat \in [Runs -> 0 .. now]
  /\ ended \in [Runs -> 0 .. now]
  /\ claims \subseteq Row
  /\ \A c, d \in claims :
       <<c.run, c.key, c.access, c.source>> = <<d.run, d.key, d.access, d.source>> => c = d
  /\ acks \subseteq [run : Runs, key : Ground, access : Access, at : 1 .. now]
  /\ finishing \in [Runs -> 0 .. now]
  /\ revoked \subseteq Installations
  /\ revoking \subseteq [inst : Installations, runs : SUBSET Runs]
  /\ told \subseteq Runs \X Runs \X Ground
  /\ slipped \subseteq Runs \X Runs \X Ground
  /\ cleared \subseteq Runs \X Ground
  /\ lapsed \subseteq Runs \X Ground
  /\ veiled \subseteq (Runs \X Ground) \X (Runs \X Ground)

-----------------------------------------------------------------------------
(* Claims and leases *)

Held(r)        == {c \in claims : c.run = r /\ c.source # "released"}
RowsOf(r, src) == {c \in claims : c.run = r /\ c.source = src}
Same(c, x)     == c.key = x.key /\ c.access = x.access

LeaseFor(st) == IF st \in Parked /\ WaitingLease > ClaimLease
                THEN WaitingLease ELSE ClaimLease

(* Mutant: restating scope loses the first declaration. *)
FirstDeclaredAnew(r, src, x) == now

(* When a run first declared a claim it states again under one source. *)
FirstDeclared(r, src, x) ==
  IF \E c \in RowsOf(r, src) : Same(c, x)
  THEN (CHOOSE c \in RowsOf(r, src) : Same(c, x)).first
  ELSE now

(* Restating scope rewrites the rows of that source and of no other. *)
Restate(r, src, S, minutes) ==
  (claims \ RowsOf(r, src)) \cup
  {[run |-> r, key |-> x.key, access |-> x.access, source |-> src,
    lease |-> now + minutes, created |-> now,
    first |-> FirstDeclared(r, src, x)] : x \in S}

(* Mutants: a heartbeat that does not restate scope renews nothing, or       *)
(* renews released rows as well.                                             *)
RenewNothing(r, minutes) == claims
RenewReleased(r, minutes) ==
  {IF c.run = r THEN [c EXCEPT !.lease = now + minutes] ELSE c : c \in claims}

Renew(r, minutes) ==
  (claims \ Held(r)) \cup {[c EXCEPT !.lease = now + minutes] : c \in Held(r)}

EndLeases(R, at) ==
  {IF c.run \in R /\ c.source # "released" THEN [c EXCEPT !.lease = at] ELSE c
     : c \in claims}

(* A cleared write stays cleared while its planned row stays. *)
StillCleared(cl, C) ==
  {x \in cl : \E c \in C : /\ c.run = x[1] /\ c.key = x[2]
                           /\ c.access = "write" /\ c.source = "planned"}

(* The rows under which a run holds the write claim x = <<run, key>>. *)
HeldWrites(C, x) ==
  {c \in C : c.run = x[1] /\ c.key = x[2] /\ c.access = "write" /\ c.source # "released"}

(* Write claims of live runs that no lease covers at time t any more. *)
Lapsing(C, t) ==
  {x \in Runs \X Ground : /\ status[x[1]] \in Live
                          /\ HeldWrites(C, x) # {}
                          /\ \A c \in HeldWrites(C, x) : c.lease <= t}

(* Claims with a row declared before another run's claim of common ground    *)
(* and a row declared after it.                                              *)
Veiling(C) ==
  {p \in (Runs \X Ground) \X (Runs \X Ground) :
     /\ p[1][1] # p[2][1]
     /\ <<p[1][2], p[2][2]>> \in Overlaps
     /\ \E c, d \in HeldWrites(C, p[1]), e \in HeldWrites(C, p[2]) :
          c.first <= e.first /\ e.first < d.first}

-----------------------------------------------------------------------------
(* Right of way *)

(* The other runs' live rows that a claim x of run r collides with. *)
Colliding(r, x) ==
  {c \in claims : /\ c.run # r
                  /\ <<r, c.run>> \notin Siblings
                  /\ status[c.run] \in Live
                  /\ c.lease > now
                  /\ <<x.key, c.key>> \in Overlaps
                  /\ ~(x.access = "read" /\ c.access = "read")}

OwnFirst(r, x) == {c.first : c \in {d \in Held(r) : Same(d, x)}}

(* The query returns the rows of one claim of another run in no stated     *)
(* order and the last one decides, so which source decides is open.        *)
Deciding(c) == {d \in claims : d.run = c.run /\ Same(d, c) /\ d.lease > now}
MayBeYours(r, x, c) == \E d \in Deciding(c) : \E f \in OwnFirst(r, x) : f < d.first
IsYours(r, x, c)    == \A d \in Deciding(c) : \E f \in OwnFirst(r, x) : f < d.first

Write(k) == [key |-> k, access |-> "write"]

(* A read stops nothing, so only writes of others can stop an edit. *)
Rivals(r, k) == {c \in Colliding(r, Write(k)) : c.access = "write"}
GuardMayClear(r, k) == \A c \in Rivals(r, k) : MayBeYours(r, Write(k), c)
GuardMayStop(r, k)  == \E c \in Rivals(r, k) : ~IsYours(r, Write(k), c)

-----------------------------------------------------------------------------
(* Ground that moved *)

(* Rows of runs that finished, or released the row, after r started. *)
Moved(r) ==
  {c \in claims : /\ c.run # r
                  /\ \/ status[c.run] \in Settled /\ ended[c.run] > started[r]
                     \/ c.source = "released" /\ c.lease > started[r]}
MoveTime(c) == IF c.source = "released" THEN c.lease ELSE ended[c.run]

(* Moves of q under the key k of r, and the times any of q's rows gives them. *)
MovesUnder(r, k, q) ==
  {c \in Moved(r) : c.run = q /\ c.access = "write" /\ <<k, c.key>> \in Overlaps}
MoveTimes(r, c) == {MoveTime(d) : d \in {e \in Moved(r) : e.run = c.run /\ e.key = c.key}}
Movers(r, k)    == {q \in Runs : MovesUnder(r, k, q) # {}}

(* When r last declared its write of k: a planned row, or an acknowledgment. *)
DeclaredAt(r, k) ==
  {c.created : c \in {d \in RowsOf(r, "planned") : Same(d, Write(k))}} \cup
  {a.at : a \in {b \in acks : b.run = r /\ Same(b, Write(k))}}

(* One row of q is looked at, and a move before the declaration is no news. *)
MayBeOldNews(r, k, q) ==
  \E c \in MovesUnder(r, k, q) : \E t \in MoveTimes(r, c) : \E d \in DeclaredAt(r, k) : d > t
MayBeNews(r, k, q) ==
  \E c \in MovesUnder(r, k, q) : \E t \in MoveTimes(r, c) : \A d \in DeclaredAt(r, k) : d <= t

(* Mutant: ground let go by a run that goes on is not reported. *)
StaleReportOfEnded(C, r) ==
  {m \in {r} \X Runs \X Ground :
     /\ m[2] \in Movers(r, m[3])
     /\ status[m[2]] \in Settled
     /\ \E c \in C : c.run = r /\ c.key = m[3] /\ c.source # "released"}

(* What a heartbeat of r reports about its claims in the row set C. *)
StaleReport(C, r) ==
  {m \in {r} \X Runs \X Ground :
     /\ m[2] \in Movers(r, m[3])
     /\ \E c \in C : c.run = r /\ c.key = m[3] /\ c.source # "released"}

(* Moves of q that a row of q dates before a declaration of another run. *)
Antedated(q) ==
  {m \in Runs \X {q} \X Files : q \in Movers(m[1], m[3]) /\ MayBeOldNews(m[1], m[3], q)}

-----------------------------------------------------------------------------
(* Operations *)

Init ==
  /\ now = 1
  /\ status = [r \in Runs |-> "none"]
  /\ started = [r \in Runs |-> Never]
  /\ beat = [r \in Runs |-> Never]
  /\ ended = [r \in Runs |-> Never]
  /\ claims = {}
  /\ acks = {}
  /\ finishing = [r \in Runs |-> Never]
  /\ revoked = {}
  /\ revoking = {}
  /\ told = {}
  /\ slipped = {}
  /\ cleared = {}
  /\ lapsed = {}
  /\ veiled = {}

(* Mutant: the status is not read again under the row lock. *)
FreeOnceStarted(r) == status[r] # "none" /\ finishing[r] = Never

(* A run this call may act on: live, and its row not locked by a finish. *)
Free(r) == status[r] \in Live /\ finishing[r] = Never

(* A credential bound to the installation stops working with it. *)
Authorised(r) == ~(InstallationOf[r] \in revoked \cap TokenBound)

(* Locks the installation row, so a committed revocation refuses it. *)
Start(r, S) ==
  /\ status[r] = "none"
  /\ InstallationOf[r] \notin revoked
  /\ status' = [status EXCEPT ![r] = "active"]
  /\ started' = [started EXCEPT ![r] = now]
  /\ beat' = [beat EXCEPT ![r] = now]
  /\ claims' = Restate(r, "planned", S, ClaimLease)
  /\ UNCHANGED <<now, ended, acks, finishing, revoked, revoking, told, slipped, cleared, lapsed, veiled>>

(* An empty scope renews what is held; any other replaces its source's rows. *)
(* A hook reports the files its checkout has changed and nothing else.       *)
(* Only the agent's own call (explicit) acknowledges ground it restates.     *)
Heartbeat(r, st, S, src, explicit) ==
  /\ Free(r)
  /\ Authorised(r)
  /\ explicit \/ S \subseteq Observable
  /\ status' = [status EXCEPT ![r] = st]
  /\ beat' = [beat EXCEPT ![r] = now]
  /\ claims' = IF S = {} THEN Renew(r, LeaseFor(st)) ELSE Restate(r, src, S, LeaseFor(st))
  /\ LET stale == StaleReport(claims', r) IN
       /\ told' = told \cup stale
       /\ acks' = acks \cup {[run |-> r, key |-> x.key, access |-> x.access, at |-> now]
                             : x \in {y \in S : explicit /\ \E m \in stale : m[3] = y.key}}
  /\ cleared' = StillCleared(cleared, claims')
  /\ lapsed' = lapsed \cup Lapsing(claims', now)
  /\ veiled' = veiled \cup Veiling(claims')
  /\ UNCHANGED <<now, started, ended, finishing, revoked, revoking, slipped>>

(* The guard lets r write k: nobody stands in the way, nothing moved since   *)
(* it was declared, and its planned scope, with k, is stated again.  What    *)
(* moved under the rest of that scope is looked at by nobody.                *)
GuardClears(r, k) ==
  /\ Free(r)
  /\ InstallationOf[r] \notin revoked
  /\ GuardMayClear(r, k)
  /\ \A q \in Movers(r, k) : MayBeOldNews(r, k, q)
  /\ LET S == {[key |-> c.key, access |-> c.access] : c \in RowsOf(r, "planned")} \cup {Write(k)} IN
       /\ Cardinality(S) <= ScopeCap
       /\ claims' = Restate(r, "planned", S, ClaimLease)
  /\ cleared' = cleared \cup {<<r, k>>}
  /\ slipped' = slipped \cup {m \in {r} \X Runs \X (Files \ {k}) : m[2] \in Movers(r, m[3])}
  /\ veiled' = veiled \cup Veiling(claims')
  /\ UNCHANGED <<now, status, started, beat, ended, acks, finishing, revoked, revoking, told, lapsed>>

(* The guard refuses k as stale_ground, which tells r; a holder outranks it. *)
GuardReportsMove(r, k) ==
  /\ Free(r)
  /\ InstallationOf[r] \notin revoked
  /\ GuardMayClear(r, k)
  /\ LET news == {q \in Movers(r, k) : MayBeNews(r, k, q)} IN
       /\ news # {}
       /\ told' = told \cup {<<r, q, k>> : q \in news}
  /\ UNCHANGED <<now, status, started, beat, ended, claims, acks, finishing, revoked, revoking,
                 slipped, cleared, lapsed, veiled>>

(* Completed work lets its ground go: one released row per claim, and an     *)
(* earlier release of the same claim makes way.  Only the lease of a         *)
(* released row is ever read, so its other stamps are dropped here.          *)
ReleaseGround(r) ==
  /\ Free(r)
  /\ Authorised(r)
  /\ Held(r) # {}
  /\ claims' = {c \in claims : c.run # r \/ (c.source = "released" /\ \A d \in Held(r) : ~Same(c, d))}
               \cup {[run |-> r, key |-> c.key, access |-> c.access, source |-> "released",
                     lease |-> now, created |-> Never, first |-> Never] : c \in Held(r)}
  /\ cleared' = StillCleared(cleared, claims')
  /\ UNCHANGED <<now, status, started, beat, ended, acks, finishing, revoked, revoking, told, lapsed,
                 veiled>>
  /\ slipped' = slipped \cup Antedated(r)'

(* Finishing takes the run's row only: stamped, then committed. *)
FinishBegin(r) ==
  /\ Free(r)
  /\ Authorised(r)
  /\ finishing' = [finishing EXCEPT ![r] = now]
  /\ UNCHANGED <<now, status, started, beat, ended, claims, acks, revoked, revoking, told, slipped,
                 cleared, lapsed, veiled>>

FinishCommit(r, outcome) ==
  /\ finishing[r] # Never
  /\ status' = [status EXCEPT ![r] = outcome]
  /\ ended' = [ended EXCEPT ![r] = finishing[r]]
  /\ beat' = [beat EXCEPT ![r] = finishing[r]]
  /\ claims' = EndLeases({r}, finishing[r])
  /\ finishing' = [finishing EXCEPT ![r] = Never]
  /\ UNCHANGED <<now, started, acks, revoked, revoking, told, cleared, lapsed, veiled>>
  /\ slipped' = slipped \cup Antedated(r)'

(* Revoking reads the live runs without a lock, then ends those it read.     *)
(* Bound: one revocation of an installation in progress at a time.           *)
RevokeBegin(i) ==
  /\ i \notin revoked
  /\ \A v \in revoking : v.inst # i
  /\ revoking' = revoking \cup
       {[inst |-> i, runs |-> {r \in Runs : InstallationOf[r] = i /\ status[r] \in Live}]}
  /\ UNCHANGED <<now, status, started, beat, ended, claims, acks, finishing, revoked, told, slipped,
                 cleared, lapsed, veiled>>

RevokeCommit(v) ==
  /\ \A r \in v.runs : finishing[r] = Never
  /\ revoked' = revoked \cup {v.inst}
  /\ revoking' = revoking \ {v}
  /\ status' = [r \in Runs |-> IF r \in v.runs THEN "stale" ELSE status[r]]
  /\ ended' = [r \in Runs |-> IF r \in v.runs THEN now ELSE ended[r]]
  /\ beat' = [r \in Runs |-> IF r \in v.runs THEN now ELSE beat[r]]
  /\ claims' = EndLeases(v.runs, now)
  /\ UNCHANGED <<now, started, acks, finishing, told, slipped, cleared, lapsed, veiled>>

(* The presence sweep marks a silent run stale; its leases are left alone. *)
StaleLimit(st) == IF st \in Parked THEN LeaseFor(st) ELSE StaleAfter

Sweep(r) ==
  /\ Free(r)
  /\ beat[r] < now - StaleLimit(status[r])
  /\ status' = [status EXCEPT ![r] = "stale"]
  /\ ended' = [ended EXCEPT ![r] = now]
  /\ UNCHANGED <<now, started, beat, claims, acks, finishing, revoked, revoking, told, slipped, cleared,
                 lapsed, veiled>>

Tick ==
  /\ now < MaxTime
  /\ SlowFinish \/ \A r \in Runs : finishing[r] = Never
  /\ now' = now + 1
  /\ lapsed' = lapsed \cup Lapsing(claims, now + 1)
  /\ UNCHANGED <<status, started, beat, ended, claims, acks, finishing, revoked, revoking, told, slipped,
                 cleared, veiled>>

Next ==
  \/ \E r \in Runs, S \in Scopes : Start(r, S)
  \/ \E r \in Runs, st \in Reported, S \in Scopes \cup {{}}, v \in Voices :
       Heartbeat(r, st, S, v[1], v[2])
  \/ \E r \in Runs, k \in Files : GuardClears(r, k)
  \/ \E r \in Runs, k \in Files : GuardReportsMove(r, k)
  \/ \E r \in Assigned : ReleaseGround(r)
  \/ \E r \in Runs : FinishBegin(r)
  \/ \E r \in Runs, o \in Outcomes : FinishCommit(r, o)
  \/ \E i \in Revocable : RevokeBegin(i)
  \/ \E v \in revoking : RevokeCommit(v)
  \/ \E r \in Runs : Sweep(r)
  \/ Tick

Spec == Init /\ [][Next]_vars

-----------------------------------------------------------------------------
(* Properties *)

(* Two runs in each other's way. *)
Rival(r, q, k, m) ==
  /\ r # q
  /\ <<r, q>> \notin Siblings
  /\ <<k, m>> \in Overlaps
  /\ {status[r], status[q]} \subseteq Live

(* One of two claims ran out, or hides that it was declared first. *)
Excused(x, y) == {x, y} \cap lapsed # {} \/ {<<x, y>>, <<y, x>>} \cap veiled # {}

(* The write guard never lets two runs write common ground at once, however  *)
(* agents and hooks state scope: a run it cleared keeps that ground to       *)
(* itself until it ends, drops the claim, lets every lease of it run out, or *)
(* a later row of one of the two claims hides which was declared first.      *)
WriteExclusion ==
  \A x, y \in cleared : Rival(x[1], y[1], x[2], y[2]) => Excused(x, y)

(* The same with no allowance: what "declared first and has held it since"   *)
(* promises.                                                                 *)
WriteExclusionAlways == \A x, y \in cleared : ~Rival(x[1], y[1], x[2], y[2])

(* A heartbeat keeps a scope of its run alive, though only the one it states *)
(* or renews: a live run that holds ground holds all it declared under some  *)
(* source at least the claim lease beyond its last heartbeat.                *)
AScopeOutlivesHeartbeat ==
  \A r \in Runs : status[r] \in Live /\ Held(r) # {} =>
    \E src \in {"planned", "observed"} :
      /\ RowsOf(r, src) # {}
      /\ \A c \in RowsOf(r, src) : c.lease >= beat[r] + ClaimLease

(* The same of all a run holds, whoever declared it. *)
ScopeOutlivesHeartbeat ==
  \A r \in Runs : status[r] \in Live =>
    \A c \in Held(r) : c.lease >= beat[r] + ClaimLease

(* r holds a declaration over k older than the row c. *)
DeclaredBefore(r, k, c) ==
  \E d \in Held(r) : d.access = "write" /\ <<k, d.key>> \in Overlaps /\ d.first < c.first

(* A run that declared the ground of a file before every other run on it is  *)
(* never stopped by the guard on account of a run that came later.           *)
FirstHolderKeepsEditing ==
  \A r \in Runs, k \in Files : status[r] \in Live =>
    ((\A c \in claims : c \in Rivals(r, k) => DeclaredBefore(r, k, c)) => ~GuardMayStop(r, k))

(* The guard would let r write k now. *)
GuardPasses(r, k) ==
  /\ Free(r)
  /\ InstallationOf[r] \notin revoked
  /\ GuardMayClear(r, k)
  /\ \A q \in Movers(r, k) : MayBeOldNews(r, k, q)

(* The guard lets no write through on ground that another run changed since  *)
(* the writer started unless a reply has told the writer of that run, or one *)
(* of two things came in between: the guard restated the claim while asked   *)
(* for another file, or the finish or release bears a date from before a     *)
(* declaration the writer had made when it was committed.                    *)
MovedGroundIsTold ==
  \A r \in Runs, k \in Files : GuardPasses(r, k) =>
    \A q \in Movers(r, k) : <<r, q, k>> \in told \cup slipped

(* The same with no such exception. *)
EveryMoveIsTold ==
  \A r \in Runs, k \in Files : GuardPasses(r, k) =>
    \A q \in Movers(r, k) : <<r, q, k>> \in told

(* A run that ended stays ended, and none of its claims is extended: no late *)
(* heartbeat, guard answer or release brings it back.                        *)
EndedStaysEnded ==
  [][\A r \in Runs : status[r] \in Ended =>
       /\ status'[r] \in Ended
       /\ \A c \in claims' : c.run = r =>
            \E d \in claims : d.run = r /\ Same(c, d) /\ (c.lease <= d.lease \/ c.lease <= now)]_vars

(* Ground let go after completed work is never held again by its old row.    *)
ReleasedStaysReleased == \A c \in claims : c.source = "released" => c.lease <= now

(* The outcome a run reported is never overwritten. *)
OutcomeIsFinal ==
  [][\A r \in Runs : status[r] \in Settled => status'[r] = status[r]]_vars

(* Disabling an installation ends every run of it. *)
RevokedHoldsNothing ==
  \A r \in Runs : InstallationOf[r] \in revoked => status[r] \notin Live

=============================================================================
