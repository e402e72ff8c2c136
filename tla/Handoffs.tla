------------------------------- MODULE Handoffs -------------------------------
(***************************************************************************)
(* Work handed from one agent to another: creating a handoff or an         *)
(* assignment once per request (domain/handoffRequests.ts, mcp/fleet.ts),  *)
(* its life cycle over concurrent calls (domain/collaboration.ts) and what *)
(* ends with it, the source run and the ground of the finished one.  A     *)
(* transaction that waits for a row lock after its first reads is two      *)
(* steps: what it read, and what it does once it has the lock.             *)
(***************************************************************************)
EXTENDS Naturals, FiniteSets

CONSTANTS
  Users, Installations,
  OwnerOf,         \* the person each installation belongs to
  Listens,         \* the adapters paired with each installation
  Runs,
  InstallationOf,  \* the installation that starts each run
  Linked,          \* runs that read the knowledge hub
  Handoffs,        \* identities of handoffs; bounds how many there are
  Trees,           \* the states of a checkout: its commit and whether it is clean
  Senders,         \* installations whose agents hand work off
  Keys,            \* request ids
  Requests,        \* the handoff_work and assign_work calls an agent may make
  Actions,         \* the life-cycle actions callers use
  Revocable,       \* installations that may be revoked
  Cap,             \* the workspace's allowance of handoffs
  Lease,           \* how long ground stays claimed, in ticks
  MaxCalls,        \* bound on concurrent life-cycle calls
  Nobody

ASSUME ActorsAssumption ==
  /\ Users \cap Installations = {}
  /\ OwnerOf \in [Installations -> Users]
  /\ Listens \in [Installations -> SUBSET Installations]
  /\ InstallationOf \in [Runs -> Installations]
  /\ Linked \subseteq Runs
  /\ Revocable \subseteq Installations
  /\ Senders \subseteq Installations
  /\ Nobody \notin Users \cup Installations \cup Runs
ASSUME HandoffsAssumption == IsFiniteSet(Handoffs)
ASSUME BoundsAssumption == Cap \in Nat /\ Lease \in Nat \ {0}

States  == {"offered", "accepted", "in_progress", "completed", "declined",
            "cancelled", "needs_attention"}
Verbs   == {"accept", "resume", "complete", "decline", "cancel", "needs_attention"}
Commits == {t.commit : t \in Trees}
Callers == Users \cup Installations
MaybeRun == Runs \cup {Nobody}

ASSUME InputsAssumption ==
  /\ \A t \in Trees : t.clean \in BOOLEAN /\ t.commit # Nobody
  /\ Trees \subseteq [commit : Commits, clean : BOOLEAN]
  /\ Requests \subseteq [tool : {"handoff_work", "assign_work"},
                         key : Keys \cup {Nobody}, to : Users \cup {Nobody},
                         agent : Installations \cup {Nobody}, run : MaybeRun,
                         branch : BOOLEAN]
  /\ Actions \subseteq Verbs

VARIABLES
  offer,      \* the handoffs table
  calls,      \* update_handoff calls that passed the access check
  sending,    \* installation |-> the creation that holds its token row, or Nobody
  receipts,   \* handoff_requests
  charged,    \* the allowance counter
  releasing,  \* completed calls whose ground is still to be released
  status,     \* run |-> "none", "live" or "ended"
  began,      \* run |-> its start checkpoint, or Nobody
  newest,     \* run |-> its latest delivery checkpoint, or Nobody
  lease,      \* run |-> ticks its ground stays claimed
  tree,       \* installation |-> the state of its checkout
  revoked,    \* revoked installations
  answered,   \* <<i, q, h>>: i's request q was answered with handoff h
  stood,      \* <<i, c>>: i's checkout has been clean at commit c
  fresh,      \* <<r, h>>: r declared its ground after h was completed
  lost        \* <<r, h>>: the release after h's completion passed over r

vars == <<offer, calls, sending, receipts, charged, releasing, status, began,
          newest, lease, tree, revoked, answered, stood, fresh, lost>>
runVars == <<status, began, newest, lease>>

Report == Trees \cup {Nobody}
Call   == [by : Callers, h : Handoffs, act : Verbs, report : Report, run : MaybeRun]
NoOffer == [state |-> "none", by |-> Nobody, toUser |-> Nobody, toInst |-> Nobody,
            holder |-> Nobody, code |-> Nobody, from |-> Nobody,
            resumed |-> Nobody]
Offer == [state : States \cup {"none"}, by : Users \cup {Nobody},
          toUser : Users \cup {Nobody}, toInst : Installations \cup {Nobody},
          holder : Installations \cup {Nobody}, code : Commits \cup {Nobody},
          from : MaybeRun, resumed : Call \cup {Nobody}]

(* Types, and the allowance is never passed (hitCounter). *)
TypeOK ==
  /\ offer \in [Handoffs -> Offer]
  /\ calls \subseteq Call
  /\ sending \in [Installations -> [req : Requests, run : MaybeRun] \cup {Nobody}]
  /\ receipts \subseteq [inst : Installations, req : Requests, h : Handoffs]
  /\ charged \in 0 .. Cap
  /\ releasing \subseteq Call
  /\ status \in [Runs -> {"none", "live", "ended"}]
  /\ began \in [Runs -> Report]
  /\ newest \in [Runs -> Report]
  /\ lease \in [Runs -> 0 .. Lease]
  /\ tree \in [Installations -> Trees]
  /\ revoked \subseteq Installations
  /\ answered \subseteq Installations \X Requests \X Handoffs
  /\ stood \subseteq Installations \X Commits
  /\ fresh \subseteq Runs \X Handoffs
  /\ lost \subseteq Runs \X Handoffs

UserOf(c)    == IF c \in Installations THEN OwnerOf[c] ELSE c
LiveRuns(i)  == {r \in Runs : InstallationOf[r] = i /\ status[r] = "live"}
Exists(h)    == offer[h].state # "none"
EndRuns(R)   ==
  /\ status' = [r \in Runs |-> IF r \in R THEN "ended" ELSE status[r]]
  /\ lease' = [r \in Runs |-> IF r \in R THEN 0 ELSE lease[r]]
  /\ fresh' = {p \in fresh : p[1] \notin R}

-----------------------------------------------------------------------------
(* Creating a handoff or an assignment, once per request *)

KeyOf(q)  == IF q.key = Nobody THEN q.run ELSE q.key
HasKey(q) == KeyOf(q) # Nobody

(* The arguments a receipt is compared by: handoff_work's leave the named   *)
(* agent out.                                                              *)
Fingerprint(q) ==
  [q EXCEPT !.agent = IF q.tool = "handoff_work" THEN Nobody ELSE @]

ToUser(q) == IF q.agent # Nobody THEN OwnerOf[q.agent] ELSE q.to

(* Mutant: no receipt is found. *)
NoReceipt(i, q) == {}

(* The receipts of this credential under this request's key. *)
Receipts(i, q) ==
  {x \in receipts : x.inst = i /\ HasKey(q) /\ KeyOf(x.req) = KeyOf(q)}

(* A named run may be an adapter's that listens for this agent; an omitted  *)
(* one is a run the credential started itself, if there is any.            *)
Sources(i, q) ==
  CASE q.tool = "assign_work" -> {Nobody}
    [] q.run # Nobody -> {r \in {q.run} : /\ InstallationOf[r] \in {i} \cup Listens[i]
                                          /\ status[r] = "live"}
    [] LiveRuns(i) = {} -> {Nobody}
    [] OTHER -> LiveRuns(i)

(* The token row is locked and there is no receipt: the request goes ahead  *)
(* with the run it found.                                                  *)
SendBegin(i, q) ==
  /\ sending[i] = Nobody
  /\ i \notin revoked
  /\ Receipts(i, q) = {}
  /\ \E r \in Sources(i, q) : sending' = [sending EXCEPT ![i] = [req |-> q, run |-> r]]
  /\ UNCHANGED <<offer, calls, receipts, charged, releasing, runVars, tree,
                 revoked, answered, stood, fresh, lost>>

(* A receipt answers a retry. *)
SendReplay(i, q) ==
  /\ sending[i] = Nobody
  /\ i \notin revoked
  /\ \E x \in Receipts(i, q) :
       /\ Fingerprint(x.req) = Fingerprint(q)
       /\ answered' = answered \cup {<<i, q, x.h>>}
  /\ UNCHANGED <<offer, calls, sending, receipts, charged, releasing, runVars,
                 tree, revoked, stood, fresh, lost>>

(* Mutant: the source run is not looked at again under its lock. *)
SourceAsRead(r) == TRUE

(* The source run once its row is locked. *)
SourceStillLive(r) == r # Nobody => status[r] = "live"

(* The newest delivery checkpoint of the source run goes with the work, and *)
(* a branch needs one of a clean checkout.                                 *)
Carried(s) == IF s.run # Nobody THEN newest[s.run] ELSE Nobody

Carries(s) == s.req.branch => Carried(s) # Nobody /\ Carried(s).clean

(* The allowance has room for one more. *)
Within(n) == n < Cap

Sendable(s) ==
  /\ SourceStillLive(s.run)
  /\ s.req.agent \notin revoked
  /\ Carries(s)
  /\ Within(charged)

(* Mutant: a refused request has spent the allowance. *)
SpentOnRefusal(n) == IF n < Cap THEN n + 1 ELSE n

(* The allowance after a refusal: the transaction is rolled back. *)
AfterRefusal(n) == n

(* The run the work was taken from. *)
SourceRuns(s) == {s.run} \ {Nobody}

SendRefused(i) ==
  /\ sending[i] # Nobody
  /\ ~Sendable(sending[i])
  /\ sending' = [sending EXCEPT ![i] = Nobody]
  /\ charged' = AfterRefusal(charged)
  /\ UNCHANGED <<offer, calls, receipts, releasing, runVars, tree, revoked,
                 answered, stood, fresh, lost>>

(* The commit: allowance, brief, offer, end of the source run and receipt. *)
SendCommit(i, h) ==
  LET s == sending[i]
      q == s.req
  IN /\ s # Nobody
     /\ Sendable(s)
     /\ ~Exists(h)
     /\ offer' = [offer EXCEPT ![h] =
          [NoOffer EXCEPT !.state = "offered", !.by = OwnerOf[i],
             !.toUser = ToUser(q), !.toInst = q.agent,
             !.code = IF Carried(s) # Nobody THEN Carried(s).commit ELSE Nobody,
             !.from = s.run]]
     /\ EndRuns(SourceRuns(s))
     /\ charged' = charged + 1
     /\ receipts' = receipts \cup
          (IF HasKey(q) THEN {[inst |-> i, req |-> q, h |-> h]} ELSE {})
     /\ answered' = answered \cup {<<i, q, h>>}
     /\ sending' = [sending EXCEPT ![i] = Nobody]
     /\ UNCHANGED <<calls, releasing, began, newest, tree, revoked, stood, lost>>

-----------------------------------------------------------------------------
(* The life cycle *)

Target(act) ==
  CASE act = "accept" -> "accepted"
    [] act = "resume" -> "in_progress"
    [] act = "complete" -> "completed"
    [] act = "decline" -> "declined"
    [] act = "cancel" -> "cancelled"
    [] act = "needs_attention" -> "needs_attention"

From(act) ==
  CASE act = "accept" -> {"offered"}
    [] act = "resume" -> {"accepted", "needs_attention"}
    [] act = "complete" -> {"in_progress"}
    [] act = "decline" -> {"offered"}
    [] act = "cancel" -> {"offered", "accepted", "in_progress", "needs_attention", "declined"}
    [] act = "needs_attention" -> {"accepted", "in_progress"}

(* Who may take this action on this handoff. *)
Permitted(o, call) ==
  IF call.act = "cancel"
  THEN o.by = UserOf(call.by) /\ o.state # "completed"
  ELSE /\ call.act # "decline" => call.by \in Installations /\ o.toInst \in {Nobody, call.by}
       /\ o.toUser \in {Nobody, UserOf(call.by)}
       /\ call.act = "decline" => o.toUser = UserOf(call.by)
       /\ o.holder # Nobody => o.holder = call.by

At(commit, report) == report.commit = commit /\ report.clean

(* The runs that may be doing the work: the one named, else every live one. *)
Receiving(call) ==
  {r \in LiveRuns(call.by) : call.run \in {Nobody, r}}

(* Mutant: a clean checkout is proof enough once the commit moved on. *)
AnyStart(o, call) == TRUE

(* The one run doing the work began at the handed-over commit. *)
BeganThere(o, call) ==
  \E r \in Runs : /\ Receiving(call) = {r}
                  /\ began[r] # Nobody
                  /\ At(o.code, began[r])

ByCheckout(o, call) == call.report # Nobody /\ At(o.code, call.report)
ByStart(o, call) == call.report # Nobody /\ call.report.clean /\ BeganThere(o, call)

Verified(o, call) == o.code # Nobody => ByCheckout(o, call) \/ ByStart(o, call)

Knowing(o) == o.from \in Linked

(* For work that carries knowledge, the named run proves where it is by its *)
(* start or by its newest clean report.                                    *)
RunProves(o, call) ==
  Knowing(o) =>
    /\ call.run # Nobody
    /\ InstallationOf[call.run] = call.by
    /\ o.state = "in_progress" \/ status[call.run] = "live"
    /\ began[call.run] # Nobody
    /\ IF call.report # Nobody /\ (o.code = Nobody \/ ByCheckout(o, call))
       THEN LET last == IF newest[call.run] # Nobody THEN newest[call.run] ELSE began[call.run]
            IN \/ At(began[call.run].commit, call.report)
               \/ (last.clean /\ At(last.commit, call.report))
       ELSE began[call.run].clean

Proved(o, call) == call.act = "resume" => Verified(o, call) /\ RunProves(o, call)

(* A retry of what was done is answered and changes nothing. *)
Replays(o, call) ==
  /\ o.state = Target(call.act)
  /\ Permitted(o, call)
  /\ Proved(o, call)
  /\ call.act = "resume" /\ call.run # Nobody => o.resumed.run = call.run

(* Mutant: an accept believes the offer it saw before the lock. *)
MovesUnlocked(o, call) ==
  /\ o.state \in From(call.act) \cup (IF call.act = "accept" THEN {"accepted"} ELSE {})
  /\ Permitted([o EXCEPT !.holder = Nobody], call)
  /\ Proved(o, call)

Moves(o, call) ==
  /\ o.state \in From(call.act)
  /\ Permitted(o, call)
  /\ Proved(o, call)

(* The access check, before the handoff's row is locked. *)
UpdateBegin(c, h, act, report, r) ==
  /\ c \notin revoked
  /\ Exists(h)
  /\ c \in Users => act \in {"cancel", "decline"}
  /\ Cardinality(calls) < MaxCalls
  /\ calls' = calls \cup {[by |-> c, h |-> h, act |-> act, report |-> report, run |-> r]}
  /\ UNCHANGED <<offer, sending, receipts, charged, releasing, runVars, tree,
                 revoked, answered, stood, fresh, lost>>

UpdateMoves(call) ==
  LET o == offer[call.h]
  IN /\ Moves(o, call)
     /\ offer' = [offer EXCEPT ![call.h] =
          [o EXCEPT !.state = Target(call.act),
                    !.holder = IF call.act = "accept" THEN call.by ELSE @,
                    !.resumed = IF call.act = "resume" THEN call ELSE @]]
     /\ calls' = calls \ {call}
     /\ releasing' = releasing \cup (IF call.act = "complete" THEN {call} ELSE {})
     /\ UNCHANGED <<sending, receipts, charged, runVars, tree, revoked, answered,
                    stood, fresh, lost>>

UpdateReplays(call) ==
  /\ Replays(offer[call.h], call)
  /\ calls' = calls \ {call}
  /\ UNCHANGED <<offer, sending, receipts, charged, releasing, runVars, tree,
                 revoked, answered, stood, fresh, lost>>

UpdateRefused(call) ==
  /\ ~Moves(offer[call.h], call)
  /\ ~Replays(offer[call.h], call)
  /\ calls' = calls \ {call}
  /\ UNCHANGED <<offer, sending, receipts, charged, releasing, runVars, tree,
                 revoked, answered, stood, fresh, lost>>

(* Mutant: ground is left to its lease. *)
ReleaseNothing(call) == {}

(* The run whose ground is let go: the one named, else the only live one. *)
Released(call) ==
  {r \in Receiving(call) : Receiving(call) = {r}}

(* The second transaction of a completion.  It may fail, which is swallowed, *)
(* or be lost with the server; nothing asks for it again.                    *)
Release(call) ==
  /\ releasing' = releasing \ {call}
  /\ lease' = [r \in Runs |-> IF r \in Released(call) THEN 0 ELSE lease[r]]
  /\ fresh' = {p \in fresh : p[1] \notin Released(call)}
  /\ lost' = lost \cup {r \in Runs : Receiving(call) # {r}} \X {call.h}
  /\ UNCHANGED <<offer, calls, sending, receipts, charged, status, began, newest,
                 tree, revoked, answered, stood>>

ReleaseFails(call) ==
  /\ releasing' = releasing \ {call}
  /\ lost' = lost \cup Runs \X {call.h}
  /\ UNCHANGED <<offer, calls, sending, receipts, charged, runVars, tree, revoked,
                 answered, stood, fresh>>

-----------------------------------------------------------------------------
(* Runs, their ground and their checkouts, as far as handoffs depend on     *)
(* them; module AgentRuns has them in full                                 *)

StartRun(r, checkpoint) ==
  /\ status[r] = "none"
  /\ InstallationOf[r] \notin revoked
  /\ status' = [status EXCEPT ![r] = "live"]
  /\ began' = [began EXCEPT ![r] = checkpoint]
  /\ UNCHANGED <<offer, calls, sending, receipts, charged, releasing, newest,
                 lease, tree, revoked, answered, stood, fresh, lost>>

(* Also for a run that has ended: the checkpoint of a finish is written      *)
(* before it is found to be a repeated one.                                 *)
ReportDelivery(r) ==
  /\ status[r] # "none"
  /\ newest' = [newest EXCEPT ![r] = tree[InstallationOf[r]]]
  /\ UNCHANGED <<offer, calls, sending, receipts, charged, releasing, status, began,
                 lease, tree, revoked, answered, stood, fresh, lost>>

(* The guard or a declared scope claims ground for a live run. *)
Declare(r) ==
  /\ status[r] = "live"
  /\ lease' = [lease EXCEPT ![r] = Lease]
  /\ fresh' = fresh \cup
       (IF lease[r] = 0 THEN {r} \X {h \in Handoffs : offer[h].state = "completed"} ELSE {})
  /\ UNCHANGED <<offer, calls, sending, receipts, charged, releasing, status, began,
                 newest, tree, revoked, answered, stood, lost>>

Heartbeat(r) ==
  /\ status[r] = "live"
  /\ lease[r] > 0
  /\ lease' = [lease EXCEPT ![r] = Lease]
  /\ UNCHANGED <<offer, calls, sending, receipts, charged, releasing, status, began,
                 newest, tree, revoked, answered, stood, fresh, lost>>

Tick ==
  /\ lease' = [r \in Runs |-> IF lease[r] > 0 THEN lease[r] - 1 ELSE 0]
  /\ fresh' = {p \in fresh : lease[p[1]] > 1}
  /\ UNCHANGED <<offer, calls, sending, receipts, charged, releasing, status, began,
                 newest, tree, revoked, answered, stood, lost>>

FinishRun(r) ==
  /\ status[r] = "live"
  /\ EndRuns({r})
  /\ UNCHANGED <<offer, calls, sending, receipts, charged, releasing, began, newest,
                 tree, revoked, answered, stood, lost>>

Checkout(i, t) ==
  /\ tree' = [tree EXCEPT ![i] = t]
  /\ stood' = stood \cup (IF t.clean THEN {<<i, t.commit>>} ELSE {})
  /\ UNCHANGED <<offer, calls, sending, receipts, charged, releasing, runVars,
                 revoked, answered, fresh, lost>>

(* A creation in progress holds the token row a revocation has to write.    *)
(* AgentRuns has what runs do while a revocation is under way.             *)
Revoke(i) ==
  /\ i \in Revocable \ revoked
  /\ sending[i] = Nobody
  /\ revoked' = revoked \cup {i}
  /\ EndRuns(LiveRuns(i))
  /\ UNCHANGED <<offer, calls, sending, receipts, charged, releasing, began, newest,
                 tree, answered, stood, lost>>

Init ==
  /\ offer = [h \in Handoffs |-> NoOffer]
  /\ calls = {} /\ receipts = {} /\ releasing = {}
  /\ sending = [i \in Installations |-> Nobody]
  /\ charged = 0
  /\ status = [r \in Runs |-> "none"]
  /\ began = [r \in Runs |-> Nobody]
  /\ newest = [r \in Runs |-> Nobody]
  /\ lease = [r \in Runs |-> 0]
  /\ tree \in [Installations -> Trees]
  /\ stood = {<<i, tree[i].commit>> : i \in {j \in Installations : tree[j].clean}}
  /\ revoked = {} /\ answered = {} /\ fresh = {} /\ lost = {}

Reports(c, act) == IF act = "resume" THEN {Nobody, tree[c]} ELSE {Nobody}
Named(c, act) ==
  {Nobody} \cup IF act \in {"resume", "complete"}
                THEN {r \in Runs : InstallationOf[r] = c /\ status[r] # "none"} ELSE {}

Create == \E i \in Senders :
  \/ \E q \in Requests : SendBegin(i, q) \/ SendReplay(i, q)
  \/ SendRefused(i)
  \/ \E h \in Handoffs : SendCommit(i, h)

Update ==
  \/ \E c \in Callers, h \in Handoffs, act \in Actions :
       /\ c \in Users => act # "resume"
       /\ \E report \in Reports(c, act), r \in Named(c, act) : UpdateBegin(c, h, act, report, r)
  \/ \E call \in calls : UpdateMoves(call) \/ UpdateReplays(call) \/ UpdateRefused(call)
  \/ \E call \in releasing : Release(call) \/ ReleaseFails(call)

Surroundings ==
  \/ \E r \in Runs :
       \/ \E checkpoint \in {Nobody, tree[InstallationOf[r]]} : StartRun(r, checkpoint)
       \/ ReportDelivery(r) \/ Declare(r) \/ Heartbeat(r) \/ FinishRun(r)
  \/ \E i \in Installations : Revoke(i) \/ \E t \in Trees : Checkout(i, t)
  \/ Tick

Next == Create \/ Update \/ Surroundings

Spec == Init /\ [][Next]_vars

(* A completion's second transaction is carried out or is lost, and time     *)
(* passes.                                                                   *)
FairSpec ==
  /\ Spec
  /\ WF_vars(Tick)
  /\ \A call \in Call :
       WF_vars(call \in releasing /\ (Release(call) \/ ReleaseFails(call)))

-----------------------------------------------------------------------------
(* Properties *)

Phase(st) ==
  CASE st = "none" -> "none"
    [] st = "offered" -> "open"
    [] st \in {"accepted", "in_progress", "needs_attention"} -> "held"
    [] st = "completed" -> "done"
    [] OTHER -> "dropped"

AgentsFor(o) ==
  IF o.state = "none" THEN {}
  ELSE {i \in Installations : /\ o.toUser \in {Nobody, OwnerOf[i]}
                              /\ o.toInst \in {Nobody, i}}

WorkView == [h \in Handoffs |-> [phase |-> Phase(offer[h].state),
                                 for |-> AgentsFor(offer[h]),
                                 holder |-> offer[h].holder]]

Promise == INSTANCE Work WITH Agents <- Installations, work <- WorkView

(* The table of handoffs keeps the promise of module Work: only an agent    *)
(* the offer names takes it, one agent has it from then on whoever else     *)
(* calls at the same time, and finished or dropped work stays so            *)
(* (transitionHandoff).                                                    *)
KeepsPromise == Promise!Spec

(* A request sent again under its key, before or after its answer arrived,  *)
(* makes one handoff (createHandoffOnce).                                  *)
OncePerRequest ==
  \A a, b \in answered : a[1] = b[1] /\ a[2] = b[2] /\ HasKey(a[2]) => a[3] = b[3]

(* A run whose work moved is over, claims nothing, and moved once, also     *)
(* when its agent and a paired one hand it off at the same time            *)
(* (handoff_work).                                                         *)
HandedOffOnce ==
  \A h \in Handoffs : offer[h].from # Nobody =>
    /\ status[offer[h].from] = "ended"
    /\ lease[offer[h].from] = 0
    /\ \A g \in Handoffs : offer[g].from = offer[h].from => g = h

(* The allowance counts the handoffs that exist: what was refused costs     *)
(* nothing and no retry is charged again (hitCounter inside the one         *)
(* transaction of createHandoffOnce).                                      *)
ChargedForEach == charged = Cardinality({h \in Handoffs : Exists(h)})

(* Work that carries a checkpoint is in progress or completed only if its holder's  *)
(* checkout has been clean at the handed-over commit (transitionHandoff,    *)
(* resume).                                                                *)
BegunAtHandedCommit ==
  \A h \in Handoffs :
    offer[h].code # Nobody /\ offer[h].state \in {"in_progress", "completed"}
      => <<offer[h].holder, offer[h].code>> \in stood

(* r holds ground that it held when h, its holder's work, was completed. *)
StillHolds(r, h) ==
  /\ offer[h].state = "completed"
  /\ offer[h].holder = InstallationOf[r]
  /\ lease[r] > 0
  /\ <<r, h>> \notin fresh

(* Ground of completed work that is held for good is so for two reasons at   *)
(* once: the one release that a completion asks for failed, was lost with    *)
(* the server or found more than one run to take, and the run goes on        *)
(* renewing what it holds (update_handoff, releaseGroundAfterCompletion).    *)
CompletionFreesGround ==
  \A h \in Handoffs, r \in Runs :
    <>[]StillHolds(r, h) =>
      <>(<<r, h>> \in lost) /\ []<><<Heartbeat(r) \/ Declare(r)>>_vars

(* The same with no such case: ground of completed work goes. *)
CompletionAlwaysFreesGround ==
  \A h \in Handoffs, r \in Runs :
    StillHolds(r, h) ~> (lease[r] = 0 \/ <<r, h>> \in fresh)

(* A request is answered with a handoff to the agent it names, never with   *)
(* an earlier one to another agent (handoff_work, assign_work).            *)
AnswerFitsRequest ==
  \A a \in answered : offer[a[3]].toInst = a[2].agent

(* Repeating the resume of work that carries knowledge, as it was sent, is  *)
(* answered while the work is in progress, also when the receiving run has  *)
(* ended (transitionHandoff).                                              *)
ResumeCanBeRepeated ==
  \A h \in Handoffs :
    Knowing(offer[h]) /\ offer[h].state = "in_progress" => Replays(offer[h], offer[h].resumed)

(* The release after a completion leaves ground alone that was declared     *)
(* after it (update_handoff, releaseGroundAfterCompletion).                *)
SparesNewGround ==
  [][\A call \in releasing \ releasing', r \in Runs :
       <<r, call.h>> \in fresh => lease'[r] > 0]_vars
===============================================================================
