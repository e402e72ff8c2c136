--------------------------- MODULE AdapterOutbox ---------------------------
(***************************************************************************)
(* The hooks that the CLI installs for one client session in one checkout  *)
(* (adapterHook in packages/cli/src/index.ts, over the profile's files in  *)
(* packages/cli/src/adapters.ts).  Each hook is a process of its own: it   *)
(* stores its event, takes the replay lock or leaves the event to whoever  *)
(* has it, and sends what is stored, oldest first: a start or the first    *)
(* heartbeat makes a run on the server, a changed branch replaces it, a    *)
(* finish ends it.  The client kills hooks that take long, answers of the  *)
(* server get lost, and the checkout moves on meanwhile.  A run is named   *)
(* by the event that asked for it, which is the server's idempotency key.  *)
(***************************************************************************)
EXTENDS Integers, FiniteSets

CONSTANTS
  Hooks,       \* hook processes that may be alive at once
  MaxEvents,   \* bound: how many events the client reports
  Branches,    \* branches the checkout may be on, each at one commit
  Trees,       \* states of the checkout: branch and whether it is clean
  MaxMishaps,  \* bound: changes of the checkout, kills of hooks and runs ended by others, together
  Limit,       \* MAX_OUTBOX_EVENTS
  None         \* no hook, no request

ASSUME SetsAssumption ==
  /\ Trees # {} /\ Trees \subseteq [branch : Branches, clean : BOOLEAN]
  /\ None \notin Hooks \cup Branches
ASSUME BoundsAssumption ==
  /\ MaxEvents \in Nat /\ Limit \in Nat /\ MaxMishaps \in Nat

VARIABLES
  fired,      \* how many events the client has reported, numbered by queuedAt
  event,      \* the events: their kind and what became of them
  file,       \* event |-> what its file holds beside them: the frozen request, a stored notice
  local,      \* the profile's state: the session's run and the branch it is taken to be on
  lock,       \* the replay lock's file: who made it and whether that process is dead
  tree,       \* the checkout
  mishaps,    \* how much has happened around the hooks
  run,        \* the server's runs: state and the request each was started with
  reported,   \* checkpoints of deliveries: event, run, checkout
  counted,    \* the events the delivery record counts as dropped
  hook,       \* what each hook process knows
  printed,    \* events whose notice went to the client
  cut,        \* events discarded by a hook that was killed before it counted them
  refused,    \* events whose start the server refused, the first time or again
  overtook,   \* an event was stored after a later one
  stolen,     \* a hook removed the lock of one that was alive
  again       \* a hook was killed before it removed what it had handled

disk   == <<file, local, lock, counted>>
server == <<run, reported>>
ghosts == <<printed, cut, refused, overtook, stolen, again>>
place  == <<tree, mishaps>>
vars   == <<fired, event, disk, place, server, hook, ghosts>>

Ids   == 1 .. MaxEvents
Kinds == {"start", "heartbeat", "finish"}
NoRequest == [branch |-> None, clean |-> FALSE]
Request   == Trees \cup {NoRequest}
Event == [kind : Kinds, state : {"none", "stamped", "lost", "queued", "overflow", "delivered", "dropped"}]
File  == [request : Request, notice : BOOLEAN]
Blank == [request |-> NoRequest, notice |-> FALSE]
Run   == [state : {"none", "live", "ended", "stale"}, request : Request]
Hook  == [phase : {"idle", "stamped", "queued", "looking", "stealing", "next", "routing", "switching",
                   "forgetting", "starting", "posting", "saving", "noting", "beating",
                   "finishing", "ending", "discarding", "printing", "removing"},
          current : Ids \cup {0}, todo : SUBSET Ids, copy : [Ids -> File], item : Ids \cup {0},
          owned : Ids \cup {0}, quiet : BOOLEAN, done : SUBSET Ids, said : SUBSET Ids]
Idle  == [phase |-> "idle", current |-> 0, todo |-> {}, copy |-> [e \in Ids |-> Blank], item |-> 0,
          owned |-> 0, quiet |-> FALSE, done |-> {}, said |-> {}]

Queued  == {e \in Ids : event[e].state = "queued"}
NoLock  == [by |-> None, dead |-> FALSE]
NoLocal == [run |-> 0, branch |-> None]

TypeOK ==
  /\ fired \in 0 .. MaxEvents
  /\ event \in [Ids -> Event]
  /\ file \in [Ids -> File]
  /\ local \in [run : Ids \cup {0}, branch : Branches \cup {None}]
  /\ lock \in [by : Hooks \cup {None}, dead : BOOLEAN]
  /\ tree \in Trees
  /\ mishaps \in 0 .. MaxMishaps
  /\ run \in [Ids -> Run]
  /\ reported \subseteq [event : Ids, run : Ids, tree : Trees]
  /\ hook \in [Hooks -> Hook]
  /\ counted \subseteq Ids /\ printed \subseteq Ids /\ cut \subseteq Ids /\ refused \subseteq Ids
  /\ overtook \in BOOLEAN /\ stolen \in BOOLEAN /\ again \in BOOLEAN

Init ==
  /\ fired = 0
  /\ event = [e \in Ids |-> [kind |-> "heartbeat", state |-> "none"]]
  /\ file = [e \in Ids |-> Blank]
  /\ local = NoLocal
  /\ lock = NoLock
  /\ tree \in {t \in Trees : t.clean}
  /\ mishaps = 0
  /\ run = [e \in Ids |-> [state |-> "none", request |-> NoRequest]]
  /\ reported = {} /\ counted = {} /\ printed = {} /\ cut = {} /\ refused = {}
  /\ hook = [p \in Hooks |-> Idle]
  /\ overtook = FALSE /\ stolen = FALSE /\ again = FALSE

At(p, phase) == hook[p].phase = phase
To(p, phase) == hook' = [hook EXCEPT ![p].phase = phase]

-----------------------------------------------------------------------------
(* Storing an event and taking the replay lock *)

(* The event gets its id and queuedAt before the outbox is locked. *)
Fire(p, kind) ==
  /\ At(p, "idle") /\ fired < MaxEvents
  /\ fired' = fired + 1
  /\ event' = [event EXCEPT ![fired + 1] = [kind |-> kind, state |-> "stamped"]]
  /\ hook' = [hook EXCEPT ![p].phase = "stamped", ![p].current = fired + 1]
  /\ UNCHANGED <<disk, place, server, ghosts>>

Overtaken(e) == \E f \in Ids : f > e /\ event[f].state \notin {"none", "stamped", "lost"}

(* Under the outbox lock: what does not fit is counted, the rest is stored. *)
Enqueue(p) ==
  LET e == hook[p].current IN
  /\ At(p, "stamped")
  /\ IF Cardinality(Queued) >= Limit
       THEN /\ event' = [event EXCEPT ![e].state = "overflow"]
            /\ counted' = counted \cup {e}
            /\ hook' = [hook EXCEPT ![p] = Idle]
            /\ UNCHANGED overtook
       ELSE /\ event' = [event EXCEPT ![e].state = "queued"]
            /\ hook' = [hook EXCEPT ![p] = [Idle EXCEPT !.phase = "queued"]]
            /\ overtook' = (overtook \/ Overtaken(e))
            /\ UNCHANGED counted
  /\ UNCHANGED <<fired, file, local, lock, place, server, printed, cut, refused, stolen, again>>

(* The lock's file is made and the queue read, or there is a file already. *)
TakeLock(p) ==
  /\ At(p, "queued")
  /\ \/ /\ lock = NoLock
        /\ lock' = [by |-> p, dead |-> FALSE]
        /\ hook' = [hook EXCEPT ![p].phase = "next", ![p].todo = Queued,
                       ![p].copy = [e \in Ids |-> IF e \in Queued THEN file[e] ELSE Blank]]
     \/ /\ lock # NoLock
        /\ To(p, "looking")
        /\ UNCHANGED lock
  /\ UNCHANGED <<fired, event, file, local, counted, place, server, ghosts>>

(* A file whose maker is gone is stale, and so is one that is gone itself; another is respected. *)
Look(p) ==
  /\ At(p, "looking")
  /\ hook' = IF lock = NoLock \/ lock.dead THEN [hook EXCEPT ![p].phase = "stealing"]
                                           ELSE [hook EXCEPT ![p] = Idle]
  /\ UNCHANGED <<fired, event, disk, place, server, ghosts>>

(* Whatever file is there by now is removed; if another hook was faster, this one leaves. *)
Steal(p) ==
  /\ At(p, "stealing")
  /\ hook' = IF lock = NoLock THEN [hook EXCEPT ![p] = Idle] ELSE [hook EXCEPT ![p].phase = "queued"]
  /\ lock' = NoLock
  /\ stolen' = (stolen \/ (lock # NoLock /\ ~ lock.dead))
  /\ UNCHANGED <<fired, event, file, local, counted, place, server, printed, cut, refused, overtook, again>>

-----------------------------------------------------------------------------
(* What becomes of an event *)

Item(p) == hook[p].item

(* The loop is over with the event it was at. *)
Past(p) == [hook[p] EXCEPT !.phase = "next", !.copy[Item(p)] = Blank, !.item = 0, !.owned = 0, !.quiet = FALSE]

(* Mutant: the event's file goes as soon as the server has it. *)
HandledAtOnce(p, named) ==
  /\ hook' = [hook EXCEPT ![p] = [Past(p) EXCEPT !.said = @ \cup (IF named THEN {Item(p)} ELSE {})]]
  /\ event' = [event EXCEPT ![Item(p)].state = "delivered"]

(* It is done, and its notice is kept for the end. *)
Handled(p, named) ==
  /\ hook' = [hook EXCEPT ![p] = [Past(p) EXCEPT !.done = @ \cup {Item(p)},
                                                  !.said = @ \cup (IF named THEN {Item(p)} ELSE {})]]
  /\ UNCHANGED event

(* A start's result is the notice of its event; a heartbeat that had to start a run goes on. *)
Result(p) ==
  IF hook[p].quiet THEN To(p, "routing") /\ UNCHANGED event ELSE Handled(p, TRUE)

(* The hook prints what it has and removes what is done. *)
LeaveLoop(p) ==
  hook' = [hook EXCEPT ![p] = [Idle EXCEPT !.phase = "printing", !.done = hook[p].done, !.said = hook[p].said]]

(* Mutants: the loop goes on with the next event; every failure is taken as final. *)
AfterFailureNext(p)    == hook' = [hook EXCEPT ![p] = Past(p)]
AfterFailureDiscard(p) == To(p, "discarding")

(* A fault that may pass ends the loop: later events wait behind this one. *)
AfterFailure(p) == LeaveLoop(p)

Fail(p) ==
  /\ hook[p].phase \in {"switching", "starting", "posting", "beating", "finishing"}
  /\ AfterFailure(p)
  /\ UNCHANGED <<fired, event, disk, place, server, ghosts>>

(* A start with a frozen request asks for nothing before it sends that. *)
Repeats(p) ==
  hook[p].copy[Item(p)].request # NoRequest /\ ~ (local.run # 0 /\ hook[p].copy[Item(p)].notice)

(* The server may refuse whatever it is asked, for its own reasons (a revoked installation or   *)
(* credential, a lost membership, entitlement or scope), also what it had carried out before. *)
Refused(p) ==
  /\ \/ hook[p].phase \in {"switching", "posting", "beating", "finishing"}
     \/ At(p, "starting") /\ ~ Repeats(p)
  /\ To(p, "discarding")
  /\ refused' = IF At(p, "posting") THEN refused \cup {Item(p)} ELSE refused
  /\ UNCHANGED <<fired, event, disk, place, server, printed, cut, overtook, stolen, again>>

Count(e) == counted' = counted \cup {e}

(* The file is removed, if it is still there. *)
Remove(e, state) ==
  /\ event' = IF event[e].state = "queued" THEN [event EXCEPT ![e].state = state] ELSE event
  /\ file' = [file EXCEPT ![e] = Blank]

(* A refusal of the server is final: the file goes, then the loss is counted. *)
Discard(p) ==
  /\ At(p, "discarding")
  /\ Remove(Item(p), "dropped") /\ Count(Item(p))
  /\ hook' = [hook EXCEPT ![p] = Past(p)]
  /\ UNCHANGED <<fired, local, lock, place, server, ghosts>>

Oldest(S) == {e \in S : \A f \in S : e <= f}

(* By its kind, and by whether the session has a run and the checkout is still on its branch: *)
(* an event of a session without a run starts one, unless it is a finish.                     *)
Route(kind) ==
  LET moved == local.run # 0 /\ local.branch # tree.branch IN
  CASE kind = "finish"                 -> "finishing"
    [] kind # "finish" /\ moved        -> "switching"
    [] kind = "heartbeat" /\ local.run # 0 /\ ~ moved -> "beating"
    [] OTHER                           -> "starting"

Pick(p) ==
  /\ At(p, "next")
  /\ \E e \in Oldest(hook[p].todo) :
       LET kind == event[e].kind
           idle == kind = "finish" /\ local.run = 0 IN
       hook' = [hook EXCEPT ![p] =
         [hook[p] EXCEPT !.item = e, !.todo = @ \ {e}, !.owned = local.run,
           !.quiet = (kind = "heartbeat" /\ local.run = 0),
           !.done  = IF idle THEN @ \cup {e} ELSE @,
           !.phase = IF idle THEN @ ELSE Route(kind)]]
  /\ UNCHANGED <<fired, event, disk, place, server, ghosts>>

(* A heartbeat that had to start a run goes on with it. *)
GoOn(p) ==
  /\ At(p, "routing")
  /\ IF local.run = 0
       THEN Handled(p, FALSE)
       ELSE /\ hook' = [hook EXCEPT ![p].phase = Route("heartbeat"), ![p].owned = local.run, ![p].quiet = FALSE]
            /\ UNCHANGED event
  /\ UNCHANGED <<fired, disk, place, server, ghosts>>

(* Nothing is left, or the time of the hook is nearly up. *)
Stop(p) ==
  /\ At(p, "next")
  /\ LeaveLoop(p)
  /\ UNCHANGED <<fired, event, disk, place, server, ghosts>>

-----------------------------------------------------------------------------
(* Requests to the server *)

Ended(r) == run' = [run EXCEPT ![r].state = IF @ = "live" THEN "ended" ELSE @]

(* The old branch's run is finished; that it is unknown by now does not matter. *)
FinishOld(p) ==
  /\ At(p, "switching")
  /\ Ended(hook[p].owned)
  /\ \/ To(p, "forgetting")
     \/ AfterFailure(p)
  /\ UNCHANGED <<fired, event, disk, place, reported, ghosts>>

(* The entry of the session goes, whichever run it names; a copy of the event without its *)
(* request starts the new run.                                                            *)
ForgetOld(p) ==
  /\ At(p, "forgetting")
  /\ local' = NoLocal
  /\ hook' = [hook EXCEPT ![p].phase = "starting", ![p].copy[Item(p)].request = NoRequest]
  /\ UNCHANGED <<fired, event, file, lock, counted, place, server, ghosts>>

(* The session has its run and the event its notice: that is what is printed. *)
Reprint(p) ==
  /\ At(p, "starting") /\ local.run # 0 /\ hook[p].copy[Item(p)].notice
  /\ Result(p)
  /\ UNCHANGED <<fired, disk, place, server, ghosts>>

(* A later prompt of the session asks whether its run is alive. *)
Ping(p) ==
  /\ At(p, "starting") /\ local.run # 0 /\ hook[p].copy[Item(p)] = Blank
  /\ IF run[local.run].state = "live"
       THEN Result(p) /\ UNCHANGED local
       ELSE local' = NoLocal /\ UNCHANGED <<hook, event>>
  /\ UNCHANGED <<fired, file, lock, counted, place, server, ghosts>>

(* The request is built from the checkout and frozen in the event's file. *)
Freeze(p) ==
  LET e == Item(p) IN
  /\ At(p, "starting") /\ local.run = 0 /\ hook[p].copy[e].request = NoRequest
  /\ IF event[e].state = "queued"
       THEN /\ file' = [file EXCEPT ![e] = [hook[p].copy[e] EXCEPT !.request = tree]]
            /\ hook' = [hook EXCEPT ![p].phase = "posting", ![p].owned = 0, ![p].copy[e].request = tree]
       ELSE AfterFailure(p) /\ UNCHANGED file
  /\ UNCHANGED <<fired, event, local, lock, counted, place, server, ghosts>>

(* A frozen request is sent again as it is. *)
Resend(p) ==
  /\ At(p, "starting") /\ Repeats(p)
  /\ hook' = [hook EXCEPT ![p].phase = "posting", ![p].owned = local.run]
  /\ UNCHANGED <<fired, event, disk, place, server, ghosts>>

(* The event's id names the start: a repetition is answered with its run, in whatever state, *)
(* and other arguments are refused; Refused is what the server asks before it looks for it.  *)
PostStart(p) ==
  LET e == Item(p)
      request == hook[p].copy[e].request IN
  /\ At(p, "posting")
  /\ IF run[e].state = "none"
       THEN run' = [run EXCEPT ![e] = [state |-> "live", request |-> request]]
       ELSE UNCHANGED run
  /\ \/ run[e].state \in {"none"} /\ To(p, "saving")
     \/ run[e].state # "none" /\ To(p, IF run[e].request = request THEN "saving" ELSE "discarding")
     \/ AfterFailure(p)
  /\ UNCHANGED <<fired, event, disk, place, reported, ghosts>>

(* The session gets the run unless it had one; the branch is the checkout's by now. *)
Save(p) ==
  /\ At(p, "saving")
  /\ local' = IF hook[p].owned = 0 THEN [run |-> Item(p), branch |-> tree.branch] ELSE local
  /\ To(p, "noting")
  /\ UNCHANGED <<fired, event, file, lock, counted, place, server, ghosts>>

StoreNotice(p) ==
  LET e == Item(p) IN
  /\ At(p, "noting")
  /\ IF event[e].state = "queued"
       THEN file' = [file EXCEPT ![e] = [hook[p].copy[e] EXCEPT !.notice = TRUE]] /\ Result(p)
       ELSE AfterFailure(p) /\ UNCHANGED <<file, event>>
  /\ UNCHANGED <<fired, local, lock, counted, place, server, ghosts>>

(* A checkpoint's id is derived from the event and the commit, not from what is dirty. *)
Conflicting(e, r) ==
  \E c \in reported : c.event = e /\ c.run = r /\ c.tree.branch = tree.branch /\ c.tree # tree

Reports(e, r) == reported' = reported \cup {[event |-> e, run |-> r, tree |-> tree]}

(* A heartbeat to a run that is over is refused and the run forgotten. *)
Beat(p) ==
  LET e == Item(p)
      r == hook[p].owned IN
  /\ At(p, "beating")
  /\ \/ /\ run[r].state = "live" /\ ~ Conflicting(e, r)
        /\ Reports(e, r)
        /\ Handled(p, FALSE) \/ (AfterFailure(p) /\ UNCHANGED event)
        /\ UNCHANGED local
     \/ /\ run[r].state = "live" /\ Conflicting(e, r)
        /\ To(p, "discarding") /\ UNCHANGED <<event, local, reported>>
     \/ /\ run[r].state # "live"
        /\ local' = NoLocal
        /\ To(p, "discarding") /\ UNCHANGED <<event, reported>>
  /\ UNCHANGED <<fired, file, lock, counted, place, run, ghosts>>

(* A finish may be repeated; a run the sweep has ended is unknown to it. *)
Finish(p) ==
  LET e == Item(p)
      r == hook[p].owned IN
  /\ At(p, "finishing")
  /\ \/ /\ Conflicting(e, r)
        /\ To(p, "discarding") /\ UNCHANGED <<local, server>>
     \/ /\ ~ Conflicting(e, r) /\ run[r].state \in {"live", "ended"}
        /\ Ended(r) /\ Reports(e, r)
        /\ To(p, "ending") \/ AfterFailure(p)
        /\ UNCHANGED local
     \/ /\ ~ Conflicting(e, r) /\ run[r].state = "stale"
        /\ Reports(e, r)
        /\ local' = NoLocal
        /\ To(p, "discarding") /\ UNCHANGED run
  /\ UNCHANGED <<fired, event, file, lock, counted, place, ghosts>>

ForgetFinished(p) ==
  /\ At(p, "ending")
  /\ local' = NoLocal
  /\ Handled(p, FALSE)
  /\ UNCHANGED <<fired, file, lock, counted, place, server, ghosts>>

-----------------------------------------------------------------------------
(* The end of a hook *)

(* All notices go to the client before any file is removed. *)
PrintAll(p) ==
  /\ At(p, "printing")
  /\ printed' = printed \cup hook[p].said
  /\ hook' = [hook EXCEPT ![p].phase = "removing", ![p].said = {}]
  /\ UNCHANGED <<fired, event, disk, place, server, cut, refused, overtook, stolen, again>>

MarkDelivered(p) ==
  /\ At(p, "removing")
  /\ \E e \in Oldest(hook[p].done) :
       /\ Remove(e, "delivered")
       /\ hook' = [hook EXCEPT ![p].done = @ \ {e}]
  /\ UNCHANGED <<fired, local, lock, counted, place, server, ghosts>>

(* The lock's file is removed, whoever made it. *)
Leave(p) ==
  /\ At(p, "removing") /\ hook[p].done = {}
  /\ lock' = NoLock
  /\ stolen' = (stolen \/ (lock.by # p /\ lock # NoLock /\ ~ lock.dead))
  /\ hook' = [hook EXCEPT ![p] = Idle]
  /\ UNCHANGED <<fired, event, file, local, counted, place, server, printed, cut, refused, overtook, again>>

(* The client kills the hook, in the worst case between the removal of an event and its count. *)
Kill(p) ==
  /\ ~ At(p, "idle") /\ mishaps < MaxMishaps
  /\ mishaps' = mishaps + 1
  /\ \/ /\ At(p, "stamped")
        /\ event' = [event EXCEPT ![hook[p].current].state = "lost"]
        /\ UNCHANGED <<file, cut>>
     \/ ~ At(p, "stamped") /\ UNCHANGED <<event, file, cut>>
     \/ At(p, "discarding") /\ Remove(Item(p), "dropped") /\ cut' = cut \cup {Item(p)}
  /\ again' = (again \/ hook[p].done # {})
  /\ lock' = IF lock.by = p THEN [lock EXCEPT !.dead = TRUE] ELSE lock
  /\ hook' = [hook EXCEPT ![p] = Idle]
  /\ UNCHANGED <<fired, local, counted, tree, server, printed, refused, overtook, stolen>>

-----------------------------------------------------------------------------
(* Around the hooks *)

Checkout(t) ==
  /\ t # tree /\ mishaps < MaxMishaps
  /\ tree' = t
  /\ mishaps' = mishaps + 1
  /\ UNCHANGED <<fired, event, disk, server, hook, ghosts>>

(* The agent finishes its run itself, or the server's sweep takes it for dead. *)
EndElsewhere(r, state) ==
  /\ run[r].state = "live" /\ mishaps < MaxMishaps
  /\ run' = [run EXCEPT ![r].state = state]
  /\ mishaps' = mishaps + 1
  /\ UNCHANGED <<fired, event, disk, tree, reported, hook, ghosts>>

Next ==
  \/ \E p \in Hooks :
       \/ \E kind \in Kinds : Fire(p, kind)
       \/ Enqueue(p) \/ TakeLock(p) \/ Look(p) \/ Steal(p)
       \/ Pick(p) \/ GoOn(p) \/ Fail(p) \/ Refused(p) \/ Discard(p) \/ Stop(p)
       \/ FinishOld(p) \/ ForgetOld(p) \/ Reprint(p) \/ Ping(p) \/ Freeze(p) \/ Resend(p)
       \/ PostStart(p) \/ Save(p) \/ StoreNotice(p)
       \/ Beat(p) \/ Finish(p) \/ ForgetFinished(p)
       \/ PrintAll(p) \/ MarkDelivered(p) \/ Leave(p) \/ Kill(p)
  \/ \E t \in Trees : Checkout(t)
  \/ \E r \in Ids, state \in {"ended", "stale"} : EndElsewhere(r, state)

Spec == Init /\ [][Next]_vars

-----------------------------------------------------------------------------
(* Properties *)

(* No event was stored out of turn, no lock was taken from a living hook, and no hook died *)
(* with events handled and not yet removed, which are then handled a second time.          *)
Orderly == ~ overtook /\ ~ stolen /\ ~ again

(* A prompt's event is only removed as delivered when its notice has reached  *)
(* the client, whatever is killed and replayed in between (index.ts 1859-1860). *)
PromptIsAnswered ==
  \A e \in Ids : event[e].kind = "start" /\ event[e].state = "delivered" => e \in printed

(* Events that did not fit or were refused are counted in the delivery record, *)
(* unless the hook was killed right after removing one (discardHookEvent).      *)
LossesAreCounted ==
  \A e \in Ids : event[e].state \in {"overflow", "dropped"} => e \in counted \cup cut

(* However answers are lost and hooks killed, a live run of the server is the session's,  *)
(* or the event it was started for is still stored with its request and will be answered  *)
(* with it (index.ts 1300-1335), or the server itself has refused that start: a retry     *)
(* after a lost answer is refused before the earlier run is looked for (agents.ts         *)
(* 294-302), its event is discarded (index.ts 1833-1844), and the run is on its own.      *)
NoRunIsOrphaned ==
  Orderly => \A r \in Ids : run[r].state = "live" =>
    \/ local.run = r
    \/ event[r].state = "queued" /\ file[r].request # NoRequest
    \/ r \in refused

(* Once a finish is delivered, no run that an earlier event started is live, also    *)
(* when that event failed and had to be sent again (index.ts 1604-1619, 1846-1851), *)
(* unless the server refused that start when it was sent again.                     *)
FinishLeavesNothing ==
  Orderly => \A f \in Ids : event[f].kind = "finish" /\ event[f].state = "delivered" =>
    \A r \in 1 .. f : run[r].state = "live" => r \in refused

(* What index.ts 1517-1526 says: a run owned by hooks is one branch, the one its *)
(* start names.                                                                  *)
RunIsOneBranch ==
  local.run # 0 /\ run[local.run].state = "live" => run[local.run].request.branch = local.branch

(* What README.md 999-1000 says of retries: stable event ids make them safe.  A finish that *)
(* is sent again is not in conflict with what it reported the first time.                   *)
RetryIsNotRefused ==
  \A p \in Hooks : At(p, "finishing") => ~ Conflicting(Item(p), hook[p].owned)

(* What adapters.ts 73 says: a notice is kept until it was given to the client.  *)
StoredNoticeIsPrinted ==
  [][\A e \in Ids : file[e].notice /\ event'[e].state = "delivered" /\ event[e].state = "queued"
       => e \in printed]_vars
===============================================================================
