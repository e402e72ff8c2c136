------------------------ MODULE AdapterOutboxProofs ------------------------
(***************************************************************************)
(* Proofs about AdapterOutbox for any number of hooks, events, mishaps and *)
(* states of the checkout: its type invariant, that a prompt's event is    *)
(* only removed as delivered after its notice was printed, that what is    *)
(* lost is counted, and, as long as hooks keep their turn, that no run is  *)
(* orphaned and that a delivered finish leaves none of its session live,   *)
(* but for the runs whose start the server refuses when it is sent again.  *)
(***************************************************************************)
EXTENDS AdapterOutbox, TLAPS

Working == {"routing", "switching", "forgetting", "starting", "posting", "saving", "noting",
            "beating", "finishing", "ending", "discarding"}

Known == 1 .. fired

(* What a hook has in hand was reported, and fits what it is doing with it. *)
InHand(h) ==
  /\ h.phase = "stamped" => h.current \in Known
  /\ h.phase \in Working => h.item \in Known
  /\ h.phase \in {"beating", "finishing"} => h.owned \in Ids
  /\ h.todo \subseteq Known /\ h.done \subseteq Known
  /\ h.phase \in {"routing", "beating"} => event[h.item].kind = "heartbeat"
  /\ h.phase \in {"finishing", "ending"} => event[h.item].kind = "finish"
  /\ h.quiet => h.phase \in Working /\ event[h.item].kind = "heartbeat"

(* A prompt a hook has done with is to be printed, and is printed when files go. *)
Told(h) ==
  \A e \in h.done : event[e].kind = "start" =>
    e \in IF h.phase = "removing" THEN printed ELSE h.said

HooksFit == \A p \in Hooks : hook[p] \in Hook /\ InHand(hook[p]) /\ Told(hook[p])

Stored == \A e \in Ids : event[e].state # "none" => e \in Known

Inv == TypeOK /\ HooksFit /\ Stored /\ PromptIsAnswered /\ LossesAreCounted

(* The part of the type invariant that is not about the hooks. *)
RestTyped ==
  /\ fired \in 0 .. MaxEvents
  /\ event \in [Ids -> Event]
  /\ file \in [Ids -> File]
  /\ local \in [run : Ids \cup {0}, branch : Branches \cup {None}]
  /\ lock \in [by : Hooks \cup {None}, dead : BOOLEAN]
  /\ tree \in Trees
  /\ mishaps \in 0 .. MaxMishaps
  /\ run \in [Ids -> Run]
  /\ reported \subseteq [event : Ids, run : Ids, tree : Trees]
  /\ counted \subseteq Ids /\ printed \subseteq Ids /\ cut \subseteq Ids /\ refused \subseteq Ids
  /\ overtook \in BOOLEAN /\ stolen \in BOOLEAN /\ again \in BOOLEAN

-----------------------------------------------------------------------------
(* The values *)

LEMMA KnownAreIds == ASSUME fired \in 0 .. MaxEvents PROVE Known \subseteq Ids /\ 0 \notin Ids
  BY BoundsAssumption DEF Known, Ids

LEMMA BlankTyped == Blank \in File /\ NoRequest \in Request /\ Trees \subseteq Request
  BY DEF Blank, File, Request

LEMMA IdleFits == Idle \in Hook /\ InHand(Idle) /\ Told(Idle)
  BY BlankTyped DEF Idle, Hook, InHand, Told, Working

LEMMA InitInv == Init => Inv
<1> SUFFICES ASSUME Init PROVE Inv
  OBVIOUS
<1>1. event \in [Ids -> Event] /\ file \in [Ids -> File] /\ run \in [Ids -> Run]
  BY BlankTyped DEF Init, Event, Kinds, Run
<1>2. 0 \in 0 .. MaxEvents /\ 0 \in 0 .. MaxMishaps
  BY BoundsAssumption
<1>5. local \in [run : Ids \cup {0}, branch : Branches \cup {None}] /\ lock \in [by : Hooks \cup {None}, dead : BOOLEAN]
  BY DEF Init, NoLocal, NoLock
<1>6. RestTyped
  BY <1>1, <1>2, <1>5 DEF Init, RestTyped
<1>3. HooksFit /\ hook \in [Hooks -> Hook]
  BY IdleFits DEF Init, HooksFit
<1>4. Stored /\ PromptIsAnswered /\ LossesAreCounted
  BY DEF Init, Stored, PromptIsAnswered, LossesAreCounted
<1> QED BY <1>3, <1>4, <1>6 DEF Inv, TypeOK, RestTyped

-----------------------------------------------------------------------------
(* What a hook does to itself *)

(* One hook changes and no event changes its kind. *)
LEMMA Replaced ==
  ASSUME Inv, NEW p \in Hooks, NEW h \in Hook, hook' = [hook EXCEPT ![p] = h],
         InHand(h), Told(h), fired' = fired, printed' = printed,
         \A e \in Ids : event'[e].kind = event[e].kind
  PROVE  HooksFit' /\ hook' \in [Hooks -> Hook]
<1>1. hook' \in [Hooks -> Hook]
  BY DEF Inv, TypeOK
<1>2. Known' = Known /\ Known \subseteq Ids
  BY KnownAreIds DEF Inv, TypeOK, Known
<1>3. ASSUME NEW k \in Hook, InHand(k), Told(k) PROVE InHand(k)' /\ Told(k)'
  <2>1. k.phase \in Working => k.item \in Ids
    BY <1>2, <1>3 DEF InHand
  <2>2. {"routing", "beating", "finishing", "ending"} \subseteq Working
    BY DEF Working
  <2>3. InHand(k)'
    BY <1>2, <1>3, <2>1, <2>2 DEF InHand
  <2>4. k.done \subseteq Ids
    BY <1>2, <1>3 DEF InHand
  <2>5. Told(k)'
    BY <1>3, <2>4 DEF Told
  <2> QED BY <2>3, <2>5
<1>4. ASSUME NEW q \in Hooks PROVE hook'[q] \in Hook /\ InHand(hook[q])' /\ Told(hook[q])'
  <2>1. PICK k : k = hook'[q]
    OBVIOUS
  <2>2. k \in Hook /\ InHand(k) /\ Told(k)
    BY <2>1 DEF Inv, TypeOK, HooksFit
  <2>3. InHand(k)' /\ Told(k)'
    BY <2>2, <1>3
  <2>4. InHand(hook[q])'
    BY <2>1, <2>3 DEF InHand
  <2>5. Told(hook[q])'
    BY <2>1, <2>3 DEF Told
  <2> QED BY <2>1, <2>2, <2>4, <2>5
<1> QED BY <1>1, <1>4 DEF HooksFit

(* The events stay as they are. *)
LEMMA EventsStay ==
  ASSUME Inv, event' = event, fired' = fired,
         printed \subseteq printed', counted \subseteq counted', cut \subseteq cut'
  PROVE  Stored' /\ PromptIsAnswered' /\ LossesAreCounted'
  BY DEF Inv, Stored, Known, PromptIsAnswered, LossesAreCounted

(* A hook that goes on with the event in hand. *)
LEMMA Moves ==
  ASSUME Inv, NEW p \in Hooks, NEW ph \in Working, To(p, ph), hook[p].phase \in Working,
         ph \notin {"routing", "beating", "finishing"}, ph = "ending" => At(p, "finishing"),
         fired' = fired, event' = event, printed' = printed
  PROVE  HooksFit' /\ hook' \in [Hooks -> Hook]
<1> DEFINE h == [hook[p] EXCEPT !.phase = ph]
<1>1. hook[p] \in Hook /\ InHand(hook[p]) /\ Told(hook[p]) /\ hook' = [hook EXCEPT ![p] = h]
  BY DEF Inv, TypeOK, HooksFit, To
<1>2. h \in Hook
  BY <1>1 DEF Hook, Working
<1>3. InHand(h) /\ Told(h)
  BY <1>1 DEF InHand, Told, Working, At, Hook
<1> HIDE DEF h
<1> QED BY <1>1, <1>2, <1>3, Replaced

(* A hook that leaves the loop. *)
LEMMA Leaves ==
  ASSUME Inv, NEW p \in Hooks, LeaveLoop(p), ~ At(p, "removing"),
         fired' = fired, event' = event, printed' = printed
  PROVE  HooksFit' /\ hook' \in [Hooks -> Hook]
<1> DEFINE h == [Idle EXCEPT !.phase = "printing", !.done = hook[p].done, !.said = hook[p].said]
<1>1. hook[p] \in Hook /\ InHand(hook[p]) /\ Told(hook[p]) /\ hook' = [hook EXCEPT ![p] = h]
  BY DEF Inv, TypeOK, HooksFit, LeaveLoop
<1>2. h \in Hook
  BY <1>1, IdleFits DEF Hook, Idle
<1>3. InHand(h) /\ Told(h)
  BY <1>1 DEF InHand, Told, Working, At, Hook, Idle
<1> HIDE DEF h
<1> QED BY <1>1, <1>2, <1>3, Replaced

(* A hook that is done with the event in hand. *)
LEMMA Handles ==
  ASSUME Inv, NEW p \in Hooks, NEW named \in BOOLEAN, Handled(p, named), hook[p].phase \in Working,
         event[Item(p)].kind = "start" => named,
         fired' = fired, printed' = printed
  PROVE  HooksFit' /\ hook' \in [Hooks -> Hook] /\ event' = event
<1> DEFINE h == [Past(p) EXCEPT !.done = @ \cup {Item(p)},
                                !.said = @ \cup (IF named THEN {Item(p)} ELSE {})]
<1>1. /\ hook[p] \in Hook /\ InHand(hook[p]) /\ Told(hook[p])
      /\ hook' = [hook EXCEPT ![p] = h] /\ event' = event
  BY DEF Inv, TypeOK, HooksFit, Handled
<1>2. Item(p) \in Known /\ Known \subseteq Ids
  BY <1>1, KnownAreIds DEF Inv, TypeOK, InHand, Item
<1>3. Past(p) \in Hook
  BY <1>1, <1>2, BlankTyped DEF Past, Hook
<1>4. /\ Past(p).phase = "next" /\ Past(p).done = hook[p].done /\ Past(p).said = hook[p].said
      /\ Past(p).todo = hook[p].todo /\ Past(p).quiet = FALSE
  BY <1>1 DEF Past, Hook
<1>5. h \in Hook
  BY <1>2, <1>3, <1>4 DEF Hook
<1>6. /\ h.phase = "next" /\ h.done = hook[p].done \cup {Item(p)} /\ h.todo = hook[p].todo /\ h.quiet = FALSE
      /\ h.said = hook[p].said \cup (IF named THEN {Item(p)} ELSE {})
  BY <1>3, <1>4 DEF Hook
<1>7. InHand(h)
  BY <1>1, <1>2, <1>6 DEF InHand, Working
<1>8. Told(h)
  <2>1. hook[p].phase # "removing"
    BY DEF Working
  <2> QED BY <1>1, <1>6, <2>1 DEF Told
<1> HIDE DEF h
<1> QED BY <1>1, <1>5, <1>7, <1>8, Replaced

(* A start's result. *)
LEMMA Results ==
  ASSUME Inv, NEW p \in Hooks, Result(p), hook[p].phase \in Working,
         fired' = fired, printed' = printed
  PROVE  HooksFit' /\ hook' \in [Hooks -> Hook] /\ event' = event
<1> DEFINE h == [hook[p] EXCEPT !.phase = "routing"]
<1>1. CASE ~ hook[p].quiet
  BY <1>1, Handles DEF Result
<1>2. CASE hook[p].quiet
  <2>1. /\ hook[p] \in Hook /\ InHand(hook[p]) /\ Told(hook[p])
        /\ hook' = [hook EXCEPT ![p] = h] /\ event' = event
    BY <1>2 DEF Inv, TypeOK, HooksFit, Result, To
  <2>2. h \in Hook
    BY <2>1 DEF Hook
  <2>3. InHand(h) /\ Told(h)
    BY <1>2, <2>1 DEF InHand, Told, Working, Hook
  <2> HIDE DEF h
  <2> QED BY <2>1, <2>2, <2>3, Replaced
<1> QED BY <1>1, <1>2

(* A step that leaves the events and what is said of them alone. *)
LEMMA Aside ==
  ASSUME Inv, HooksFit', hook' \in [Hooks -> Hook], event' = event,
         UNCHANGED <<fired, tree, mishaps, counted, ghosts>>,
         file' \in [Ids -> File], run' \in [Ids -> Run],
         local' \in [run : Ids \cup {0}, branch : Branches \cup {None}],
         lock' \in [by : Hooks \cup {None}, dead : BOOLEAN],
         reported' \subseteq [event : Ids, run : Ids, tree : Trees]
  PROVE  Inv'
<1>1. Stored' /\ PromptIsAnswered' /\ LossesAreCounted'
  BY EventsStay DEF ghosts
<1>2. TypeOK'
  BY DEF Inv, TypeOK, ghosts
<1> QED BY <1>1, <1>2 DEF Inv

LEMMA AsideTypes ==
  Inv => /\ file \in [Ids -> File] /\ run \in [Ids -> Run]
         /\ local \in [run : Ids \cup {0}, branch : Branches \cup {None}]
         /\ lock \in [by : Hooks \cup {None}, dead : BOOLEAN]
         /\ reported \subseteq [event : Ids, run : Ids, tree : Trees]
         /\ NoLocal \in [run : Ids \cup {0}, branch : Branches \cup {None}]
         /\ NoLock \in [by : Hooks \cup {None}, dead : BOOLEAN]
  BY DEF Inv, TypeOK, NoLocal, NoLock

-----------------------------------------------------------------------------
(* The steps that only move a hook, its run or its notice *)

LEMMA FailKeeps == ASSUME Inv, NEW p \in Hooks, Fail(p) PROVE Inv'
<1>1. LeaveLoop(p) /\ ~ At(p, "removing") /\ UNCHANGED <<fired, event, disk, place, server, ghosts>>
  BY DEF Fail, AfterFailure, At
<1>2. HooksFit' /\ hook' \in [Hooks -> Hook]
  BY <1>1, Leaves DEF ghosts
<1> QED BY <1>1, <1>2, Aside, AsideTypes DEF disk, place, server

LEMMA RefusedKeeps == ASSUME Inv, NEW p \in Hooks, Refused(p) PROVE Inv'
<1>1. To(p, "discarding") /\ hook[p].phase \in Working /\ "discarding" \in Working
  BY DEF Refused, At, Working
<1>2. /\ fired' = fired /\ event' = event /\ printed' = printed /\ counted' = counted /\ cut' = cut
      /\ UNCHANGED <<disk, place, server, overtook, stolen, again>>
  BY DEF Refused, disk
<1>3. HooksFit' /\ hook' \in [Hooks -> Hook]
  BY <1>1, <1>2, Moves
<1>4. Item(p) \in Ids
  BY <1>1, KnownAreIds DEF Inv, TypeOK, HooksFit, InHand, Item
<1>5. refused' \subseteq Ids
  BY <1>4 DEF Refused, Inv, TypeOK
<1>6. Stored' /\ PromptIsAnswered' /\ LossesAreCounted'
  BY <1>2, EventsStay
<1>7. TypeOK'
  BY <1>2, <1>3, <1>5 DEF Inv, TypeOK, disk, place, server
<1> QED BY <1>3, <1>6, <1>7 DEF Inv

LEMMA StopKeeps == ASSUME Inv, NEW p \in Hooks, Stop(p) PROVE Inv'
<1>1. LeaveLoop(p) /\ ~ At(p, "removing") /\ UNCHANGED <<fired, event, disk, place, server, ghosts>>
  BY DEF Stop, At
<1>2. HooksFit' /\ hook' \in [Hooks -> Hook]
  BY <1>1, Leaves DEF ghosts
<1> QED BY <1>1, <1>2, Aside, AsideTypes DEF disk, place, server

LEMMA ReprintKeeps == ASSUME Inv, NEW p \in Hooks, Reprint(p) PROVE Inv'
<1>1. hook[p].phase \in Working
  BY DEF Reprint, At, Working
<1>2. fired' = fired /\ printed' = printed /\ Result(p)
  BY DEF Reprint, ghosts
<1>3. HooksFit' /\ hook' \in [Hooks -> Hook] /\ event' = event
  BY <1>1, <1>2, Results
<1> QED BY <1>3, Aside, AsideTypes DEF Reprint, disk, place, server

LEMMA PingKeeps == ASSUME Inv, NEW p \in Hooks, Ping(p) PROVE Inv'
<1>1. hook[p].phase \in Working
  BY DEF Ping, At, Working
<1>2. fired' = fired /\ printed' = printed
  BY DEF Ping, ghosts
<1>3. CASE Result(p) /\ UNCHANGED local
  <2>1. HooksFit' /\ hook' \in [Hooks -> Hook] /\ event' = event
    BY <1>1, <1>2, <1>3, Results
  <2> QED BY <1>3, <2>1, Aside, AsideTypes DEF Ping, place, server
<1>4. CASE local' = NoLocal /\ UNCHANGED <<hook, event>>
  <2>1. HooksFit' /\ hook' \in [Hooks -> Hook]
    BY <1>2, <1>4 DEF Inv, TypeOK, HooksFit, InHand, Told, Known
  <2> QED BY <1>4, <2>1, Aside, AsideTypes DEF Ping, place, server
<1> QED BY <1>3, <1>4 DEF Ping

LEMMA EndedTyped == ASSUME Inv, NEW r, Ended(r) PROVE run' \in [Ids -> Run]
<1>1. CASE r \in Ids
  BY <1>1, AsideTypes DEF Ended, Run
<1>2. CASE r \notin Ids
  <2>1. run' = run
    BY <1>2, AsideTypes DEF Ended
  <2> QED BY <2>1, AsideTypes
<1> QED BY <1>1, <1>2

LEMMA FinishOldKeeps == ASSUME Inv, NEW p \in Hooks, FinishOld(p) PROVE Inv'
<1>1. hook[p].phase \in Working /\ ~ At(p, "removing")
  BY DEF FinishOld, At, Working
<1>2. UNCHANGED <<fired, event, printed>>
  BY DEF FinishOld, ghosts
<1>3. HooksFit' /\ hook' \in [Hooks -> Hook]
  <2>1. CASE To(p, "forgetting")
    <3>1. "forgetting" \in Working
      BY DEF Working
    <3> QED BY <1>1, <1>2, <2>1, <3>1, Moves
  <2>2. CASE AfterFailure(p)
    BY <1>1, <1>2, <2>2, Leaves DEF AfterFailure
  <2> QED BY <2>1, <2>2 DEF FinishOld
<1>4. run' \in [Ids -> Run]
  BY EndedTyped DEF FinishOld
<1> QED BY <1>2, <1>3, <1>4, Aside, AsideTypes DEF FinishOld, disk, place

LEMMA PostStartKeeps == ASSUME Inv, NEW p \in Hooks, PostStart(p) PROVE Inv'
<1>1. hook[p].phase \in Working /\ ~ At(p, "removing") /\ {"saving", "discarding"} \subseteq Working
  BY DEF PostStart, At, Working
<1>2. UNCHANGED <<fired, event, printed>>
  BY DEF PostStart, ghosts
<1>3. HooksFit' /\ hook' \in [Hooks -> Hook]
  <2>1. CASE To(p, "saving")
    BY <1>1, <1>2, <2>1, Moves
  <2>2. CASE To(p, "discarding")
    BY <1>1, <1>2, <2>2, Moves
  <2>3. CASE AfterFailure(p)
    BY <1>1, <1>2, <2>3, Leaves DEF AfterFailure
  <2> QED BY <2>1, <2>2, <2>3 DEF PostStart
<1>4. Item(p) \in Ids /\ hook[p].copy[Item(p)] \in File
  BY <1>1, KnownAreIds DEF Inv, TypeOK, HooksFit, InHand, Item, Hook
<1> DEFINE x == [state |-> "live", request |-> hook[p].copy[Item(p)].request]
<1>5. x \in Run
  BY <1>4 DEF Run, File
<1>7. run' = run \/ run' = [run EXCEPT ![Item(p)] = x]
  BY DEF PostStart
<1>6. run' \in [Ids -> Run]
  <2> HIDE DEF x
  <2> QED BY <1>5, <1>7, AsideTypes
<1> QED BY <1>2, <1>3, <1>6, Aside, AsideTypes DEF PostStart, disk, place

LEMMA ForgetOldKeeps == ASSUME Inv, NEW p \in Hooks, ForgetOld(p) PROVE Inv'
<1> DEFINE h == [hook[p] EXCEPT !.phase = "starting", !.copy[Item(p)].request = NoRequest]
<1>6. hook' = [hook EXCEPT ![p] = h]
  BY Zenon DEF ForgetOld
<1>1. /\ hook[p] \in Hook /\ InHand(hook[p]) /\ Told(hook[p]) /\ hook[p].phase = "forgetting"
      /\ hook' = [hook EXCEPT ![p] = h] /\ UNCHANGED <<fired, event, printed>>
  BY <1>6 DEF Inv, TypeOK, HooksFit, ForgetOld, At, ghosts
<1>7. Item(p) \in Ids /\ hook[p].copy[Item(p)] \in File
  BY <1>1, KnownAreIds DEF Inv, TypeOK, InHand, Working, Item, Hook
<1>2. h \in Hook
  BY <1>1, <1>7, BlankTyped DEF Hook, File
<1>3. /\ h.phase = "starting" /\ h.item = hook[p].item /\ h.todo = hook[p].todo /\ h.done = hook[p].done
      /\ h.quiet = hook[p].quiet /\ h.said = hook[p].said
  BY <1>1 DEF Hook
<1>4. InHand(h) /\ Told(h)
  BY <1>1, <1>3 DEF InHand, Told, Working
<1> HIDE DEF h
<1>5. HooksFit' /\ hook' \in [Hooks -> Hook]
  BY <1>1, <1>2, <1>4, Replaced
<1> QED BY <1>1, <1>5, Aside, AsideTypes DEF ForgetOld, place, server

LEMMA FreezeKeeps == ASSUME Inv, NEW p \in Hooks, Freeze(p) PROVE Inv'
<1> DEFINE h == [hook[p] EXCEPT !.phase = "posting", !.owned = 0, !.copy[Item(p)].request = tree]
<1>1. /\ hook[p] \in Hook /\ InHand(hook[p]) /\ Told(hook[p]) /\ hook[p].phase = "starting"
      /\ UNCHANGED <<fired, event, printed>>
  BY DEF Inv, TypeOK, HooksFit, Freeze, At, ghosts
<1>2. Item(p) \in Ids /\ hook[p].copy[Item(p)] \in File /\ tree \in Request
  BY <1>1, KnownAreIds, BlankTyped DEF Inv, TypeOK, InHand, Working, Item, Hook
<1>3. CASE AfterFailure(p) /\ UNCHANGED file
  <2>1. HooksFit' /\ hook' \in [Hooks -> Hook]
    BY <1>1, <1>3, Leaves DEF AfterFailure, At
  <2> QED BY <1>1, <1>3, <2>1, Aside, AsideTypes DEF Freeze, place, server
<1>4. CASE /\ file' = [file EXCEPT ![Item(p)] = [hook[p].copy[Item(p)] EXCEPT !.request = tree]]
           /\ hook' = [hook EXCEPT ![p] = h]
  <2>1. h \in Hook
    BY <1>1, <1>2 DEF Hook, File
  <2>2. /\ h.phase = "posting" /\ h.item = hook[p].item /\ h.todo = hook[p].todo /\ h.done = hook[p].done
        /\ h.quiet = hook[p].quiet /\ h.said = hook[p].said
    BY <1>1 DEF Hook
  <2>3. InHand(h) /\ Told(h)
    BY <1>1, <2>2 DEF InHand, Told, Working
  <2> HIDE DEF h
  <2>4. HooksFit' /\ hook' \in [Hooks -> Hook]
    BY <1>1, <1>4, <2>1, <2>3, Replaced
  <2>5. file' \in [Ids -> File]
    BY <1>2, <1>4, AsideTypes DEF File
  <2> QED BY <1>1, <2>4, <2>5, Aside, AsideTypes DEF Freeze, place, server
<1> QED BY <1>3, <1>4 DEF Freeze

LEMMA ResendKeeps == ASSUME Inv, NEW p \in Hooks, Resend(p) PROVE Inv'
<1> DEFINE h == [hook[p] EXCEPT !.phase = "posting", !.owned = local.run]
<1>1. /\ hook[p] \in Hook /\ InHand(hook[p]) /\ Told(hook[p]) /\ hook[p].phase = "starting"
      /\ hook' = [hook EXCEPT ![p] = h] /\ UNCHANGED <<fired, event, printed>>
  BY DEF Inv, TypeOK, HooksFit, Resend, At, ghosts
<1>2. h \in Hook
  BY <1>1, AsideTypes DEF Hook
<1>3. InHand(h) /\ Told(h)
  BY <1>1 DEF InHand, Told, Working, Hook
<1> HIDE DEF h
<1>4. HooksFit' /\ hook' \in [Hooks -> Hook]
  BY <1>1, <1>2, <1>3, Replaced
<1> QED BY <1>1, <1>4, Aside, AsideTypes DEF Resend, disk, place, server

LEMMA SaveKeeps == ASSUME Inv, NEW p \in Hooks, Save(p) PROVE Inv'
<1>1. hook[p].phase \in Working /\ "noting" \in Working /\ UNCHANGED <<fired, event, printed>>
  BY DEF Save, At, Working, ghosts
<1>2. HooksFit' /\ hook' \in [Hooks -> Hook]
  BY <1>1, Moves DEF Save
<1>3. local' \in [run : Ids \cup {0}, branch : Branches \cup {None}]
  <2>1. Item(p) \in Ids /\ tree.branch \in Branches
    BY <1>1, KnownAreIds, SetsAssumption DEF Inv, TypeOK, HooksFit, InHand, Item
  <2> QED BY <2>1, AsideTypes DEF Save
<1> QED BY <1>1, <1>2, <1>3, Aside, AsideTypes DEF Save, place, server

LEMMA StoreNoticeKeeps == ASSUME Inv, NEW p \in Hooks, StoreNotice(p) PROVE Inv'
<1>1. /\ hook[p].phase \in Working /\ ~ At(p, "removing") /\ UNCHANGED <<fired, printed>>
      /\ hook[p] \in Hook /\ InHand(hook[p])
  BY DEF StoreNotice, At, Working, ghosts, Inv, HooksFit
<1>2. Item(p) \in Ids /\ hook[p].copy[Item(p)] \in File
  BY <1>1, KnownAreIds DEF Inv, TypeOK, InHand, Item, Hook
<1>3. HooksFit' /\ hook' \in [Hooks -> Hook] /\ event' = event
  <2>1. CASE Result(p)
    BY <1>1, <2>1, Results
  <2>2. CASE AfterFailure(p) /\ UNCHANGED <<file, event>>
    BY <1>1, <2>2, Leaves DEF AfterFailure
  <2> QED BY <2>1, <2>2 DEF StoreNotice
<1>4. file' \in [Ids -> File]
  <2>1. [hook[p].copy[Item(p)] EXCEPT !.notice = TRUE] \in File
    BY <1>2 DEF File
  <2>2. file' = file \/ file' = [file EXCEPT ![Item(p)] = [hook[p].copy[Item(p)] EXCEPT !.notice = TRUE]]
    BY DEF StoreNotice
  <2> QED BY <2>1, <2>2, AsideTypes
<1> QED BY <1>3, <1>4, Aside, AsideTypes DEF StoreNotice, place, server

LEMMA GoOnKeeps == ASSUME Inv, NEW p \in Hooks, GoOn(p) PROVE Inv'
<1> DEFINE h == [hook[p] EXCEPT !.phase = Route("heartbeat"), !.owned = local.run, !.quiet = FALSE]
<1>1. /\ hook[p] \in Hook /\ InHand(hook[p]) /\ Told(hook[p]) /\ hook[p].phase = "routing"
      /\ UNCHANGED <<fired, printed>>
  BY DEF Inv, TypeOK, HooksFit, GoOn, At, ghosts
<1>2. HooksFit' /\ hook' \in [Hooks -> Hook] /\ event' = event
  <2>1. CASE Handled(p, FALSE)
    <3>1. event[Item(p)].kind # "start" /\ hook[p].phase \in Working
      BY <1>1 DEF InHand, Item, Working
    <3> QED BY <1>1, <2>1, <3>1, Handles
  <2>2. CASE local.run # 0 /\ hook' = [hook EXCEPT ![p] = h] /\ UNCHANGED event
    <3>1. Route("heartbeat") \in {"switching", "beating"}
      BY <2>2 DEF Route
    <3>2. h \in Hook
      BY <1>1, <3>1, AsideTypes DEF Hook
    <3>3. h.phase = "beating" => h.owned \in Ids
      BY <1>1, <2>2, AsideTypes DEF Hook
    <3>4. /\ h.phase \in {"switching", "beating"} /\ h.item = hook[p].item /\ h.todo = hook[p].todo
          /\ h.done = hook[p].done /\ h.said = hook[p].said /\ h.quiet = FALSE
      BY <1>1, <3>1 DEF Hook
    <3>5. InHand(h) /\ Told(h)
      BY <1>1, <3>3, <3>4 DEF InHand, Told, Working
    <3> HIDE DEF h
    <3> QED BY <1>1, <2>2, <3>2, <3>5, Replaced
  <2> QED BY <2>1, <2>2 DEF GoOn
<1> QED BY <1>2, Aside, AsideTypes DEF GoOn, disk, place, server

LEMMA RouteFits ==
  ASSUME Inv, NEW kind \in Kinds, ~ (kind = "finish" /\ local.run = 0)
  PROVE  /\ Route(kind) \in {"finishing", "switching", "beating", "starting"}
         /\ Route(kind) \in {"beating", "finishing"} => local.run \in Ids
         /\ Route(kind) = "finishing" => kind = "finish"
         /\ Route(kind) = "beating" => kind = "heartbeat"
  BY AsideTypes DEF Route, Kinds

LEMMA PickKeeps == ASSUME Inv, NEW p \in Hooks, Pick(p) PROVE Inv'
<1>1. /\ hook[p] \in Hook /\ InHand(hook[p]) /\ Told(hook[p]) /\ hook[p].phase = "next"
      /\ UNCHANGED <<fired, event, printed>>
  BY DEF Inv, TypeOK, HooksFit, Pick, At, ghosts
<1> DEFINE kind(e) == event[e].kind
           idle(e) == kind(e) = "finish" /\ local.run = 0
           h(e) == [hook[p] EXCEPT !.item = e, !.todo = @ \ {e}, !.owned = local.run,
                      !.quiet = (kind(e) = "heartbeat" /\ local.run = 0),
                      !.done  = IF idle(e) THEN @ \cup {e} ELSE @,
                      !.phase = IF idle(e) THEN @ ELSE Route(kind(e))]
<1>2. PICK e \in hook[p].todo : hook' = [hook EXCEPT ![p] = h(e)]
  BY Zenon DEF Pick, Oldest
<1>3. e \in Known /\ e \in Ids /\ Known \subseteq Ids /\ kind(e) \in Kinds
  BY <1>1, KnownAreIds DEF Inv, TypeOK, InHand, Event
<1>4. idle(e) \/ Route(kind(e)) \in {"finishing", "switching", "beating", "starting"}
  BY <1>3, RouteFits
<1>5. h(e) \in Hook
  BY <1>1, <1>3, <1>4, AsideTypes DEF Hook
<1>6. /\ h(e).item = e /\ h(e).todo = hook[p].todo \ {e} /\ h(e).owned = local.run
      /\ h(e).quiet = (kind(e) = "heartbeat" /\ local.run = 0)
      /\ h(e).done = (IF idle(e) THEN hook[p].done \cup {e} ELSE hook[p].done)
      /\ h(e).phase = (IF idle(e) THEN "next" ELSE Route(kind(e)))
      /\ h(e).said = hook[p].said
  BY <1>1 DEF Hook
<1>7. InHand(h(e)) /\ Told(h(e))
  <2>1. CASE idle(e)
    <3>1. /\ h(e).phase = "next" /\ h(e).done = hook[p].done \cup {e} /\ h(e).quiet = FALSE
          /\ h(e).todo \subseteq hook[p].todo /\ kind(e) = "finish" /\ h(e).said = hook[p].said
      BY <1>6, <2>1
    <3> HIDE DEF h
    <3>2. InHand(h(e))
      BY <1>1, <1>3, <3>1 DEF InHand, Working
    <3>3. Told(h(e))
      BY <1>1, <3>1 DEF Told
    <3> QED BY <3>2, <3>3
  <2>2. CASE ~ idle(e)
    <3>1. h(e).phase = Route(kind(e)) /\ h(e).done = hook[p].done
      BY <1>6, <2>2
    <3>2. /\ Route(kind(e)) \in {"finishing", "switching", "beating", "starting"}
          /\ Route(kind(e)) \in {"beating", "finishing"} => local.run \in Ids
          /\ Route(kind(e)) = "finishing" => kind(e) = "finish"
          /\ Route(kind(e)) = "beating" => kind(e) = "heartbeat"
      BY <1>3, <2>2, RouteFits
    <3> HIDE DEF h
    <3>3. InHand(h(e))
      BY <1>1, <1>3, <1>6, <3>1, <3>2 DEF InHand, Working
    <3>4. Told(h(e))
      BY <1>1, <1>6, <3>1, <3>2 DEF Told
    <3> QED BY <3>3, <3>4
  <2> QED BY <2>1, <2>2
<1> HIDE DEF h
<1>8. HooksFit' /\ hook' \in [Hooks -> Hook]
  BY <1>1, <1>2, <1>5, <1>7, Replaced
<1> QED BY <1>1, <1>8, Aside, AsideTypes DEF Pick, disk, place, server

LEMMA ReportsTyped ==
  ASSUME Inv, NEW e \in Ids, NEW r \in Ids, Reports(e, r)
  PROVE  reported' \subseteq [event : Ids, run : Ids, tree : Trees]
  BY DEF Reports, Inv, TypeOK

LEMMA BeatKeeps == ASSUME Inv, NEW p \in Hooks, Beat(p) PROVE Inv'
<1>1. /\ hook[p].phase = "beating" /\ InHand(hook[p]) /\ UNCHANGED <<fired, printed>>
      /\ "discarding" \in Working /\ hook[p].phase \in Working /\ ~ At(p, "removing")
  BY DEF Beat, At, Working, ghosts, Inv, HooksFit
<1>2. Item(p) \in Ids /\ hook[p].owned \in Ids /\ event[Item(p)].kind # "start"
  BY <1>1, KnownAreIds DEF Inv, TypeOK, InHand, Item
<1>3. HooksFit' /\ hook' \in [Hooks -> Hook] /\ event' = event
  <2>1. CASE Handled(p, FALSE)
    BY <1>1, <1>2, <2>1, Handles
  <2>2. CASE AfterFailure(p) /\ UNCHANGED event
    BY <1>1, <2>2, Leaves DEF AfterFailure
  <2>3. CASE To(p, "discarding") /\ UNCHANGED event
    BY <1>1, <2>3, Moves
  <2> QED BY <2>1, <2>2, <2>3 DEF Beat
<1>4. local' = local \/ local' = NoLocal
  BY DEF Beat
<1>5. reported' = reported \/ Reports(Item(p), hook[p].owned)
  BY DEF Beat
<1>6. reported' \subseteq [event : Ids, run : Ids, tree : Trees]
  BY <1>2, <1>5, ReportsTyped, AsideTypes
<1> QED BY <1>3, <1>4, <1>6, Aside, AsideTypes DEF Beat, place

LEMMA FinishKeeps == ASSUME Inv, NEW p \in Hooks, Finish(p) PROVE Inv'
<1>1. /\ hook[p].phase = "finishing" /\ InHand(hook[p]) /\ UNCHANGED <<fired, event, printed>>
      /\ {"discarding", "ending"} \subseteq Working /\ hook[p].phase \in Working /\ ~ At(p, "removing")
  BY DEF Finish, At, Working, ghosts, Inv, HooksFit
<1>2. Item(p) \in Ids /\ hook[p].owned \in Ids
  BY <1>1, KnownAreIds DEF Inv, TypeOK, InHand, Item
<1>3. HooksFit' /\ hook' \in [Hooks -> Hook]
  <2>1. CASE To(p, "ending")
    BY <1>1, <2>1, Moves DEF At
  <2>2. CASE AfterFailure(p)
    BY <1>1, <2>2, Leaves DEF AfterFailure
  <2>3. CASE To(p, "discarding")
    BY <1>1, <2>3, Moves
  <2> QED BY <2>1, <2>2, <2>3 DEF Finish
<1>4. local' = local \/ local' = NoLocal
  BY DEF Finish
<1>5. reported' = reported \/ Reports(Item(p), hook[p].owned)
  BY DEF Finish, server
<1>6. reported' \subseteq [event : Ids, run : Ids, tree : Trees]
  BY <1>2, <1>5, ReportsTyped, AsideTypes
<1>7. run' \in [Ids -> Run]
  <2>1. run' = run \/ Ended(hook[p].owned)
    BY DEF Finish, server
  <2> QED BY <2>1, AsideTypes DEF Ended, Run
<1> QED BY <1>1, <1>3, <1>4, <1>6, <1>7, Aside, AsideTypes DEF Finish, place

LEMMA ForgetFinishedKeeps == ASSUME Inv, NEW p \in Hooks, ForgetFinished(p) PROVE Inv'
<1>1. /\ hook[p].phase = "ending" /\ hook[p].phase \in Working /\ InHand(hook[p]) /\ UNCHANGED <<fired, printed>>
  BY DEF ForgetFinished, At, Working, ghosts, Inv, HooksFit
<1>2. event[Item(p)].kind # "start"
  BY <1>1 DEF InHand, Item
<1>3. HooksFit' /\ hook' \in [Hooks -> Hook] /\ event' = event
  BY <1>1, <1>2, Handles DEF ForgetFinished
<1> QED BY <1>3, Aside, AsideTypes DEF ForgetFinished, place, server

-----------------------------------------------------------------------------
(* The steps that store, remove and count events, and those around the hooks *)

(* A reported event changes: what is now delivered was printed, what is now lost is counted. *)
Accounted(e) ==
  /\ e \in Known
  /\ event'[e].state = "delivered" /\ event[e].kind = "start" => e \in printed
  /\ event'[e].state \in {"overflow", "dropped"} => e \in counted' \cup cut'

(* The events change, each keeping its kind and accounted for. *)
LEMMA Among ==
  ASSUME Inv, HooksFit', hook' \in [Hooks -> Hook], fired' = fired,
         event' \in [Ids -> Event], file' \in [Ids -> File],
         \A e \in Ids : event'[e].kind = event[e].kind /\ (event'[e].state = event[e].state \/ Accounted(e)),
         printed' = printed, counted \subseteq counted', cut \subseteq cut',
         UNCHANGED <<local, tree, server, refused>>,
         lock' \in [by : Hooks \cup {None}, dead : BOOLEAN],
         mishaps' \in 0 .. MaxMishaps, counted' \subseteq Ids, cut' \subseteq Ids,
         overtook' \in BOOLEAN, stolen' \in BOOLEAN, again' \in BOOLEAN
  PROVE  Inv'
<1>1. Stored' /\ PromptIsAnswered' /\ LossesAreCounted'
  BY DEF Inv, Stored, Known, PromptIsAnswered, LossesAreCounted, Accounted
<1>2. TypeOK'
  BY DEF Inv, TypeOK, server
<1> QED BY <1>1, <1>2 DEF Inv

LEMMA Removal ==
  ASSUME Inv, NEW e \in Ids, NEW st \in {"delivered", "dropped"}, Remove(e, st)
  PROVE  /\ event' \in [Ids -> Event] /\ file' \in [Ids -> File]
         /\ \A f \in Ids : /\ event'[f].kind = event[f].kind
                           /\ event'[f].state = event[f].state \/ (f = e /\ event'[f].state = st)
<1>1. event \in [Ids -> Event] /\ file \in [Ids -> File]
  BY DEF Inv, TypeOK
<1>2. file' \in [Ids -> File]
  BY <1>1, BlankTyped DEF Remove
<1>3. event' = event \/ event' = [event EXCEPT ![e].state = st]
  BY DEF Remove
<1>4. event' \in [Ids -> Event]
  BY <1>1, <1>3 DEF Event
<1>5. \A f \in Ids : /\ event'[f].kind = event[f].kind
                     /\ event'[f].state = event[f].state \/ (f = e /\ event'[f].state = st)
  BY <1>1, <1>3 DEF Event
<1> QED BY <1>2, <1>4, <1>5

LEMMA DiscardKeeps == ASSUME Inv, NEW p \in Hooks, Discard(p) PROVE Inv'
<1> DEFINE e == Item(p)
<1>1. /\ hook[p].phase \in Working /\ UNCHANGED <<fired, printed, cut, refused, mishaps, tree, overtook, stolen, again, local, lock, server>>
      /\ hook[p] \in Hook /\ InHand(hook[p]) /\ Told(hook[p])
  BY DEF Discard, At, Working, ghosts, place, Inv, HooksFit
<1>2. e \in Ids /\ e \in Known
  BY <1>1, KnownAreIds DEF Inv, TypeOK, InHand, Item
<1>3. Remove(e, "dropped") /\ counted' = counted \cup {e} /\ hook' = [hook EXCEPT ![p] = Past(p)]
  BY DEF Discard, Count
<1>4. /\ event' \in [Ids -> Event] /\ file' \in [Ids -> File]
      /\ \A f \in Ids : /\ event'[f].kind = event[f].kind
                        /\ event'[f].state = event[f].state \/ (f = e /\ event'[f].state = "dropped")
  BY <1>2, <1>3, Removal
<1>5. Past(p) \in Hook
  BY <1>1, <1>2, BlankTyped DEF Past, Hook
<1>6. /\ Past(p).phase = "next" /\ Past(p).done = hook[p].done /\ Past(p).said = hook[p].said
      /\ Past(p).todo = hook[p].todo /\ Past(p).quiet = FALSE
  BY <1>1 DEF Past, Hook
<1>7. InHand(Past(p)) /\ Told(Past(p))
  BY <1>1, <1>6 DEF InHand, Told, Working
<1>8. HooksFit' /\ hook' \in [Hooks -> Hook]
  BY <1>1, <1>3, <1>4, <1>5, <1>7, Replaced
<1>9. mishaps \in 0 .. MaxMishaps /\ counted \subseteq Ids /\ cut \subseteq Ids /\ overtook \in BOOLEAN
      /\ stolen \in BOOLEAN /\ again \in BOOLEAN
  BY DEF Inv, TypeOK
<1> HIDE DEF e
<1>10. \A f \in Ids : event'[f].kind = event[f].kind /\ (event'[f].state = event[f].state \/ Accounted(f))
  BY <1>2, <1>3, <1>4 DEF Accounted
<1>11. counted \subseteq counted' /\ cut \subseteq cut' /\ counted' \subseteq Ids /\ cut' \subseteq Ids
  BY <1>1, <1>2, <1>3, <1>9
<1>12. mishaps' \in 0 .. MaxMishaps /\ overtook' \in BOOLEAN /\ stolen' \in BOOLEAN /\ again' \in BOOLEAN
  BY <1>1, <1>9
<1>13. lock' \in [by : Hooks \cup {None}, dead : BOOLEAN] /\ UNCHANGED <<local, tree, server, refused>>
  BY <1>1, AsideTypes
<1>14. fired' = fired /\ printed' = printed
  BY <1>1
<1> QED BY ONLY Inv, <1>4, <1>8, <1>10, <1>11, <1>12, <1>13, <1>14, Among

LEMMA MarkDeliveredKeeps == ASSUME Inv, NEW p \in Hooks, MarkDelivered(p) PROVE Inv'
<1>1. /\ hook[p].phase = "removing"
      /\ UNCHANGED <<fired, printed, cut, refused, counted, mishaps, tree, overtook, stolen, again, local, lock, server>>
      /\ hook[p] \in Hook /\ InHand(hook[p]) /\ Told(hook[p])
  BY DEF MarkDelivered, At, ghosts, place, Inv, HooksFit
<1> DEFINE h(e) == [hook[p] EXCEPT !.done = @ \ {e}]
<1>2. PICK e \in hook[p].done : Remove(e, "delivered") /\ hook' = [hook EXCEPT ![p] = h(e)]
  BY Zenon DEF MarkDelivered, Oldest
<1>3. e \in Ids /\ e \in Known
  BY <1>1, KnownAreIds DEF Inv, TypeOK, InHand
<1>4. /\ event' \in [Ids -> Event] /\ file' \in [Ids -> File]
      /\ \A f \in Ids : /\ event'[f].kind = event[f].kind
                        /\ event'[f].state = event[f].state \/ (f = e /\ event'[f].state = "delivered")
  BY <1>2, <1>3, Removal
<1>5. event[e].kind = "start" => e \in printed
  BY <1>1 DEF Told
<1>6. h(e) \in Hook
  BY <1>1 DEF Hook
<1>7. InHand(h(e)) /\ Told(h(e))
  BY <1>1 DEF InHand, Told, Working, Hook
<1> HIDE DEF h
<1>8. HooksFit' /\ hook' \in [Hooks -> Hook]
  BY <1>1, <1>2, <1>4, <1>6, <1>7, Replaced
<1>9. mishaps \in 0 .. MaxMishaps /\ counted \subseteq Ids /\ cut \subseteq Ids /\ overtook \in BOOLEAN
      /\ stolen \in BOOLEAN /\ again \in BOOLEAN
  BY DEF Inv, TypeOK
<1>10. \A f \in Ids : event'[f].kind = event[f].kind /\ (event'[f].state = event[f].state \/ Accounted(f))
  BY <1>3, <1>4, <1>5 DEF Accounted
<1>11. counted \subseteq counted' /\ cut \subseteq cut' /\ counted' \subseteq Ids /\ cut' \subseteq Ids
  BY <1>1, <1>9
<1>12. mishaps' \in 0 .. MaxMishaps /\ overtook' \in BOOLEAN /\ stolen' \in BOOLEAN /\ again' \in BOOLEAN
  BY <1>1, <1>9
<1>13. lock' \in [by : Hooks \cup {None}, dead : BOOLEAN] /\ UNCHANGED <<local, tree, server, refused>>
  BY <1>1, AsideTypes
<1>14. fired' = fired /\ printed' = printed
  BY <1>1
<1> QED BY ONLY Inv, <1>4, <1>8, <1>10, <1>11, <1>12, <1>13, <1>14, Among

LEMMA FireKeeps == ASSUME Inv, NEW p \in Hooks, NEW kind \in Kinds, Fire(p, kind) PROVE Inv'
<1>1. /\ hook[p] \in Hook /\ InHand(hook[p]) /\ Told(hook[p]) /\ hook[p].phase = "idle"
      /\ fired < MaxEvents /\ fired' = fired + 1 /\ UNCHANGED <<disk, place, server, ghosts>>
      /\ fired \in 0 .. MaxEvents /\ event \in [Ids -> Event] /\ hook \in [Hooks -> Hook]
  BY DEF Inv, TypeOK, HooksFit, Fire, At
<1> DEFINE n == fired + 1
           h == [hook[p] EXCEPT !.phase = "stamped", !.current = n]
           x == [kind |-> kind, state |-> "stamped"]
<1>2. hook' = [hook EXCEPT ![p] = h] /\ event' = [event EXCEPT ![n] = x]
  BY DEF Fire
<1>3. /\ n \in Ids /\ fired' = n /\ n \in 0 .. MaxEvents /\ x \in Event
      /\ Known \subseteq Ids /\ Known \subseteq Known' /\ n \in Known' /\ n \notin Known
  BY <1>1, BoundsAssumption DEF Ids, Known, Event, Kinds
<1>4. h \in Hook
  BY <1>1, <1>3 DEF Hook
<1> HIDE DEF n
<1>5. event' \in [Ids -> Event] /\ \A e \in Ids \ {n} : event'[e] = event[e]
  <2> HIDE DEF x
  <2> QED BY <1>1, <1>2, <1>3
<1>6. ASSUME NEW k \in Hook, InHand(k), Told(k) PROVE InHand(k)' /\ Told(k)'
  <2>1. k.phase \in Working => k.item \in Known
    BY <1>6 DEF InHand
  <2>2. {"routing", "beating", "finishing", "ending"} \subseteq Working
    BY DEF Working
  <2>3. \A e \in Known : event'[e] = event[e]
    BY <1>3, <1>5
  <2>4. k.quiet => k.phase \in Working /\ event'[k.item].kind = "heartbeat"
    BY <1>6, <2>1, <2>3 DEF InHand
  <2>5. /\ k.phase \in {"routing", "beating"} => event'[k.item].kind = "heartbeat"
        /\ k.phase \in {"finishing", "ending"} => event'[k.item].kind = "finish"
    BY <1>6, <2>1, <2>2, <2>3 DEF InHand
  <2>6. InHand(k)'
    BY <1>3, <1>6, <2>4, <2>5 DEF InHand
  <2>7. k.done \subseteq Known
    BY <1>6 DEF InHand
  <2>8. Told(k)'
    BY <1>1, <1>6, <2>3, <2>7 DEF Told, ghosts
  <2> QED BY <2>6, <2>8
<1>7. ~ hook[p].quiet
  BY <1>1 DEF InHand, Working
<1>8. ASSUME NEW q \in Hooks PROVE hook'[q] \in Hook /\ InHand(hook[q])' /\ Told(hook[q])'
  <2>1. PICK k : k = hook[q]
    OBVIOUS
  <2>2. k \in Hook /\ InHand(k) /\ Told(k)
    BY <2>1 DEF Inv, HooksFit
  <2>3. InHand(k)' /\ Told(k)'
    BY <2>2, <1>6
  <2>4. CASE q # p
    <3>1. hook'[q] = k
      BY <1>1, <1>2, <2>1, <2>4
    <3>2. InHand(hook[q])'
      BY <2>3, <3>1 DEF InHand
    <3>3. Told(hook[q])'
      BY <2>3, <3>1 DEF Told
    <3> QED BY <2>2, <3>1, <3>2, <3>3
  <2>5. CASE q = p
    <3>1. hook'[q] = h
      BY <1>1, <1>2, <2>5
    <3>2. /\ h.phase = "stamped" /\ h.current = n /\ h.todo = k.todo /\ h.done = k.done /\ ~ h.quiet
          /\ h.said = k.said /\ k.phase = "idle"
      BY <1>1, <1>7, <2>1, <2>5 DEF Hook
    <3> HIDE DEF h
    <3>3. InHand(hook[q])'
      BY <1>3, <2>3, <3>1, <3>2 DEF InHand, Working
    <3>4. Told(hook[q])'
      BY <2>3, <3>1, <3>2 DEF Told
    <3> QED BY <1>4, <3>1, <3>3, <3>4
  <2> QED BY <2>4, <2>5
<1>9. HooksFit' /\ hook' \in [Hooks -> Hook]
  <2> HIDE DEF h
  <2> QED BY <1>1, <1>2, <1>4, <1>8 DEF HooksFit
<1>10. Stored'
  BY <1>3, <1>5 DEF Inv, Stored
<1>11. event'[n].state = "stamped"
  BY <1>1, <1>2, <1>3
<1>12. PromptIsAnswered' /\ LossesAreCounted'
  BY <1>1, <1>5, <1>11 DEF Inv, PromptIsAnswered, LossesAreCounted, disk, ghosts
<1>13. TypeOK'
  BY <1>1, <1>3, <1>5, <1>9 DEF Inv, TypeOK, disk, place, server, ghosts
<1> QED BY <1>9, <1>10, <1>12, <1>13 DEF Inv

LEMMA EnqueueKeeps == ASSUME Inv, NEW p \in Hooks, Enqueue(p) PROVE Inv'
<1> DEFINE e == hook[p].current
           h == [Idle EXCEPT !.phase = "queued"]
<1>1. /\ e \in Known /\ e \in Ids
      /\ UNCHANGED <<fired, file, local, lock, tree, mishaps, server, printed, cut, refused, stolen, again>>
  BY KnownAreIds DEF Inv, TypeOK, HooksFit, InHand, Enqueue, At, place
<1>2. h \in Hook /\ InHand(h) /\ Told(h)
  BY IdleFits DEF Hook, InHand, Told, Working, Idle
<1>3. hook' = [hook EXCEPT ![p] = Idle] \/ hook' = [hook EXCEPT ![p] = h]
  BY DEF Enqueue
<1>4. PICK st \in {"queued", "overflow"} : /\ event' = [event EXCEPT ![e].state = st]
                                           /\ st = "overflow" => counted' = counted \cup {e}
  BY DEF Enqueue
<1>5. /\ event' \in [Ids -> Event]
      /\ \A f \in Ids : /\ event'[f].kind = event[f].kind
                        /\ event'[f].state = event[f].state \/ (f = e /\ event'[f].state = st)
  <2>1. event \in [Ids -> Event]
    BY DEF Inv, TypeOK
  <2> HIDE DEF e
  <2> QED BY <1>1, <1>4, <2>1 DEF Event
<1>6. HooksFit' /\ hook' \in [Hooks -> Hook]
  <2> HIDE DEF h
  <2>1. CASE hook' = [hook EXCEPT ![p] = h]
    BY <1>1, <1>2, <1>5, <2>1, Replaced
  <2>2. CASE hook' = [hook EXCEPT ![p] = Idle]
    BY <1>1, <1>5, <2>2, IdleFits, Replaced
  <2> QED BY <1>3, <2>1, <2>2
<1>7. mishaps \in 0 .. MaxMishaps /\ counted \subseteq Ids /\ cut \subseteq Ids /\ overtook \in BOOLEAN
      /\ stolen \in BOOLEAN /\ again \in BOOLEAN /\ file \in [Ids -> File]
  BY DEF Inv, TypeOK
<1>8. counted' = counted \cup {e} \/ counted' = counted
  BY DEF Enqueue
<1>9. overtook' \in BOOLEAN
  BY <1>7 DEF Enqueue, Overtaken
<1> HIDE DEF e
<1>10. \A f \in Ids : event'[f].kind = event[f].kind /\ (event'[f].state = event[f].state \/ Accounted(f))
  BY <1>1, <1>4, <1>5 DEF Accounted
<1>11. counted \subseteq counted' /\ cut \subseteq cut' /\ counted' \subseteq Ids /\ cut' \subseteq Ids
  BY <1>1, <1>7, <1>8
<1>12. mishaps' \in 0 .. MaxMishaps /\ stolen' \in BOOLEAN /\ again' \in BOOLEAN /\ file' \in [Ids -> File]
  BY <1>1, <1>7
<1>13. lock' \in [by : Hooks \cup {None}, dead : BOOLEAN] /\ UNCHANGED <<local, tree, server, refused>>
  BY <1>1, AsideTypes
<1>14. fired' = fired /\ printed' = printed
  BY <1>1
<1> QED BY ONLY Inv, <1>5, <1>6, <1>9, <1>10, <1>11, <1>12, <1>13, <1>14, Among

LEMMA TakeLockKeeps == ASSUME Inv, NEW p \in Hooks, TakeLock(p) PROVE Inv'
<1> DEFINE h == [hook[p] EXCEPT !.phase = "next", !.todo = Queued,
                   !.copy = [e \in Ids |-> IF e \in Queued THEN file[e] ELSE Blank]]
           k == [hook[p] EXCEPT !.phase = "looking"]
<1>1. /\ hook[p] \in Hook /\ InHand(hook[p]) /\ Told(hook[p]) /\ hook[p].phase = "queued"
      /\ UNCHANGED <<fired, event, file, local, counted, place, server, ghosts>>
  BY DEF Inv, TypeOK, HooksFit, TakeLock, At
<1>2. Queued \subseteq Known /\ Queued \subseteq Ids
  BY DEF Inv, Stored, Queued
<1>3. ~ hook[p].quiet
  BY <1>1 DEF InHand, Working
<1>4. h \in Hook /\ InHand(h) /\ Told(h)
  <2>1. [e \in Ids |-> IF e \in Queued THEN file[e] ELSE Blank] \in [Ids -> File]
    BY BlankTyped, AsideTypes
  <2>2. h \in Hook
    BY <1>1, <1>2, <2>1 DEF Hook
  <2>3. /\ h.phase = "next" /\ h.todo = Queued /\ h.done = hook[p].done /\ ~ h.quiet /\ h.said = hook[p].said
    BY <1>1, <1>3 DEF Hook
  <2>4. InHand(h) /\ Told(h)
    BY <1>1, <1>2, <2>3 DEF InHand, Told, Working
  <2> QED BY <2>2, <2>4
<1>5. k \in Hook /\ InHand(k) /\ Told(k)
  BY <1>1, <1>3 DEF Hook, InHand, Told, Working
<1>6. hook' = [hook EXCEPT ![p] = h] \/ hook' = [hook EXCEPT ![p] = k]
  BY DEF TakeLock, To
<1>7. HooksFit' /\ hook' \in [Hooks -> Hook]
  <2> HIDE DEF h, k
  <2>1. CASE hook' = [hook EXCEPT ![p] = h]
    BY <1>1, <1>4, <2>1, Replaced DEF ghosts
  <2>2. CASE hook' = [hook EXCEPT ![p] = k]
    BY <1>1, <1>5, <2>2, Replaced DEF ghosts
  <2> QED BY <1>6, <2>1, <2>2
<1>8. lock' \in [by : Hooks \cup {None}, dead : BOOLEAN]
  <2>1. lock' = lock \/ lock' = [by |-> p, dead |-> FALSE]
    BY DEF TakeLock
  <2>2. [by |-> p, dead |-> FALSE] \in [by : Hooks \cup {None}, dead : BOOLEAN]
    OBVIOUS
  <2> QED BY <2>1, <2>2, AsideTypes
<1> QED BY <1>1, <1>7, <1>8, Aside, AsideTypes DEF place, server

LEMMA LookKeeps == ASSUME Inv, NEW p \in Hooks, Look(p) PROVE Inv'
<1> DEFINE k == [hook[p] EXCEPT !.phase = "stealing"]
<1>1. /\ hook[p] \in Hook /\ InHand(hook[p]) /\ Told(hook[p]) /\ hook[p].phase = "looking"
      /\ UNCHANGED <<fired, event, disk, place, server, ghosts>>
  BY DEF Inv, TypeOK, HooksFit, Look, At
<1>2. k \in Hook /\ InHand(k) /\ Told(k)
  BY <1>1 DEF Hook, InHand, Told, Working
<1>3. hook' = [hook EXCEPT ![p] = k] \/ hook' = [hook EXCEPT ![p] = Idle]
  BY DEF Look
<1>4. HooksFit' /\ hook' \in [Hooks -> Hook]
  <2> HIDE DEF k
  <2>1. CASE hook' = [hook EXCEPT ![p] = k]
    BY <1>1, <1>2, <2>1, Replaced DEF ghosts
  <2>2. CASE hook' = [hook EXCEPT ![p] = Idle]
    BY <1>1, <2>2, IdleFits, Replaced DEF ghosts
  <2> QED BY <1>3, <2>1, <2>2
<1> QED BY <1>1, <1>4, Aside, AsideTypes DEF disk, place, server

(* The lock goes, the hook's own or another's. *)
LEMMA Unlocks ==
  ASSUME Inv, NEW p \in Hooks, hook' \in [Hooks -> Hook], HooksFit', lock' = NoLock, stolen' \in BOOLEAN,
         UNCHANGED <<fired, event, file, local, counted, place, server, printed, cut, refused, overtook, again>>
  PROVE  Inv'
<1>1. Stored' /\ PromptIsAnswered' /\ LossesAreCounted'
  BY EventsStay
<1>2. TypeOK'
  BY AsideTypes DEF Inv, TypeOK, place, server
<1> QED BY <1>1, <1>2 DEF Inv

LEMMA StealKeeps == ASSUME Inv, NEW p \in Hooks, Steal(p) PROVE Inv'
<1> DEFINE k == [hook[p] EXCEPT !.phase = "queued"]
<1>1. /\ hook[p] \in Hook /\ InHand(hook[p]) /\ Told(hook[p]) /\ hook[p].phase = "stealing"
      /\ UNCHANGED <<fired, event, file, local, counted, place, server, printed, cut, refused, overtook, again>>
      /\ lock' = NoLock
  BY DEF Inv, TypeOK, HooksFit, Steal, At
<1>2. k \in Hook /\ InHand(k) /\ Told(k)
  BY <1>1 DEF Hook, InHand, Told, Working
<1>3. hook' = [hook EXCEPT ![p] = k] \/ hook' = [hook EXCEPT ![p] = Idle]
  BY DEF Steal
<1>4. HooksFit' /\ hook' \in [Hooks -> Hook]
  <2> HIDE DEF k
  <2>1. CASE hook' = [hook EXCEPT ![p] = k]
    BY <1>1, <1>2, <2>1, Replaced
  <2>2. CASE hook' = [hook EXCEPT ![p] = Idle]
    BY <1>1, <2>2, IdleFits, Replaced
  <2> QED BY <1>3, <2>1, <2>2
<1>5. stolen' \in BOOLEAN
  BY DEF Steal, Inv, TypeOK
<1> QED BY <1>1, <1>4, <1>5, Unlocks

LEMMA LeaveKeeps == ASSUME Inv, NEW p \in Hooks, Leave(p) PROVE Inv'
<1>1. /\ UNCHANGED <<fired, event, file, local, counted, place, server, printed, cut, refused, overtook, again>>
      /\ lock' = NoLock /\ hook' = [hook EXCEPT ![p] = Idle]
  BY DEF Leave
<1>2. HooksFit' /\ hook' \in [Hooks -> Hook]
  BY <1>1, IdleFits, Replaced
<1>3. stolen' \in BOOLEAN
  BY DEF Leave, Inv, TypeOK
<1> QED BY <1>1, <1>2, <1>3, Unlocks

LEMMA PrintAllKeeps == ASSUME Inv, NEW p \in Hooks, PrintAll(p) PROVE Inv'
<1> DEFINE h == [hook[p] EXCEPT !.phase = "removing", !.said = {}]
<1>1. /\ hook[p] \in Hook /\ InHand(hook[p]) /\ Told(hook[p]) /\ hook[p].phase = "printing"
      /\ UNCHANGED <<fired, event, disk, place, server, cut, refused, overtook, stolen, again>>
      /\ hook' = [hook EXCEPT ![p] = h] /\ printed' = printed \cup hook[p].said /\ hook \in [Hooks -> Hook]
  BY DEF Inv, TypeOK, HooksFit, PrintAll, At
<1>2. h \in Hook /\ h.phase = "removing" /\ h.todo = hook[p].todo /\ h.done = hook[p].done /\ h.quiet = hook[p].quiet
  BY <1>1 DEF Hook
<1> HIDE DEF h
<1>3. hook' \in [Hooks -> Hook]
  BY <1>1, <1>2
<1>4. ASSUME NEW q \in Hooks PROVE hook'[q] \in Hook /\ InHand(hook[q])' /\ Told(hook[q])'
  <2>1. CASE q = p
    <3>1. hook'[q] = h /\ UNCHANGED <<fired, event>>
      BY <1>1, <2>1
    <3>2. InHand(hook[q])'
      BY <1>1, <1>2, <3>1 DEF InHand, Working, Known
    <3>3. Told(hook[q])'
      BY <1>1, <1>2, <3>1 DEF Told
    <3> QED BY <1>3, <3>2, <3>3
  <2>2. CASE q # p
    <3>1. hook'[q] = hook[q] /\ UNCHANGED <<fired, event>> /\ InHand(hook[q]) /\ Told(hook[q])
      BY <1>1, <2>2 DEF Inv, HooksFit
    <3>2. InHand(hook[q])'
      BY <3>1 DEF InHand, Known
    <3>3. Told(hook[q])'
      BY <1>1, <3>1 DEF Told
    <3> QED BY <1>3, <3>2, <3>3
  <2> QED BY <2>1, <2>2
<1>5. HooksFit'
  BY <1>4 DEF HooksFit
<1>6. Stored' /\ PromptIsAnswered' /\ LossesAreCounted'
  BY <1>1, EventsStay DEF disk
<1>7. TypeOK'
  <2>1. hook[p].said \subseteq Ids
    BY <1>1 DEF Hook
  <2> QED BY <1>1, <1>3, <2>1 DEF Inv, TypeOK, disk, place, server
<1> QED BY <1>5, <1>6, <1>7 DEF Inv

LEMMA KillKeeps == ASSUME Inv, NEW p \in Hooks, Kill(p) PROVE Inv'
<1>1. /\ hook[p] \in Hook /\ InHand(hook[p]) /\ mishaps < MaxMishaps /\ mishaps' = mishaps + 1
      /\ UNCHANGED <<fired, local, counted, tree, server, refused, printed, overtook, stolen>>
      /\ hook' = [hook EXCEPT ![p] = Idle] /\ Known \subseteq Ids /\ event \in [Ids -> Event]
  BY KnownAreIds DEF Inv, TypeOK, HooksFit, Kill
<1>2. /\ event' \in [Ids -> Event] /\ file' \in [Ids -> File] /\ cut \subseteq cut' /\ cut' \subseteq Ids
      /\ \A f \in Ids : event'[f].kind = event[f].kind /\ (event'[f].state = event[f].state \/ Accounted(f))
  <2>1. CASE UNCHANGED <<event, file, cut>>
    BY <1>1, <2>1, AsideTypes DEF Inv, TypeOK
  <2>2. CASE At(p, "stamped") /\ event' = [event EXCEPT ![hook[p].current].state = "lost"] /\ UNCHANGED <<file, cut>>
    <3> DEFINE e == hook[p].current
    <3>1. e \in Known /\ e \in Ids
      BY <1>1, <2>2 DEF InHand, At
    <3>2. file' \in [Ids -> File] /\ cut \subseteq cut' /\ cut' \subseteq Ids
      BY <2>2, AsideTypes DEF Inv, TypeOK
    <3> HIDE DEF e
    <3>3. event' = [event EXCEPT ![e].state = "lost"]
      BY <2>2 DEF e
    <3>4. event' \in [Ids -> Event]
      BY <1>1, <3>1, <3>3 DEF Event
    <3>5. \A f \in Ids : /\ event'[f].kind = event[f].kind
                         /\ event'[f].state = event[f].state \/ (f = e /\ event'[f].state = "lost")
      BY <1>1, <3>1, <3>3 DEF Event
    <3>6. \A f \in Ids : event'[f].state = event[f].state \/ Accounted(f)
      BY <3>1, <3>5 DEF Accounted
    <3> QED BY <3>2, <3>4, <3>5, <3>6
  <2>3. CASE At(p, "discarding") /\ Remove(Item(p), "dropped") /\ cut' = cut \cup {Item(p)}
    <3> DEFINE e == Item(p)
    <3>1. e \in Known /\ e \in Ids
      BY <1>1, <2>3 DEF InHand, At, Working, Item
    <3>2. cut \subseteq cut' /\ cut' \subseteq Ids /\ e \in cut'
      BY <2>3, <3>1 DEF Inv, TypeOK
    <3> HIDE DEF e
    <3>3. Remove(e, "dropped")
      BY <2>3 DEF e
    <3>4. /\ event' \in [Ids -> Event] /\ file' \in [Ids -> File]
          /\ \A f \in Ids : /\ event'[f].kind = event[f].kind
                            /\ event'[f].state = event[f].state \/ (f = e /\ event'[f].state = "dropped")
      BY <3>1, <3>3, Removal
    <3>5. \A f \in Ids : event'[f].state = event[f].state \/ Accounted(f)
      BY <3>1, <3>2, <3>4 DEF Accounted
    <3> QED BY <3>2, <3>4, <3>5
  <2> QED BY <2>1, <2>2, <2>3 DEF Kill
<1>3. HooksFit' /\ hook' \in [Hooks -> Hook]
  BY <1>1, <1>2, IdleFits, Replaced
<1>4. /\ mishaps \in 0 .. MaxMishaps /\ counted \subseteq Ids /\ overtook \in BOOLEAN
      /\ stolen \in BOOLEAN /\ again \in BOOLEAN /\ lock \in [by : Hooks \cup {None}, dead : BOOLEAN]
  BY DEF Inv, TypeOK
<1>5. mishaps' \in 0 .. MaxMishaps /\ overtook' \in BOOLEAN /\ stolen' \in BOOLEAN
  BY <1>1, <1>4, BoundsAssumption
<1>6. again' \in BOOLEAN
  BY <1>4 DEF Kill
<1>7. lock' \in [by : Hooks \cup {None}, dead : BOOLEAN]
  <2>1. lock' = lock \/ lock' = [lock EXCEPT !.dead = TRUE]
    BY DEF Kill
  <2> QED BY <1>4, <2>1
<1>8. /\ counted \subseteq counted' /\ counted' \subseteq Ids /\ fired' = fired /\ printed' = printed
      /\ UNCHANGED <<local, tree, server, refused>>
  BY <1>1, <1>4
<1> QED BY ONLY Inv, <1>2, <1>3, <1>5, <1>6, <1>7, <1>8, Among

(* Nothing of the hooks and their files changes. *)
LEMMA AroundKeeps ==
  ASSUME Inv, UNCHANGED <<fired, event, disk, hook, ghosts>>,
         tree' \in Trees, mishaps' \in 0 .. MaxMishaps, run' \in [Ids -> Run], reported' = reported
  PROVE  Inv'
<1>1. HooksFit' /\ hook' \in [Hooks -> Hook]
  BY DEF Inv, TypeOK, HooksFit, InHand, Told, Known, ghosts
<1>2. Stored' /\ PromptIsAnswered' /\ LossesAreCounted'
  BY EventsStay DEF disk, ghosts
<1>3. TypeOK'
  BY <1>1 DEF Inv, TypeOK, disk, ghosts
<1> QED BY <1>1, <1>2, <1>3 DEF Inv

LEMMA CheckoutKeeps == ASSUME Inv, NEW t \in Trees, Checkout(t) PROVE Inv'
<1>1. mishaps' \in 0 .. MaxMishaps
  BY BoundsAssumption DEF Checkout, Inv, TypeOK
<1> QED BY <1>1, AroundKeeps, AsideTypes DEF Checkout, server

LEMMA EndElsewhereKeeps ==
  ASSUME Inv, NEW r \in Ids, NEW state \in {"ended", "stale"}, EndElsewhere(r, state) PROVE Inv'
<1>1. mishaps' \in 0 .. MaxMishaps
  BY BoundsAssumption DEF EndElsewhere, Inv, TypeOK
<1>2. run' \in [Ids -> Run]
  BY AsideTypes DEF EndElsewhere, Run
<1>3. tree' \in Trees
  BY DEF EndElsewhere, Inv, TypeOK
<1> QED BY <1>1, <1>2, <1>3, AroundKeeps DEF EndElsewhere

LEMMA StutterKeeps == Inv /\ UNCHANGED vars => Inv'
<1> SUFFICES ASSUME Inv, UNCHANGED vars PROVE Inv'
  OBVIOUS
<1>1. tree' \in Trees /\ mishaps' \in 0 .. MaxMishaps /\ run' \in [Ids -> Run]
  BY DEF vars, place, server, Inv, TypeOK
<1> QED BY <1>1, AroundKeeps DEF vars, server

-----------------------------------------------------------------------------
(* The theorems *)

LEMMA Inductive == Inv /\ [Next]_vars => Inv'
<1> SUFFICES ASSUME Inv, [Next]_vars PROVE Inv'
  OBVIOUS
<1>1. CASE UNCHANGED vars
  BY <1>1, StutterKeeps
<1>2. ASSUME NEW p \in Hooks, NEW kind \in Kinds, Fire(p, kind) PROVE Inv'
  BY <1>2, FireKeeps
<1>3. ASSUME NEW p \in Hooks, Enqueue(p) \/ TakeLock(p) \/ Look(p) \/ Steal(p) PROVE Inv'
  BY <1>3, EnqueueKeeps, TakeLockKeeps, LookKeeps, StealKeeps
<1>4. ASSUME NEW p \in Hooks, Pick(p) \/ GoOn(p) \/ Fail(p) \/ Refused(p) \/ Discard(p) \/ Stop(p) PROVE Inv'
  BY <1>4, PickKeeps, GoOnKeeps, FailKeeps, RefusedKeeps, DiscardKeeps, StopKeeps
<1>5. ASSUME NEW p \in Hooks, FinishOld(p) \/ ForgetOld(p) \/ Reprint(p) \/ Ping(p) \/ Freeze(p) \/ Resend(p)
      PROVE  Inv'
  BY <1>5, FinishOldKeeps, ForgetOldKeeps, ReprintKeeps, PingKeeps, FreezeKeeps, ResendKeeps
<1>6. ASSUME NEW p \in Hooks, PostStart(p) \/ Save(p) \/ StoreNotice(p) PROVE Inv'
  BY <1>6, PostStartKeeps, SaveKeeps, StoreNoticeKeeps
<1>7. ASSUME NEW p \in Hooks, Beat(p) \/ Finish(p) \/ ForgetFinished(p) PROVE Inv'
  BY <1>7, BeatKeeps, FinishKeeps, ForgetFinishedKeeps
<1>8. ASSUME NEW p \in Hooks, PrintAll(p) \/ MarkDelivered(p) \/ Leave(p) \/ Kill(p) PROVE Inv'
  BY <1>8, PrintAllKeeps, MarkDeliveredKeeps, LeaveKeeps, KillKeeps
<1>9. ASSUME NEW t \in Trees, Checkout(t) PROVE Inv'
  BY <1>9, CheckoutKeeps
<1>10. ASSUME NEW r \in Ids, NEW state \in {"ended", "stale"}, EndElsewhere(r, state) PROVE Inv'
  BY <1>10, EndElsewhereKeeps
<1> QED BY <1>1, <1>2, <1>3, <1>4, <1>5, <1>6, <1>7, <1>8, <1>9, <1>10 DEF Next

LEMMA Always == Spec => []Inv
  BY InitInv, Inductive, PTL DEF Spec

(* Every variable keeps its type, whatever is killed, lost and moved (adapters.ts, index.ts 1553-1866). *)
THEOREM TypeCorrect == Spec => []TypeOK
<1>1. Inv => TypeOK
  BY DEF Inv
<1> QED BY <1>1, Always, PTL

(* A prompt's event is never removed as delivered before its notice was printed *)
(* (index.ts 1853-1863).                                                         *)
THEOREM PromptsAnswered == Spec => []PromptIsAnswered
<1>1. Inv => PromptIsAnswered
  BY DEF Inv
<1> QED BY <1>1, Always, PTL

(* What did not fit or was refused is in the delivery record's count, but for what a killed *)
(* hook had no time to count (adapters.ts 702-794).                                          *)
THEOREM LossesCounted == Spec => []LossesAreCounted
<1>1. Inv => LossesAreCounted
  BY DEF Inv
<1> QED BY <1>1, Always, PTL

-----------------------------------------------------------------------------
(* One hook at a time, one event after another *)

(* What holds while Orderly does: the hooks that replay have the lock, of the *)
(* events still to be handled the one at hand is the oldest, only the oldest   *)
(* can have a frozen request, and a live run is the session's or was asked for *)
(* by such an event, unless the server refused its start.                      *)
Loop      == {"next"} \cup Working
Replaying == Loop \cup {"printing", "removing"}

(* Live, and not given up by the server itself. *)
Live(r)  == run[r].state = "live" /\ r \notin refused
Asked(e) == file[e].request # NoRequest

(* Stored, and no hook is done with it. *)
Open(e) == event[e].state = "queued" /\ \A p \in Hooks : e \notin hook[p].done

(* What hook p has yet to handle. *)
Front(p) == hook[p].todo \cup (IF hook[p].phase \in Working THEN {Item(p)} ELSE {})

Locked(p) ==
  /\ hook[p].phase \in Replaying => lock.by = p /\ ~ lock.dead
  /\ hook[p].phase \notin Replaying => hook[p].done = {}
  /\ hook[p].phase \notin Loop => hook[p].todo = {}
  /\ \A e \in hook[p].done : event[e].state = "queued"

Stamps ==
  \A p \in Hooks : hook[p].phase = "stamped" =>
    /\ event[hook[p].current].state = "stamped"
    /\ \A q \in Hooks : hook[q].phase = "stamped" /\ hook[q].current = hook[p].current => q = p

InTurn(p) ==
  hook[p].phase \in Loop =>
    /\ \A e \in Front(p) : Open(e) /\ \A f \in Ids : Open(f) /\ f \notin Front(p) => e < f
    /\ hook[p].phase \in Working => Item(p) \notin hook[p].todo /\ \A f \in hook[p].todo : Item(p) < f
    /\ \A e \in hook[p].todo : hook[p].copy[e] = file[e]

(* The request in hand, the run it is about and the session's are the same. *)
AtWork(p) ==
  /\ hook[p].phase \in {"switching", "forgetting", "beating", "finishing", "ending"}
       => hook[p].owned = local.run /\ local.run # 0
  /\ hook[p].phase \in {"posting", "saving"} => hook[p].owned = local.run
  /\ hook[p].phase \in {"forgetting", "ending"} => ~ Live(local.run)
  /\ hook[p].phase \in {"noting", "routing"} => local.run # 0
  /\ hook[p].phase = "discarding" => (Live(Item(p)) => local.run = Item(p))
  /\ hook[p].phase = "starting" =>
       \/ hook[p].copy[Item(p)].request = file[Item(p)].request
       \/ hook[p].copy[Item(p)].request = NoRequest /\ local.run = 0 /\ ~ Live(Item(p))
  /\ hook[p].phase \in {"posting", "saving", "noting"} =>
       hook[p].copy[Item(p)].request = file[Item(p)].request /\ Asked(Item(p))
  /\ hook[p].phase \in {"switching", "forgetting", "starting", "posting", "saving", "noting"}
       => event[Item(p)].kind # "finish"

Frozen == \A e \in Ids : Open(e) /\ Asked(e) => local.run \in {0, e} /\ \A f \in Ids : Open(f) => e <= f

Runs ==
  \A r \in Ids :
    /\ run[r].state # "none" => event[r].kind # "finish" /\ (Open(r) => Asked(r))
    /\ Live(r) /\ Open(r) => run[r].request = file[r].request
    /\ Live(r) => local.run = r \/ Open(r)

Over(f)  == event[f].state = "delivered" \/ \E p \in Hooks : f \in hook[p].done
Finished ==
  \A f \in Ids : event[f].kind = "finish" /\ Over(f) =>
    /\ \A r \in 1 .. f : ~ Live(r)
    /\ \A e \in Ids : Open(e) => f < e

(* Of an event that is not stored yet the server has not heard. *)
Unstored(e) == event[e].state \in {"none", "stamped"}
Fresh == \A e \in Ids : Unstored(e) => ~ Asked(e) /\ run[e].state = "none"

Turns == \A p \in Hooks : Locked(p) /\ InTurn(p) /\ AtWork(p)
Ord   == Turns /\ Stamps /\ Frozen /\ Runs /\ Finished /\ Fresh

(* The step is p's alone. *)
Only(p) == \A q \in Hooks \ {p} : hook'[q] = hook[q]

LEMMA OrderlyBefore == ASSUME Inv, [Next]_vars, Orderly' PROVE Orderly
<1>1. overtook \in BOOLEAN /\ stolen \in BOOLEAN /\ again \in BOOLEAN
  BY DEF Inv, TypeOK
<1>2. UNCHANGED <<overtook, stolen, again>> \/ \E p \in Hooks : Enqueue(p) \/ Steal(p) \/ Leave(p) \/ Kill(p)
  <2>1. ASSUME NEW p \in Hooks, NEW kind \in Kinds, Fire(p, kind) PROVE UNCHANGED <<overtook, stolen, again>>
    BY <2>1 DEF Fire, ghosts
  <2>2. ASSUME NEW p \in Hooks,
               \/ TakeLock(p) \/ Look(p) \/ Pick(p) \/ GoOn(p) \/ Fail(p) \/ Refused(p) \/ Discard(p) \/ Stop(p)
               \/ FinishOld(p) \/ ForgetOld(p) \/ Reprint(p) \/ Ping(p) \/ Freeze(p) \/ Resend(p)
        PROVE  UNCHANGED <<overtook, stolen, again>>
    BY <2>2 DEF TakeLock, Look, Pick, GoOn, Fail, Refused, Discard, Stop, FinishOld, ForgetOld, Reprint, Ping,
                Freeze, Resend, ghosts
  <2>3. ASSUME NEW p \in Hooks,
               \/ PostStart(p) \/ Save(p) \/ StoreNotice(p) \/ Beat(p) \/ Finish(p) \/ ForgetFinished(p)
               \/ PrintAll(p) \/ MarkDelivered(p)
        PROVE  UNCHANGED <<overtook, stolen, again>>
    BY <2>3 DEF PostStart, Save, StoreNotice, Beat, Finish, ForgetFinished, PrintAll, MarkDelivered, ghosts
  <2>4. ASSUME NEW t \in Trees, Checkout(t) PROVE UNCHANGED <<overtook, stolen, again>>
    BY <2>4 DEF Checkout, ghosts
  <2>5. ASSUME NEW r \in Ids, NEW state \in {"ended", "stale"}, EndElsewhere(r, state)
        PROVE  UNCHANGED <<overtook, stolen, again>>
    BY <2>5 DEF EndElsewhere, ghosts
  <2>6. ASSUME UNCHANGED vars PROVE UNCHANGED <<overtook, stolen, again>>
    BY <2>6 DEF vars, ghosts
  <2> QED BY <2>1, <2>2, <2>3, <2>4, <2>5, <2>6 DEF Next
<1>3. (overtook => overtook') /\ (stolen => stolen') /\ (again => again')
  BY <1>1, <1>2 DEF Enqueue, Steal, Leave, Kill
<1> QED BY <1>3 DEF Orderly

(* The hook that replays is alone with the lock. *)
LEMMA Holder ==
  ASSUME Ord, NEW p \in Hooks, hook[p].phase \in Replaying
  PROVE  /\ lock.by = p /\ ~ lock.dead
         /\ \A q \in Hooks \ {p} : hook[q].phase \notin Replaying /\ hook[q].done = {} /\ hook[q].todo = {}
         /\ \A e : Open(e) <=> event[e].state = "queued" /\ e \notin hook[p].done
<1>1. lock.by = p /\ ~ lock.dead
  BY DEF Ord, Turns, Locked
<1>2. \A q \in Hooks \ {p} : hook[q].phase \notin Replaying /\ hook[q].done = {} /\ hook[q].todo = {}
  BY <1>1 DEF Ord, Turns, Locked, Replaying
<1> QED BY <1>1, <1>2 DEF Open

LEMMA OpenAfter ==
  ASSUME Ord, NEW p \in Hooks, hook[p].phase \in Replaying, Only(p)
  PROVE  \A e : Open(e)' <=> event'[e].state = "queued" /\ e \notin hook'[p].done
<1>1. \A q \in Hooks \ {p} : hook'[q].done = {}
  BY Holder DEF Only
<1> QED BY <1>1 DEF Open

(* What the hook is at, and that nothing still open is older. *)
LEMMA ItemFirst ==
  ASSUME Inv, Ord, NEW p \in Hooks, hook[p].phase \in Working
  PROVE  /\ Item(p) \in Ids /\ Open(Item(p)) /\ event[Item(p)].state = "queued"
         /\ Item(p) \notin hook[p].done /\ Item(p) \notin hook[p].todo
         /\ \A f \in Ids : Open(f) => Item(p) <= f
         /\ \A e \in Ids : Open(e) /\ Asked(e) => e = Item(p)
         /\ Asked(Item(p)) => local.run \in {0, Item(p)}
         /\ Live(Item(p)) => Asked(Item(p)) /\ run[Item(p)].request = file[Item(p)].request
         /\ run[Item(p)].state # "none" => Asked(Item(p))
<1>1. hook[p].phase \in Loop
  BY DEF Loop
<1>2. Item(p) \in Ids
  BY KnownAreIds DEF Inv, TypeOK, HooksFit, InHand, Item
<1>3. Item(p) \in Front(p)
  BY DEF Front
<1>4. InTurn(p)
  BY DEF Ord, Turns
<1>5. Open(Item(p)) /\ \A f \in Ids : Open(f) /\ f \notin Front(p) => Item(p) < f
  BY <1>1, <1>3, <1>4 DEF InTurn
<1>6. Item(p) \notin hook[p].todo /\ \A f \in hook[p].todo : Item(p) < f
  BY <1>1, <1>4 DEF InTurn
<1>7. \A f \in Ids : Open(f) => Item(p) <= f
  <2>1. ASSUME NEW f \in Ids, Open(f) PROVE Item(p) <= f
    <3>1. f \in Int /\ Item(p) \in Int
      BY <1>2 DEF Ids
    <3>2. f = Item(p) \/ Item(p) < f
      BY <1>5, <1>6, <2>1 DEF Front
    <3> QED BY <3>1, <3>2
  <2> QED BY <2>1
<1>8. ASSUME NEW e \in Ids, Open(e), Asked(e) PROVE e = Item(p)
  <2>1. e <= Item(p) /\ Item(p) <= e
    BY <1>2, <1>5, <1>7, <1>8 DEF Ord, Frozen
  <2> QED BY <1>2, <2>1 DEF Ids
<1>9. /\ Asked(Item(p)) => local.run \in {0, Item(p)}
      /\ Live(Item(p)) => run[Item(p)].request = file[Item(p)].request
      /\ run[Item(p)].state # "none" => Asked(Item(p))
  BY <1>2, <1>5 DEF Ord, Frozen, Runs
<1>10. event[Item(p)].state = "queued" /\ Item(p) \notin hook[p].done
  BY <1>5 DEF Open
<1> QED BY <1>2, <1>5, <1>6, <1>7, <1>8, <1>9, <1>10 DEF Live

(* The others wait: what they know stays true. *)
LEMMA Assemble ==
  ASSUME Inv, Ord, NEW p \in Hooks, hook[p].phase \in Replaying, Only(p), lock' = lock,
         hook'[p].phase \in Replaying, hook'[p].phase \notin Loop => hook'[p].todo = {},
         \A e \in hook'[p].done : event'[e].state = "queued",
         \A e \in Ids : event[e].state = "stamped" => event'[e].state = "stamped",
         InTurn(p)', AtWork(p)', Frozen', Runs', Finished', Fresh'
  PROVE  Ord'
<1>1. Locked(p)'
  BY Holder DEF Locked
<1>2. ASSUME NEW q \in Hooks \ {p} PROVE Locked(q)' /\ InTurn(q)' /\ AtWork(q)'
  <2>1. /\ hook'[q] = hook[q] /\ hook[q].phase \notin Replaying
        /\ hook[q].done = {} /\ hook[q].todo = {}
    BY Holder DEF Only
  <2> QED BY <2>1 DEF Locked, InTurn, AtWork, Replaying, Loop, Working
<1>3. Turns'
  BY <1>1, <1>2 DEF Turns
<1>4. Stamps'
  <2>1. hook'[p].phase # "stamped"
    BY DEF Replaying, Loop, Working
  <2>2. \A q \in Hooks : hook'[q].phase = "stamped" => hook'[q] = hook[q]
    BY <2>1 DEF Only
  <2>3. \A q \in Hooks : hook[q].phase = "stamped" => hook[q].current \in Ids
    BY KnownAreIds DEF Inv, TypeOK, HooksFit, InHand
  <2> QED BY <2>2, <2>3 DEF Ord, Stamps
<1> QED BY <1>3, <1>4 DEF Ord

(* A run that a step leaves as it was, or ends. *)
Weaker(r) ==
  /\ run'[r].request = run[r].request
  /\ run'[r].state = "none" <=> run[r].state = "none"
  /\ Live(r)' => Live(r)

LEMMA SameRuns == ASSUME run' = run, refused' = refused PROVE \A r : Weaker(r)
  BY DEF Weaker, Live

LEMMA EndedWeaker ==
  ASSUME Inv, NEW q, Ended(q), refused' = refused
  PROVE  \A r \in Ids : Weaker(r) /\ (r = q => ~ Live(r)')
<1>1. \A r \in Ids : run[r] \in Run /\ run' = [run EXCEPT ![q].state = IF @ = "live" THEN "ended" ELSE @]
  BY AsideTypes DEF Ended
<1>2. \A r \in Ids \ {q} : run'[r] = run[r]
  BY <1>1, AsideTypes
<1>3. q \in Ids => run'[q] = [run[q] EXCEPT !.state = IF run[q].state = "live" THEN "ended" ELSE run[q].state]
  BY <1>1, AsideTypes
<1>4. ASSUME NEW r \in Ids PROVE Weaker(r) /\ (r = q => ~ Live(r)')
  <2>1. CASE r # q
    BY <1>2, <2>1 DEF Weaker, Live
  <2>2. CASE r = q
    BY <1>1, <1>3, <2>2 DEF Weaker, Live, Run
  <2> QED BY <2>1, <2>2
<1> QED BY <1>4

(* No event is taken up or finished with. *)
LEMMA FinishedStays ==
  ASSUME Ord, \A e \in Ids : Open(e)' => Open(e), \A f \in Ids : Over(f)' => Over(f),
         \A f \in Ids : event'[f].kind = event[f].kind,
         \A r \in Ids : Live(r)' => Live(r) \/ (Open(r) /\ event[r].kind # "finish")
  PROVE  Finished'
<1>1. ASSUME NEW f \in Ids, event'[f].kind = "finish", Over(f)'
      PROVE  (\A r \in 1 .. f : ~ Live(r)') /\ \A e \in Ids : Open(e)' => f < e
  <2>1. (\A r \in 1 .. f : ~ Live(r)) /\ \A e \in Ids : Open(e) => f < e
    BY <1>1 DEF Ord, Finished
  <2>2. ASSUME NEW r \in 1 .. f, Live(r)' PROVE FALSE
    <3>1. r \in Ids /\ ~ (f < r)
      BY BoundsAssumption DEF Ids
    <3> QED BY <2>1, <2>2, <3>1
  <2> QED BY <2>1, <2>2
<1> QED BY <1>1 DEF Finished

(* Hook p goes on with the event at hand; only of that event, its run and the *)
(* session's may change.                                                      *)
LEMMA GoesOn ==
  ASSUME Inv, Ord, NEW p \in Hooks, NEW i, i = Item(p), hook[p].phase \in Working, hook'[p].phase \in Working, Only(p),
         lock' = lock, event' = event, AtWork(p)',
         hook'[p].item = hook[p].item, hook'[p].todo = hook[p].todo, hook'[p].done = hook[p].done,
         \A e \in hook[p].todo : hook'[p].copy[e] = hook[p].copy[e],
         \A e \in Ids \ {i} : file'[e] = file[e],
         \A r \in Ids \ {i} : Weaker(r),
         run'[i].state # "none" => event[i].kind # "finish" /\ Asked(i)',
         Live(i)' => run'[i].request = file'[i].request,
         Asked(i)' => local'.run \in {0, i},
         \A r \in Ids : Live(r)' /\ local.run = r => local'.run = r \/ r = i
  PROVE  Ord'
<1>1. /\ i \in Ids /\ Open(i) /\ i \notin hook[p].todo /\ Item(p)' = i
      /\ \A f \in Ids : Open(f) => i <= f
      /\ \A e \in Ids : Open(e) /\ Asked(e) => e = i
  BY ItemFirst DEF Item
<1>2. hook[p].phase \in Replaying /\ hook'[p].phase \in Replaying /\ hook'[p].phase \in Loop
      /\ hook[p].phase \in Loop
  BY DEF Replaying, Loop
<1>3. \A e : Open(e)' <=> Open(e)
  BY <1>2, OpenAfter, Holder
<1>4. hook[p].todo \subseteq Ids
  BY KnownAreIds DEF Inv, TypeOK, HooksFit, InHand
<1>5. Front(p)' = Front(p)
  BY <1>1 DEF Front
<1>6. InTurn(p)'
  BY <1>1, <1>2, <1>3, <1>4, <1>5 DEF Ord, Turns, InTurn
<1>7. Frozen'
  <2>1. ASSUME NEW e \in Ids, Open(e)', Asked(e)'
        PROVE  local'.run \in {0, e} /\ \A f \in Ids : Open(f)' => e <= f
    <3>1. e = i
      BY <1>1, <1>3, <2>1 DEF Asked
    <3> QED BY <1>1, <1>3, <2>1, <3>1
  <2> QED BY <2>1 DEF Frozen
<1>8. Runs'
  <2>1. ASSUME NEW r \in Ids
        PROVE  /\ run'[r].state # "none" => event'[r].kind # "finish" /\ (Open(r)' => Asked(r)')
               /\ Live(r)' /\ Open(r)' => run'[r].request = file'[r].request
               /\ Live(r)' => local'.run = r \/ Open(r)'
    <3>1. CASE r = i
      BY <1>1, <1>3, <3>1
    <3>2. CASE r # i
      BY <1>3, <3>2 DEF Ord, Runs, Weaker, Asked
    <3> QED BY <3>1, <3>2
  <2> QED BY <2>1 DEF Runs
<1>9. \A f \in Ids : Over(f)' => Over(f)
  BY DEF Over, Only
<1>10. ASSUME NEW r \in Ids, Live(r)' PROVE Live(r) \/ (Open(r) /\ event[r].kind # "finish")
  <2>1. CASE r = i
    BY <1>1, <1>10, <2>1 DEF Live
  <2>2. CASE r # i
    BY <1>10, <2>2 DEF Weaker
  <2> QED BY <2>1, <2>2
<1>11. Finished'
  BY <1>3, <1>9, <1>10, FinishedStays
<1>12. /\ \A e \in hook'[p].done : event'[e].state = "queued"
       /\ \A e \in Ids : event[e].state = "stamped" => event'[e].state = "stamped"
  BY DEF Ord, Turns, Locked
<1>13. Fresh'
  <2>1. ~ Unstored(i)
    BY <1>1 DEF Open, Unstored
  <2> QED BY <2>1 DEF Ord, Fresh, Unstored, Asked, Weaker
<1> QED BY <1>2, <1>6, <1>7, <1>8, <1>11, <1>12, <1>13, Assemble

(* Hook p leaves the loop, whether or not it had just made a run. *)
LEMMA LeavesLoop ==
  ASSUME Inv, Ord, NEW p \in Hooks, hook[p].phase \in Loop, LeaveLoop(p),
         lock' = lock, event' = event, file' = file, local' = local,
         \A r \in Ids : \/ Weaker(r)
                        \/ /\ Open(r) /\ Asked(r) /\ event[r].kind # "finish"
                           /\ run'[r].request = file[r].request
  PROVE  Ord'
<1>1. hook[p] \in Hook /\ hook[p].phase \in Replaying
  BY DEF Inv, TypeOK, Replaying
<1>2. hook'[p] = [Idle EXCEPT !.phase = "printing", !.done = hook[p].done, !.said = hook[p].said]
      /\ Only(p)
  BY DEF Inv, TypeOK, LeaveLoop, Only
<1>3. hook'[p].phase = "printing" /\ hook'[p].done = hook[p].done /\ hook'[p].todo = {}
  BY <1>2 DEF Idle
<1>4. \A e : Open(e)' <=> Open(e)
  BY <1>1, <1>2, <1>3, OpenAfter, Holder
<1>5. InTurn(p)' /\ AtWork(p)'
  BY <1>3 DEF InTurn, AtWork, Loop, Working
<1>6. Frozen'
  BY <1>4 DEF Ord, Frozen, Asked
<1>7. Runs'
  <2>1. ASSUME NEW r \in Ids
        PROVE  /\ run'[r].state # "none" => event'[r].kind # "finish" /\ (Open(r)' => Asked(r)')
               /\ Live(r)' /\ Open(r)' => run'[r].request = file'[r].request
               /\ Live(r)' => local'.run = r \/ Open(r)'
    <3>1. CASE Weaker(r)
      BY <1>4, <3>1 DEF Ord, Runs, Weaker, Asked
    <3>2. CASE Open(r) /\ Asked(r) /\ event[r].kind # "finish" /\ run'[r].request = file[r].request
      BY <1>4, <3>2 DEF Asked
    <3> QED BY <3>1, <3>2
  <2> QED BY <2>1 DEF Runs
<1>8. \A f \in Ids : Over(f)' => Over(f)
  BY <1>2, <1>3 DEF Over, Only
<1>9. \A r \in Ids : Live(r)' => Live(r) \/ (Open(r) /\ event[r].kind # "finish")
  BY DEF Weaker
<1>10. Finished'
  BY <1>4, <1>8, <1>9, FinishedStays
<1>11. /\ \A e \in hook'[p].done : event'[e].state = "queued"
       /\ \A e \in Ids : event[e].state = "stamped" => event'[e].state = "stamped"
  BY <1>3 DEF Ord, Turns, Locked
<1>12. hook'[p].phase \in Replaying
  BY <1>3 DEF Replaying
<1>13. Fresh'
  BY DEF Ord, Fresh, Unstored, Asked, Weaker, Open
<1> QED BY <1>1, <1>2, <1>3, <1>5, <1>6, <1>7, <1>10, <1>11, <1>12, <1>13, Assemble

(* The event at hand is done with, or dropped, and nobody misses its run. *)
LEMMA PastTheItem ==
  ASSUME Inv, Ord, NEW p \in Hooks, NEW i, i = Item(p), hook[p].phase \in Working, hook'[p].phase = "next", Only(p),
         lock' = lock, hook'[p].todo = hook[p].todo,
         \A e \in hook[p].todo : hook'[p].copy[e] = hook[p].copy[e],
         \A e \in Ids \ {i} : file'[e] = file[e],
         \A e \in Ids \ {i} : event'[e] = event[e],
         \A e \in Ids : event'[e].kind = event[e].kind,
         \/ hook'[p].done = hook[p].done \cup {i} /\ event'[i].state = event[i].state
         \/ hook'[p].done = hook[p].done /\ event'[i].state = "dropped",
         \A r \in Ids : Weaker(r),
         local'.run \in {local.run, 0},
         \A r \in Ids : Live(r)' /\ local.run = r => local'.run = r,
         Live(i)' => local'.run = i,
         event[i].kind = "finish" /\ i \in hook'[p].done => local'.run = 0
  PROVE  Ord'
<1>1. /\ i \in Ids /\ Open(i) /\ i \notin hook[p].todo /\ event[i].state = "queued"
      /\ \A f \in Ids : Open(f) => i <= f
      /\ \A e \in Ids : Open(e) /\ Asked(e) => e = i
  BY ItemFirst
<1>2. hook[p].phase \in Replaying /\ hook'[p].phase \in Replaying /\ hook'[p].phase \in Loop
      /\ hook[p].phase \in Loop
  BY DEF Replaying, Loop
<1>3. \A e \in Ids : Open(e)' <=> Open(e) /\ e # i
  BY <1>1, <1>2, OpenAfter, Holder
<1>4. hook[p].todo \subseteq Ids
  BY KnownAreIds DEF Inv, TypeOK, HooksFit, InHand
<1>5. Front(p)' = hook[p].todo /\ Front(p) = hook[p].todo \cup {i}
  BY DEF Front, Working
<1>6. InTurn(p)'
  <2>1. \A e \in hook[p].todo : Open(e) /\ \A f \in Ids : Open(f) /\ f \notin Front(p) => e < f
    BY <1>2, <1>5 DEF Ord, Turns, InTurn
  <2>2. \A e \in hook[p].todo : hook'[p].copy[e] = file'[e]
    BY <1>1, <1>2, <1>4 DEF Ord, Turns, InTurn
  <2>3. hook'[p].phase \notin Working
    BY DEF Working
  <2>4. ASSUME NEW e \in Front(p)'
        PROVE  Open(e)' /\ \A f \in Ids : Open(f)' /\ f \notin Front(p)' => e < f
    BY <1>1, <1>3, <1>4, <1>5, <2>1, <2>4
  <2> QED BY <2>2, <2>3, <2>4 DEF InTurn
<1>7. AtWork(p)'
  BY DEF AtWork
<1>8. Frozen'
  BY <1>1, <1>3 DEF Frozen, Asked
<1>9. Runs'
  <2>1. ASSUME NEW r \in Ids
        PROVE  /\ run'[r].state # "none" => event'[r].kind # "finish" /\ (Open(r)' => Asked(r)')
               /\ Live(r)' /\ Open(r)' => run'[r].request = file'[r].request
               /\ Live(r)' => local'.run = r \/ Open(r)'
    BY <1>3 DEF Ord, Runs, Weaker, Asked
  <2> QED BY <2>1 DEF Runs
<1>10. Finished'
  <2>1. ASSUME NEW f \in Ids, event'[f].kind = "finish", Over(f)'
        PROVE  (\A r \in 1 .. f : ~ Live(r)') /\ \A e \in Ids : Open(e)' => f < e
    <3>1. CASE Over(f)
      <4>1. (\A r \in 1 .. f : ~ Live(r)) /\ \A e \in Ids : Open(e) => f < e
        BY <2>1, <3>1 DEF Ord, Finished
      <4>2. ASSUME NEW r \in 1 .. f PROVE ~ Live(r)'
        <5>1. r \in Ids
          BY BoundsAssumption DEF Ids
        <5> QED BY <4>1, <5>1 DEF Weaker
      <4> QED BY <1>3, <4>1, <4>2
    <3>2. CASE ~ Over(f)
      <4>1. f = i /\ i \in hook'[p].done
        BY <1>1, <2>1, <3>2 DEF Over, Only
      <4>2. local'.run = 0
        BY <2>1, <4>1
      <4>3. \A e \in Ids : Open(e)' => f < e
        BY <1>1, <1>3, <4>1 DEF Ids
      <4>4. ASSUME NEW r \in 1 .. f, Live(r)' PROVE FALSE
        <5>1. r \in Ids /\ ~ (f < r) /\ r # 0
          BY BoundsAssumption DEF Ids
        <5>2. Open(r)'
          BY <1>9, <4>2, <4>4, <5>1 DEF Runs
        <5> QED BY <4>3, <5>1, <5>2
      <4> QED BY <4>3, <4>4
    <3> QED BY <3>1, <3>2
  <2> QED BY <2>1 DEF Finished
<1>11. \A e \in hook[p].done : event[e].state = "queued" /\ e # i /\ e \in Ids
  BY <1>2, ItemFirst, KnownAreIds DEF Ord, Turns, Locked, Inv, TypeOK, HooksFit, InHand
<1>12. \A e \in hook'[p].done : event'[e].state = "queued"
  BY <1>1, <1>11
<1>13. \A e \in Ids : event[e].state = "stamped" => event'[e].state = "stamped"
  BY <1>1
<1>14. Fresh'
  <2>1. ~ Unstored(i) /\ ~ Unstored(i)'
    BY <1>1 DEF Unstored
  <2> QED BY <2>1 DEF Ord, Fresh, Unstored, Asked, Weaker
<1> QED BY <1>2, <1>6, <1>7, <1>8, <1>9, <1>10, <1>12, <1>13, <1>14, Assemble

LEMMA HandledHook ==
  ASSUME Inv, NEW p \in Hooks, NEW named \in BOOLEAN, Handled(p, named), hook[p].phase \in Working
  PROVE  /\ Only(p) /\ event' = event /\ hook'[p].phase = "next" /\ hook'[p].todo = hook[p].todo
         /\ hook'[p].done = hook[p].done \cup {Item(p)}
         /\ \A e \in Ids \ {Item(p)} : hook'[p].copy[e] = hook[p].copy[e]
<1>1. hook[p] \in Hook /\ hook \in [Hooks -> Hook] /\ event' = event
  BY DEF Inv, TypeOK, Handled
<1>2. /\ Past(p).phase = "next" /\ Past(p).todo = hook[p].todo /\ Past(p).done = hook[p].done
      /\ Past(p).copy = [hook[p].copy EXCEPT ![Item(p)] = Blank]
      /\ DOMAIN Past(p) = DOMAIN hook[p]
  BY <1>1 DEF Past, Hook
<1>3. \A e \in Ids \ {Item(p)} : Past(p).copy[e] = hook[p].copy[e]
  BY <1>1, <1>2 DEF Hook
<1>4. DOMAIN Past(p) = {"phase", "current", "todo", "copy", "item", "owned", "quiet", "done", "said"}
  BY <1>1, <1>2 DEF Hook
<1>5. Only(p) /\ hook'[p] = [Past(p) EXCEPT !.done = @ \cup {Item(p)},
                                           !.said = @ \cup (IF named THEN {Item(p)} ELSE {})]
  BY <1>1 DEF Handled, Only
<1>6. Past(p) = [f \in DOMAIN Past(p) |-> Past(p)[f]]
  BY DEF Past
<1>7. /\ hook'[p].phase = Past(p).phase /\ hook'[p].todo = Past(p).todo /\ hook'[p].copy = Past(p).copy
      /\ hook'[p].done = Past(p).done \cup {Item(p)}
  BY <1>4, <1>5, <1>6
<1> QED BY <1>1, <1>2, <1>3, <1>5, <1>7

(* A handled event that leaves the server alone: its run, if it has a live one, *)
(* is the session's.                                                            *)
LEMMA HandledOrd ==
  ASSUME Inv, Ord, NEW p \in Hooks, NEW named \in BOOLEAN, Handled(p, named), hook[p].phase \in Working,
         event[Item(p)].kind # "finish", local.run # 0,
         lock' = lock, local' = local, run' = run, refused' = refused, \A e \in Ids \ {Item(p)} : file'[e] = file[e]
  PROVE  Ord'
<1>1. /\ Only(p) /\ event' = event /\ hook'[p].phase = "next" /\ hook'[p].todo = hook[p].todo
      /\ hook'[p].done = hook[p].done \cup {Item(p)}
      /\ \A e \in Ids \ {Item(p)} : hook'[p].copy[e] = hook[p].copy[e]
  BY HandledHook
<1>2. PICK i : i = Item(p)
  OBVIOUS
<1>3. /\ i \notin hook[p].todo /\ hook[p].todo \subseteq Ids
      /\ Live(i) => local.run = i
  BY <1>2, ItemFirst, KnownAreIds DEF Inv, TypeOK, HooksFit, InHand
<1>4. (\A r : Weaker(r)) /\ (Live(i)' <=> Live(i))
  BY SameRuns DEF Live
<1>5. \A e \in hook[p].todo : hook'[p].copy[e] = hook[p].copy[e]
  BY <1>1, <1>2, <1>3
<1>6. Live(i)' => local'.run = i
  BY <1>3, <1>4
<1> QED BY <1>1, <1>2, <1>4, <1>5, <1>6, PastTheItem

(* The hook goes on with the event at hand, which stays as it is. *)
LEMMA StepsOn ==
  ASSUME Inv, Ord, NEW p \in Hooks, hook[p].phase \in Working, hook'[p].phase \in Working, Only(p),
         lock' = lock, event' = event, file' = file, AtWork(p)',
         hook'[p].item = hook[p].item, hook'[p].todo = hook[p].todo, hook'[p].done = hook[p].done,
         \A e \in hook[p].todo : hook'[p].copy[e] = hook[p].copy[e],
         \A r \in Ids : Weaker(r),
         local'.run \in {local.run, 0},
         \A r \in Ids : Live(r)' /\ local.run = r => local'.run = r
  PROVE  Ord'
<1>1. PICK i : i = Item(p)
  OBVIOUS
<1>2. /\ i \in Ids /\ Open(i)
      /\ Asked(i) => local.run \in {0, i}
      /\ Live(i) => Asked(i) /\ run[i].request = file[i].request
      /\ run[i].state # "none" => Asked(i)
  BY <1>1, ItemFirst
<1>3. run[i].state # "none" => event[i].kind # "finish"
  BY <1>2 DEF Ord, Runs
<1>4. run'[i].state # "none" => event[i].kind # "finish" /\ Asked(i)'
  BY <1>2, <1>3 DEF Weaker, Asked
<1>5. Live(i)' => run'[i].request = file'[i].request
  BY <1>2 DEF Weaker
<1>6. Asked(i)' => local'.run \in {0, i}
  BY <1>2 DEF Asked
<1> QED BY <1>1, <1>4, <1>5, <1>6, GoesOn

(* A hook that only changes its phase. *)
LEMMA ToHook ==
  ASSUME Inv, NEW p \in Hooks, NEW ph, To(p, ph)
  PROVE  /\ Only(p) /\ hook'[p].phase = ph
         /\ hook'[p].item = hook[p].item /\ hook'[p].todo = hook[p].todo /\ hook'[p].done = hook[p].done
         /\ hook'[p].copy = hook[p].copy /\ hook'[p].owned = hook[p].owned
<1>1. hook[p] \in Hook /\ hook' = [hook EXCEPT ![p] = [hook[p] EXCEPT !.phase = ph]] /\ hook \in [Hooks -> Hook]
  BY DEF Inv, TypeOK, To
<1> QED BY <1>1 DEF Hook, Only

-----------------------------------------------------------------------------
(* A step of the hook that replays *)

LEMMA FailOrd == ASSUME Inv, Ord, NEW p \in Hooks, Fail(p) PROVE Ord'
<1>1. /\ hook[p].phase \in Loop /\ LeaveLoop(p)
      /\ lock' = lock /\ event' = event /\ file' = file /\ local' = local /\ run' = run /\ refused' = refused
  BY DEF Fail, AfterFailure, Loop, Working, disk, server, ghosts
<1>2. \A r \in Ids : Weaker(r)
  BY <1>1, SameRuns
<1> QED BY <1>1, <1>2, LeavesLoop

LEMMA StopOrd == ASSUME Inv, Ord, NEW p \in Hooks, Stop(p) PROVE Ord'
<1>1. /\ hook[p].phase \in Loop /\ LeaveLoop(p)
      /\ lock' = lock /\ event' = event /\ file' = file /\ local' = local /\ run' = run /\ refused' = refused
  BY DEF Stop, At, Loop, disk, server, ghosts
<1>2. \A r \in Ids : Weaker(r)
  BY <1>1, SameRuns
<1> QED BY <1>1, <1>2, LeavesLoop

LEMMA FinishOldOrd == ASSUME Inv, Ord, NEW p \in Hooks, FinishOld(p) PROVE Ord'
<1>1. /\ hook[p].phase = "switching" /\ hook[p].phase \in Working /\ hook[p].phase \in Loop
      /\ lock' = lock /\ event' = event /\ file' = file /\ local' = local /\ refused' = refused
  BY DEF FinishOld, At, Loop, Working, disk, ghosts
<1>2. \A r \in Ids : Weaker(r) /\ (r = hook[p].owned => ~ Live(r)')
  BY <1>1, EndedWeaker DEF FinishOld
<1>3. /\ hook[p].owned = local.run /\ local.run # 0 /\ event[Item(p)].kind # "finish"
      /\ local.run \in Ids
  BY <1>1, AsideTypes DEF Ord, Turns, AtWork
<1>4. CASE To(p, "forgetting")
  <2>1. /\ Only(p) /\ hook'[p].phase = "forgetting"
        /\ hook'[p].item = hook[p].item /\ hook'[p].todo = hook[p].todo /\ hook'[p].done = hook[p].done
        /\ hook'[p].copy = hook[p].copy /\ hook'[p].owned = hook[p].owned
    BY <1>4, ToHook
  <2>2. AtWork(p)'
    BY <1>1, <1>2, <1>3, <2>1 DEF AtWork, Item, Live
  <2>3. hook'[p].phase \in Working
    BY <2>1 DEF Working
  <2> QED BY <1>1, <1>2, <2>1, <2>2, <2>3, StepsOn
<1>5. CASE AfterFailure(p)
  BY <1>1, <1>2, <1>5, LeavesLoop DEF AfterFailure
<1> QED BY <1>4, <1>5 DEF FinishOld

(* No run of the event at hand is live but the session's. *)
LEMMA ItsRunOnly ==
  ASSUME Inv, Ord, NEW p \in Hooks, hook[p].phase \in Working, local.run # 0
  PROVE  Live(Item(p)) => local.run = Item(p)
  BY ItemFirst

LEMMA ForgetOldOrd == ASSUME Inv, Ord, NEW p \in Hooks, ForgetOld(p) PROVE Ord'
<1>1. /\ hook[p].phase = "forgetting" /\ hook[p].phase \in Working /\ hook[p] \in Hook
      /\ hook \in [Hooks -> Hook]
      /\ lock' = lock /\ event' = event /\ file' = file /\ local' = NoLocal /\ run' = run /\ refused' = refused
  BY DEF ForgetOld, At, Working, server, Inv, TypeOK, ghosts
<1>2. ~ Live(local.run) /\ local.run # 0 /\ event[Item(p)].kind # "finish"
  BY <1>1 DEF Ord, Turns, AtWork
<1>3. /\ Item(p) \in Ids /\ Item(p) \notin hook[p].todo /\ hook[p].todo \subseteq Ids
      /\ ~ Live(Item(p))
  BY <1>1, <1>2, ItemFirst, KnownAreIds DEF Inv, TypeOK, HooksFit, InHand
<1>4. \E c : hook' = [hook EXCEPT ![p] = [hook[p] EXCEPT !.phase = "starting",
                                           !.copy = [hook[p].copy EXCEPT ![Item(p)] = c]]]
             /\ c.request = NoRequest
  <2> DEFINE c == [hook[p].copy[Item(p)] EXCEPT !.request = NoRequest]
  <2>1. hook' = [hook EXCEPT ![p] = [hook[p] EXCEPT !.phase = "starting",
                                      !.copy = [hook[p].copy EXCEPT ![Item(p)] = c]]]
    BY Zenon DEF ForgetOld
  <2>2. c.request = NoRequest
    BY <1>1, <1>3 DEF Hook, File
  <2> QED BY <2>1, <2>2
<1>5. /\ Only(p) /\ hook'[p].phase = "starting"
      /\ hook'[p].item = hook[p].item /\ hook'[p].todo = hook[p].todo /\ hook'[p].done = hook[p].done
      /\ hook'[p].copy[Item(p)].request = NoRequest
      /\ \A e \in hook[p].todo : hook'[p].copy[e] = hook[p].copy[e]
  BY <1>1, <1>3, <1>4 DEF Hook, Only
<1>6. \A r \in Ids : Weaker(r)
  BY <1>1, SameRuns
<1>7. local'.run = 0
  BY <1>1 DEF NoLocal
<1>8. AtWork(p)'
  BY <1>1, <1>2, <1>3, <1>5, <1>7 DEF AtWork, Item, Live
<1>9. hook'[p].phase \in Working
  BY <1>5 DEF Working
<1>10. \A r \in Ids : Live(r)' /\ local.run = r => local'.run = r
  BY <1>1, <1>2 DEF Live
<1> QED BY <1>1, <1>5, <1>6, <1>7, <1>8, <1>9, <1>10, StepsOn

(* A start's result: the hook is done with the event or goes on to ask the server. *)
LEMMA ResultOrd ==
  ASSUME Inv, Ord, NEW p \in Hooks, Result(p), hook[p].phase \in {"starting", "noting"}, local.run # 0,
         lock' = lock, local' = local, run' = run, refused' = refused,
         \/ file' = file
         \/ /\ \A e \in Ids \ {Item(p)} : file'[e] = file[e]
            /\ file'[Item(p)].request = file[Item(p)].request
  PROVE  Ord'
<1>1. /\ hook[p].phase \in Working /\ event[Item(p)].kind # "finish"
      /\ \A e \in Ids \ {Item(p)} : file'[e] = file[e]
  BY DEF Working, Ord, Turns, AtWork
<1>2. CASE ~ hook[p].quiet
  BY <1>1, <1>2, HandledOrd DEF Result
<1>3. CASE hook[p].quiet
  <2>1. To(p, "routing") /\ event' = event
    BY <1>3 DEF Result
  <2>2. /\ Only(p) /\ hook'[p].phase = "routing"
        /\ hook'[p].item = hook[p].item /\ hook'[p].todo = hook[p].todo /\ hook'[p].done = hook[p].done
        /\ hook'[p].copy = hook[p].copy
    BY <2>1, ToHook
  <2>3. AtWork(p)' /\ hook'[p].phase \in Working
    BY <2>2 DEF AtWork, Working
  <2>4. PICK i : i = Item(p)
    OBVIOUS
  <2>5. /\ i \in Ids /\ Open(i)
        /\ Asked(i) => local.run \in {0, i}
        /\ Live(i) => run[i].request = file[i].request
        /\ run[i].state # "none" => Asked(i)
    BY <1>1, <2>4, ItemFirst
  <2>6. file'[i].request = file[i].request
    BY <2>4
  <2>7. /\ run'[i].state # "none" => event[i].kind # "finish" /\ Asked(i)'
        /\ Live(i)' => run'[i].request = file'[i].request
        /\ Asked(i)' => local'.run \in {0, i}
    BY <1>1, <2>4, <2>5, <2>6 DEF Asked, Live
  <2>8. \A r \in Ids \ {i} : Weaker(r)
    BY SameRuns
  <2> QED BY <1>1, <2>1, <2>2, <2>3, <2>4, <2>7, <2>8, GoesOn
<1> QED BY <1>2, <1>3

LEMMA ReprintOrd == ASSUME Inv, Ord, NEW p \in Hooks, Reprint(p) PROVE Ord'
  BY ResultOrd DEF Reprint, At, disk, server, ghosts

LEMMA PingOrd == ASSUME Inv, Ord, NEW p \in Hooks, Ping(p) PROVE Ord'
<1>1. /\ hook[p].phase = "starting" /\ hook[p].phase \in Working /\ local.run # 0
      /\ hook[p].copy[Item(p)] = Blank
      /\ lock' = lock /\ file' = file /\ run' = run /\ refused' = refused
  BY DEF Ping, At, Working, server, ghosts
<1>2. CASE Result(p) /\ UNCHANGED local
  BY <1>1, <1>2, ResultOrd
<1>3. CASE run[local.run].state # "live" /\ local' = NoLocal /\ UNCHANGED <<hook, event>>
  <2>1. /\ Only(p) /\ hook'[p] = hook[p] /\ local'.run = 0 /\ ~ Live(local.run)
        /\ hook[p].copy[Item(p)].request = NoRequest
    BY <1>1, <1>3 DEF Only, NoLocal, Live, Blank
  <2>2. event[Item(p)].kind # "finish" /\ ~ Live(Item(p))
    BY <1>1, <2>1, ItsRunOnly DEF Ord, Turns, AtWork
  <2>3. AtWork(p)'
    BY <1>1, <1>3, <2>1, <2>2 DEF AtWork, Item, Live
  <2>4. \A r \in Ids : Weaker(r)
    BY <1>1, SameRuns
  <2>5. \A r \in Ids : Live(r)' /\ local.run = r => local'.run = r
    BY <1>1, <2>1 DEF Live
  <2> QED BY <1>1, <1>3, <2>1, <2>3, <2>4, <2>5, StepsOn
<1> QED BY <1>2, <1>3 DEF Ping

LEMMA ResendOrd == ASSUME Inv, Ord, NEW p \in Hooks, Resend(p) PROVE Ord'
<1>1. /\ hook[p].phase = "starting" /\ hook[p].phase \in Working
      /\ hook[p].copy[Item(p)].request # NoRequest
      /\ hook[p] \in Hook /\ hook \in [Hooks -> Hook]
      /\ hook' = [hook EXCEPT ![p] = [hook[p] EXCEPT !.phase = "posting", !.owned = local.run]]
      /\ lock' = lock /\ event' = event /\ file' = file /\ local' = local /\ run' = run /\ refused' = refused
  BY DEF Resend, Repeats, At, Working, disk, server, Inv, TypeOK, ghosts
<1>2. /\ Only(p) /\ hook'[p].phase = "posting" /\ hook'[p].owned = local.run
      /\ hook'[p].item = hook[p].item /\ hook'[p].todo = hook[p].todo /\ hook'[p].done = hook[p].done
      /\ hook'[p].copy = hook[p].copy
  BY <1>1 DEF Hook, Only
<1>3. /\ event[Item(p)].kind # "finish" /\ Asked(Item(p))
      /\ hook[p].copy[Item(p)].request = file[Item(p)].request
  BY <1>1 DEF Ord, Turns, AtWork, Asked
<1>4. AtWork(p)' /\ hook'[p].phase \in Working
  BY <1>1, <1>2, <1>3 DEF AtWork, Item, Asked, Working
<1>5. \A r \in Ids : Weaker(r)
  BY <1>1, SameRuns
<1> QED BY <1>1, <1>2, <1>4, <1>5, StepsOn

LEMMA GoOnOrd == ASSUME Inv, Ord, NEW p \in Hooks, GoOn(p) PROVE Ord'
<1>1. /\ hook[p].phase = "routing" /\ hook[p].phase \in Working
      /\ hook[p] \in Hook /\ hook \in [Hooks -> Hook]
      /\ lock' = lock /\ file' = file /\ local' = local /\ run' = run /\ refused' = refused
  BY DEF GoOn, At, Working, disk, server, Inv, TypeOK, ghosts
<1>2. local.run # 0 /\ event[Item(p)].kind = "heartbeat"
  BY <1>1 DEF Ord, Turns, AtWork, Inv, HooksFit, InHand, Item
<1>3. /\ hook' = [hook EXCEPT ![p] = [hook[p] EXCEPT !.phase = Route("heartbeat"),
                                                    !.owned = local.run, !.quiet = FALSE]]
      /\ event' = event
  BY <1>2 DEF GoOn
<1>4. /\ Only(p) /\ hook'[p].phase = Route("heartbeat") /\ hook'[p].owned = local.run
      /\ hook'[p].item = hook[p].item /\ hook'[p].todo = hook[p].todo /\ hook'[p].done = hook[p].done
      /\ hook'[p].copy = hook[p].copy
  BY <1>1, <1>3 DEF Hook, Only
<1>5. Route("heartbeat") \in {"switching", "beating"}
  BY <1>2 DEF Route
<1>6. AtWork(p)' /\ hook'[p].phase \in Working
  BY <1>1, <1>2, <1>3, <1>4, <1>5 DEF AtWork, Item, Working
<1>7. \A r \in Ids : Weaker(r)
  BY <1>1, SameRuns
<1> QED BY <1>1, <1>3, <1>4, <1>6, <1>7, StepsOn

LEMMA FreezeOrd == ASSUME Inv, Ord, NEW p \in Hooks, Freeze(p) PROVE Ord'
<1>1. PICK i : i = Item(p)
  OBVIOUS
<1>2. /\ hook[p].phase = "starting" /\ hook[p].phase \in Working /\ local.run = 0
      /\ hook[p].copy[i].request = NoRequest
      /\ hook[p] \in Hook /\ hook \in [Hooks -> Hook] /\ file \in [Ids -> File] /\ tree \in Trees
      /\ lock' = lock /\ event' = event /\ local' = local /\ run' = run /\ refused' = refused
  BY <1>1 DEF Freeze, At, Working, server, Inv, TypeOK, ghosts
<1>3. /\ i \in Ids /\ event[i].state = "queued" /\ i \notin hook[p].todo /\ hook[p].todo \subseteq Ids
      /\ run[i].state # "none" => Asked(i)
      /\ Live(i) => Asked(i)
  BY <1>1, <1>2, ItemFirst, KnownAreIds DEF Inv, TypeOK, HooksFit, InHand
<1>4. event[i].kind # "finish" /\ (Asked(i) => ~ Live(i))
  BY <1>1, <1>2 DEF Ord, Turns, AtWork, Asked
<1> DEFINE g == [hook[p].copy[i] EXCEPT !.request = tree]
           c == [hook[p].copy EXCEPT ![i] = [hook[p].copy[i] EXCEPT !.request = tree]]
           h == [hook[p] EXCEPT !.phase = "posting", !.owned = 0, !.copy = c]
<1>5. file' = [file EXCEPT ![i] = g] /\ hook' = [hook EXCEPT ![p] = h]
  <2>1. event[Item(p)].state = "queued"
    BY <1>1, <1>3
  <2>2. file' = [file EXCEPT ![Item(p)] = [hook[p].copy[Item(p)] EXCEPT !.request = tree]]
    BY <2>1 DEF Freeze
  <2>3. hook' = [hook EXCEPT ![p].phase = "posting", ![p].owned = 0, ![p].copy[Item(p)].request = tree]
    BY <2>1 DEF Freeze
  <2>4. hook' = [hook EXCEPT ![p] = [hook[p] EXCEPT !.phase = "posting", !.owned = 0,
                  !.copy = [hook[p].copy EXCEPT ![Item(p)] = [hook[p].copy[Item(p)] EXCEPT !.request = tree]]]]
    BY <2>3, Zenon
  <2> QED BY <1>1, <2>2, <2>4
<1>6. g.request = tree /\ tree # NoRequest /\ c[i].request = tree /\ \A e \in Ids \ {i} : c[e] = hook[p].copy[e]
  BY <1>2, <1>3, SetsAssumption DEF Hook, File, NoRequest
<1>7. /\ \A e \in Ids \ {i} : file'[e] = file[e]
      /\ file'[i].request = tree
  BY <1>2, <1>3, <1>5, <1>6
<1>8. h.phase = "posting" /\ h.owned = 0 /\ h.copy = c /\ h.item = hook[p].item /\ h.todo = hook[p].todo
      /\ h.done = hook[p].done
  BY <1>2 DEF Hook
<1>9. hook'[p] = h /\ Only(p)
  BY <1>2, <1>5 DEF Only
<1> HIDE DEF g, c, h
<1>10. AtWork(p)' /\ hook'[p].phase \in Working
  BY <1>1, <1>2, <1>4, <1>6, <1>7, <1>8, <1>9 DEF AtWork, Item, Asked, Working
<1>11. Asked(i)'
  BY <1>6, <1>7 DEF Asked
<1>12. \A r \in Ids : Weaker(r)
  BY <1>2, SameRuns
<1>13. ~ Live(i)'
  BY <1>2, <1>3, <1>4 DEF Live
<1>14. /\ hook'[p].item = hook[p].item /\ hook'[p].todo = hook[p].todo /\ hook'[p].done = hook[p].done
       /\ \A e \in hook[p].todo : hook'[p].copy[e] = hook[p].copy[e]
  BY <1>3, <1>6, <1>8, <1>9
<1> QED BY <1>1, <1>2, <1>4, <1>7, <1>9, <1>10, <1>11, <1>12, <1>13, <1>14, GoesOn

LEMMA PostStartOrd == ASSUME Inv, Ord, NEW p \in Hooks, PostStart(p) PROVE Ord'
<1>1. PICK i : i = Item(p)
  OBVIOUS
<1>2. /\ hook[p].phase = "posting" /\ hook[p].phase \in Working /\ hook[p].phase \in Loop
      /\ lock' = lock /\ event' = event /\ file' = file /\ local' = local /\ refused' = refused
      /\ run \in [Ids -> Run]
  BY DEF PostStart, At, Working, Loop, disk, ghosts, Inv, TypeOK
<1>3. /\ i \in Ids /\ Open(i)
      /\ Asked(i) => local.run \in {0, i}
      /\ Live(i) => run[i].request = file[i].request
  BY <1>1, <1>2, ItemFirst
<1>4. /\ hook[p].copy[i].request = file[i].request /\ Asked(i) /\ event[i].kind # "finish"
      /\ hook[p].owned = local.run
  BY <1>1, <1>2 DEF Ord, Turns, AtWork
<1>5. \A r \in Ids \ {i} : run'[r] = run[r]
  BY <1>1, <1>2 DEF PostStart
<1>6. IF run[i].state = "none" THEN run'[i] = [state |-> "live", request |-> hook[p].copy[i].request]
                               ELSE run' = run
  BY <1>1, <1>2, <1>3 DEF PostStart
<1>7. Live(i)' => run'[i].request = file'[i].request
  BY <1>2, <1>3, <1>4, <1>6 DEF Live
<1>8. \A r \in Ids \ {i} : Weaker(r)
  BY <1>2, <1>5 DEF Weaker, Live
<1>9. ASSUME NEW ph \in {"saving", "discarding"}, To(p, ph), ph = "discarding" => run' = run /\ ~ Live(i)
      PROVE  Ord'
  <2>1. /\ Only(p) /\ hook'[p].phase = ph
        /\ hook'[p].item = hook[p].item /\ hook'[p].todo = hook[p].todo /\ hook'[p].done = hook[p].done
        /\ hook'[p].copy = hook[p].copy /\ hook'[p].owned = hook[p].owned
    BY <1>9, ToHook
  <2>2. AtWork(p)' /\ hook'[p].phase \in Working
    BY <1>1, <1>2, <1>4, <1>9, <2>1 DEF AtWork, Item, Asked, Working, Live
  <2>3. Asked(i)'
    BY <1>2, <1>4 DEF Asked
  <2> QED BY <1>1, <1>2, <1>3, <1>4, <1>7, <1>8, <2>1, <2>2, <2>3, GoesOn
<1>10. CASE AfterFailure(p)
  <2>1. Weaker(i) \/ run'[i].request = file[i].request
    BY <1>2, <1>4, <1>6, SameRuns
  <2> QED BY <1>2, <1>3, <1>4, <1>8, <1>10, <2>1, LeavesLoop DEF AfterFailure
<1>11. CASE To(p, "saving")
  BY <1>9, <1>11
<1>12. CASE run[i].state # "none" /\ run[i].request # hook[p].copy[i].request /\ To(p, "discarding")
  BY <1>3, <1>4, <1>6, <1>9, <1>12
<1> QED BY <1>1, <1>10, <1>11, <1>12 DEF PostStart

LEMMA SaveOrd == ASSUME Inv, Ord, NEW p \in Hooks, Save(p) PROVE Ord'
<1>1. PICK i : i = Item(p)
  OBVIOUS
<1>2. /\ hook[p].phase = "saving" /\ hook[p].phase \in Working /\ To(p, "noting")
      /\ lock' = lock /\ event' = event /\ file' = file /\ run' = run /\ refused' = refused
  BY DEF Save, At, Working, server, ghosts
<1>3. /\ i \in Ids /\ 0 \notin Ids
      /\ Asked(i) => local.run \in {0, i}
      /\ Live(i) => run[i].request = file[i].request
  BY <1>1, <1>2, ItemFirst, KnownAreIds DEF Inv, TypeOK
<1>4. /\ hook[p].copy[i].request = file[i].request /\ Asked(i) /\ event[i].kind # "finish"
      /\ hook[p].owned = local.run
  BY <1>1, <1>2 DEF Ord, Turns, AtWork
<1>5. local'.run = i
  BY <1>1, <1>3, <1>4 DEF Save
<1>6. /\ Only(p) /\ hook'[p].phase = "noting"
      /\ hook'[p].item = hook[p].item /\ hook'[p].todo = hook[p].todo /\ hook'[p].done = hook[p].done
      /\ hook'[p].copy = hook[p].copy
  BY <1>2, ToHook
<1>7. AtWork(p)' /\ hook'[p].phase \in Working
  BY <1>1, <1>2, <1>3, <1>4, <1>5, <1>6 DEF AtWork, Item, Asked, Working
<1>8. /\ Asked(i)' /\ (Live(i)' => run'[i].request = file'[i].request)
      /\ \A r \in Ids : Live(r)' /\ local.run = r => local'.run = r \/ r = i
  BY <1>2, <1>3, <1>4 DEF Asked, Live
<1>9. \A r \in Ids \ {i} : Weaker(r)
  BY <1>2, SameRuns
<1> QED BY <1>1, <1>2, <1>4, <1>5, <1>6, <1>7, <1>8, <1>9, GoesOn

LEMMA StoreNoticeOrd == ASSUME Inv, Ord, NEW p \in Hooks, StoreNotice(p) PROVE Ord'
<1>1. /\ hook[p].phase = "noting" /\ hook[p].phase \in Working
      /\ hook[p] \in Hook /\ file \in [Ids -> File]
      /\ lock' = lock /\ local' = local /\ run' = run /\ refused' = refused
  BY DEF StoreNotice, At, Working, server, Inv, TypeOK, ghosts
<1>2. Item(p) \in Ids /\ event[Item(p)].state = "queued"
  BY <1>1, ItemFirst
<1>3. local.run # 0 /\ hook[p].copy[Item(p)].request = file[Item(p)].request
  BY <1>1 DEF Ord, Turns, AtWork
<1>4. file' = [file EXCEPT ![Item(p)] = [hook[p].copy[Item(p)] EXCEPT !.notice = TRUE]] /\ Result(p)
  BY <1>2 DEF StoreNotice
<1>5. /\ \A e \in Ids \ {Item(p)} : file'[e] = file[e]
      /\ file'[Item(p)].request = file[Item(p)].request
  BY <1>1, <1>2, <1>3, <1>4 DEF Hook, File
<1> QED BY <1>1, <1>3, <1>4, <1>5, ResultOrd

LEMMA BeatOrd == ASSUME Inv, Ord, NEW p \in Hooks, Beat(p) PROVE Ord'
<1>1. /\ hook[p].phase = "beating" /\ hook[p].phase \in Working /\ hook[p].phase \in Loop
      /\ lock' = lock /\ file' = file /\ run' = run /\ refused' = refused
  BY DEF Beat, At, Working, Loop, ghosts
<1>2. /\ hook[p].owned = local.run /\ local.run # 0 /\ event[Item(p)].kind # "finish"
      /\ Live(Item(p)) => local.run = Item(p)
  BY <1>1, ItsRunOnly DEF Ord, Turns, AtWork, Inv, HooksFit, InHand, Item
<1>3. \A r \in Ids : Weaker(r)
  BY <1>1, SameRuns
<1>4. CASE Handled(p, FALSE) /\ UNCHANGED local
  BY <1>1, <1>2, <1>4, HandledOrd
<1>5. CASE AfterFailure(p) /\ UNCHANGED <<event, local>>
  BY <1>1, <1>3, <1>5, LeavesLoop DEF AfterFailure
<1>6. CASE /\ To(p, "discarding") /\ UNCHANGED event
           /\ local' = local \/ (local' = NoLocal /\ ~ Live(local.run))
  <2>1. /\ Only(p) /\ hook'[p].phase = "discarding"
        /\ hook'[p].item = hook[p].item /\ hook'[p].todo = hook[p].todo /\ hook'[p].done = hook[p].done
        /\ hook'[p].copy = hook[p].copy
    BY <1>6, ToHook
  <2>2. local'.run \in {local.run, 0} /\ (local' # local => ~ Live(local.run))
    BY <1>6 DEF NoLocal
  <2>3. AtWork(p)' /\ hook'[p].phase \in Working
    BY <1>1, <1>2, <2>1, <2>2 DEF AtWork, Item, Live, Working
  <2>4. \A r \in Ids : Live(r)' /\ local.run = r => local'.run = r
    BY <1>1, <2>2 DEF Live
  <2> QED BY <1>1, <1>3, <1>6, <2>1, <2>2, <2>3, <2>4, StepsOn
<1> QED BY <1>2, <1>4, <1>5, <1>6 DEF Beat, Live

LEMMA FinishOrd == ASSUME Inv, Ord, NEW p \in Hooks, Finish(p) PROVE Ord'
<1>1. /\ hook[p].phase = "finishing" /\ hook[p].phase \in Working /\ hook[p].phase \in Loop
      /\ lock' = lock /\ file' = file /\ event' = event /\ refused' = refused
  BY DEF Finish, At, Working, Loop, ghosts
<1>2. /\ hook[p].owned = local.run /\ local.run # 0 /\ local.run \in Ids
      /\ Live(Item(p)) => local.run = Item(p)
  BY <1>1, ItsRunOnly, AsideTypes DEF Ord, Turns, AtWork
<1>3. CASE run' = run /\ To(p, "discarding") /\ (local' = local \/ (local' = NoLocal /\ ~ Live(local.run)))
  <2>1. /\ Only(p) /\ hook'[p].phase = "discarding"
        /\ hook'[p].item = hook[p].item /\ hook'[p].todo = hook[p].todo /\ hook'[p].done = hook[p].done
        /\ hook'[p].copy = hook[p].copy
    BY <1>3, ToHook
  <2>2. local'.run \in {local.run, 0} /\ (local' # local => ~ Live(local.run))
    BY <1>3 DEF NoLocal
  <2>3. AtWork(p)' /\ hook'[p].phase \in Working
    BY <1>1, <1>2, <1>3, <2>1, <2>2 DEF AtWork, Item, Live, Working
  <2>4. \A r \in Ids : Weaker(r) /\ (Live(r)' /\ local.run = r => local'.run = r)
    BY <1>1, <1>3, <2>2, SameRuns DEF Live
  <2> QED BY <1>1, <2>1, <2>2, <2>3, <2>4, StepsOn
<1>4. CASE Ended(hook[p].owned) /\ local' = local /\ (To(p, "ending") \/ AfterFailure(p))
  <2>1. \A r \in Ids : Weaker(r) /\ (r = hook[p].owned => ~ Live(r)')
    BY <1>1, <1>4, EndedWeaker
  <2>2. CASE To(p, "ending")
    <3>1. /\ Only(p) /\ hook'[p].phase = "ending"
          /\ hook'[p].item = hook[p].item /\ hook'[p].todo = hook[p].todo /\ hook'[p].done = hook[p].done
          /\ hook'[p].copy = hook[p].copy /\ hook'[p].owned = hook[p].owned
      BY <2>2, ToHook
    <3>2. AtWork(p)' /\ hook'[p].phase \in Working
      BY <1>2, <1>4, <2>1, <3>1 DEF AtWork, Item, Live, Working
    <3> QED BY <1>1, <1>4, <2>1, <3>1, <3>2, StepsOn
  <2>3. CASE AfterFailure(p)
    BY <1>1, <1>4, <2>1, <2>3, LeavesLoop DEF AfterFailure
  <2> QED BY <1>4, <2>2, <2>3
<1>5. UNCHANGED server => run' = run
  BY DEF server
<1> QED BY <1>2, <1>3, <1>4, <1>5 DEF Finish, Live

LEMMA ForgetFinishedOrd == ASSUME Inv, Ord, NEW p \in Hooks, ForgetFinished(p) PROVE Ord'
<1>1. /\ hook[p].phase = "ending" /\ hook[p].phase \in Working /\ Handled(p, FALSE)
      /\ lock' = lock /\ file' = file /\ run' = run /\ refused' = refused /\ local'.run = 0
  BY DEF ForgetFinished, At, Working, server, NoLocal, ghosts
<1>2. PICK i : i = Item(p)
  OBVIOUS
<1>3. /\ Only(p) /\ event' = event /\ hook'[p].phase = "next" /\ hook'[p].todo = hook[p].todo
      /\ hook'[p].done = hook[p].done \cup {i}
      /\ \A e \in Ids \ {i} : hook'[p].copy[e] = hook[p].copy[e]
  BY <1>1, <1>2, HandledHook
<1>4. /\ ~ Live(local.run) /\ local.run # 0
      /\ Live(i) => local.run = i
      /\ i \notin hook[p].todo /\ hook[p].todo \subseteq Ids
  BY <1>1, <1>2, ItsRunOnly, ItemFirst, KnownAreIds DEF Ord, Turns, AtWork, Inv, TypeOK, HooksFit, InHand
<1>5. \A e \in hook[p].todo : hook'[p].copy[e] = hook[p].copy[e]
  BY <1>3, <1>4
<1>6. \A r \in Ids : Weaker(r) /\ (Live(r)' /\ local.run = r => local'.run = r)
  BY <1>1, <1>4, SameRuns DEF Live
<1>7. ~ Live(i)'
  BY <1>1, <1>4 DEF Live
<1> QED BY <1>1, <1>2, <1>3, <1>5, <1>6, <1>7, PastTheItem

(* The run of the event at hand is the session's, was never asked for, or is given up by the server. *)
LEMMA RefusedOrd == ASSUME Inv, Ord, NEW p \in Hooks, Refused(p) PROVE Ord'
<1>1. /\ hook[p].phase \in Working /\ To(p, "discarding")
      /\ lock' = lock /\ event' = event /\ file' = file /\ local' = local /\ run' = run
      /\ refused \subseteq refused'
  BY DEF Refused, At, Working, disk, server
<1>2. /\ Only(p) /\ hook'[p].phase = "discarding"
      /\ hook'[p].item = hook[p].item /\ hook'[p].todo = hook[p].todo /\ hook'[p].done = hook[p].done
      /\ hook'[p].copy = hook[p].copy
  BY <1>1, ToHook
<1>3. \A r \in Ids : Weaker(r) /\ (Live(r)' /\ local.run = r => local'.run = r)
  BY <1>1 DEF Weaker, Live
<1>4. Live(Item(p))' => local.run = Item(p)
  <2>1. Live(Item(p))' => Live(Item(p)) /\ Item(p) \notin refused'
    BY <1>1, <1>2 DEF Live, Item
  <2>2. CASE local.run # 0
    BY <1>1, <2>1, <2>2, ItsRunOnly
  <2>3. CASE hook[p].phase = "posting"
    BY <2>1, <2>3 DEF Refused, At
  <2>4. CASE local.run = 0 /\ hook[p].phase = "starting" /\ hook[p].copy[Item(p)].request = NoRequest
    <3>1. Live(Item(p)) => Asked(Item(p))
      BY <1>1, ItemFirst
    <3>2. hook[p].copy[Item(p)].request = file[Item(p)].request \/ ~ Live(Item(p))
      BY <2>4 DEF Ord, Turns, AtWork
    <3> QED BY <2>1, <2>4, <3>1, <3>2 DEF Asked
  <2>5. hook[p].phase \in {"switching", "beating", "finishing"} => local.run # 0
    BY DEF Ord, Turns, AtWork
  <2> QED BY <2>2, <2>3, <2>4, <2>5 DEF Refused, Repeats, At
<1>5. AtWork(p)' /\ hook'[p].phase \in Working
  BY <1>1, <1>2, <1>4 DEF AtWork, Item, Working
<1> QED BY <1>1, <1>2, <1>3, <1>5, StepsOn

LEMMA DiscardOrd == ASSUME Inv, Ord, NEW p \in Hooks, Discard(p) PROVE Ord'
<1>1. PICK i : i = Item(p)
  OBVIOUS
<1>2. /\ hook[p].phase = "discarding" /\ hook[p].phase \in Working /\ Remove(i, "dropped")
      /\ hook' = [hook EXCEPT ![p] = Past(p)] /\ hook \in [Hooks -> Hook] /\ hook[p] \in Hook
      /\ event \in [Ids -> Event] /\ file \in [Ids -> File]
      /\ lock' = lock /\ local' = local /\ run' = run /\ refused' = refused
  BY <1>1 DEF Discard, At, Working, server, Inv, TypeOK, ghosts
<1>3. /\ i \in Ids /\ event[i].state = "queued" /\ i \notin hook[p].done
      /\ i \notin hook[p].todo /\ hook[p].todo \subseteq Ids
  BY <1>1, <1>2, ItemFirst, KnownAreIds DEF Inv, TypeOK, HooksFit, InHand
<1>4. Live(i) => local.run = i
  BY <1>1, <1>2 DEF Ord, Turns, AtWork
<1>5. /\ \A e \in Ids \ {i} : event'[e] = event[e] /\ file'[e] = file[e]
      /\ event'[i].state = "dropped" /\ \A e \in Ids : event'[e].kind = event[e].kind
  BY <1>2, <1>3 DEF Remove, Event
<1>6. hook'[p] = Past(p) /\ Only(p)
  BY <1>2 DEF Only
<1>7. /\ hook'[p].phase = "next" /\ hook'[p].todo = hook[p].todo /\ hook'[p].done = hook[p].done
      /\ \A e \in Ids \ {i} : hook'[p].copy[e] = hook[p].copy[e]
  BY <1>1, <1>2, <1>3, <1>6 DEF Past, Hook
<1>8. \A e \in hook[p].todo : hook'[p].copy[e] = hook[p].copy[e]
  BY <1>3, <1>7
<1>9. \A r \in Ids : Weaker(r) /\ (Live(r)' /\ local.run = r => local'.run = r)
  BY <1>2, SameRuns
<1>10. Live(i)' => local'.run = i
  BY <1>2, <1>4 DEF Live
<1> QED BY <1>1, <1>2, <1>3, <1>5, <1>6, <1>7, <1>8, <1>9, <1>10, PastTheItem

-----------------------------------------------------------------------------
(* What a step leaves in order *)

(* What was open still is, or nobody misses its run, and what comes to it is new and the latest. *)
LEMMA Unmoved ==
  ASSUME Inv, Ord, local' = local, \A r \in Ids : Weaker(r),
         \A e \in Ids : Open(e) /\ ~ Open(e)' => (Live(e) => local.run = e),
         \A e \in Ids : Open(e) /\ Open(e)' => file'[e].request = file[e].request,
         \A e \in Ids : Open(e)' /\ ~ Open(e) =>
           event[e].state = "stamped" /\ file'[e] = file[e] /\ ~ Overtaken(e),
         \A e \in Ids : Over(e)' => Over(e),
         \A e \in Ids : ~ Unstored(e) => event'[e].kind = event[e].kind,
         \A e \in Ids : event[e].state = "stamped" => event'[e].kind = event[e].kind,
         \A e \in Ids : Unstored(e)' => Unstored(e) /\ file'[e] = file[e]
  PROVE  Frozen' /\ Runs' /\ Finished' /\ Fresh'
<1>1. \A e \in Ids : Open(e) => ~ Unstored(e)
  BY DEF Open, Unstored
<1>2. \A e \in Ids : Open(e)' /\ ~ Open(e) => ~ Asked(e)' /\ run'[e].state = "none"
  BY DEF Ord, Fresh, Unstored, Asked, Weaker
<1>3. \A e \in Ids : \A f \in Ids : Open(f)' /\ ~ Open(f) /\ event[e].state \in {"queued", "delivered"} => e < f
  <2> SUFFICES ASSUME NEW e \in Ids, NEW f \in Ids, Open(f)', ~ Open(f),
                      event[e].state \in {"queued", "delivered"}
               PROVE  e < f
    OBVIOUS
  <2>1. ~ (e > f) /\ e # f
    BY DEF Overtaken
  <2> QED BY <2>1 DEF Ids
<1>4. Frozen'
  <2>1. ASSUME NEW e \in Ids, Open(e)', Asked(e)'
        PROVE  local'.run \in {0, e} /\ \A f \in Ids : Open(f)' => e <= f
    <3>1. Open(e) /\ Asked(e) /\ event[e].state = "queued"
      BY <1>2, <2>1 DEF Asked, Open
    <3>2. local.run \in {0, e} /\ \A f \in Ids : Open(f) => e <= f
      BY <3>1 DEF Ord, Frozen
    <3>3. ASSUME NEW f \in Ids, Open(f)' PROVE e <= f
      BY <1>3, <3>1, <3>2, <3>3 DEF Ids
    <3> QED BY <3>2, <3>3
  <2> QED BY <2>1 DEF Frozen
<1>5. Runs'
  <2>1. ASSUME NEW r \in Ids
        PROVE  /\ run'[r].state # "none" => event'[r].kind # "finish" /\ (Open(r)' => Asked(r)')
               /\ Live(r)' /\ Open(r)' => run'[r].request = file'[r].request
               /\ Live(r)' => local'.run = r \/ Open(r)'
    <3>1. run'[r].state # "none" => run[r].state # "none" /\ ~ Unstored(r)
      BY DEF Weaker, Ord, Fresh
    <3>2. Live(r)' => run'[r].state # "none"
      BY DEF Live
    <3>3. run[r].state # "none" => event[r].kind # "finish" /\ (Open(r) => Asked(r))
      BY DEF Ord, Runs
    <3>4. Live(r) => (local.run = r \/ Open(r)) /\ (Open(r) => run[r].request = file[r].request)
      BY DEF Ord, Runs
    <3>5. run'[r].state # "none" => (Open(r)' => Open(r))
      BY <1>2
    <3> QED BY <3>1, <3>2, <3>3, <3>4, <3>5 DEF Weaker, Asked
  <2> QED BY <2>1 DEF Runs
<1>6. Finished'
  <2>1. ASSUME NEW f \in Ids, event'[f].kind = "finish", Over(f)'
        PROVE  (\A r \in 1 .. f : ~ Live(r)') /\ \A e \in Ids : Open(e)' => f < e
    <3>1. Over(f) /\ event[f].state \in {"queued", "delivered"}
      BY <2>1 DEF Over, Ord, Turns, Locked
    <3>2. event[f].kind = "finish"
      BY <2>1, <3>1 DEF Unstored
    <3>3. (\A r \in 1 .. f : ~ Live(r)) /\ \A e \in Ids : Open(e) => f < e
      BY <3>1, <3>2 DEF Ord, Finished
    <3>4. ASSUME NEW r \in 1 .. f PROVE ~ Live(r)'
      <4>1. r \in Ids
        BY BoundsAssumption DEF Ids
      <4> QED BY <3>3, <4>1 DEF Weaker
    <3> QED BY <1>3, <3>1, <3>3, <3>4
  <2> QED BY <2>1 DEF Finished
<1>7. Fresh'
  BY DEF Ord, Fresh, Asked, Weaker
<1> QED BY <1>4, <1>5, <1>6, <1>7

(* A hook that does not replay has nothing to keep in order. *)
LEMMA Waits ==
  ASSUME NEW q \in Hooks, hook'[q].phase \notin Replaying, hook'[q].done = {}, hook'[q].todo = {}
  PROVE  Locked(q)' /\ InTurn(q)' /\ AtWork(q)'
  BY DEF Locked, InTurn, AtWork, Replaying, Loop, Working

(* The hook that replays is not disturbed by what the others do. *)
LEMMA Undisturbed ==
  ASSUME Inv, Ord, NEW q \in Hooks, hook[q].phase \in Replaying, hook'[q] = hook[q], lock' = lock,
         file' = file, local' = local, \A r \in Ids : Weaker(r),
         \A e \in Ids : Open(e) => Open(e)',
         \A e \in Ids : Open(e)' /\ ~ Open(e) => event[e].state = "stamped" /\ ~ Overtaken(e),
         \A e \in Ids : event[e].state = "queued" => event'[e] = event[e]
  PROVE  Locked(q)' /\ InTurn(q)' /\ AtWork(q)'
<1>1. /\ hook[q].done \subseteq Ids /\ hook[q].todo \subseteq Ids
      /\ hook[q].phase \in Working => Item(q) \in Ids
  BY KnownAreIds DEF Inv, TypeOK, HooksFit, InHand, Item
<1>2. Locked(q)'
  BY <1>1 DEF Ord, Turns, Locked
<1>3. Front(q)' = Front(q) /\ Item(q)' = Item(q)
  BY DEF Front, Item
<1>4. InTurn(q)'
  <2>1. ASSUME hook[q].phase \in Loop, NEW e \in Front(q)
        PROVE  Open(e)' /\ \A f \in Ids : Open(f)' /\ f \notin Front(q) => e < f
    <3>1. e \in Ids
      BY <1>1 DEF Front
    <3>2. Open(e) /\ \A f \in Ids : Open(f) /\ f \notin Front(q) => e < f
      BY <2>1 DEF Ord, Turns, InTurn
    <3>3. ASSUME NEW f \in Ids, Open(f)', ~ Open(f) PROVE e < f
      <4>1. ~ (e > f) /\ e # f
        BY <3>1, <3>2, <3>3 DEF Overtaken, Open
      <4> QED BY <3>1, <4>1 DEF Ids
    <3> QED BY <3>1, <3>2, <3>3
  <2> QED BY <1>3, <2>1 DEF Ord, Turns, InTurn
<1>5. AtWork(q)'
  <2>1. AtWork(q)
    BY DEF Ord, Turns
  <2>2. hook[q].phase \in Working => event'[Item(q)] = event[Item(q)]
    BY <1>1, ItemFirst
  <2>3. hook[q].phase \in Working => (Live(Item(q))' => Live(Item(q)))
    BY <1>1, <1>3 DEF Weaker, Live
  <2>4. local.run # 0 => (Live(local.run)' => Live(local.run))
    BY AsideTypes DEF Weaker, Live
  <2> QED BY <1>3, <2>1, <2>2, <2>3, <2>4 DEF AtWork, Asked, Working
<1> QED BY <1>2, <1>4, <1>5

(* Nobody else's stamp goes. *)
LEMMA StampsStay ==
  ASSUME Inv, Ord, NEW p \in Hooks, Only(p), hook'[p].phase # "stamped",
         \A e \in Ids : event[e].state = "stamped" /\ (hook[p].phase = "stamped" => e # hook[p].current)
                        => event'[e].state = "stamped"
  PROVE  Stamps'
<1>1. ASSUME NEW q \in Hooks, hook'[q].phase = "stamped"
      PROVE  /\ event'[hook'[q].current].state = "stamped"
             /\ \A s \in Hooks : hook'[s].phase = "stamped" /\ hook'[s].current = hook'[q].current => s = q
  <2>1. q # p /\ hook'[q] = hook[q] /\ hook[q].current \in Ids
    BY <1>1, KnownAreIds DEF Only, Inv, TypeOK, HooksFit, InHand
  <2>2. /\ event[hook[q].current].state = "stamped"
        /\ \A s \in Hooks : hook[s].phase = "stamped" /\ hook[s].current = hook[q].current => s = q
    BY <1>1, <2>1 DEF Ord, Stamps
  <2>3. hook[p].phase = "stamped" => hook[q].current # hook[p].current
    BY <2>1, <2>2
  <2> QED BY <2>1, <2>2, <2>3 DEF Only
<1> QED BY <1>1 DEF Stamps

(* A step of a hook that neither replayed nor does, beside the one that may. *)
LEMMA Beside ==
  ASSUME Inv, Ord, NEW p \in Hooks, Only(p), hook[p].phase \notin Replaying,
         hook'[p].phase \notin Replaying, hook'[p].done = {}, hook'[p].todo = {},
         lock' = lock \/ \A q \in Hooks : hook[q].phase \notin Replaying,
         file' = file, local' = local, run' = run, refused' = refused, Stamps',
         \A e \in Ids : Open(e)' /\ ~ Open(e) => event[e].state = "stamped" /\ ~ Overtaken(e),
         \A e \in Ids : event[e].state = "queued" => event'[e] = event[e],
         \A e \in Ids : event'[e].state = "delivered" => event[e].state = "delivered",
         \A e \in Ids : event[e].state # "none" => event'[e].kind = event[e].kind,
         \A e \in Ids : Unstored(e)' => Unstored(e)
  PROVE  Ord'
<1>1. \A q \in Hooks : hook'[q].done = hook[q].done
  BY DEF Only, Ord, Turns, Locked
<1>2. \A e \in Ids : Open(e) => Open(e)'
  BY <1>1 DEF Open
<1>3. \A e \in Ids : Over(e)' => Over(e)
  BY <1>1 DEF Over
<1>4. \A r \in Ids : Weaker(r)
  BY SameRuns
<1>5. Frozen' /\ Runs' /\ Finished' /\ Fresh'
  BY <1>2, <1>3, <1>4, Unmoved DEF Unstored
<1>6. ASSUME NEW q \in Hooks PROVE Locked(q)' /\ InTurn(q)' /\ AtWork(q)'
  <2>1. CASE q = p
    BY <2>1, Waits
  <2>2. CASE q # p /\ hook[q].phase \in Replaying
    BY <1>2, <1>4, <2>2, Undisturbed DEF Only
  <2>3. CASE q # p /\ hook[q].phase \notin Replaying
    <3>1. hook'[q] = hook[q] /\ hook[q].done = {} /\ hook[q].todo = {}
      BY <2>3 DEF Only, Ord, Turns, Locked, Replaying
    <3> QED BY <2>3, <3>1, Waits
  <2> QED BY <2>1, <2>2, <2>3
<1> QED BY <1>5, <1>6 DEF Ord, Turns

-----------------------------------------------------------------------------
(* Storing an event and taking the lock, one event after another *)

LEMMA FireOrd == ASSUME Inv, Ord, NEW p \in Hooks, NEW kind \in Kinds, Fire(p, kind) PROVE Ord'
<1>1. PICK n : n = fired + 1
  OBVIOUS
<1>2. /\ n \in Ids /\ n \notin Known /\ event[n].state = "none" /\ Known \subseteq Ids
  <2>1. fired \in 0 .. MaxEvents /\ fired < MaxEvents
    BY DEF Inv, TypeOK, Fire
  <2>2. n \in Ids /\ n \notin Known
    BY <1>1, <2>1, BoundsAssumption DEF Ids, Known
  <2> QED BY <2>1, <2>2, KnownAreIds DEF Inv, Stored
<1>3. /\ hook[p].phase = "idle" /\ hook[p] \in Hook /\ hook \in [Hooks -> Hook]
      /\ hook' = [hook EXCEPT ![p] = [hook[p] EXCEPT !.phase = "stamped", !.current = n]]
      /\ event \in [Ids -> Event] /\ event' = [event EXCEPT ![n] = [kind |-> kind, state |-> "stamped"]]
      /\ lock' = lock /\ file' = file /\ local' = local /\ run' = run /\ refused' = refused
  BY <1>1 DEF Fire, At, disk, server, Inv, TypeOK, ghosts
<1>4. /\ Only(p) /\ hook'[p].phase = "stamped" /\ hook'[p].current = n
      /\ hook'[p].done = hook[p].done /\ hook'[p].todo = hook[p].todo
  BY <1>3 DEF Only, Hook
<1>5. event'[n].state = "stamped" /\ \A e \in Ids \ {n} : event'[e] = event[e]
  BY <1>2, <1>3
<1>6. hook[p].done = {} /\ hook[p].todo = {} /\ hook[p].phase \notin Replaying /\ hook'[p].phase \notin Replaying
  BY <1>3, <1>4 DEF Ord, Turns, Locked, Replaying, Loop, Working
<1>7. Stamps'
  <2>1. ASSUME NEW q \in Hooks \ {p}, hook'[q].phase = "stamped"
        PROVE  /\ event'[hook'[q].current].state = "stamped" /\ hook'[q].current # n
               /\ \A s \in Hooks \ {p} : hook'[s].phase = "stamped" /\ hook'[s].current = hook'[q].current => s = q
    <3>1. hook'[q] = hook[q] /\ hook[q].current \in Known
      BY <1>4, <2>1 DEF Only, Inv, HooksFit, InHand
    <3> QED BY <1>2, <1>4, <1>5, <2>1, <3>1 DEF Only, Ord, Stamps
  <2> QED BY <1>4, <1>5, <2>1 DEF Stamps
<1>8. \A e \in Ids : Open(e)' => Open(e)
  <2>1. \A e \in Ids : event'[e].state = "queued" => event[e].state = "queued"
    BY <1>5
  <2>2. \A q \in Hooks : hook'[q].done = hook[q].done
    BY <1>4 DEF Only
  <2> QED BY <2>1, <2>2 DEF Open
<1>9. \A e \in Ids : /\ event[e].state = "queued" => event'[e] = event[e]
                     /\ event'[e].state = "delivered" => event[e].state = "delivered"
                     /\ event[e].state # "none" => event'[e].kind = event[e].kind
                     /\ Unstored(e)' => Unstored(e)
  BY <1>2, <1>5 DEF Unstored
<1> QED BY <1>3, <1>4, <1>6, <1>7, <1>8, <1>9, Beside

LEMMA EnqueueOrd == ASSUME Inv, Ord, Orderly', NEW p \in Hooks, Enqueue(p) PROVE Ord'
<1>1. PICK n : n = hook[p].current
  OBVIOUS
<1>2. /\ hook[p].phase = "stamped" /\ n \in Ids /\ event[n].state = "stamped"
  BY <1>1, KnownAreIds DEF Enqueue, At, Inv, TypeOK, HooksFit, InHand, Ord, Stamps
<1>3. /\ event \in [Ids -> Event] /\ hook \in [Hooks -> Hook]
      /\ lock' = lock /\ file' = file /\ local' = local /\ run' = run /\ refused' = refused
  BY DEF Enqueue, server, Inv, TypeOK, ghosts
<1>4. \/ event'[n].state = "overflow"
      \/ event'[n].state = "queued" /\ ~ Overtaken(n)
  <2>1. CASE Cardinality(Queued) >= Limit
    <3>1. event' = [event EXCEPT ![n].state = "overflow"]
      BY <1>1, <2>1 DEF Enqueue
    <3> QED BY <1>2, <1>3, <3>1 DEF Event
  <2>2. CASE ~ (Cardinality(Queued) >= Limit)
    <3>1. event' = [event EXCEPT ![n].state = "queued"] /\ overtook' = (overtook \/ Overtaken(n))
      BY <1>1, <2>2 DEF Enqueue
    <3>2. ~ Overtaken(n)
      BY <3>1, Zenon DEF Orderly
    <3> QED BY <1>2, <1>3, <3>1, <3>2 DEF Event
  <2> QED BY <2>1, <2>2
<1>5. event'[n].kind = event[n].kind /\ \A e \in Ids \ {n} : event'[e] = event[e]
  BY <1>1, <1>2, <1>3 DEF Enqueue, Event
<1>6. /\ Only(p) /\ hook'[p].phase \in {"idle", "queued"} /\ hook'[p].done = {} /\ hook'[p].todo = {}
  BY <1>3 DEF Enqueue, Only, Idle
<1>7. hook[p].phase \notin Replaying /\ hook'[p].phase \notin Replaying /\ hook[p].done = {}
  BY <1>2, <1>6 DEF Ord, Turns, Locked, Replaying, Loop, Working
<1>8. Stamps'
  BY <1>1, <1>2, <1>5, <1>6, StampsStay
<1>9. \A e \in Ids : Open(e)' /\ ~ Open(e) => event[e].state = "stamped" /\ ~ Overtaken(e)
  <2>1. \A q \in Hooks : hook'[q].done = hook[q].done
    BY <1>6, <1>7 DEF Only
  <2>2. \A e \in Ids \ {n} : Open(e)' => Open(e)
    BY <1>5, <2>1 DEF Open
  <2> QED BY <1>2, <1>4, <2>2 DEF Open
<1>10. \A e \in Ids : /\ event[e].state = "queued" => event'[e] = event[e]
                      /\ event'[e].state = "delivered" => event[e].state = "delivered"
                      /\ event[e].state # "none" => event'[e].kind = event[e].kind
                      /\ Unstored(e)' => Unstored(e)
  BY <1>2, <1>4, <1>5 DEF Unstored
<1> QED BY <1>3, <1>6, <1>7, <1>8, <1>9, <1>10, Beside

(* A hook that only finds out about the lock. *)
LEMMA LooksOn ==
  ASSUME Inv, Ord, NEW p \in Hooks, Only(p), hook[p].phase \notin Replaying, hook[p].phase # "stamped",
         hook'[p].phase \notin Replaying, hook'[p].phase # "stamped", hook'[p].done = {}, hook'[p].todo = {},
         lock' = lock \/ \A q \in Hooks : hook[q].phase \notin Replaying,
         event' = event, file' = file, local' = local, run' = run, refused' = refused
  PROVE  Ord'
<1>1. hook[p].done = {}
  BY DEF Ord, Turns, Locked
<1>2. Stamps'
  BY StampsStay
<1>3. \A e \in Ids : Open(e)' => Open(e)
  BY <1>1 DEF Open, Only
<1>4. \A e \in Ids : Unstored(e)' => Unstored(e)
  BY DEF Unstored
<1> QED BY <1>2, <1>3, <1>4, Beside

LEMMA TakeLockOrd == ASSUME Inv, Ord, NEW p \in Hooks, TakeLock(p) PROVE Ord'
<1>1. /\ hook[p].phase = "queued" /\ hook[p] \in Hook /\ hook \in [Hooks -> Hook]
      /\ event' = event /\ file' = file /\ local' = local /\ run' = run /\ refused' = refused
  BY DEF TakeLock, At, server, Inv, TypeOK, ghosts
<1>2. hook[p].phase \notin Replaying /\ hook[p].done = {} /\ hook[p].todo = {}
  BY <1>1 DEF Ord, Turns, Locked, Replaying, Loop, Working
<1>3. CASE lock' = lock /\ To(p, "looking")
  <2>1. /\ Only(p) /\ hook'[p].phase = "looking" /\ hook'[p].todo = hook[p].todo /\ hook'[p].done = hook[p].done
    BY <1>3, ToHook
  <2>2. hook'[p].phase \notin Replaying
    BY <2>1 DEF Replaying, Loop, Working
  <2> QED BY <1>1, <1>2, <1>3, <2>1, <2>2, LooksOn
<1>4. CASE /\ lock = NoLock /\ lock' = [by |-> p, dead |-> FALSE]
           /\ hook' = [hook EXCEPT ![p].phase = "next", ![p].todo = Queued,
                         ![p].copy = [e \in Ids |-> IF e \in Queued THEN file[e] ELSE Blank]]
  <2>1. \A q \in Hooks : hook[q].phase \notin Replaying /\ hook[q].done = {} /\ hook[q].todo = {}
    BY <1>4, SetsAssumption DEF Ord, Turns, Locked, NoLock, Replaying
  <2>2. /\ Only(p) /\ hook'[p].phase = "next" /\ hook'[p].todo = Queued /\ hook'[p].done = {}
        /\ hook'[p].copy = [e \in Ids |-> IF e \in Queued THEN file[e] ELSE Blank]
    BY <1>1, <1>2, <1>4 DEF Only, Hook
  <2>3. \A q \in Hooks : hook'[q].done = {}
    BY <2>1, <2>2 DEF Only
  <2>4. \A e \in Ids : (Open(e) <=> e \in Queued) /\ (Open(e)' <=> e \in Queued)
    BY <1>1, <2>1, <2>3 DEF Open, Queued
  <2>5. Locked(p)' /\ AtWork(p)'
    BY <1>4, <2>2 DEF Locked, AtWork, Replaying, Loop
  <2>6. Front(p)' = Queued /\ hook'[p].phase \notin Working
    BY <2>2 DEF Front, Working
  <2>7. \A e \in Queued : hook'[p].copy[e] = file'[e] /\ e \in Ids
    BY <1>1, <2>2 DEF Queued
  <2>8. InTurn(p)'
    BY <2>2, <2>4, <2>6, <2>7 DEF InTurn
  <2>9. \A q \in Hooks \ {p} : Locked(q)' /\ InTurn(q)' /\ AtWork(q)'
    BY <2>1, <2>2, Waits DEF Only
  <2>10. Stamps'
    BY <1>1, <2>2, StampsStay
  <2>11. \A e \in Ids : Over(e)' => Over(e)
    BY <1>1, <2>3 DEF Over
  <2>12. Frozen' /\ Runs' /\ Finished' /\ Fresh'
    BY <1>1, <2>4, <2>11, SameRuns, Unmoved DEF Unstored
  <2> QED BY <2>5, <2>8, <2>9, <2>10, <2>12 DEF Ord, Turns
<1> QED BY <1>3, <1>4 DEF TakeLock

LEMMA LookOrd == ASSUME Inv, Ord, NEW p \in Hooks, Look(p) PROVE Ord'
<1>1. /\ hook[p].phase = "looking" /\ hook[p] \in Hook /\ hook \in [Hooks -> Hook]
      /\ lock' = lock /\ event' = event /\ file' = file /\ local' = local /\ run' = run /\ refused' = refused
  BY DEF Look, At, disk, server, Inv, TypeOK, ghosts
<1>2. hook[p].phase \notin Replaying /\ hook[p].done = {} /\ hook[p].todo = {}
  BY <1>1 DEF Ord, Turns, Locked, Replaying, Loop, Working
<1>3. /\ Only(p) /\ hook'[p].phase \in {"idle", "stealing"} /\ hook'[p].done = {} /\ hook'[p].todo = {}
  BY <1>1, <1>2 DEF Look, Only, Idle, Hook
<1>4. hook'[p].phase \notin Replaying
  BY <1>3 DEF Replaying, Loop, Working
<1> QED BY <1>1, <1>2, <1>3, <1>4, LooksOn

LEMMA StealOrd == ASSUME Inv, Ord, Orderly', NEW p \in Hooks, Steal(p) PROVE Ord'
<1>1. /\ hook[p].phase = "stealing" /\ hook[p] \in Hook /\ hook \in [Hooks -> Hook]
      /\ event' = event /\ file' = file /\ local' = local /\ run' = run /\ refused' = refused
  BY DEF Steal, At, server, Inv, TypeOK, ghosts
<1>2. hook[p].phase \notin Replaying /\ hook[p].done = {} /\ hook[p].todo = {}
  BY <1>1 DEF Ord, Turns, Locked, Replaying, Loop, Working
<1>3. /\ Only(p) /\ hook'[p].phase \in {"idle", "queued"} /\ hook'[p].done = {} /\ hook'[p].todo = {}
  BY <1>1, <1>2 DEF Steal, Only, Idle, Hook
<1>4. hook'[p].phase \notin Replaying
  BY <1>3 DEF Replaying, Loop, Working
<1>5. lock = NoLock \/ lock.dead
  BY DEF Steal, Orderly
<1>6. \A q \in Hooks : hook[q].phase \notin Replaying
  BY <1>5, SetsAssumption DEF Ord, Turns, Locked, NoLock
<1> QED BY <1>1, <1>2, <1>3, <1>4, <1>6, LooksOn

-----------------------------------------------------------------------------
(* The next event, and the end of a hook *)

LEMMA PrintAllOrd == ASSUME Inv, Ord, NEW p \in Hooks, PrintAll(p) PROVE Ord'
<1>1. /\ hook[p].phase = "printing" /\ hook[p] \in Hook /\ hook \in [Hooks -> Hook]
      /\ hook' = [hook EXCEPT ![p] = [hook[p] EXCEPT !.phase = "removing", !.said = {}]]
      /\ lock' = lock /\ event' = event /\ file' = file /\ local' = local /\ run' = run /\ refused' = refused
  BY DEF PrintAll, At, disk, server, Inv, TypeOK, ghosts
<1>2. /\ Only(p) /\ hook'[p].phase = "removing" /\ hook'[p].done = hook[p].done
      /\ hook'[p].todo = hook[p].todo
  BY <1>1 DEF Only, Hook
<1>3. /\ hook[p].phase \in Replaying /\ hook'[p].phase \in Replaying /\ hook[p].todo = {}
      /\ \A e \in hook[p].done : event[e].state = "queued"
  BY <1>1, <1>2 DEF Ord, Turns, Locked, Replaying, Loop, Working
<1>4. InTurn(p)' /\ AtWork(p)'
  BY <1>2 DEF InTurn, AtWork, Loop, Working
<1>5. \A e \in Ids : (Open(e)' <=> Open(e)) /\ (Over(e)' => Over(e))
  BY <1>1, <1>2 DEF Open, Over, Only
<1>6. Frozen' /\ Runs' /\ Finished' /\ Fresh'
  BY <1>1, <1>5, SameRuns, Unmoved DEF Unstored
<1> QED BY <1>1, <1>2, <1>3, <1>4, <1>6, Assemble

LEMMA MarkDeliveredOrd == ASSUME Inv, Ord, NEW p \in Hooks, MarkDelivered(p) PROVE Ord'
<1>1. PICK n \in Oldest(hook[p].done) :
        Remove(n, "delivered") /\ hook' = [hook EXCEPT ![p].done = @ \ {n}]
  BY DEF MarkDelivered
<1>2. /\ hook[p].phase = "removing" /\ hook[p] \in Hook /\ hook \in [Hooks -> Hook]
      /\ event \in [Ids -> Event] /\ file \in [Ids -> File]
      /\ lock' = lock /\ local' = local /\ run' = run /\ refused' = refused
  BY DEF MarkDelivered, At, server, Inv, TypeOK, ghosts
<1>3. /\ hook[p].phase \in Replaying /\ hook[p].todo = {} /\ hook[p].done \subseteq Ids
      /\ \A e \in hook[p].done : event[e].state = "queued"
  BY <1>2, KnownAreIds DEF Ord, Turns, Locked, Replaying, Loop, Working, Inv, TypeOK, HooksFit, InHand
<1>4. n \in hook[p].done /\ n \in Ids /\ event[n].state = "queued"
  BY <1>3 DEF Oldest
<1>5. /\ event'[n].state = "delivered" /\ event'[n].kind = event[n].kind
      /\ \A e \in Ids \ {n} : event'[e] = event[e] /\ file'[e] = file[e]
  BY <1>1, <1>2, <1>4 DEF Remove, Event
<1>6. /\ Only(p) /\ hook'[p].phase = "removing" /\ hook'[p].done = hook[p].done \ {n}
      /\ hook'[p].todo = hook[p].todo
  BY <1>1, <1>2 DEF Only, Hook
<1>7. InTurn(p)' /\ AtWork(p)'
  BY <1>6 DEF InTurn, AtWork, Loop, Working
<1>8. \A e \in Ids : Open(e)' <=> Open(e)
  BY <1>3, <1>4, <1>5, <1>6, Holder, OpenAfter
<1>9. \A e \in Ids : Over(e)' => Over(e)
  BY <1>4, <1>5, <1>6 DEF Over, Only
<1>10. ~ Open(n) /\ ~ Unstored(n)'
  BY <1>4, <1>5 DEF Open, Unstored
<1>11. Frozen' /\ Runs' /\ Finished' /\ Fresh'
  BY <1>2, <1>5, <1>8, <1>9, <1>10, SameRuns, Unmoved DEF Unstored
<1>12. /\ \A e \in hook'[p].done : event'[e].state = "queued"
       /\ \A e \in Ids : event[e].state = "stamped" => event'[e].state = "stamped"
  BY <1>3, <1>4, <1>5, <1>6
<1> QED BY <1>2, <1>3, <1>6, <1>7, <1>11, <1>12, Assemble

(* With the hook gone that replayed, nobody replays. *)
LEMMA Alone ==
  ASSUME Inv, Ord, NEW p \in Hooks, hook[p].phase \in Replaying, hook' = [hook EXCEPT ![p] = Idle],
         Frozen', Runs', Finished', Fresh',
         \A e \in Ids : event[e].state = "stamped" => event'[e].state = "stamped"
  PROVE  Ord'
<1>1. Only(p) /\ hook'[p].phase = "idle" /\ hook'[p].done = {} /\ hook'[p].todo = {}
  BY DEF Inv, TypeOK, Only, Idle
<1>2. ASSUME NEW q \in Hooks PROVE Locked(q)' /\ InTurn(q)' /\ AtWork(q)'
  <2>1. hook'[q].phase \notin Replaying /\ hook'[q].done = {} /\ hook'[q].todo = {}
    BY <1>1, Holder DEF Only, Replaying, Loop, Working
  <2> QED BY <2>1, Waits
<1>3. Stamps'
  BY <1>1, StampsStay
<1> QED BY <1>2, <1>3 DEF Ord, Turns

LEMMA LeaveOrd == ASSUME Inv, Ord, NEW p \in Hooks, Leave(p) PROVE Ord'
<1>1. /\ hook[p].phase = "removing" /\ hook[p].done = {} /\ hook' = [hook EXCEPT ![p] = Idle]
      /\ event' = event /\ file' = file /\ local' = local /\ run' = run /\ refused' = refused /\ hook \in [Hooks -> Hook]
  BY DEF Leave, At, server, Inv, TypeOK, ghosts
<1>2. hook[p].phase \in Replaying
  BY <1>1 DEF Replaying
<1>3. \A q \in Hooks : hook'[q].done = hook[q].done
  BY <1>1 DEF Idle
<1>4. \A e \in Ids : (Open(e)' <=> Open(e)) /\ (Over(e)' => Over(e))
  BY <1>1, <1>3 DEF Open, Over
<1>5. Frozen' /\ Runs' /\ Finished' /\ Fresh'
  BY <1>1, <1>4, SameRuns, Unmoved DEF Unstored
<1> QED BY <1>1, <1>2, <1>5, Alone

LEMMA KillOrd == ASSUME Inv, Ord, Orderly', NEW p \in Hooks, Kill(p) PROVE Ord'
<1>1. /\ hook' = [hook EXCEPT ![p] = Idle] /\ hook \in [Hooks -> Hook]
      /\ lock' = IF lock.by = p THEN [lock EXCEPT !.dead = TRUE] ELSE lock
      /\ local' = local /\ run' = run /\ refused' = refused /\ event \in [Ids -> Event] /\ file \in [Ids -> File]
  BY DEF Kill, server, Inv, TypeOK, ghosts
<1>2. hook[p].done = {}
  BY DEF Kill, Orderly
<1>3. /\ Only(p) /\ hook'[p].phase = "idle" /\ hook'[p].done = {} /\ hook'[p].todo = {}
      /\ hook'[p].phase \notin Replaying
  BY <1>1 DEF Only, Idle, Replaying, Loop, Working
<1>4. \A q \in Hooks : hook'[q].done = hook[q].done
  BY <1>1, <1>2 DEF Idle
<1>5. CASE hook[p].phase = "stamped"
  <2>1. PICK n : n = hook[p].current
    OBVIOUS
  <2>2. n \in Ids /\ event[n].state = "stamped"
    BY <1>5, <2>1, KnownAreIds DEF Inv, TypeOK, HooksFit, InHand, Ord, Stamps
  <2>3. event' = [event EXCEPT ![n].state = "lost"] /\ file' = file
    BY <1>5, <2>1 DEF Kill, At
  <2>4. event'[n].state = "lost" /\ event'[n].kind = event[n].kind /\ \A e \in Ids \ {n} : event'[e] = event[e]
    BY <1>1, <2>2, <2>3 DEF Event
  <2>5. hook[p].phase \notin Replaying
    BY <1>5 DEF Replaying, Loop, Working
  <2>6. lock' = lock \/ \A q \in Hooks : hook[q].phase \notin Replaying
    BY <1>1, <2>5 DEF Ord, Turns, Locked
  <2>7. Stamps'
    BY <1>3, <1>5, <2>1, <2>4, StampsStay
  <2>8. \A e \in Ids : Open(e)' => Open(e)
    BY <1>4, <2>4 DEF Open
  <2>9. \A e \in Ids : /\ event[e].state = "queued" => event'[e] = event[e]
                       /\ event'[e].state = "delivered" => event[e].state = "delivered"
                       /\ event[e].state # "none" => event'[e].kind = event[e].kind
                       /\ Unstored(e)' => Unstored(e)
    BY <2>2, <2>4 DEF Unstored
  <2> QED BY <1>1, <1>3, <2>3, <2>5, <2>6, <2>7, <2>8, <2>9, Beside
<1>6. CASE hook[p].phase # "stamped" /\ event' = event /\ file' = file
  <2>1. CASE hook[p].phase \notin Replaying
    <3>1. lock' = lock \/ \A q \in Hooks : hook[q].phase \notin Replaying
      BY <1>1, <2>1 DEF Ord, Turns, Locked
    <3> QED BY <1>1, <1>3, <1>6, <2>1, <3>1, LooksOn
  <2>2. CASE hook[p].phase \in Replaying
    <3>1. \A e \in Ids : (Open(e)' <=> Open(e)) /\ (Over(e)' => Over(e))
      BY <1>4, <1>6 DEF Open, Over
    <3>2. Frozen' /\ Runs' /\ Finished' /\ Fresh'
      BY <1>1, <1>6, <3>1, SameRuns, Unmoved DEF Unstored
    <3> QED BY <1>1, <1>6, <2>2, <3>2, Alone
  <2> QED BY <2>1, <2>2
<1>7. CASE hook[p].phase = "discarding" /\ Remove(Item(p), "dropped")
  <2>1. PICK n : n = Item(p)
    OBVIOUS
  <2>2. hook[p].phase \in Working /\ hook[p].phase \in Replaying
    BY <1>7 DEF Working, Replaying, Loop
  <2>3. n \in Ids /\ event[n].state = "queued" /\ (Live(n) => local.run = n)
    BY <1>7, <2>1, <2>2, ItemFirst DEF Ord, Turns, AtWork
  <2>4. /\ event'[n].state = "dropped" /\ event'[n].kind = event[n].kind
        /\ \A e \in Ids \ {n} : event'[e] = event[e] /\ file'[e] = file[e]
    BY <1>1, <1>7, <2>1, <2>3 DEF Remove, Event
  <2>5. \A e \in Ids : Open(e)' <=> Open(e) /\ e # n
    BY <1>4, <2>4 DEF Open
  <2>6. \A e \in Ids : Over(e)' => Over(e)
    BY <1>4, <2>4 DEF Over
  <2>7. ~ Unstored(n)'
    BY <2>4 DEF Unstored
  <2>8. Frozen' /\ Runs' /\ Finished' /\ Fresh'
    BY <1>1, <2>3, <2>4, <2>5, <2>6, <2>7, SameRuns, Unmoved DEF Unstored
  <2> QED BY <1>1, <2>2, <2>3, <2>4, <2>8, Alone
<1> QED BY <1>5, <1>6, <1>7 DEF Kill, At

LEMMA PickedHook ==
  ASSUME Inv, NEW p \in Hooks, Pick(p)
  PROVE  \E n \in Oldest(hook[p].todo) :
           /\ Only(p) /\ hook'[p].item = n /\ hook'[p].todo = hook[p].todo \ {n}
           /\ hook'[p].owned = local.run /\ hook'[p].copy = hook[p].copy
           /\ IF event[n].kind = "finish" /\ local.run = 0
                THEN hook'[p].done = hook[p].done \cup {n} /\ hook'[p].phase = "next"
                ELSE hook'[p].done = hook[p].done /\ hook'[p].phase = Route(event[n].kind)
<1> DEFINE idle(e) == event[e].kind = "finish" /\ local.run = 0
           h(e) == [hook[p] EXCEPT !.item = e, !.todo = @ \ {e}, !.owned = local.run,
                      !.quiet = (event[e].kind = "heartbeat" /\ local.run = 0),
                      !.done  = IF idle(e) THEN @ \cup {e} ELSE @,
                      !.phase = IF idle(e) THEN @ ELSE Route(event[e].kind)]
<1>1. PICK n \in Oldest(hook[p].todo) : hook' = [hook EXCEPT ![p] = h(n)]
  BY Zenon DEF Pick
<1>2. hook[p] \in Hook /\ hook[p].phase = "next" /\ hook \in [Hooks -> Hook]
  BY DEF Pick, At, Inv, TypeOK
<1>3. /\ h(n).item = n /\ h(n).todo = hook[p].todo \ {n} /\ h(n).owned = local.run
      /\ h(n).copy = hook[p].copy
      /\ h(n).done = (IF idle(n) THEN hook[p].done \cup {n} ELSE hook[p].done)
      /\ h(n).phase = (IF idle(n) THEN "next" ELSE Route(event[n].kind))
  BY <1>2 DEF Hook
<1> HIDE DEF h
<1>4. hook'[p] = h(n) /\ Only(p)
  BY <1>1, <1>2 DEF Only
<1> QED BY <1>3, <1>4

LEMMA PickOrd == ASSUME Inv, Ord, NEW p \in Hooks, Pick(p) PROVE Ord'
<1>1. PICK n \in Oldest(hook[p].todo) :
        /\ Only(p) /\ hook'[p].item = n /\ hook'[p].todo = hook[p].todo \ {n}
        /\ hook'[p].owned = local.run /\ hook'[p].copy = hook[p].copy
        /\ IF event[n].kind = "finish" /\ local.run = 0
             THEN hook'[p].done = hook[p].done \cup {n} /\ hook'[p].phase = "next"
             ELSE hook'[p].done = hook[p].done /\ hook'[p].phase = Route(event[n].kind)
  BY PickedHook
<1>2. /\ hook[p].phase = "next" /\ hook[p].phase \in Loop /\ hook[p].phase \in Replaying
      /\ hook[p].phase \notin Working
      /\ lock' = lock /\ event' = event /\ file' = file /\ local' = local /\ run' = run /\ refused' = refused
  BY DEF Pick, At, Loop, Replaying, Working, disk, server, ghosts
<1>3. /\ hook[p].todo \subseteq Ids /\ n \in hook[p].todo /\ n \in Ids
      /\ \A f \in hook[p].todo : n <= f
      /\ Front(p) = hook[p].todo
  BY <1>2, KnownAreIds DEF Oldest, Front, Inv, TypeOK, HooksFit, InHand
<1>4. /\ \A e \in hook[p].todo : Open(e) /\ \A f \in Ids : Open(f) /\ f \notin hook[p].todo => e < f
      /\ \A e \in hook[p].todo : hook[p].copy[e] = file[e]
  BY <1>2, <1>3 DEF Ord, Turns, InTurn
<1>5. \A f \in Ids : Open(f) => n <= f
  <2>1. ASSUME NEW f \in Ids, Open(f) PROVE n <= f
    <3>1. n <= f \/ n < f
      BY <1>3, <1>4, <2>1
    <3> QED BY <1>3, <3>1 DEF Ids
  <2> QED BY <2>1
<1>6. Open(n) /\ event[n].state = "queued" /\ \A e \in hook[p].done : event[e].state = "queued" /\ e \in Ids
  BY <1>3, <1>4, KnownAreIds DEF Open, Ord, Turns, Locked, Inv, TypeOK, HooksFit, InHand
<1>7. \A f \in hook'[p].todo : n < f
  BY <1>1, <1>3 DEF Ids
<1>8. CASE event[n].kind = "finish" /\ local.run = 0
  <2>1. hook'[p].done = hook[p].done \cup {n} /\ hook'[p].phase = "next"
    BY <1>1, <1>8
  <2>2. /\ hook'[p].phase \in Loop /\ hook'[p].phase \in Replaying /\ hook'[p].phase \notin Working
        /\ Front(p)' = hook[p].todo \ {n}
    BY <1>1, <2>1 DEF Loop, Replaying, Working, Front
  <2>3. \A e \in Ids : Open(e)' <=> Open(e) /\ e # n
    BY <1>1, <1>2, <1>6, <2>1, Holder, OpenAfter
  <2>4. InTurn(p)'
    BY <1>1, <1>2, <1>3, <1>4, <2>2, <2>3 DEF InTurn
  <2>5. AtWork(p)'
    BY <2>1 DEF AtWork
  <2>6. Frozen'
    BY <1>2, <2>3 DEF Ord, Frozen, Asked
  <2>7. run[n].state = "none" /\ ~ Live(n)
    BY <1>3, <1>8 DEF Ord, Runs, Live
  <2>8. Runs'
    BY <1>2, <2>3, <2>7 DEF Ord, Runs, Live, Asked
  <2>9. Finished'
    <3>1. ASSUME NEW f \in Ids, event'[f].kind = "finish", Over(f)'
          PROVE  (\A r \in 1 .. f : ~ Live(r)') /\ \A e \in Ids : Open(e)' => f < e
      <4>1. CASE Over(f)
        <5>1. (\A r \in 1 .. f : ~ Live(r)) /\ \A e \in Ids : Open(e) => f < e
          BY <1>2, <3>1, <4>1 DEF Ord, Finished
        <5> QED BY <1>2, <2>3, <5>1 DEF Live
      <4>2. CASE ~ Over(f)
        <5>1. f = n
          BY <1>1, <1>2, <2>1, <3>1, <4>2 DEF Over, Only
        <5>2. \A e \in Ids : Open(e)' => f < e
          BY <1>5, <2>3, <5>1 DEF Ids
        <5>3. ASSUME NEW r \in 1 .. f, Live(r)' PROVE FALSE
          <6>1. r \in Ids /\ ~ (f < r) /\ r # 0
            BY BoundsAssumption DEF Ids
          <6>2. Open(r)'
            BY <1>2, <1>8, <2>8, <5>3, <6>1 DEF Runs
          <6> QED BY <5>2, <6>1, <6>2
        <5> QED BY <5>2, <5>3
      <4> QED BY <4>1, <4>2
    <3> QED BY <3>1 DEF Finished
  <2>10. Fresh'
    BY <1>2 DEF Ord, Fresh, Unstored, Asked
  <2>11. /\ \A e \in hook'[p].done : event'[e].state = "queued"
         /\ \A e \in Ids : event[e].state = "stamped" => event'[e].state = "stamped"
    BY <1>2, <1>6, <2>1
  <2> QED BY <1>1, <1>2, <2>2, <2>4, <2>5, <2>6, <2>8, <2>9, <2>10, <2>11, Assemble
<1>9. CASE ~ (event[n].kind = "finish" /\ local.run = 0)
  <2>1. hook'[p].done = hook[p].done /\ hook'[p].phase = Route(event[n].kind)
    BY <1>1, <1>9
  <2>2. /\ hook'[p].phase \in {"finishing", "switching", "beating", "starting"}
        /\ hook'[p].phase # "starting" => local.run # 0
        /\ hook'[p].phase # "finishing" => event[n].kind # "finish"
    BY <1>9, <2>1 DEF Route
  <2>3. hook'[p].phase \in Loop /\ hook'[p].phase \in Replaying /\ hook'[p].phase \in Working
    BY <2>2 DEF Loop, Replaying, Working
  <2>4. Front(p)' = hook[p].todo /\ Item(p)' = n
    BY <1>1, <1>3, <2>3 DEF Front, Item
  <2>5. \A e \in Ids : (Open(e)' <=> Open(e)) /\ (Over(e)' => Over(e))
    BY <1>1, <1>2, <2>1 DEF Open, Over, Only
  <2>6. InTurn(p)'
    BY <1>1, <1>2, <1>3, <1>4, <1>7, <2>4, <2>5 DEF InTurn
  <2>7. AtWork(p)'
    BY <1>1, <1>2, <1>3, <1>4, <2>2, <2>4 DEF AtWork
  <2>8. Frozen' /\ Runs' /\ Finished' /\ Fresh'
    BY <1>2, <2>5, SameRuns, Unmoved DEF Unstored
  <2>9. /\ \A e \in hook'[p].done : event'[e].state = "queued"
        /\ \A e \in Ids : event[e].state = "stamped" => event'[e].state = "stamped"
    BY <1>2, <1>6, <2>1
  <2> QED BY <1>1, <1>2, <2>3, <2>6, <2>7, <2>8, <2>9, Assemble
<1> QED BY <1>8, <1>9

-----------------------------------------------------------------------------
(* Around the hooks, and the theorems *)

(* The hooks and what they store stay; of the runs none comes to life. *)
LEMMA AroundOrd ==
  ASSUME Inv, Ord, UNCHANGED <<event, disk, hook>>, \A r \in Ids : Weaker(r)
  PROVE  Ord'
<1>1. event' = event /\ file' = file /\ local' = local /\ lock' = lock /\ hook' = hook
  BY DEF disk
<1>2. \A e \in Ids : (Open(e)' <=> Open(e)) /\ (Over(e)' => Over(e))
  BY <1>1 DEF Open, Over
<1>3. Frozen' /\ Runs' /\ Finished' /\ Fresh'
  BY <1>1, <1>2, Unmoved DEF Unstored
<1>4. ASSUME NEW q \in Hooks PROVE Locked(q)' /\ InTurn(q)' /\ AtWork(q)'
  <2>1. CASE hook[q].phase \in Replaying
    BY <1>1, <1>2, <2>1, Undisturbed
  <2>2. CASE hook[q].phase \notin Replaying
    <3>1. hook[q].done = {} /\ hook[q].todo = {}
      BY <2>2 DEF Ord, Turns, Locked, Replaying
    <3> QED BY <1>1, <2>2, <3>1, Waits
  <2> QED BY <2>1, <2>2
<1>5. Stamps'
  BY <1>1 DEF Ord, Stamps
<1> QED BY <1>3, <1>4, <1>5 DEF Ord, Turns

LEMMA InitOrd == ASSUME Init PROVE Ord
<1>1. /\ \A p \in Hooks : hook[p].phase = "idle" /\ hook[p].done = {} /\ hook[p].todo = {}
      /\ \A e \in Ids : event[e].state = "none" /\ run[e].state = "none" /\ file[e].request = NoRequest
  BY DEF Init, Idle, Blank
<1>2. Turns
  BY <1>1 DEF Turns, Locked, InTurn, AtWork, Replaying, Loop, Working
<1>3. Stamps /\ Frozen /\ Runs /\ Finished /\ Fresh
  BY <1>1 DEF Stamps, Frozen, Runs, Finished, Fresh, Open, Over, Live, Asked
<1> QED BY <1>2, <1>3 DEF Ord

LEMMA StepOrd == ASSUME Inv, Ord, [Next]_vars, Orderly' PROVE Ord'
<1>1. ASSUME NEW p \in Hooks, NEW kind \in Kinds, Fire(p, kind) PROVE Ord'
  BY <1>1, FireOrd
<1>2. ASSUME NEW p \in Hooks, Enqueue(p) \/ TakeLock(p) \/ Look(p) \/ Steal(p) PROVE Ord'
  BY <1>2, EnqueueOrd, TakeLockOrd, LookOrd, StealOrd
<1>3. ASSUME NEW p \in Hooks, Pick(p) \/ GoOn(p) \/ Fail(p) \/ Refused(p) \/ Discard(p) \/ Stop(p) PROVE Ord'
  BY <1>3, PickOrd, GoOnOrd, FailOrd, RefusedOrd, DiscardOrd, StopOrd
<1>4. ASSUME NEW p \in Hooks, FinishOld(p) \/ ForgetOld(p) \/ Reprint(p) \/ Ping(p) \/ Freeze(p) \/ Resend(p)
      PROVE  Ord'
  BY <1>4, FinishOldOrd, ForgetOldOrd, ReprintOrd, PingOrd, FreezeOrd, ResendOrd
<1>5. ASSUME NEW p \in Hooks, PostStart(p) \/ Save(p) \/ StoreNotice(p) PROVE Ord'
  BY <1>5, PostStartOrd, SaveOrd, StoreNoticeOrd
<1>6. ASSUME NEW p \in Hooks, Beat(p) \/ Finish(p) \/ ForgetFinished(p) PROVE Ord'
  BY <1>6, BeatOrd, FinishOrd, ForgetFinishedOrd
<1>7. ASSUME NEW p \in Hooks, PrintAll(p) \/ MarkDelivered(p) \/ Leave(p) \/ Kill(p) PROVE Ord'
  BY <1>7, PrintAllOrd, MarkDeliveredOrd, LeaveOrd, KillOrd
<1>8. ASSUME NEW t \in Trees, Checkout(t) PROVE Ord'
  <2>1. run' = run /\ refused' = refused /\ UNCHANGED <<event, disk, hook>>
    BY <1>8 DEF Checkout, server, ghosts
  <2> QED BY <2>1, SameRuns, AroundOrd
<1>9. ASSUME NEW r \in Ids, NEW state \in {"ended", "stale"}, EndElsewhere(r, state) PROVE Ord'
  <2>1. /\ UNCHANGED <<event, disk, hook>> /\ run[r].state = "live"
        /\ run' = [run EXCEPT ![r].state = state] /\ refused' = refused
    BY <1>9 DEF EndElsewhere, ghosts
  <2>2. ASSUME NEW q \in Ids PROVE Weaker(q)
    <3>1. run[q] \in Run
      BY AsideTypes
    <3>2. CASE q = r
      BY <2>1, <3>1, <3>2, AsideTypes DEF Weaker, Live, Run
    <3>3. CASE q # r
      BY <2>1, <3>3, AsideTypes DEF Weaker, Live
    <3> QED BY <3>2, <3>3
  <2> QED BY <2>1, <2>2, AroundOrd
<1>10. ASSUME UNCHANGED vars PROVE Ord'
  <2>1. run' = run /\ refused' = refused /\ UNCHANGED <<event, disk, hook>>
    BY <1>10 DEF vars, server, ghosts
  <2> QED BY <2>1, SameRuns, AroundOrd
<1> QED BY <1>1, <1>2, <1>3, <1>4, <1>5, <1>6, <1>7, <1>8, <1>9, <1>10 DEF Next

LEMMA InOrder == Spec => [](Inv /\ (Orderly => Ord))
<1>1. Init => Inv /\ (Orderly => Ord)
  BY InitInv, InitOrd
<1>2. Inv /\ (Orderly => Ord) /\ [Next]_vars => (Inv /\ (Orderly => Ord))'
  BY Inductive, OrderlyBefore, StepOrd
<1> QED BY <1>1, <1>2, PTL DEF Spec

(* As long as hooks keep their turn, no answer that gets lost and no hook that dies leaves the  *)
(* server with a live run that neither the session nor a stored event knows (index.ts           *)
(* 1300-1335), but for a start that the server refuses when it is sent again (1833-1844).       *)
THEOREM NoOrphans == Spec => []NoRunIsOrphaned
<1>1. Inv /\ (Orderly => Ord) => NoRunIsOrphaned
  BY DEF Ord, Runs, Live, Open, Asked, NoRunIsOrphaned
<1> QED BY <1>1, InOrder, PTL

(* As long as hooks keep their turn, a delivered finish leaves no run of its session live, *)
(* whatever was sent again before it (index.ts 1604-1619, 1846-1851), but for the runs      *)
(* whose start was refused when it was sent again.                                          *)
THEOREM FinishedSessionsRest == Spec => []FinishLeavesNothing
<1>1. Inv /\ (Orderly => Ord) => FinishLeavesNothing
  BY DEF Ord, Finished, Over, Live, FinishLeavesNothing
<1> QED BY <1>1, InOrder, PTL
===============================================================================
