------------------------------ MODULE Knowledge ------------------------------
(***************************************************************************)
(* The Knowledge Hub of one workspace                                      *)
(* (packages/server/src/domain/knowledge.ts).  Drafts are proposed and     *)
(* published by owners who look at a console page and send back what it    *)
(* showed; publications are archived, withdrawn or erased.  All of that    *)
(* runs under the lock of the team's row, so each write is one action.     *)
(* Contexts served to run starts and handoff resumes are not under it:     *)
(* they are read, kept and replayed while the rest changes.                *)
(***************************************************************************)
EXTENDS Integers, FiniteSets

CONSTANTS
  Items,         \* stable keys
  Audiences,     \* who a version is for
  Readers,       \* credentials that ask for context
  Sees,          \* reader |-> the audiences it belongs to
  Owners,        \* consoles of workspace owners
  Starts,        \* run starts and handoff resumes: what keeps one context each
  Calls,         \* requests for context that may be under way at once
  MaxVersions,   \* bound: how many versions are written
  DraftLimit, PublishedLimit, VersionLimit,   \* capacity of a hosted workspace
  Perishable,    \* the texts that state an end of their validity
  Unpublished    \* whether lifecycle requests are made for items without a publication

ASSUME SetsAssumption ==
  /\ IsFiniteSet(Items) /\ "none" \notin Items \cup Starts
  /\ Sees \in [Readers -> SUBSET Audiences] /\ Unpublished \in BOOLEAN
ASSUME BoundsAssumption ==
  MaxVersions \in Nat /\ DraftLimit \in Nat /\ PublishedLimit \in Nat /\ VersionLimit \in Nat

VARIABLES
  item,       \* stable key |-> its head: state, current version, draft
  version,    \* the versions written, numbered in order
  written,    \* how many there are
  page,       \* owner |-> what the console showed
  context,    \* start |-> the context kept for it
  call,       \* what each request for context is about
  shown,      \* versions some page showed
  reviewed,   \* <<draft, current>> pairs some page showed
  retired,    \* versions that were archived or withdrawn while current
  tombs,      \* items that were erased
  overtaken,  \* starts whose context was being built when a text in it was erased
  answered,   \* start |-> the manifests it was answered with
  told        \* start |-> the reports its client was told are kept

hub    == <<item, version, written>>
ghosts == <<shown, reviewed, retired, tombs, overtaken, answered, told>>
vars   == <<hub, page, context, call, ghosts>>

Ids     == 1 .. MaxVersions
ItemOrNone   == Items \cup {"none"}
ReaderOrNone == Readers \cup {"none"}

Head    == [state : {"none", "active", "archived", "withdrawn", "deleted"},
            current : 0 .. MaxVersions, draft : 0 .. MaxVersions]
Version == [item : ItemOrNone, status : {"none", "draft", "published"},
            audience : Audiences \cup {"none"},
            text : 0 .. MaxVersions, supersedes : 0 .. MaxVersions, conflict : 0 .. MaxVersions,
            expired : BOOLEAN, erased : BOOLEAN]
Page    == [item : ItemOrNone, draft : 0 .. MaxVersions, current : 0 .. MaxVersions, fresh : BOOLEAN]
Context == [manifest : SUBSET Ids, kept : {"none", "held", "scrubbed"}, reader : ReaderOrNone,
            report : {"none", "exact", "wrong"}]
Call    == [phase : {"idle", "begun", "built", "checking", "answered"}, start : Starts \cup {"none"},
            reader : ReaderOrNone, manifest : SUBSET Ids, left : SUBSET Ids, since : SUBSET Ids]

NoPage    == [item |-> "none", draft |-> 0, current |-> 0, fresh |-> FALSE]
NoVersion == [item |-> "none", status |-> "none", audience |-> "none", text |-> 0, supersedes |-> 0,
              conflict |-> 0, expired |-> FALSE, erased |-> FALSE]
NoContext == [manifest |-> {}, kept |-> "none", reader |-> "none", report |-> "none"]
IdleCall  == [phase |-> "idle", start |-> "none", reader |-> "none", manifest |-> {}, left |-> {},
              since |-> {}]

VersionsOf(k) == {v \in 1 .. written : version[v].item = k}
CurrentOf(k)  == item[k].state = "active" /\ item[k].current # 0
IsCurrent(v)  == version[v].status = "published" /\ item[version[v].item].state = "active"
                   /\ item[version[v].item].current = v

(* What retrieval finds: current, not expired, for the reader (drafts never). *)
Visible(v, r) == IsCurrent(v) /\ ~version[v].expired /\ version[v].audience \in Sees[r]

(* Types; what is numbered is written, and nothing points past it. *)
TypeOK ==
  /\ item \in [Items -> Head]
  /\ version \in [Ids -> Version]
  /\ written \in 0 .. MaxVersions
  /\ page \in [Owners -> Page]
  /\ context \in [Starts -> Context]
  /\ call \in [Calls -> Call]
  /\ \A v \in Ids : version[v].status # "none" <=> v <= written
  /\ \A k \in Items : item[k].current <= written /\ item[k].draft <= written
  /\ shown \subseteq Ids /\ reviewed \subseteq Ids \X (0 .. MaxVersions) /\ retired \subseteq Ids
  /\ tombs \subseteq Items /\ overtaken \subseteq Starts
  /\ answered \in [Starts -> SUBSET SUBSET Ids]
  /\ told \in [Starts -> SUBSET {"exact", "wrong"}]

Init ==
  /\ item = [k \in Items |-> [state |-> "none", current |-> 0, draft |-> 0]]
  /\ version = [v \in Ids |-> NoVersion]
  /\ written = 0
  /\ page = [o \in Owners |-> NoPage]
  /\ context = [s \in Starts |-> NoContext]
  /\ call = [c \in Calls |-> IdleCall]
  /\ shown = {} /\ reviewed = {} /\ retired = {} /\ tombs = {} /\ overtaken = {}
  /\ answered = [s \in Starts |-> {}]
  /\ told = [s \in Starts |-> {}]

-----------------------------------------------------------------------------
(* Capacity and the console *)

Drafts    == {k \in Items : item[k].draft # 0}
Published == {k \in Items : item[k].current # 0}
Living    == {v \in 1 .. written : item[version[v].item].state # "deleted"}

(* Mutant: what is used now is compared with the limits. *)
FitsNow(drafts, published) ==
  /\ Cardinality(Drafts) <= DraftLimit
  /\ Cardinality(Published) <= PublishedLimit
  /\ Cardinality(Living) <= VersionLimit

(* What a write would use, against the limits; a workspace that is not hosted has none. *)
Fits(drafts, published) ==
  /\ Cardinality(Drafts) + drafts <= DraftLimit
  /\ Cardinality(Published) + published <= PublishedLimit
  /\ Cardinality(Living) + 1 <= VersionLimit

(* Every write of an item's head moves its generation on: no page shows it any more. *)
Moved(k) == page' = [o \in Owners |-> IF page[o].item = k THEN [page[o] EXCEPT !.fresh = FALSE] ELSE page[o]]

Load(o, k) ==
  /\ item[k].state # "none"
  /\ page' = [page EXCEPT ![o] = [item |-> k, draft |-> item[k].draft, current |-> item[k].current,
                                  fresh |-> TRUE]]
  /\ shown' = shown \cup VersionsOf(k)
  /\ reviewed' = IF item[k].draft # 0 THEN reviewed \cup {<<item[k].draft, item[k].current>>}
                                      ELSE reviewed
  /\ UNCHANGED <<hub, context, call, retired, tombs, overtaken, answered, told>>

-----------------------------------------------------------------------------
(* Writes, each under the team's row *)

Write(v, new) ==
  /\ version' = [version EXCEPT ![v] = new]
  /\ written' = v

(* A conflict may be declared with a publication of an item that is not erased. *)
Opposable(w) == version[w].status = "published" /\ item[version[w].item].state # "deleted"

(* A proposal that names the draft it replaces, if there is one; others are refused. *)
Propose(k, a, w) ==
  LET v == written + 1 IN
  /\ v \in Ids /\ item[k].state # "deleted"
  /\ w # 0 => Opposable(w)
  /\ Fits(IF item[k].draft = 0 THEN 1 ELSE 0, 0)
  /\ Write(v, [item |-> k, status |-> "draft", audience |-> a, text |-> v, supersedes |-> 0,
               conflict |-> w, expired |-> FALSE, erased |-> FALSE])
  /\ item' = [item EXCEPT ![k].draft = v,
                          ![k].state = IF item[k].state = "none" THEN "active" ELSE item[k].state]
  /\ Moved(k)
  /\ UNCHANGED <<context, call, ghosts>>

(* Mutant: the item's draft is published, whichever it is by now. *)
ReviewedNow(o) == IF page[o].item = "none" THEN 0 ELSE item[page[o].item].draft

Reviewed(o) == page[o].draft

AsShown(o) ==
  LET k == page[o].item IN
  Reviewed(o) # 0 /\ item[k].draft = Reviewed(o) /\ item[k].current = page[o].current

(* Mutant: a declared conflict is kept for the record only. *)
OpposedNever(d) == FALSE

Opposed(d) == version[d].conflict # 0 /\ IsCurrent(version[d].conflict)

(* Mutant: the draft's readers are not compared with the active publication's. *)
MovesScopeNever(k, d) == FALSE

MovesScope(k, d) == CurrentOf(k) /\ version[item[k].current].audience # version[d].audience

RoomToPublish(k) == Fits(-1, IF item[k].current = 0 THEN 1 ELSE 0)

Publish(o) ==
  LET k == page[o].item
      d == Reviewed(o)
      v == written + 1 IN
  /\ AsShown(o) /\ v \in Ids
  /\ ~version[d].expired /\ ~Opposed(d) /\ ~MovesScope(k, d) /\ RoomToPublish(k)
  /\ Write(v, [version[d] EXCEPT !.status = "published", !.supersedes = item[k].current])
  /\ item' = [item EXCEPT ![k] = [state |-> "active", current |-> v, draft |-> 0]]
  /\ call' = [c \in Calls |-> IF call[c].phase = "idle" THEN call[c]
                                                        ELSE [call[c] EXCEPT !.since = @ \cup {v}]]
  /\ Moved(k)
  /\ UNCHANGED <<context, ghosts>>

(* A draft for other readers than the active publication's is refused, and the refusal is kept on it. *)
RefuseScope(o) ==
  LET k == page[o].item
      d == Reviewed(o) IN
  /\ AsShown(o) /\ ~version[d].expired /\ ~Opposed(d) /\ MovesScope(k, d)
  /\ version' = [version EXCEPT ![d].conflict = item[k].current]
  /\ UNCHANGED <<item, written, page, context, call, ghosts>>

(* Mutant: the item is taken as it is. *)
LifecycleAsIs(o) == page[o].current # 0 \/ Unpublished

(* The console has the buttons only where there is a publication. *)
LifecycleApplies(o) ==
  /\ item[page[o].item].current = page[o].current
  /\ page[o].current # 0 \/ Unpublished

SetLifecycle(o, state) ==
  LET k == page[o].item IN
  /\ k # "none" /\ LifecycleApplies(o)
  /\ item' = [item EXCEPT ![k].state = state]
  /\ retired' = IF item[k].current # 0 THEN retired \cup {item[k].current} ELSE retired
  /\ Moved(k)
  /\ UNCHANGED <<version, written, context, call, shown, reviewed, tombs, overtaken, answered, told>>

(* Mutant: the copies kept for replay stay. *)
ScrubbedNever(k) == context

Scrubbed(k) ==
  [s \in Starts |-> IF context[s].kept = "held" /\ context[s].manifest \cap VersionsOf(k) # {}
                      THEN [context[s] EXCEPT !.kept = "scrubbed"] ELSE context[s]]

MayErase(o) == page[o].item # "none" /\ item[page[o].item].state # "deleted" /\ page[o].fresh

(* Erasure empties every version and the copies kept so far; numbers and hashes stay. *)
Erase(o) ==
  LET k == page[o].item IN
  /\ MayErase(o)
  /\ context' = Scrubbed(k)
  /\ version' = [v \in Ids |-> IF v \in VersionsOf(k)
                                 THEN [version[v] EXCEPT !.erased = TRUE, !.conflict = 0] ELSE version[v]]
  /\ item' = [item EXCEPT ![k] = [state |-> "deleted", current |-> 0, draft |-> 0]]
  /\ Moved(k)
  /\ tombs' = tombs \cup {k}
  /\ overtaken' = overtaken \cup {call[c].start : c \in {d \in Calls : call[d].phase = "built"
                                                            /\ call[d].manifest \cap VersionsOf(k) # {}}}
  /\ UNCHANGED <<written, call, shown, reviewed, retired, answered, told>>

(* The end of a version's validity passes. *)
Expire(v) ==
  /\ v <= written /\ version[v].text \in Perishable /\ ~version[v].expired
  /\ version' = [version EXCEPT ![v].expired = TRUE]
  /\ UNCHANGED <<item, written, page, context, call, ghosts>>

-----------------------------------------------------------------------------
(* Contexts *)

(* The run's row, or the handoff's, admits one request about the same start; it looks for the kept context. *)
Begin(c, s, r) ==
  /\ call[c].phase = "idle" /\ \A d \in Calls : call[d].start # s
  /\ IF context[s].kept = "none"
       THEN call' = [call EXCEPT ![c] =
              [IdleCall EXCEPT !.phase = "begun", !.start = s, !.reader = r,
                               !.since = {v \in 1 .. written : IsCurrent(v)}]]
       ELSE /\ context[s].reader = r /\ context[s].kept = "held"
            /\ call' = [call EXCEPT ![c] =
                 [phase |-> "checking", start |-> s, reader |-> r, manifest |-> context[s].manifest,
                  left |-> context[s].manifest, since |-> {v \in 1 .. written : IsCurrent(v)}]]
  /\ UNCHANGED <<hub, page, context, ghosts>>

(* The query, the planned paths and the budget of 8 KiB choose among what the reader may see. *)
Build(c) ==
  /\ call[c].phase = "begun"
  /\ \E m \in SUBSET {v \in 1 .. written : Visible(v, call[c].reader)} :
       call' = [call EXCEPT ![c].phase = "built", ![c].manifest = m]
  /\ UNCHANGED <<hub, page, context, ghosts>>

Answer(c) ==
  answered' = [answered EXCEPT ![call[c].start] = @ \cup {call[c].manifest}]

Keep(c) ==
  LET s == call[c].start IN
  /\ call[c].phase = "built"
  /\ context' = [context EXCEPT ![s] = [manifest |-> call[c].manifest, kept |-> "held",
                                        reader |-> call[c].reader, report |-> "none"]]
  /\ call' = [call EXCEPT ![c].phase = "answered"]
  /\ Answer(c)
  /\ UNCHANGED <<hub, page, shown, reviewed, retired, tombs, overtaken, told>>

(* Mutant: what was served once is served again. *)
StillServedAlways(c, v) == TRUE

StillServed(c, v) == Visible(v, call[c].reader)

(* The replay looks at the versions of its manifest one after the other. *)
CheckOne(c, v) ==
  /\ call[c].phase = "checking" /\ v \in call[c].left /\ StillServed(c, v)
  /\ call' = [call EXCEPT ![c].left = @ \ {v}]
  /\ UNCHANGED <<hub, page, context, ghosts>>

Replay(c) ==
  /\ call[c].phase = "checking" /\ call[c].left = {}
  /\ call' = [call EXCEPT ![c].phase = "answered"]
  /\ Answer(c)
  /\ UNCHANGED <<hub, page, context, shown, reviewed, retired, tombs, overtaken, told>>

Outdated(c) == IdleCall

Refuse(c) ==
  /\ call[c].phase = "checking" /\ \E v \in call[c].left : ~StillServed(c, v)
  /\ call' = [call EXCEPT ![c] = Outdated(c)]
  /\ UNCHANGED <<hub, page, context, ghosts>>

(* The answer is out, or the request ends before it and leaves nothing. *)
End(c) ==
  /\ call[c].phase # "idle"
  /\ call' = [call EXCEPT ![c] = IdleCall]
  /\ UNCHANGED <<hub, page, context, ghosts>>

KeptReport(s, h) == IF context[s].report = "none" THEN h ELSE context[s].report

(* A client reports which manifest it applied; it is told the report that is kept. *)
Report(s, h) ==
  /\ context[s].kept # "none"
  /\ context' = [context EXCEPT ![s].report = KeptReport(s, h)]
  /\ told' = [told EXCEPT ![s] = @ \cup {KeptReport(s, h)}]
  /\ UNCHANGED <<hub, page, call, shown, reviewed, retired, tombs, overtaken, answered>>

Next ==
  \/ \E k \in Items, a \in Audiences, w \in 0 .. written : Propose(k, a, w)
  \/ \E o \in Owners :
       \/ \E k \in Items : Load(o, k)
       \/ Publish(o) \/ RefuseScope(o) \/ Erase(o)
       \/ \E state \in {"archived", "withdrawn"} : SetLifecycle(o, state)
  \/ \E v \in Ids : Expire(v)
  \/ \E c \in Calls :
       \/ \E s \in Starts, r \in Readers : Begin(c, s, r)
       \/ Build(c) \/ Keep(c) \/ Replay(c) \/ Refuse(c) \/ End(c)
       \/ \E v \in Ids : CheckOne(c, v)
  \/ \E s \in Starts, h \in {"exact", "wrong"} : Report(s, h)

Spec == Init /\ [][Next]_vars

-----------------------------------------------------------------------------
(* Properties *)

(* What is published is a draft its owner looked at, over the publication he saw it against; *)
(* neither a newer draft nor a newer publication slips in between (knowledge.ts 767-772).     *)
OnlyReviewed ==
  \A v \in 1 .. written : version[v].status = "published" =>
    <<version[v].text, version[v].supersedes>> \in reviewed

(* No publication stands against another it was declared to oppose (knowledge.ts 794-821). *)
NoOpenConflict ==
  \A v \in 1 .. written : IsCurrent(v) /\ version[v].conflict # 0 => ~IsCurrent(version[v].conflict)

(* A key changes its readers only after its publication was archived or withdrawn, however often *)
(* the change is tried (knowledge.ts 823-866).                                                    *)
ScopeMovesKnowingly ==
  \A v \in 1 .. written : version[v].supersedes # 0
    /\ version[version[v].supersedes].audience # version[v].audience
      => version[v].supersedes \in retired

(* Erasure takes only what its owner was shown, and the key stays a tombstone without pointers  *)
(* (knowledge.ts 1055-1063, 620-625).                                                            *)
ErasedWasShown == \A v \in 1 .. written : version[v].erased => v \in shown
TombstoneStands ==
  \A k \in tombs : item[k] = [state |-> "deleted", current |-> 0, draft |-> 0]
                     /\ \A v \in VersionsOf(k) : version[v].erased

(* A copy kept for replay holds no erased text, unless it was being built during the erasure. *)
NoCopyLeft ==
  \A s \in Starts \ overtaken : context[s].kept = "held" =>
    \A v \in context[s].manifest : ~version[v].erased

(* A request is answered, afresh or from the copy, with versions that were current since it came *)
(* and are for its reader (knowledge.ts 1486-1501).                                               *)
AnsweredWithCurrent ==
  \A c \in Calls : call[c].phase = "answered" => \A v \in call[c].manifest :
    v \in call[c].since /\ version[v].audience \in Sees[call[c].reader]

(* All answers to one start are the same envelope (knowledge.ts 1441-1445). *)
OneEnvelope == \A s \in Starts : \A m, n \in answered[s] : m = n

(* Whatever a client reports and repeats, it is told of one report (knowledge.ts 1563-1584). *)
OneReport == \A s \in Starts : \A g, h \in told[s] : g = h

(* Drafts, publications and versions stay within the workspace's capacity (knowledge.ts 493-543). *)
CapacityKept ==
  /\ Cardinality(Drafts) <= DraftLimit
  /\ Cardinality(Published) <= PublishedLimit
  /\ Cardinality(Living) <= VersionLimit

(* What knowledge.ts 1028-1032 says of erasure: retained response envelopes do not remain. *)
NothingRetained ==
  \A s \in Starts : context[s].kept = "held" => \A v \in context[s].manifest : ~version[v].erased
===============================================================================
