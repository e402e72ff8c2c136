--------------------------- MODULE KnowledgeProofs ---------------------------
(***************************************************************************)
(* Proofs about Knowledge for any number of keys, readers, consoles and    *)
(* requests: types, that only what was reviewed is published, the two      *)
(* conflict rules, erasure, what is kept for replay and answered, and the  *)
(* capacity of the workspace.                                              *)
(***************************************************************************)
EXTENDS Knowledge, TLAPS, FiniteSetTheorems

Done == 1 .. written

(* What an item points at, and what is written. *)
Heads ==
  /\ \A v \in Done : /\ version[v].item \in Items /\ version[v].audience \in Audiences
                     /\ version[v].conflict \in 0 .. written
                     /\ version[v].status = "draft" => version[v].text = v /\ version[v].supersedes = 0
  /\ \A k \in Items :
       /\ item[k].draft # 0 => /\ version[item[k].draft].item = k /\ version[item[k].draft].status = "draft"
                               /\ ~version[item[k].draft].erased
       /\ item[k].current # 0 => /\ version[item[k].current].item = k
                                 /\ version[item[k].current].status = "published"
                                 /\ ~version[item[k].current].erased
       /\ item[k].state \in {"none", "deleted"} => item[k].current = 0
       /\ item[k].state = "deleted" => item[k].draft = 0
       /\ item[k].state \in {"archived", "withdrawn"} /\ item[k].current # 0 => item[k].current \in retired

(* What the consoles show. *)
Pages ==
  \A o \in Owners :
    /\ page[o].draft # 0 => page[o].item \in Items /\ <<page[o].draft, page[o].current>> \in reviewed
    /\ page[o].fresh => page[o].item \in Items /\ VersionsOf(page[o].item) \subseteq shown

Publications ==
  /\ OnlyReviewed /\ NoOpenConflict /\ ScopeMovesKnowingly
  /\ \A v \in Done : version[v].supersedes \in 0 .. written
  /\ ErasedWasShown

Tombs == Unpublished \/ (TombstoneStands /\ CapacityKept)

(* What the requests for context hold and have answered. *)
Requests ==
  \A c \in Calls :
    /\ call[c].phase = "idle" => call[c].start = "none"
    /\ call[c].phase # "idle" =>
         /\ call[c].start \in Starts /\ call[c].reader \in Readers
         /\ \A d \in Calls : call[d].start = call[c].start => d = c
         /\ \A v \in Done : IsCurrent(v) => v \in call[c].since
         /\ call[c].manifest \subseteq Done
    /\ call[c].phase \in {"begun", "built"} => context[call[c].start].kept = "none"
    /\ call[c].phase = "begun" => call[c].manifest = {}
    /\ call[c].phase \in {"checking", "answered"} =>
         context[call[c].start].kept # "none" /\ call[c].manifest = context[call[c].start].manifest
    /\ call[c].phase = "built" /\ call[c].start \notin overtaken =>
         \A v \in call[c].manifest : ~version[v].erased
    /\ call[c].phase # "idle" => \A v \in call[c].manifest :
         \/ v \in call[c].left /\ call[c].phase = "checking"
         \/ v \in call[c].since /\ version[v].audience \in Sees[call[c].reader]

(* What is kept. *)
Kept ==
  /\ NoCopyLeft
  /\ \A s \in Starts :
       /\ context[s].manifest \subseteq Done
       /\ IF context[s].kept = "none" THEN answered[s] = {} /\ told[s] = {} /\ context[s].report = "none"
                                      ELSE answered[s] \subseteq {context[s].manifest}
       /\ told[s] \subseteq {context[s].report}

Inv == TypeOK /\ Heads /\ Pages /\ Publications /\ Tombs /\ Requests /\ Kept

-----------------------------------------------------------------------------
LEMMA NullTypes ==
  /\ NoVersion \in Version /\ NoPage \in Page /\ NoContext \in Context /\ IdleCall \in Call
  /\ IdleCall.phase = "idle" /\ IdleCall.start = "none" /\ 0 \in 0 .. MaxVersions
<1>1. 0 \in 0 .. MaxVersions
  BY BoundsAssumption
<1> QED BY <1>1 DEF NoVersion, NoPage, NoContext, IdleCall, Version, Page, Context, Call,
                    ItemOrNone, ReaderOrNone

LEMMA Finite ==
  ASSUME TypeOK
  PROVE  /\ IsFiniteSet(Drafts) /\ Cardinality(Drafts) \in Nat
         /\ IsFiniteSet(Published) /\ Cardinality(Published) \in Nat
         /\ IsFiniteSet(Living) /\ Cardinality(Living) \in Nat
<1>1. Drafts \in SUBSET Items /\ Published \in SUBSET Items /\ Living \in SUBSET Done
  BY DEF Drafts, Published, Living, Done
<1>2. IsFiniteSet(Done)
  BY FS_Interval, BoundsAssumption DEF TypeOK, Done
<1> QED BY <1>1, <1>2, SetsAssumption, FS_Subset, FS_CardinalityType

LEMMA InitInv == Init => Inv
<1> SUFFICES ASSUME Init PROVE Inv
  OBVIOUS
<1>1. TypeOK
  <2>1. item \in [Items -> Head]
    BY NullTypes DEF Init, Head
  <2>2. \A v \in Ids : version[v].status = "none" /\ v > 0
    BY BoundsAssumption DEF Init, NoVersion, Ids
  <2>3. version \in [Ids -> Version] /\ page \in [Owners -> Page] /\ context \in [Starts -> Context]
        /\ call \in [Calls -> Call]
    BY NullTypes DEF Init
  <2>4. \A k \in Items : item[k].current = 0 /\ item[k].draft = 0
    BY DEF Init
  <2>5. written = 0 /\ written \in 0 .. MaxVersions
    BY NullTypes DEF Init
  <2>6. answered \in [Starts -> SUBSET SUBSET Ids] /\ told \in [Starts -> SUBSET {"exact", "wrong"}]
    BY DEF Init
  <2>7. \A v \in Ids : version[v].status # "none" <=> v <= written
    BY <2>2, <2>5 DEF Ids
  <2> QED BY <2>1, <2>3, <2>4, <2>5, <2>6, <2>7 DEF Init, TypeOK
<1>2. Done = {} /\ Living = {}
  BY DEF Init, Done, Living
<1>3. Heads /\ Pages
  BY <1>2 DEF Init, Heads, Pages, NoPage
<1>4. Publications
  BY <1>2 DEF Init, Publications, OnlyReviewed, NoOpenConflict, ScopeMovesKnowingly, ErasedWasShown, Done
<1>5. Tombs
  <2>1. Drafts = {} /\ Published = {}
    BY DEF Init, Drafts, Published
  <2> QED BY <1>2, <2>1, FS_EmptySet, BoundsAssumption DEF Init, Tombs, TombstoneStands, CapacityKept
<1>6. Requests
  BY NullTypes DEF Init, Requests
<1>7. Kept
  BY <1>2 DEF Init, Kept, NoCopyLeft, NoContext
<1> QED BY <1>1, <1>3, <1>4, <1>5, <1>6, <1>7 DEF Inv

-----------------------------------------------------------------------------
(* Requests for context: the hub and the pages stay *)

LEMMA HubSame ==
  ASSUME Inv, UNCHANGED <<hub, page, shown, reviewed, retired, tombs>>
  PROVE  /\ Heads' /\ Pages' /\ Publications' /\ Tombs'
         /\ Done' = Done /\ \A v : IsCurrent(v)' <=> IsCurrent(v)
<1>1. UNCHANGED <<item, version, written, page, shown, reviewed, retired, tombs>>
  BY DEF hub
<1>2. Heads'
  BY <1>1 DEF Inv, Heads, Done
<1>3. Pages'
  BY <1>1 DEF Inv, Pages, VersionsOf
<1>4. Publications'
  BY <1>1 DEF Inv, Publications, OnlyReviewed, NoOpenConflict, ScopeMovesKnowingly, ErasedWasShown,
              Done, IsCurrent
<1>5. Tombs'
  BY <1>1 DEF Inv, Tombs, TombstoneStands, CapacityKept, Drafts, Published, Living, VersionsOf
<1> QED BY <1>1, <1>2, <1>3, <1>4, <1>5 DEF Done, IsCurrent

(* One request moves on. *)
LEMMA CallMoves ==
  ASSUME TypeOK, NEW c \in Calls, NEW x \in Call, call' = [call EXCEPT ![c] = x]
  PROVE  call' \in [Calls -> Call] /\ \A d \in Calls : call'[d] = IF d = c THEN x ELSE call[d]
  BY DEF TypeOK

LEMMA CallType ==
  ASSUME TypeOK, NEW c \in Calls
  PROVE  /\ call[c].phase \in {"idle", "begun", "built", "checking", "answered"}
         /\ call[c].start \in Starts \cup {"none"} /\ call[c].reader \in ReaderOrNone
         /\ call[c].manifest \in SUBSET Ids /\ call[c].left \in SUBSET Ids /\ call[c].since \in SUBSET Ids
         /\ call[c] \in Call
  BY DEF TypeOK, Call

LEMMA ContextType ==
  ASSUME TypeOK, NEW s \in Starts
  PROVE  /\ context[s] \in Context /\ context[s].manifest \in SUBSET Ids /\ context[s].reader \in ReaderOrNone
         /\ context[s].kept \in {"none", "held", "scrubbed"} /\ context[s].report \in {"none", "exact", "wrong"}
  BY DEF TypeOK, Context

LEMMA CurrentIsWritten ==
  ASSUME TypeOK, NEW v \in Done
  PROVE  v \in Ids /\ version[v] \in Version /\ version[v].audience \in Audiences \cup {"none"}
<1>1. v \in Ids
  BY BoundsAssumption DEF TypeOK, Done, Ids
<1> QED BY <1>1 DEF TypeOK, Version

(* A step of one request that keeps nothing new. *)
LEMMA OneMoves ==
  ASSUME Inv, NEW c \in Calls, NEW x \in Call, call' = [call EXCEPT ![c] = x],
         UNCHANGED <<hub, page, context, shown, reviewed, retired, tombs, overtaken, told>>,
         \A s \in Starts : answered'[s] \subseteq answered[s] \cup {context[s].manifest},
         \A s \in Starts : context[s].kept = "none" => answered'[s] = answered[s],
         answered' \in [Starts -> SUBSET SUBSET Ids],
         x.phase = "idle" => x.start = "none",
         x.phase # "idle" =>
           /\ x.start \in Starts /\ x.reader \in Readers
           /\ \A d \in Calls : call[d].start = x.start => d = c
           /\ \A v \in Done : IsCurrent(v) => v \in x.since
           /\ x.manifest \subseteq Done,
         x.phase \in {"begun", "built"} => context[x.start].kept = "none",
         x.phase = "begun" => x.manifest = {},
         x.phase \in {"checking", "answered"} =>
           context[x.start].kept # "none" /\ x.manifest = context[x.start].manifest,
         x.phase = "built" /\ x.start \notin overtaken => \A v \in x.manifest : ~version[v].erased,
         x.phase # "idle" => \A v \in x.manifest :
           \/ v \in x.left /\ x.phase = "checking"
           \/ v \in x.since /\ version[v].audience \in Sees[x.reader]
  PROVE  Inv'
<1>1. Heads' /\ Pages' /\ Publications' /\ Tombs' /\ Done' = Done
      /\ \A v : IsCurrent(v)' <=> IsCurrent(v)
  BY HubSame
<1>2. call' \in [Calls -> Call] /\ \A d \in Calls : call'[d] = IF d = c THEN x ELSE call[d]
  BY CallMoves DEF Inv
<1>3. TypeOK'
  BY <1>2 DEF Inv, TypeOK, hub
<1>4. Requests'
  <2> SUFFICES ASSUME NEW d \in Calls
               PROVE  /\ call'[d].phase = "idle" => call'[d].start = "none"
                      /\ call'[d].phase # "idle" =>
                           /\ call'[d].start \in Starts /\ call'[d].reader \in Readers
                           /\ \A e \in Calls : call'[e].start = call'[d].start => e = d
                           /\ \A v \in Done : IsCurrent(v) => v \in call'[d].since
                           /\ call'[d].manifest \subseteq Done
                      /\ call'[d].phase \in {"begun", "built"} => context[call'[d].start].kept = "none"
                      /\ call'[d].phase = "begun" => call'[d].manifest = {}
                      /\ call'[d].phase \in {"checking", "answered"} =>
                           /\ context[call'[d].start].kept # "none"
                           /\ call'[d].manifest = context[call'[d].start].manifest
                      /\ call'[d].phase = "built" /\ call'[d].start \notin overtaken =>
                           \A v \in call'[d].manifest : ~version[v].erased
                      /\ call'[d].phase # "idle" => \A v \in call'[d].manifest :
                           \/ v \in call'[d].left /\ call'[d].phase = "checking"
                           \/ v \in call'[d].since /\ version[v].audience \in Sees[call'[d].reader]
    BY <1>1 DEF Requests, hub
  <2>1. CASE d = c
    <3>1. call'[d] = x
      BY <1>2, <2>1
    <3>2. \A e \in Calls : x.phase # "idle" /\ call'[e].start = x.start => e = c
      BY <1>2
    <3> QED BY <2>1, <3>1, <3>2
  <2>2. CASE d # c
    <3>1. call'[d] = call[d]
      BY <1>2, <2>2
    <3>2. ASSUME NEW e \in Calls, call[d].phase # "idle", call'[e].start = call[d].start PROVE e = d
      <4>1. CASE e = c
        <5>1. x.start = call[d].start /\ call[d].start \in Starts
          BY <1>2, <3>2, <4>1 DEF Inv, Requests
        <5>2. x.phase # "idle"
          BY <5>1, SetsAssumption
        <5> QED BY <5>1, <5>2, <2>2
      <4>2. CASE e # c
        BY <1>2, <3>2, <4>2 DEF Inv, Requests
      <4> QED BY <4>1, <4>2
    <3> QED BY <3>1, <3>2 DEF Inv, Requests
  <2> QED BY <2>1, <2>2
<1>5. Kept'
  <2>1. NoCopyLeft'
    BY DEF Inv, Kept, NoCopyLeft, hub
  <2>2. ASSUME NEW s \in Starts
        PROVE  IF context[s].kept = "none" THEN answered'[s] = {} ELSE answered'[s] \subseteq {context[s].manifest}
    BY DEF Inv, Kept
  <2> QED BY <1>1, <2>1, <2>2 DEF Inv, Kept
<1> QED BY <1>1, <1>3, <1>4, <1>5 DEF Inv

LEMMA BeginKeeps ==
  ASSUME Inv, NEW c \in Calls, NEW s \in Starts, NEW r \in Readers, Begin(c, s, r) PROVE Inv'
<1> DEFINE now == {v \in Done : IsCurrent(v)}
<1>1. now \in SUBSET Ids /\ \A d \in Calls : call[d].start # s
  BY CurrentIsWritten DEF Inv, Begin
<1>2. UNCHANGED <<hub, page, context, shown, reviewed, retired, tombs, overtaken, told, answered>>
      /\ answered' \in [Starts -> SUBSET SUBSET Ids]
  BY DEF Begin, ghosts, Inv, TypeOK
<1>3. CASE context[s].kept = "none"
  <2> DEFINE x == [IdleCall EXCEPT !.phase = "begun", !.start = s, !.reader = r, !.since = now]
  <2>1. x \in Call /\ x.phase = "begun" /\ x.start = s /\ x.reader = r /\ x.since = now /\ x.manifest = {}
    BY <1>1 DEF IdleCall, Call, ReaderOrNone
  <2>2. call' = [call EXCEPT ![c] = x]
    BY <1>3 DEF Begin, Done
  <2> HIDE DEF x
  <2> QED BY <1>1, <1>2, <1>3, <2>1, <2>2, OneMoves
<1>4. CASE context[s].kept # "none"
  <2> DEFINE m == context[s].manifest
             x == [phase |-> "checking", start |-> s, reader |-> r, manifest |-> m, left |-> m, since |-> now]
  <2>1. m \in SUBSET Ids /\ m \subseteq Done
    BY ContextType DEF Inv, Kept
  <2>2. x \in Call /\ x.phase = "checking" /\ x.start = s /\ x.reader = r /\ x.since = now
        /\ x.manifest = m /\ x.left = m
    BY <1>1, <2>1 DEF Call, ReaderOrNone
  <2>3. call' = [call EXCEPT ![c] = x]
    BY <1>4 DEF Begin, Done
  <2> HIDE DEF x
  <2> QED BY <1>1, <1>2, <1>4, <2>1, <2>2, <2>3, OneMoves
<1> QED BY <1>3, <1>4

LEMMA BuildKeeps == ASSUME Inv, NEW c \in Calls, Build(c) PROVE Inv'
<1>1. PICK m \in SUBSET {v \in Done : Visible(v, call[c].reader)} :
        call' = [call EXCEPT ![c].phase = "built", ![c].manifest = m]
  BY DEF Build, Done
<1> DEFINE x == [call[c] EXCEPT !.phase = "built", !.manifest = m]
<1>2. m \in SUBSET Ids
  BY <1>1, CurrentIsWritten DEF Inv
<1>3. /\ x \in Call /\ x.phase = "built" /\ x.start = call[c].start /\ x.reader = call[c].reader
      /\ x.since = call[c].since /\ x.manifest = m
  BY <1>2, CallType DEF Inv, Call
<1>4. call' = [call EXCEPT ![c] = x]
  BY <1>1, CallType DEF Inv, TypeOK, Call
<1>5. call[c].phase = "begun"
  BY DEF Build
<1>6. \A v \in m : v \in Done /\ IsCurrent(v) /\ version[v].audience \in Sees[call[c].reader]
                     /\ ~version[v].erased
  <2> SUFFICES ASSUME NEW v \in m
               PROVE  v \in Done /\ IsCurrent(v) /\ version[v].audience \in Sees[call[c].reader]
                        /\ ~version[v].erased
    OBVIOUS
  <2>1. v \in Done /\ IsCurrent(v) /\ version[v].audience \in Sees[call[c].reader]
    BY <1>1 DEF Visible
  <2>2. version[v].item \in Items /\ item[version[v].item].current = v /\ v # 0
    BY <2>1 DEF IsCurrent, Inv, Heads, Done
  <2> QED BY <2>1, <2>2 DEF Inv, Heads
<1>7. UNCHANGED <<hub, page, context, shown, reviewed, retired, tombs, overtaken, told, answered>>
      /\ answered' \in [Starts -> SUBSET SUBSET Ids]
  BY DEF Build, ghosts, Inv, TypeOK
<1>8. /\ call[c].start \in Starts /\ call[c].reader \in Readers /\ context[call[c].start].kept = "none"
      /\ \A d \in Calls : call[d].start = call[c].start => d = c
      /\ \A v \in Done : IsCurrent(v) => v \in call[c].since
  BY <1>5 DEF Inv, Requests
<1> HIDE DEF x
<1> QED BY <1>3, <1>4, <1>6, <1>7, <1>8, OneMoves

LEMMA CheckKeeps == ASSUME Inv, NEW c \in Calls, NEW v \in Ids, CheckOne(c, v) PROVE Inv'
<1> DEFINE x == [call[c] EXCEPT !.left = call[c].left \ {v}]
<1>1. /\ x \in Call /\ x.phase = call[c].phase /\ x.start = call[c].start /\ x.reader = call[c].reader
      /\ x.since = call[c].since /\ x.manifest = call[c].manifest /\ x.left = call[c].left \ {v}
  BY CallType DEF Inv, Call
<1>2. call' = [call EXCEPT ![c] = x] /\ call[c].phase = "checking"
  BY DEF CheckOne
<1>3. UNCHANGED <<hub, page, context, shown, reviewed, retired, tombs, overtaken, told, answered>>
      /\ answered' \in [Starts -> SUBSET SUBSET Ids]
  BY DEF CheckOne, ghosts, Inv, TypeOK
<1>4. Visible(v, call[c].reader)
  BY DEF CheckOne, StillServed
<1>5. \A u \in call[c].manifest :
        \/ u \in call[c].left \ {v}
        \/ u \in call[c].since /\ version[u].audience \in Sees[call[c].reader]
  <2> SUFFICES ASSUME NEW u \in call[c].manifest, u \notin call[c].left \ {v}
               PROVE  u \in call[c].since /\ version[u].audience \in Sees[call[c].reader]
    OBVIOUS
  <2>1. CASE u = v
    <3>1. u \in Done
      BY <1>2 DEF Inv, Requests
    <3> QED BY <1>2, <1>4, <2>1, <3>1 DEF Visible, Inv, Requests
  <2>2. CASE u # v
    BY <1>2, <2>2 DEF Inv, Requests
  <2> QED BY <2>1, <2>2
<1>6. /\ call[c].start \in Starts /\ call[c].reader \in Readers /\ call[c].manifest \subseteq Done
      /\ \A d \in Calls : call[d].start = call[c].start => d = c
      /\ \A u \in Done : IsCurrent(u) => u \in call[c].since
      /\ context[call[c].start].kept # "none" /\ call[c].manifest = context[call[c].start].manifest
  BY <1>2 DEF Inv, Requests
<1> HIDE DEF x
<1>7. /\ x.start \in Starts /\ x.reader \in Readers /\ x.manifest \subseteq Done
      /\ \A d \in Calls : call[d].start = x.start => d = c
      /\ \A u \in Done : IsCurrent(u) => u \in x.since
      /\ context[x.start].kept # "none" /\ x.manifest = context[x.start].manifest
      /\ \A u \in x.manifest : \/ u \in x.left
                               \/ u \in x.since /\ version[u].audience \in Sees[x.reader]
  BY <1>1, <1>5, <1>6
<1>8. x \in Call /\ x.phase = "checking" /\ call' = [call EXCEPT ![c] = x]
  BY <1>1, <1>2
<1> QED BY <1>3, <1>7, <1>8, OneMoves

LEMMA ReplayKeeps == ASSUME Inv, NEW c \in Calls, Replay(c) PROVE Inv'
<1> DEFINE x == [call[c] EXCEPT !.phase = "answered"]
<1>1. /\ x \in Call /\ x.phase = "answered" /\ x.start = call[c].start /\ x.reader = call[c].reader
      /\ x.since = call[c].since /\ x.manifest = call[c].manifest
  BY CallType DEF Inv, Call
<1>2. call' = [call EXCEPT ![c] = x] /\ call[c].phase = "checking" /\ call[c].left = {}
  BY CallType DEF Replay, Inv, TypeOK
<1>3. UNCHANGED <<hub, page, context, shown, reviewed, retired, tombs, overtaken, told>>
  BY DEF Replay
<1>4. /\ call[c].start \in Starts /\ call[c].reader \in Readers /\ call[c].manifest \subseteq Done
      /\ \A d \in Calls : call[d].start = call[c].start => d = c
      /\ \A u \in Done : IsCurrent(u) => u \in call[c].since
      /\ context[call[c].start].kept # "none" /\ call[c].manifest = context[call[c].start].manifest
      /\ \A u \in call[c].manifest : u \in call[c].since /\ version[u].audience \in Sees[call[c].reader]
  BY <1>2 DEF Inv, Requests
<1>5. answered' \in [Starts -> SUBSET SUBSET Ids]
      /\ \A s \in Starts : answered'[s] = IF s = call[c].start THEN answered[s] \cup {call[c].manifest}
                                                              ELSE answered[s]
  <2>1. answered[call[c].start] \cup {call[c].manifest} \in SUBSET SUBSET Ids
    BY <1>4, CallType DEF Inv, TypeOK
  <2>2. answered' = [answered EXCEPT ![call[c].start] = answered[call[c].start] \cup {call[c].manifest}]
    BY DEF Replay, Answer
  <2> QED BY <1>4, <2>1, <2>2 DEF Inv, TypeOK
<1> HIDE DEF x
<1>6. /\ \A s \in Starts : answered'[s] \subseteq answered[s] \cup {context[s].manifest}
      /\ \A s \in Starts : context[s].kept = "none" => answered'[s] = answered[s]
  BY <1>4, <1>5
<1>7. /\ x.start \in Starts /\ x.reader \in Readers /\ x.manifest \subseteq Done
      /\ \A d \in Calls : call[d].start = x.start => d = c
      /\ \A u \in Done : IsCurrent(u) => u \in x.since
      /\ context[x.start].kept # "none" /\ x.manifest = context[x.start].manifest
      /\ \A u \in x.manifest : u \in x.since /\ version[u].audience \in Sees[x.reader]
  BY <1>1, <1>4
<1>8. x \in Call /\ x.phase = "answered"
  BY <1>1
<1>9. answered' \in [Starts -> SUBSET SUBSET Ids] /\ call' = [call EXCEPT ![c] = x]
  BY <1>2, <1>5
<1> QED BY <1>3, <1>6, <1>7, <1>8, <1>9, OneMoves

LEMMA EndKeeps == ASSUME Inv, NEW c \in Calls, End(c) \/ Refuse(c) PROVE Inv'
<1>1. UNCHANGED <<hub, page, context, shown, reviewed, retired, tombs, overtaken, told, answered>>
      /\ answered' \in [Starts -> SUBSET SUBSET Ids] /\ call' = [call EXCEPT ![c] = IdleCall]
  BY DEF End, Refuse, Outdated, ghosts, Inv, TypeOK
<1> QED BY <1>1, NullTypes, OneMoves

LEMMA KeepKeeps == ASSUME Inv, NEW c \in Calls, Keep(c) PROVE Inv'
<1> DEFINE s == call[c].start
           m == call[c].manifest
           x == [call[c] EXCEPT !.phase = "answered"]
           kept == [manifest |-> m, kept |-> "held", reader |-> call[c].reader, report |-> "none"]
<1>1. /\ x \in Call /\ x.phase = "answered" /\ x.start = s /\ x.reader = call[c].reader
      /\ x.since = call[c].since /\ x.manifest = m
  BY CallType DEF Inv, Call
<1>2. call' = [call EXCEPT ![c] = x] /\ call[c].phase = "built"
  BY CallType DEF Keep, Inv, TypeOK
<1>3. UNCHANGED <<hub, page, shown, reviewed, retired, tombs, overtaken, told>>
  BY DEF Keep
<1>4. /\ s \in Starts /\ call[c].reader \in Readers /\ m \subseteq Done
      /\ \A d \in Calls : call[d].start = s => d = c
      /\ \A u \in Done : IsCurrent(u) => u \in call[c].since
      /\ context[s].kept = "none"
      /\ \A u \in m : u \in call[c].since /\ version[u].audience \in Sees[call[c].reader]
      /\ s \notin overtaken => \A u \in m : ~version[u].erased
  BY <1>2 DEF Inv, Requests
<1>5. m \in SUBSET Ids /\ kept \in Context
  BY CallType DEF Inv, Context
<1>6. context' \in [Starts -> Context] /\ \A t \in Starts : context'[t] = IF t = s THEN kept ELSE context[t]
  BY <1>4, <1>5 DEF Keep, Inv, TypeOK
<1>7. answered' \in [Starts -> SUBSET SUBSET Ids]
      /\ \A t \in Starts : answered'[t] = IF t = s THEN answered[t] \cup {m} ELSE answered[t]
  BY <1>4, <1>5 DEF Keep, Answer, Inv, TypeOK
<1>8. Heads' /\ Pages' /\ Publications' /\ Tombs' /\ Done' = Done
      /\ \A v : IsCurrent(v)' <=> IsCurrent(v)
  BY <1>3, HubSame
<1>9. call' \in [Calls -> Call] /\ \A d \in Calls : call'[d] = IF d = c THEN x ELSE call[d]
  BY <1>1, <1>2, CallMoves DEF Inv
<1>10. TypeOK'
  BY <1>3, <1>6, <1>7, <1>9 DEF Inv, TypeOK, hub
<1>11. Kept'
  <2>1. kept.manifest = m /\ kept.kept = "held" /\ kept.report = "none"
    OBVIOUS
  <2>2. NoCopyLeft'
    BY <1>3, <1>4, <1>6, <2>1 DEF Inv, Kept, NoCopyLeft, hub
  <2>3. answered[s] = {} /\ told[s] = {}
    BY <1>4 DEF Inv, Kept
  <2> QED BY <1>3, <1>4, <1>6, <1>7, <1>8, <2>1, <2>2, <2>3 DEF Inv, Kept
<1>12. Requests'
  <2>0. UNCHANGED version
    BY <1>3 DEF hub
  <2>1. \A d \in Calls : call'[d].start = call[d].start /\ call'[d].reader = call[d].reader
          /\ call'[d].since = call[d].since /\ call'[d].manifest = call[d].manifest
          /\ (d # c => call'[d] = call[d])
    BY <1>1, <1>9
  <2>2. \A d \in Calls : d # c /\ call[d].phase # "idle" => call[d].start # s
    BY <1>4
  <2>3. \A d \in Calls : d # c /\ call[d].phase # "idle" => context'[call[d].start] = context[call[d].start]
    BY <1>6, <2>2 DEF Inv, Requests
  <2>4. call'[c].phase = "answered" /\ context'[s].kept # "none" /\ context'[s].manifest = m
    <3>1. context'[s] = kept /\ kept.kept = "held" /\ kept.manifest = m
      BY <1>4, <1>6
    <3> QED BY <1>1, <1>9, <3>1
  <2> SUFFICES ASSUME NEW d \in Calls
               PROVE  /\ call'[d].phase = "idle" => call'[d].start = "none"
                      /\ call'[d].phase # "idle" =>
                           /\ call'[d].start \in Starts /\ call'[d].reader \in Readers
                           /\ \A e \in Calls : call'[e].start = call'[d].start => e = d
                           /\ \A v \in Done : IsCurrent(v) => v \in call'[d].since
                           /\ call'[d].manifest \subseteq Done
                      /\ call'[d].phase \in {"begun", "built"} => context'[call'[d].start].kept = "none"
                      /\ call'[d].phase = "begun" => call'[d].manifest = {}
                      /\ call'[d].phase \in {"checking", "answered"} =>
                           /\ context'[call'[d].start].kept # "none"
                           /\ call'[d].manifest = context'[call'[d].start].manifest
                      /\ call'[d].phase = "built" /\ call'[d].start \notin overtaken =>
                           \A v \in call'[d].manifest : ~version[v].erased
                      /\ call'[d].phase # "idle" => \A v \in call'[d].manifest :
                           \/ v \in call'[d].left /\ call'[d].phase = "checking"
                           \/ v \in call'[d].since /\ version[v].audience \in Sees[call'[d].reader]
    BY <1>3, <1>8, <2>0 DEF Requests
  <2>5. CASE d = c
    BY <1>4, <2>1, <2>4, <2>5
  <2>6. CASE d # c
    <3>1. call'[d] = call[d] /\ (call[d].phase # "idle" => context'[call[d].start] = context[call[d].start])
      BY <2>1, <2>3, <2>6
    <3>2. \A e \in Calls : call[d].phase # "idle" /\ call'[e].start = call[d].start => e = d
      BY <2>1 DEF Inv, Requests
    <3> QED BY <3>1, <3>2 DEF Inv, Requests
  <2> QED BY <2>5, <2>6
<1> QED BY <1>8, <1>10, <1>11, <1>12 DEF Inv

LEMMA ReportKeeps == ASSUME Inv, NEW s \in Starts, NEW h \in {"exact", "wrong"}, Report(s, h) PROVE Inv'
<1> DEFINE new == [context[s] EXCEPT !.report = KeptReport(s, h)]
<1>1. KeptReport(s, h) \in {"exact", "wrong"} /\ (context[s].report # "none" => KeptReport(s, h) = context[s].report)
  BY ContextType DEF KeptReport, Inv
<1>2. new \in Context /\ new.manifest = context[s].manifest /\ new.kept = context[s].kept
      /\ new.reader = context[s].reader /\ new.report = KeptReport(s, h)
  BY <1>1, ContextType DEF Inv, Context
<1>3. context' = [context EXCEPT ![s] = new] /\ context[s].kept # "none"
  BY ContextType DEF Report, Inv, TypeOK, Context
<1> HIDE DEF new
<1>4. context' \in [Starts -> Context] /\ \A t \in Starts : context'[t] = IF t = s THEN new ELSE context[t]
  BY <1>2, <1>3 DEF Inv, TypeOK
<1>5. told' \in [Starts -> SUBSET {"exact", "wrong"}]
      /\ \A t \in Starts : told'[t] = IF t = s THEN told[t] \cup {KeptReport(s, h)} ELSE told[t]
  BY <1>1 DEF Report, Inv, TypeOK
<1>6. UNCHANGED <<hub, page, call, shown, reviewed, retired, tombs, overtaken, answered>>
  BY DEF Report
<1>7. Heads' /\ Pages' /\ Publications' /\ Tombs' /\ Done' = Done
      /\ \A v : IsCurrent(v)' <=> IsCurrent(v)
  BY <1>6, HubSame
<1>8. TypeOK'
  BY <1>4, <1>5, <1>6 DEF Inv, TypeOK, hub
<1>9. \A t \in Starts : context'[t].manifest = context[t].manifest /\ context'[t].kept = context[t].kept
  BY <1>2, <1>4
<1>10. Requests'
  BY <1>6, <1>7, <1>9 DEF Inv, Requests, hub
<1>11. Kept'
  <2>1. NoCopyLeft'
    BY <1>6, <1>9 DEF Inv, Kept, NoCopyLeft, hub
  <2>2. told[s] \subseteq {"exact", "wrong"} /\ told[s] \subseteq {context[s].report}
    BY DEF Inv, Kept, TypeOK
  <2>3. told'[s] \subseteq {context'[s].report}
    BY <1>1, <1>2, <1>4, <1>5, <2>2
  <2> QED BY <1>3, <1>4, <1>5, <1>6, <1>7, <1>9, <2>1, <2>3 DEF Inv, Kept
<1> QED BY <1>7, <1>8, <1>10, <1>11 DEF Inv

-----------------------------------------------------------------------------
(* Writes of the hub *)

(* What the requests hold stays true when no version of theirs is touched. *)
LEMMA RequestsStay ==
  ASSUME Inv, Done \subseteq Done', UNCHANGED <<context, overtaken, answered, told>>,
         \A v \in Done : version'[v].audience = version[v].audience /\ version'[v].erased = version[v].erased,
         \A d \in Calls : /\ call'[d].phase = call[d].phase /\ call'[d].start = call[d].start
                          /\ call'[d].reader = call[d].reader /\ call'[d].manifest = call[d].manifest
                          /\ call'[d].left = call[d].left /\ call[d].since \subseteq call'[d].since,
         \A v \in Done' : IsCurrent(v)' =>
           \/ v \in Done /\ IsCurrent(v)
           \/ \A d \in Calls : call'[d].phase # "idle" => v \in call'[d].since
  PROVE  Requests' /\ Kept'
<1>1. Kept'
  <2>1. \A s \in Starts : context[s].manifest \subseteq Done
    BY DEF Inv, Kept
  <2>2. NoCopyLeft'
    BY <2>1 DEF Inv, Kept, NoCopyLeft
  <2>3. \A s \in Starts : context'[s].manifest \subseteq Done'
    BY <2>1
  <2> QED BY <2>2, <2>3 DEF Inv, Kept
<1>2. ASSUME NEW d \in Calls
      PROVE  /\ call'[d].phase = "idle" => call'[d].start = "none"
             /\ call'[d].phase # "idle" =>
                  /\ call'[d].start \in Starts /\ call'[d].reader \in Readers
                  /\ \A e \in Calls : call'[e].start = call'[d].start => e = d
                  /\ \A v \in Done' : IsCurrent(v)' => v \in call'[d].since
                  /\ call'[d].manifest \subseteq Done'
             /\ call'[d].phase \in {"begun", "built"} => context'[call'[d].start].kept = "none"
             /\ call'[d].phase = "begun" => call'[d].manifest = {}
             /\ call'[d].phase \in {"checking", "answered"} =>
                  /\ context'[call'[d].start].kept # "none"
                  /\ call'[d].manifest = context'[call'[d].start].manifest
             /\ call'[d].phase = "built" /\ call'[d].start \notin overtaken' =>
                  \A v \in call'[d].manifest : ~version'[v].erased
             /\ call'[d].phase # "idle" => \A v \in call'[d].manifest :
                  \/ v \in call'[d].left /\ call'[d].phase = "checking"
                  \/ v \in call'[d].since /\ version'[v].audience \in Sees[call'[d].reader]
  <2>1. call[d].phase # "idle" => call[d].manifest \subseteq Done
    BY DEF Inv, Requests
  <2>2. \A v \in Done' : call[d].phase # "idle" /\ IsCurrent(v)' => v \in call'[d].since
    BY DEF Inv, Requests
  <2> QED BY <2>1, <2>2 DEF Inv, Requests
<1> QED BY <1>1, <1>2 DEF Requests

(* The pages of an item that is written are stale, the others show what they showed. *)
LEMMA PagesMove ==
  ASSUME Inv, NEW k \in Items, Moved(k), UNCHANGED <<shown, reviewed>>,
         \A v \in Done' : version'[v].item = k \/ (v \in Done /\ version'[v].item = version[v].item)
  PROVE  page' \in [Owners -> Page] /\ Pages'
<1>1. \A o \in Owners : page[o] \in Page
  BY DEF Inv, TypeOK
<1>2. \A o \in Owners : /\ page'[o] = IF page[o].item = k THEN [page[o] EXCEPT !.fresh = FALSE] ELSE page[o]
                        /\ page'[o] \in Page /\ page'[o].draft = page[o].draft
                        /\ page'[o].current = page[o].current /\ page'[o].item = page[o].item
  BY <1>1 DEF Moved, Page
<1>3. page' \in [Owners -> Page]
  BY <1>2 DEF Moved
<1>4. ASSUME NEW o \in Owners, page'[o].fresh PROVE page'[o].item \in Items /\ VersionsOf(page[o].item)' \subseteq shown'
  <2>1. page[o].item # k /\ page[o].fresh
    BY <1>1, <1>2, <1>4 DEF Page
  <2>2. page[o].item \in Items /\ VersionsOf(page[o].item) \subseteq shown
    BY <2>1 DEF Inv, Pages
  <2>3. \A v \in Done' : version'[v].item = page[o].item => v \in Done /\ version[v].item = page[o].item
    BY <2>1
  <2> QED BY <1>2, <2>2, <2>3 DEF VersionsOf, Done
<1> QED BY <1>2, <1>3, <1>4 DEF Inv, Pages

(* A version is added. *)
LEMMA Added ==
  ASSUME TypeOK, NEW v, v = written + 1, v \in Ids, NEW new \in Version, new.status # "none", Write(v, new)
  PROVE  /\ version' \in [Ids -> Version] /\ written' = v /\ written' \in 0 .. MaxVersions
         /\ \A u \in Ids : version'[u] = IF u = v THEN new ELSE version[u]
         /\ \A u \in Ids : version'[u].status # "none" <=> u <= written'
         /\ Done' = Done \cup {v} /\ v \notin Done /\ 0 \notin Done'
         /\ \A u \in Done : u \in Ids /\ version'[u] = version[u]
<1>1. version' \in [Ids -> Version] /\ \A u \in Ids : version'[u] = IF u = v THEN new ELSE version[u]
  BY DEF TypeOK, Write
<1>2. written' = v /\ written' \in 0 .. MaxVersions /\ written \in Nat
  BY BoundsAssumption DEF TypeOK, Write, Ids
<1>3. Done' = Done \cup {v} /\ v \notin Done /\ 0 \notin Done' /\ \A u \in Done : u \in Ids /\ u # v
  BY <1>2, BoundsAssumption DEF Done, Ids
<1>4. \A u \in Ids : version'[u].status # "none" <=> u <= written'
  BY <1>1, <1>2, BoundsAssumption DEF TypeOK, Ids
<1> QED BY <1>1, <1>2, <1>3, <1>4

LEMMA ItemType ==
  ASSUME TypeOK, NEW k \in Items
  PROVE  /\ item[k] \in Head /\ item[k].current \in 0 .. written /\ item[k].draft \in 0 .. written
         /\ item[k].state \in {"none", "active", "archived", "withdrawn", "deleted"}
  BY DEF TypeOK, Head

(* Setting one item's head. *)
LEMMA HeadSet ==
  ASSUME TypeOK, NEW k \in Items, NEW st \in {"active", "archived", "withdrawn", "deleted"},
         NEW cur \in 0 .. MaxVersions, NEW dr \in 0 .. MaxVersions,
         item' = [item EXCEPT ![k] = [state |-> st, current |-> cur, draft |-> dr]]
  PROVE  /\ item' \in [Items -> Head]
         /\ \A j \in Items : j # k => item'[j] = item[j]
         /\ item'[k].state = st /\ item'[k].current = cur /\ item'[k].draft = dr
  BY DEF TypeOK, Head

(* A proposal leaves the current version as it is. *)
LEMMA HeadMoved ==
  ASSUME TypeOK, NEW k \in Items, NEW st \in {"active", "archived", "withdrawn", "deleted"},
         NEW dr \in 0 .. MaxVersions, item' = [item EXCEPT ![k].draft = dr, ![k].state = st]
  PROVE  /\ item' \in [Items -> Head]
         /\ \A j \in Items : j # k => item'[j] = item[j]
         /\ item'[k].state = st /\ item'[k].current = item[k].current /\ item'[k].draft = dr
<1> DEFINE x == [item[k] EXCEPT !.draft = dr]
           y == [x EXCEPT !.state = st]
<1>1. item[k] \in Head
  BY DEF TypeOK
<1>2. x \in Head /\ x.draft = dr /\ x.current = item[k].current
  BY <1>1 DEF Head
<1> HIDE DEF x
<1>3. y \in Head /\ y.draft = dr /\ y.current = item[k].current /\ y.state = st
  BY <1>2 DEF Head
<1>4. item' = [item EXCEPT ![k] = y]
  BY DEF x
<1> HIDE DEF y
<1> QED BY <1>3, <1>4 DEF TypeOK

LEMMA ProposeKeeps ==
  ASSUME Inv, NEW k \in Items, NEW a \in Audiences, NEW w \in 0 .. written, Propose(k, a, w) PROVE Inv'
<1> DEFINE v == written + 1
           new == [item |-> k, status |-> "draft", audience |-> a, text |-> v, supersedes |-> 0,
                   conflict |-> w, expired |-> FALSE, erased |-> FALSE]
           st == IF item[k].state = "none" THEN "active" ELSE item[k].state
<1>0. v \in Ids /\ item[k].state # "deleted" /\ Fits(IF item[k].draft = 0 THEN 1 ELSE 0, 0)
      /\ Write(v, new) /\ Moved(k)
  BY DEF Propose
<1>1. v \in 0 .. MaxVersions /\ 0 \in 0 .. MaxVersions /\ w \in 0 .. MaxVersions /\ written \in Nat
  BY <1>0, BoundsAssumption DEF Ids, Inv, TypeOK
<1>2. /\ new \in Version /\ new.item = k /\ new.status = "draft" /\ new.audience = a /\ new.text = v
      /\ new.supersedes = 0 /\ new.conflict = w /\ new.erased = FALSE
  BY <1>1 DEF Version, ItemOrNone
<1>3. UNCHANGED <<context, call, shown, reviewed, retired, tombs, overtaken, answered, told>>
  BY DEF Propose, ghosts
<1>4. item' = [item EXCEPT ![k].draft = v, ![k].state = st]
      /\ st \in {"active", "archived", "withdrawn", "deleted"}
  BY <1>0, ItemType DEF Propose, Inv
<1> HIDE DEF new, st
<1>5. /\ item' \in [Items -> Head] /\ \A j \in Items : j # k => item'[j] = item[j]
      /\ item'[k].state = st /\ item'[k].current = item[k].current /\ item'[k].draft = v
  BY <1>1, <1>4, HeadMoved DEF Inv
<1>6. /\ version' \in [Ids -> Version] /\ written' = v /\ written' \in 0 .. MaxVersions
      /\ \A u \in Ids : version'[u] = IF u = v THEN new ELSE version[u]
      /\ \A u \in Ids : version'[u].status # "none" <=> u <= written'
      /\ Done' = Done \cup {v} /\ v \notin Done /\ 0 \notin Done'
      /\ \A u \in Done : u \in Ids /\ version'[u] = version[u]
  BY <1>0, <1>2, Added DEF Inv
<1>7. version'[v] = new
  BY <1>0, <1>6
<1>8. TypeOK' /\ Pages'
  <2>1. \A u \in Done' : version'[u].item = k \/ (u \in Done /\ version'[u].item = version[u].item)
    BY <1>2, <1>6, <1>7
  <2>2. page' \in [Owners -> Page] /\ Pages'
    BY <1>0, <1>3, <2>1, PagesMove
  <2>3. \A j \in Items : item'[j].current <= written' /\ item'[j].draft <= written'
    BY <1>1, <1>5, <1>6, ItemType DEF Inv
  <2> QED BY <1>3, <1>5, <1>6, <2>2, <2>3 DEF Inv, TypeOK
<1>9. Heads'
  <2>1. \A u \in Done' : /\ version'[u].item \in Items /\ version'[u].audience \in Audiences
                         /\ version'[u].conflict \in 0 .. written'
                         /\ version'[u].status = "draft" => version'[u].text = u /\ version'[u].supersedes = 0
    BY <1>1, <1>2, <1>6, <1>7 DEF Inv, Heads
  <2>2. ASSUME NEW j \in Items
        PROVE  /\ item'[j].draft # 0 => /\ version'[item'[j].draft].item = j
                                        /\ version'[item'[j].draft].status = "draft"
                                        /\ ~version'[item'[j].draft].erased
               /\ item'[j].current # 0 => /\ version'[item'[j].current].item = j
                                          /\ version'[item'[j].current].status = "published"
                                          /\ ~version'[item'[j].current].erased
               /\ item'[j].state \in {"none", "deleted"} => item'[j].current = 0
               /\ item'[j].state = "deleted" => item'[j].draft = 0
               /\ item'[j].state \in {"archived", "withdrawn"} /\ item'[j].current # 0 =>
                    item'[j].current \in retired'
    <3>1. item[j].current # 0 => item[j].current \in Done
      BY ItemType DEF Inv, Done
    <3>2. item[j].draft # 0 => item[j].draft \in Done
      BY ItemType DEF Inv, Done
    <3>3. CASE j = k
      BY <1>0, <1>2, <1>3, <1>5, <1>6, <1>7, <3>1, <3>3 DEF Inv, Heads, st
    <3>4. CASE j # k
      BY <1>3, <1>5, <1>6, <3>1, <3>2, <3>4 DEF Inv, Heads
    <3> QED BY <3>3, <3>4
  <2> QED BY <2>1, <2>2 DEF Heads
<1>10. \A u \in Done' : IsCurrent(u)' => u \in Done /\ IsCurrent(u)
  <2> SUFFICES ASSUME NEW u \in Done', IsCurrent(u)' PROVE u \in Done /\ IsCurrent(u)
    OBVIOUS
  <2>1. u # v /\ u \in Done
    BY <1>2, <1>6, <1>7 DEF IsCurrent
  <2>2. version[u].item \in Items /\ version'[u] = version[u] /\ u # 0
    BY <1>6, <2>1 DEF Inv, Heads
  <2>3. item[version[u].item].current = u
    BY <1>5, <2>2 DEF IsCurrent
  <2>4. item[version[u].item].state = "active"
    BY <1>5, <2>2, <2>3 DEF IsCurrent, Inv, Heads, st
  <2> QED BY <2>1, <2>2, <2>3, <2>4 DEF IsCurrent
<1>11. Publications'
  <2>1. OnlyReviewed'
    BY <1>2, <1>3, <1>6, <1>7 DEF Inv, Publications, OnlyReviewed, Done
  <2>2. NoOpenConflict'
    <3> SUFFICES ASSUME NEW u \in Done', IsCurrent(u)', version'[u].conflict # 0
                 PROVE  ~IsCurrent(version[u].conflict)'
      BY <1>2, <1>6, <1>7, <1>10 DEF NoOpenConflict, Done
    <3>1. u \in Done /\ IsCurrent(u) /\ version'[u] = version[u] /\ version[u].conflict \in Done
      BY <1>1, <1>6, <1>10 DEF Inv, Heads, Done
    <3>2. ~IsCurrent(version[u].conflict)
      BY <3>1 DEF Inv, Publications, NoOpenConflict, Done
    <3> QED BY <1>6, <1>10, <3>1, <3>2
  <2>3. ScopeMovesKnowingly' /\ \A u \in Done' : version'[u].supersedes \in 0 .. written'
    <3>1. ASSUME NEW u \in Done'
          PROVE  /\ version'[u].supersedes \in 0 .. written'
                 /\ version'[u].supersedes # 0
                      /\ version'[version'[u].supersedes].audience # version'[u].audience
                    => version'[u].supersedes \in retired'
      <4>1. CASE u = v
        BY <1>1, <1>2, <1>6, <1>7, <4>1
      <4>2. CASE u # v
        <5>1. u \in Done /\ version'[u] = version[u] /\ version[u].supersedes \in 0 .. written
          BY <1>6, <4>2 DEF Inv, Publications
        <5>2. version[u].supersedes # 0 => version[u].supersedes \in Done
          BY <1>1, <5>1 DEF Done
        <5> QED BY <1>1, <1>3, <1>6, <5>1, <5>2 DEF Inv, Publications, ScopeMovesKnowingly, Done
      <4> QED BY <4>1, <4>2
    <3> QED BY <3>1 DEF ScopeMovesKnowingly, Done
  <2>4. ErasedWasShown'
    BY <1>2, <1>3, <1>6, <1>7 DEF Inv, Publications, ErasedWasShown, Done
  <2> QED BY <2>1, <2>2, <2>3, <2>4 DEF Publications
<1>12. Tombs'
  <2> SUFFICES ASSUME ~Unpublished PROVE TombstoneStands' /\ CapacityKept'
    BY DEF Tombs
  <2>1. k \notin tombs
    BY <1>0 DEF Inv, Tombs, TombstoneStands
  <2>2. TombstoneStands'
    <3>1. ASSUME NEW j \in tombs
          PROVE  /\ item'[j] = [state |-> "deleted", current |-> 0, draft |-> 0]
                 /\ \A u \in VersionsOf(j)' : version'[u].erased
      <4>1. j # k /\ j \in Items
        BY <2>1 DEF Inv, TypeOK
      <4>2. \A u \in VersionsOf(j)' : u \in VersionsOf(j) /\ version'[u] = version[u]
        BY <1>2, <1>6, <1>7, <4>1 DEF VersionsOf, Done
      <4> QED BY <1>5, <4>1, <4>2 DEF Inv, Tombs, TombstoneStands
    <3> QED BY <1>3, <3>1 DEF TombstoneStands
  <2>3. Drafts' = Drafts \cup {k} /\ Published' = Published
    BY <1>0, <1>1, <1>5 DEF Drafts, Published
  <2>4. Living' = Living \cup {v}
    <3>1. \A u \in Done : version[u].item \in Items
      BY DEF Inv, Heads
    <3> QED BY <1>0, <1>2, <1>5, <1>6, <1>7, <3>1 DEF Living, Done, st
  <2>5. Cardinality(Drafts') = IF k \in Drafts THEN Cardinality(Drafts) ELSE Cardinality(Drafts) + 1
    <3>1. Cardinality(Drafts \cup {k}) = IF k \in Drafts THEN Cardinality(Drafts) ELSE Cardinality(Drafts) + 1
      BY Finite, FS_AddElement DEF Inv
    <3> QED BY <2>3, <3>1
  <2>6. Cardinality(Living') <= Cardinality(Living) + 1 /\ Cardinality(Living') \in Nat
    <3>1. IsFiniteSet(Living \cup {v}) /\ Cardinality(Living \cup {v}) =
            IF v \in Living THEN Cardinality(Living) ELSE Cardinality(Living) + 1
      BY Finite, FS_AddElement DEF Inv
    <3> QED BY <2>4, <3>1, Finite DEF Inv
  <2>7. k \in Drafts <=> item[k].draft # 0
    BY DEF Drafts
  <2>8. Cardinality(Drafts) \in Nat /\ Cardinality(Living) \in Nat /\ Cardinality(Published) \in Nat
    BY Finite DEF Inv
  <2>9. CapacityKept
    BY DEF Inv, Tombs
  <2>10. Cardinality(Drafts') <= DraftLimit
    BY <1>0, <2>5, <2>7, <2>8, <2>9, BoundsAssumption DEF Fits, CapacityKept
  <2>11. Cardinality(Living') <= VersionLimit
    BY <1>0, <2>6, <2>8, BoundsAssumption DEF Fits
  <2> QED BY <2>2, <2>3, <2>9, <2>10, <2>11 DEF CapacityKept
<1>13. Requests' /\ Kept'
  BY <1>3, <1>6, <1>10, RequestsStay
<1> QED BY <1>8, <1>9, <1>11, <1>12, <1>13 DEF Inv

LEMMA LoadKeeps == ASSUME Inv, NEW o \in Owners, NEW k \in Items, Load(o, k) PROVE Inv'
<1> DEFINE d == item[k].draft
           e == item[k].current
           x == [item |-> k, draft |-> d, current |-> e, fresh |-> TRUE]
<1>1. UNCHANGED <<item, version, written, context, call, retired, tombs, overtaken, answered, told>>
      /\ shown' = shown \cup VersionsOf(k) /\ page' = [page EXCEPT ![o] = x]
  BY DEF Load, hub
<1>2. d \in 0 .. written /\ e \in 0 .. written /\ written \in 0 .. MaxVersions
  BY ItemType DEF Inv, TypeOK
<1>3. d \in 0 .. MaxVersions /\ e \in 0 .. MaxVersions /\ (d # 0 => d \in Ids)
  BY <1>2, BoundsAssumption DEF Ids
<1>4. x \in Page /\ x.item = k /\ x.draft = d /\ x.current = e /\ x.fresh
  BY <1>3 DEF Page, ItemOrNone
<1>5. reviewed' = (IF d # 0 THEN reviewed \cup {<<d, e>>} ELSE reviewed)
  BY DEF Load
<1>6. reviewed \subseteq reviewed' /\ reviewed' \subseteq Ids \X (0 .. MaxVersions) /\ (d # 0 => <<d, e>> \in reviewed')
  BY <1>3, <1>5 DEF Inv, TypeOK
<1>7. VersionsOf(k) \subseteq Ids
  BY CurrentIsWritten DEF VersionsOf, Done, Inv
<1> HIDE DEF x, d, e
<1>8. page' \in [Owners -> Page] /\ \A p \in Owners : page'[p] = IF p = o THEN x ELSE page[p]
  BY <1>1, <1>4 DEF Inv, TypeOK
<1>9. TypeOK'
  BY <1>1, <1>6, <1>7, <1>8 DEF Inv, TypeOK
<1>10. Heads'
  BY <1>1 DEF Inv, Heads, Done
<1>11. Pages'
  <2> SUFFICES ASSUME NEW p \in Owners
               PROVE  /\ page'[p].draft # 0 =>
                           page'[p].item \in Items /\ <<page'[p].draft, page'[p].current>> \in reviewed'
                      /\ page'[p].fresh =>
                           page'[p].item \in Items /\ {v \in Done : version[v].item = page'[p].item} \subseteq shown'
    BY <1>1 DEF Pages, VersionsOf, Done
  <2>1. CASE p = o
    BY <1>1, <1>4, <1>6, <1>8, <2>1 DEF VersionsOf, Done
  <2>2. CASE p # o
    BY <1>1, <1>6, <1>8, <2>2 DEF Inv, Pages, VersionsOf, Done
  <2> QED BY <2>1, <2>2
<1>12. Publications'
  BY <1>1, <1>6 DEF Inv, Publications, OnlyReviewed, NoOpenConflict, ScopeMovesKnowingly, ErasedWasShown,
                    Done, IsCurrent
<1>13. Tombs'
  BY <1>1 DEF Inv, Tombs, TombstoneStands, CapacityKept, Drafts, Published, Living, VersionsOf
<1>14. Requests' /\ Kept'
  BY <1>1 DEF Inv, Requests, Kept, NoCopyLeft, Done, IsCurrent
<1> QED BY <1>9, <1>10, <1>11, <1>12, <1>13, <1>14 DEF Inv

(* A version loses its validity, or a draft is told a conflict. *)
LEMMA Touched ==
  ASSUME Inv, NEW v \in Done, NEW x \in Version, version' = [version EXCEPT ![v] = x],
         UNCHANGED <<item, written, page, context, call, ghosts>>,
         /\ x.item = version[v].item /\ x.status = version[v].status /\ x.audience = version[v].audience
         /\ x.text = version[v].text /\ x.supersedes = version[v].supersedes /\ x.erased = version[v].erased,
         \/ x.conflict = version[v].conflict
         \/ version[v].status = "draft" /\ x.conflict \in 0 .. written
  PROVE  Inv'
<1>1. version' \in [Ids -> Version] /\ \A u \in Ids : version'[u] = IF u = v THEN x ELSE version[u]
  BY CurrentIsWritten DEF Inv, TypeOK
<1>2. UNCHANGED <<shown, reviewed, retired, tombs, overtaken, answered, told>> /\ Done' = Done
  BY DEF ghosts, Done
<1>3. \A u \in Done : u \in Ids
  BY CurrentIsWritten DEF Inv
<1>4. \A u \in Ids : /\ version'[u].item = version[u].item /\ version'[u].status = version[u].status
                     /\ version'[u].audience = version[u].audience /\ version'[u].text = version[u].text
                     /\ version'[u].supersedes = version[u].supersedes /\ version'[u].erased = version[u].erased
                     /\ \/ version'[u].conflict = version[u].conflict
                        \/ version[u].status = "draft" /\ version'[u].conflict \in 0 .. written
  BY <1>1
<1>5. \A u \in Done : IsCurrent(u)' <=> IsCurrent(u)
  BY <1>3, <1>4 DEF IsCurrent
<1>6. TypeOK'
  BY <1>1, <1>2, <1>4 DEF Inv, TypeOK
<1>7. \A k \in Items : item[k].current # 0 => item[k].current \in Done
  BY ItemType DEF Inv, Done
<1>8. \A k \in Items : item[k].draft # 0 => item[k].draft \in Done
  BY ItemType DEF Inv, Done
<1>9. Heads'
  <2>1. \A u \in Done : /\ version'[u].item \in Items /\ version'[u].audience \in Audiences
                        /\ version'[u].conflict \in 0 .. written
                        /\ version'[u].status = "draft" => version'[u].text = u /\ version'[u].supersedes = 0
    BY <1>3, <1>4 DEF Inv, Heads
  <2>2. ASSUME NEW j \in Items
        PROVE  /\ item[j].draft # 0 => /\ version'[item[j].draft].item = j
                                       /\ version'[item[j].draft].status = "draft"
                                       /\ ~version'[item[j].draft].erased
               /\ item[j].current # 0 => /\ version'[item[j].current].item = j
                                         /\ version'[item[j].current].status = "published"
                                         /\ ~version'[item[j].current].erased
    BY <1>3, <1>4, <1>7, <1>8 DEF Inv, Heads
  <2> QED BY <1>2, <2>1, <2>2 DEF Inv, Heads
<1>10. Pages'
  BY <1>2, <1>3, <1>4 DEF Inv, Pages, VersionsOf, Done
<1>11. Publications'
  <2>1. OnlyReviewed' /\ ErasedWasShown'
    BY <1>2, <1>3, <1>4 DEF Inv, Publications, OnlyReviewed, ErasedWasShown, Done
  <2>2. NoOpenConflict'
    <3> SUFFICES ASSUME NEW u \in Done, IsCurrent(u)', version'[u].conflict # 0
                 PROVE  ~IsCurrent(version[u].conflict)'
      BY <1>2 DEF NoOpenConflict, Done
    <3>1. IsCurrent(u) /\ version'[u].conflict = version[u].conflict
      BY <1>3, <1>4, <1>5 DEF IsCurrent
    <3>2. PICK w \in Done : w = version[u].conflict
      BY <3>1 DEF Inv, Heads, Done
    <3>3. ~IsCurrent(w)
      BY <3>1, <3>2 DEF Inv, Publications, NoOpenConflict, Done
    <3>4. ~IsCurrent(w)' /\ version'[u].conflict = w
      BY <1>5, <3>1, <3>2, <3>3
    <3> QED BY <3>4 DEF IsCurrent
  <2>3. \A u \in Done : version[u].supersedes \in 0 .. written /\ (version[u].supersedes # 0 => version[u].supersedes \in Ids)
    BY BoundsAssumption DEF Inv, Publications, Ids, TypeOK
  <2>4. ScopeMovesKnowingly'
    BY <1>2, <1>3, <1>4, <2>3 DEF Inv, Publications, ScopeMovesKnowingly, Done
  <2>5. \A u \in Done' : version'[u].supersedes \in 0 .. written'
    BY <1>2, <1>3, <1>4, <2>3
  <2> QED BY <2>1, <2>2, <2>4, <2>5 DEF Publications
<1>12. Tombs'
  <2>1. Living' = Living /\ Drafts' = Drafts /\ Published' = Published
    BY <1>2, <1>3, <1>4 DEF Living, Drafts, Published, Done
  <2>2. \A k : VersionsOf(k)' = VersionsOf(k)
    BY <1>2, <1>3, <1>4 DEF VersionsOf, Done
  <2>3. TombstoneStands => TombstoneStands'
    <3> SUFFICES ASSUME TombstoneStands PROVE TombstoneStands'
      OBVIOUS
    <3>1. \A k \in tombs : \A u \in VersionsOf(k) : version'[u].erased
      BY <1>3, <1>4 DEF TombstoneStands, VersionsOf, Done
    <3> QED BY <1>2, <2>2, <3>1 DEF TombstoneStands
  <2> QED BY <2>1, <2>3 DEF Inv, Tombs, CapacityKept
<1>13. Requests' /\ Kept'
  BY <1>2, <1>3, <1>4, <1>5, RequestsStay
<1> QED BY <1>6, <1>9, <1>10, <1>11, <1>12, <1>13 DEF Inv

LEMMA ExpireKeeps == ASSUME Inv, NEW v \in Ids, Expire(v) PROVE Inv'
<1> DEFINE x == [version[v] EXCEPT !.expired = TRUE]
<1>1. v \in Done /\ version[v] \in Version
  BY DEF Expire, Ids, Done, Inv, TypeOK
<1>2. /\ x \in Version /\ x.item = version[v].item /\ x.status = version[v].status
      /\ x.audience = version[v].audience /\ x.text = version[v].text
      /\ x.supersedes = version[v].supersedes /\ x.erased = version[v].erased
      /\ x.conflict = version[v].conflict
  BY <1>1 DEF Version
<1>3. version' = [version EXCEPT ![v] = x] /\ UNCHANGED <<item, written, page, context, call, ghosts>>
  BY DEF Expire
<1> HIDE DEF x
<1> QED BY <1>1, <1>2, <1>3, Touched

(* What a page shows as the draft of an item is its draft. *)
LEMMA DraftShown ==
  ASSUME Inv, NEW o \in Owners, AsShown(o)
  PROVE  LET k == page[o].item
             d == page[o].draft
         IN  /\ k \in Items /\ d \in Done /\ d \in Ids /\ version[d].item = k /\ version[d].status = "draft"
             /\ version[d] \in Version /\ ~version[d].erased /\ <<d, item[k].current>> \in reviewed
             /\ item[k].draft = d /\ item[k].current \in 0 .. written /\ version[d].text = d
             /\ item[k].current # 0 => item[k].current \in Done
<1> DEFINE k == page[o].item
           d == page[o].draft
<1>1. d # 0 /\ item[k].draft = d /\ item[k].current = page[o].current
  BY DEF AsShown, Reviewed
<1>2. k \in Items /\ <<d, item[k].current>> \in reviewed
  BY <1>1 DEF Inv, Pages
<1>3. d \in Done /\ item[k].current \in 0 .. written /\ (item[k].current # 0 => item[k].current \in Done)
  BY <1>1, <1>2, ItemType DEF Inv, Done
<1>4. d \in Ids /\ version[d] \in Version
  BY <1>3, CurrentIsWritten DEF Inv
<1>5. version[d].item = k /\ version[d].status = "draft" /\ ~version[d].erased /\ version[d].text = d
  BY <1>1, <1>2, <1>3 DEF Inv, Heads
<1> QED BY <1>1, <1>2, <1>3, <1>4, <1>5

LEMMA RefuseScopeKeeps == ASSUME Inv, NEW o \in Owners, RefuseScope(o) PROVE Inv'
<1> DEFINE k == page[o].item
           d == page[o].draft
           n == item[k].current
           x == [version[d] EXCEPT !.conflict = n]
<1>1. /\ d \in Done /\ version[d] \in Version /\ version[d].status = "draft" /\ n \in 0 .. written
      /\ written \in 0 .. MaxVersions
  BY DraftShown DEF RefuseScope, Inv, TypeOK
<1>2. n \in 0 .. MaxVersions
  BY <1>1, BoundsAssumption
<1>3. /\ x \in Version /\ x.item = version[d].item /\ x.status = version[d].status
      /\ x.audience = version[d].audience /\ x.text = version[d].text
      /\ x.supersedes = version[d].supersedes /\ x.erased = version[d].erased /\ x.conflict = n
  BY <1>1, <1>2 DEF Version
<1>4. version' = [version EXCEPT ![d] = x] /\ UNCHANGED <<item, written, page, context, call, ghosts>>
  BY DEF RefuseScope, Reviewed
<1> HIDE DEF x
<1> QED BY <1>1, <1>3, <1>4, Touched

LEMMA LifecycleKeeps ==
  ASSUME Inv, NEW o \in Owners, NEW st \in {"archived", "withdrawn"}, SetLifecycle(o, st) PROVE Inv'
<1> DEFINE k == page[o].item
           x == [item[k] EXCEPT !.state = st]
<1>1. k # "none" /\ LifecycleApplies(o) /\ item' = [item EXCEPT ![k].state = st]
      /\ UNCHANGED <<version, written, context, call, shown, reviewed, tombs, overtaken, answered, told>>
      /\ Moved(k) /\ retired' = (IF item[k].current # 0 THEN retired \cup {item[k].current} ELSE retired)
  BY DEF SetLifecycle
<1>2. k \in Items
  BY <1>1 DEF Inv, TypeOK, Page, ItemOrNone
<1>3. item[k] \in Head /\ item[k].current \in 0 .. written /\ written \in 0 .. MaxVersions
  BY <1>2, ItemType DEF Inv, TypeOK
<1>4. x \in Head /\ x.state = st /\ x.current = item[k].current /\ x.draft = item[k].draft
  BY <1>3 DEF Head
<1>5. item' = [item EXCEPT ![k] = x]
  BY <1>1
<1> HIDE DEF x
<1>6. item' \in [Items -> Head] /\ \A j \in Items : item'[j] = IF j = k THEN x ELSE item[j]
  BY <1>4, <1>5 DEF Inv, TypeOK
<1>7. item[k].current # 0 => item[k].current \in Ids
  BY <1>3, BoundsAssumption DEF Ids
<1>8. retired \subseteq retired' /\ retired' \subseteq Ids /\ (item[k].current # 0 => item[k].current \in retired')
  BY <1>1, <1>7 DEF Inv, TypeOK
<1>9. page' \in [Owners -> Page] /\ Pages'
  <2>1. \A u \in Done' : version'[u].item = k \/ (u \in Done /\ version'[u].item = version[u].item)
    BY <1>1 DEF Done
  <2> HIDE DEF k
  <2> QED BY <1>1, <1>2, <2>1, PagesMove
<1>10. TypeOK'
  <2>1. \A j \in Items : item'[j].current <= written' /\ item'[j].draft <= written'
    BY <1>1, <1>4, <1>6 DEF Inv, TypeOK
  <2> HIDE DEF k
  <2> QED BY <1>1, <1>6, <1>8, <1>9, <2>1 DEF Inv, TypeOK
<1>11. Heads'
  <2>1. ASSUME NEW j \in Items
        PROVE  /\ item'[j].draft = item[j].draft /\ item'[j].current = item[j].current
               /\ item'[j].state \in {"none", "deleted"} => item'[j].current = 0
               /\ item'[j].state = "deleted" => item'[j].draft = 0
               /\ item'[j].state \in {"archived", "withdrawn"} /\ item'[j].current # 0 =>
                    item'[j].current \in retired'
    BY <1>4, <1>6, <1>8 DEF Inv, Heads
  <2>2. UNCHANGED <<version, written>> /\ Done' = Done
    BY <1>1 DEF Done
  <2>3. ASSUME NEW j \in Items
        PROVE  /\ item'[j].draft # 0 => /\ version'[item'[j].draft].item = j
                                        /\ version'[item'[j].draft].status = "draft"
                                        /\ ~version'[item'[j].draft].erased
               /\ item'[j].current # 0 => /\ version'[item'[j].current].item = j
                                          /\ version'[item'[j].current].status = "published"
                                          /\ ~version'[item'[j].current].erased
    BY <2>1, <2>2 DEF Inv, Heads
  <2>4. \A u \in Done' : /\ version'[u].item \in Items /\ version'[u].audience \in Audiences
                         /\ version'[u].conflict \in 0 .. written'
                         /\ version'[u].status = "draft" => version'[u].text = u /\ version'[u].supersedes = 0
    BY <2>2 DEF Inv, Heads
  <2> QED BY <2>1, <2>3, <2>4 DEF Heads
<1>12. \A u \in Done : IsCurrent(u)' => IsCurrent(u)
  <2> SUFFICES ASSUME NEW u \in Done, IsCurrent(u)' PROVE IsCurrent(u)
    OBVIOUS
  <2>1. version[u].item \in Items
    BY DEF Inv, Heads
  <2>2. version[u].item # k
    BY <1>1, <1>2, <1>4, <1>6 DEF IsCurrent
  <2> QED BY <1>1, <1>6, <2>1, <2>2 DEF IsCurrent
<1>13. Publications'
  <2>1. NoOpenConflict'
    <3> SUFFICES ASSUME NEW u \in Done, IsCurrent(u)', version[u].conflict # 0
                 PROVE  ~IsCurrent(version[u].conflict)'
      BY <1>1 DEF NoOpenConflict, Done
    <3>1. PICK w \in Done : w = version[u].conflict
      BY DEF Inv, Heads, Done
    <3>2. ~IsCurrent(w)
      BY <1>12, <3>1 DEF Inv, Publications, NoOpenConflict, Done
    <3>3. ~IsCurrent(w)' /\ version'[u].conflict = w
      BY <1>1, <1>12, <3>1, <3>2
    <3> QED BY <3>3 DEF IsCurrent
  <2> QED BY <1>1, <1>8, <2>1 DEF Inv, Publications, OnlyReviewed, ScopeMovesKnowingly, ErasedWasShown, Done
<1>14. Tombs'
  <2> SUFFICES ASSUME ~Unpublished PROVE TombstoneStands' /\ CapacityKept'
    BY DEF Tombs
  <2>1. item[k].current # 0
    BY <1>1 DEF LifecycleApplies
  <2>2. k \notin tombs /\ item[k].state # "deleted"
    BY <1>2, <2>1 DEF Inv, Tombs, TombstoneStands, Heads
  <2>3. Drafts' = Drafts /\ Published' = Published
    BY <1>4, <1>6 DEF Drafts, Published
  <2>4. Living' = Living
    <3>1. \A u \in Done : version[u].item \in Items
      BY DEF Inv, Heads
    <3>2. \A j \in Items : item'[j].state = "deleted" <=> item[j].state = "deleted"
      BY <1>4, <1>6, <2>2
    <3> QED BY <1>1, <3>1, <3>2 DEF Living, Done
  <2>5. TombstoneStands'
    <3>1. \A j \in tombs : item'[j] = item[j]
      BY <1>6, <2>2 DEF Inv, TypeOK
    <3> QED BY <1>1, <3>1 DEF Inv, Tombs, TombstoneStands, VersionsOf
  <2> QED BY <2>3, <2>4, <2>5 DEF Inv, Tombs, CapacityKept
<1>15. Requests' /\ Kept'
  BY <1>1, <1>12, RequestsStay DEF Done
<1> QED BY <1>9, <1>10, <1>11, <1>13, <1>14, <1>15 DEF Inv

LEMMA EraseKeeps == ASSUME Inv, NEW o \in Owners, Erase(o) PROVE Inv'
<1> DEFINE k == page[o].item
<1>1. /\ k # "none" /\ page[o].fresh /\ context' = Scrubbed(k) /\ Moved(k) /\ tombs' = tombs \cup {k}
      /\ item[k].state # "deleted"
      /\ item' = [item EXCEPT ![k] = [state |-> "deleted", current |-> 0, draft |-> 0]]
      /\ UNCHANGED <<written, call, shown, reviewed, retired, answered, told>>
      /\ Done' = Done
  BY DEF Erase, MayErase, Done
<1>2. k \in Items /\ VersionsOf(k) \subseteq shown
  BY <1>1 DEF Inv, Pages
<1>3. /\ item' \in [Items -> Head] /\ \A j \in Items : j # k => item'[j] = item[j]
      /\ item'[k].state = "deleted" /\ item'[k].current = 0 /\ item'[k].draft = 0
  <2> HIDE DEF k
  <2> QED BY <1>1, <1>2, HeadSet, NullTypes DEF Inv
<1>4. version' \in [Ids -> Version]
      /\ \A v \in Ids : /\ version'[v].item = version[v].item /\ version'[v].status = version[v].status
                        /\ version'[v].audience = version[v].audience /\ version'[v].text = version[v].text
                        /\ version'[v].supersedes = version[v].supersedes
                        /\ version'[v].conflict \in {0, version[v].conflict}
                        /\ version'[v].erased = (v \in VersionsOf(k) \/ version[v].erased)
                        /\ v \notin VersionsOf(k) => version'[v] = version[v]
  <2>1. version' = [v \in Ids |-> IF v \in VersionsOf(k)
                                    THEN [version[v] EXCEPT !.erased = TRUE, !.conflict = 0] ELSE version[v]]
    BY DEF Erase
  <2>2. ASSUME NEW v \in Ids, NEW y, y = [version[v] EXCEPT !.erased = TRUE, !.conflict = 0]
        PROVE  /\ y \in Version /\ y.item = version[v].item /\ y.status = version[v].status
               /\ y.audience = version[v].audience /\ y.text = version[v].text
               /\ y.supersedes = version[v].supersedes /\ y.conflict = 0 /\ y.erased = TRUE
    <3>1. version[v] \in Version /\ 0 \in 0 .. MaxVersions
      BY NullTypes DEF Inv, TypeOK
    <3> QED BY <2>2, <3>1 DEF Version
  <2>3. \A v \in Ids : version[v] \in Version /\ version[v].erased \in BOOLEAN
    BY DEF Inv, TypeOK, Version
  <2> HIDE DEF k
  <2>4. ASSUME NEW v \in Ids
        PROVE  /\ version'[v] \in Version
               /\ version'[v].item = version[v].item /\ version'[v].status = version[v].status
               /\ version'[v].audience = version[v].audience /\ version'[v].text = version[v].text
               /\ version'[v].supersedes = version[v].supersedes
               /\ version'[v].conflict \in {0, version[v].conflict}
               /\ version'[v].erased = (v \in VersionsOf(k) \/ version[v].erased)
               /\ v \notin VersionsOf(k) => version'[v] = version[v]
    <3>1. CASE v \in VersionsOf(k)
      BY <2>1, <2>2, <2>3, <3>1
    <3>2. CASE v \notin VersionsOf(k)
      BY <2>1, <2>3, <3>2
    <3> QED BY <3>1, <3>2
  <2> QED BY <2>1, <2>4
<1>5. \A u \in Done : u \in Ids
  BY CurrentIsWritten DEF Inv
<1>6. page' \in [Owners -> Page] /\ Pages'
  <2>1. \A u \in Done' : version'[u].item = k \/ (u \in Done /\ version'[u].item = version[u].item)
    BY <1>1, <1>4, <1>5
  <2> HIDE DEF k
  <2> QED BY <1>1, <1>2, <2>1, PagesMove
<1>7. context' \in [Starts -> Context]
      /\ \A s \in Starts : /\ context'[s].manifest = context[s].manifest /\ context'[s].report = context[s].report
                           /\ context'[s].kept = "none" <=> context[s].kept = "none"
                           /\ context'[s].kept = "held" =>
                                context[s].kept = "held" /\ context[s].manifest \cap VersionsOf(k) = {}
  <2>1. ASSUME NEW s \in Starts, NEW y, y = [context[s] EXCEPT !.kept = "scrubbed"]
        PROVE  y \in Context /\ y.manifest = context[s].manifest /\ y.report = context[s].report /\ y.kept = "scrubbed"
    BY <2>1, ContextType DEF Inv, Context
  <2> HIDE DEF k
  <2> QED BY <1>1, <2>1, ContextType DEF Scrubbed, Inv
<1>8. overtaken' = overtaken \cup {call[c].start : c \in {d \in Calls : call[d].phase = "built"
                                                          /\ call[d].manifest \cap VersionsOf(k) # {}}}
  BY DEF Erase
<1>9. overtaken \subseteq overtaken' /\ overtaken' \subseteq Starts
      /\ \A c \in Calls : call[c].phase = "built" /\ call[c].start \notin overtaken' =>
           call[c].start \notin overtaken /\ call[c].manifest \cap VersionsOf(k) = {}
  <2>1. \A c \in Calls : call[c].phase = "built" => call[c].start \in Starts
    BY DEF Inv, Requests
  <2> HIDE DEF k
  <2> QED BY <1>8, <2>1 DEF Inv, TypeOK
<1>10. TypeOK'
  <2>1. \A j \in Items : item'[j].current <= written' /\ item'[j].draft <= written'
    BY <1>1, <1>2, <1>3 DEF Inv, TypeOK
  <2>2. \A u \in Ids : version'[u].status # "none" <=> u <= written'
    BY <1>1, <1>4 DEF Inv, TypeOK
  <2>3. tombs' \subseteq Items
    BY <1>1, <1>2 DEF Inv, TypeOK
  <2> HIDE DEF k
  <2> QED BY <1>1, <1>3, <1>4, <1>6, <1>7, <1>9, <2>1, <2>2, <2>3 DEF Inv, TypeOK
<1>11. Heads'
  <2>1. \A u \in Done : /\ version'[u].item \in Items /\ version'[u].audience \in Audiences
                        /\ version'[u].conflict \in 0 .. written
                        /\ version'[u].status = "draft" => version'[u].text = u /\ version'[u].supersedes = 0
    <3>1. 0 \in 0 .. written
      BY BoundsAssumption DEF Inv, TypeOK
    <3> QED BY <1>4, <1>5, <3>1 DEF Inv, Heads
  <2>2. ASSUME NEW j \in Items
        PROVE  /\ item'[j].draft # 0 => /\ version'[item'[j].draft].item = j
                                        /\ version'[item'[j].draft].status = "draft"
                                        /\ ~version'[item'[j].draft].erased
               /\ item'[j].current # 0 => /\ version'[item'[j].current].item = j
                                          /\ version'[item'[j].current].status = "published"
                                          /\ ~version'[item'[j].current].erased
               /\ item'[j].state \in {"none", "deleted"} => item'[j].current = 0
               /\ item'[j].state = "deleted" => item'[j].draft = 0
               /\ item'[j].state \in {"archived", "withdrawn"} /\ item'[j].current # 0 =>
                    item'[j].current \in retired'
    <3>1. CASE j = k
      BY <1>2, <1>3, <3>1
    <3>2. CASE j # k
      <4>1. item'[j] = item[j]
        BY <1>3, <3>2
      <4>2. ASSUME NEW u \in Done, version[u].item = j PROVE version'[u] = version[u]
        BY <1>4, <1>5, <3>2, <4>2 DEF VersionsOf, Done
      <4>3. item[j].draft # 0 => item[j].draft \in Done
        BY ItemType DEF Inv, Done
      <4>4. item[j].current # 0 => item[j].current \in Done
        BY ItemType DEF Inv, Done
      <4> QED BY <1>1, <4>1, <4>2, <4>3, <4>4 DEF Inv, Heads
    <3> QED BY <3>1, <3>2
  <2> QED BY <1>1, <2>1, <2>2 DEF Heads
<1>12. \A u \in Done : IsCurrent(u)' => IsCurrent(u)
  <2> SUFFICES ASSUME NEW u \in Done, IsCurrent(u)' PROVE IsCurrent(u)
    OBVIOUS
  <2>1. version[u].item \in Items /\ version'[u].item = version[u].item /\ version'[u].status = version[u].status
    BY <1>4, <1>5 DEF Inv, Heads
  <2>2. version[u].item # k
    BY <1>2, <1>3, <2>1 DEF IsCurrent
  <2> QED BY <1>3, <2>1, <2>2 DEF IsCurrent
<1>13. Publications'
  <2>1. OnlyReviewed'
    BY <1>1, <1>4, <1>5 DEF Inv, Publications, OnlyReviewed, Done
  <2>2. ErasedWasShown'
    BY <1>1, <1>2, <1>4, <1>5 DEF Inv, Publications, ErasedWasShown, Done
  <2>3. NoOpenConflict'
    <3> SUFFICES ASSUME NEW u \in Done, IsCurrent(u)', version'[u].conflict # 0
                 PROVE  ~IsCurrent(version[u].conflict)'
      BY <1>1 DEF NoOpenConflict, Done
    <3>1. version'[u].conflict = version[u].conflict
      BY <1>4, <1>5
    <3>2. PICK w \in Done : w = version[u].conflict
      BY <3>1 DEF Inv, Heads, Done
    <3>3. ~IsCurrent(w)
      BY <1>12, <3>1, <3>2 DEF Inv, Publications, NoOpenConflict, Done
    <3>4. ~IsCurrent(w)' /\ version'[u].conflict = w
      BY <1>12, <3>1, <3>2, <3>3
    <3> QED BY <3>4 DEF IsCurrent
  <2>4. \A u \in Done : version[u].supersedes \in 0 .. written /\ (version[u].supersedes # 0 => version[u].supersedes \in Ids)
    BY BoundsAssumption DEF Inv, Publications, Ids, TypeOK
  <2>5. ScopeMovesKnowingly' /\ \A u \in Done' : version'[u].supersedes \in 0 .. written'
    BY <1>1, <1>4, <1>5, <2>4 DEF Inv, Publications, ScopeMovesKnowingly, Done
  <2> QED BY <2>1, <2>2, <2>3, <2>5 DEF Publications
<1>14. Tombs'
  <2> SUFFICES ASSUME ~Unpublished PROVE TombstoneStands' /\ CapacityKept'
    BY DEF Tombs
  <2>1. \A j : VersionsOf(j)' = VersionsOf(j)
    BY <1>1, <1>4, <1>5 DEF VersionsOf, Done
  <2>2. TombstoneStands'
    <3>1. ASSUME NEW j \in tombs'
          PROVE  /\ item'[j] = [state |-> "deleted", current |-> 0, draft |-> 0]
                 /\ \A u \in VersionsOf(j) : version'[u].erased
      <4>0. \A u \in VersionsOf(j) : u \in Ids /\ (version[u].erased \/ u \in VersionsOf(k) => version'[u].erased)
        BY <1>4, <1>5 DEF VersionsOf, Done
      <4>1. CASE j = k
        BY <1>1, <1>2, <4>0, <4>1 DEF Inv, TypeOK
      <4>2. CASE j # k
        <5>1. j \in tombs /\ item'[j] = item[j]
          BY <1>1, <1>3, <4>2 DEF Inv, TypeOK
        <5> QED BY <4>0, <5>1 DEF Inv, Tombs, TombstoneStands
      <4> QED BY <4>1, <4>2
    <3> QED BY <2>1, <3>1 DEF TombstoneStands
  <2>3. Drafts' \subseteq Drafts /\ Published' \subseteq Published
    BY <1>3 DEF Drafts, Published
  <2>4. Living' \subseteq Living
    <3>1. \A u \in Done : version[u].item \in Items /\ version'[u].item = version[u].item
      BY <1>4, <1>5 DEF Inv, Heads
    <3> QED BY <1>1, <1>3, <3>1 DEF Living, Done
  <2>5. Cardinality(Drafts') <= Cardinality(Drafts) /\ Cardinality(Drafts') \in Nat
    BY <2>3, Finite, FS_Subset, FS_CardinalityType DEF Inv
  <2>6. Cardinality(Published') <= Cardinality(Published) /\ Cardinality(Published') \in Nat
    BY <2>3, Finite, FS_Subset, FS_CardinalityType DEF Inv
  <2>7. Cardinality(Living') <= Cardinality(Living) /\ Cardinality(Living') \in Nat
    BY <2>4, Finite, FS_Subset, FS_CardinalityType DEF Inv
  <2>8. Cardinality(Drafts) \in Nat /\ Cardinality(Published) \in Nat /\ Cardinality(Living) \in Nat
    BY Finite DEF Inv
  <2>9. CapacityKept'
    BY <2>5, <2>6, <2>7, <2>8, BoundsAssumption DEF Inv, Tombs, CapacityKept
  <2> QED BY <2>2, <2>9
<1>15. Requests'
  <2>1. \A d \in Calls : call[d].phase # "idle" => call[d].start \in Starts /\ call[d].manifest \subseteq Done
    BY DEF Inv, Requests
  <2>2. ASSUME NEW d \in Calls, call[d].phase = "built", call[d].start \notin overtaken', NEW u \in call[d].manifest
        PROVE  ~version'[u].erased
    <3>1. u \in Done /\ u \in Ids /\ ~version[u].erased
      BY <1>5, <1>9, <2>1, <2>2 DEF Inv, Requests
    <3>2. u \notin VersionsOf(k)
      BY <1>9, <2>2
    <3> QED BY <1>4, <3>1, <3>2
  <2>3. ASSUME NEW d \in Calls, call[d].phase # "idle"
        PROVE  /\ context'[call[d].start].manifest = context[call[d].start].manifest
               /\ context'[call[d].start].kept = "none" <=> context[call[d].start].kept = "none"
               /\ \A u \in call[d].manifest : version'[u].audience = version[u].audience
    BY <1>4, <1>5, <1>7, <2>1, <2>3
  <2> HIDE DEF k
  <2> QED BY <1>1, <1>12, <2>1, <2>2, <2>3 DEF Inv, Requests
<1>16. Kept'
  <2>1. NoCopyLeft'
    <3> SUFFICES ASSUME NEW s \in Starts, s \notin overtaken', context'[s].kept = "held", NEW u \in context'[s].manifest
                 PROVE  ~version'[u].erased
      BY DEF NoCopyLeft
    <3>1. context[s].kept = "held" /\ u \in context[s].manifest /\ u \notin VersionsOf(k)
      BY <1>7
    <3>2. u \in Done /\ u \in Ids /\ ~version[u].erased
      BY <1>5, <1>9, <3>1 DEF Inv, Kept, NoCopyLeft
    <3> QED BY <1>4, <3>1, <3>2
  <2> HIDE DEF k
  <2> QED BY <1>1, <1>7, <2>1 DEF Inv, Kept
<1> QED BY <1>6, <1>10, <1>11, <1>13, <1>14, <1>15, <1>16 DEF Inv

LEMMA PublishKeeps == ASSUME Inv, NEW o \in Owners, Publish(o) PROVE Inv'
<1> DEFINE k == page[o].item
           d == page[o].draft
           n == item[k].current
           v == written + 1
           new == [version[d] EXCEPT !.status = "published", !.supersedes = n]
<1>1. /\ v \in Ids /\ ~Opposed(d) /\ ~MovesScope(k, d) /\ RoomToPublish(k) /\ Write(v, new) /\ Moved(k)
      /\ item' = [item EXCEPT ![k] = [state |-> "active", current |-> v, draft |-> 0]]
      /\ call' = [c \in Calls |-> IF call[c].phase = "idle" THEN call[c]
                                                           ELSE [call[c] EXCEPT !.since = @ \cup {v}]]
      /\ UNCHANGED <<context, shown, reviewed, retired, tombs, overtaken, answered, told>>
  BY DEF Publish, Reviewed, ghosts
<1>2. /\ k \in Items /\ d \in Done /\ d \in Ids /\ version[d].item = k /\ version[d].status = "draft"
      /\ version[d] \in Version /\ ~version[d].erased /\ <<d, n>> \in reviewed
      /\ item[k].draft = d /\ n \in 0 .. written /\ version[d].text = d
      /\ n # 0 => n \in Done
  BY DraftShown DEF Publish
<1>3. written \in 0 .. MaxVersions /\ written \in Nat /\ 0 \in 0 .. MaxVersions /\ v # 0
  BY BoundsAssumption, NullTypes DEF Inv, TypeOK
<1>4. n \in 0 .. MaxVersions /\ v \in 0 .. MaxVersions /\ d # 0
  BY <1>1, <1>2, <1>3, BoundsAssumption DEF Ids, Done
<1>5. /\ new \in Version /\ new.item = k /\ new.status = "published" /\ new.audience = version[d].audience
      /\ new.text = d /\ new.supersedes = n /\ new.conflict = version[d].conflict /\ ~new.erased
  BY <1>2, <1>4 DEF Version
<1>6. version[d].audience \in Audiences /\ version[d].conflict \in 0 .. written
  BY <1>2 DEF Inv, Heads
<1> HIDE DEF new, k, d, n
<1>7. /\ item' \in [Items -> Head] /\ \A j \in Items : j # k => item'[j] = item[j]
      /\ item'[k].state = "active" /\ item'[k].current = v /\ item'[k].draft = 0
  BY <1>1, <1>2, <1>3, <1>4, HeadSet DEF Inv
<1>8. /\ version' \in [Ids -> Version] /\ written' = v /\ written' \in 0 .. MaxVersions
      /\ \A u \in Ids : version'[u] = IF u = v THEN new ELSE version[u]
      /\ \A u \in Ids : version'[u].status # "none" <=> u <= written'
      /\ Done' = Done \cup {v} /\ v \notin Done /\ 0 \notin Done'
      /\ \A u \in Done : u \in Ids /\ version'[u] = version[u]
  BY <1>1, <1>5, Added DEF Inv
<1>9. version'[v] = new
  BY <1>1, <1>8
<1>10. page' \in [Owners -> Page] /\ Pages'
  <2>1. \A u \in Done' : version'[u].item = k \/ (u \in Done /\ version'[u].item = version[u].item)
    BY <1>5, <1>8, <1>9
  <2> QED BY <1>1, <1>2, <2>1, PagesMove
<1>11. call' \in [Calls -> Call]
       /\ \A c \in Calls : /\ call'[c].phase = call[c].phase /\ call'[c].start = call[c].start
                           /\ call'[c].reader = call[c].reader /\ call'[c].manifest = call[c].manifest
                           /\ call'[c].left = call[c].left /\ call[c].since \subseteq call'[c].since
                           /\ call'[c].phase # "idle" => v \in call'[c].since
  <2>1. ASSUME NEW c \in Calls, NEW y, y = [call[c] EXCEPT !.since = @ \cup {v}]
        PROVE  /\ y \in Call /\ y.phase = call[c].phase /\ y.start = call[c].start /\ y.reader = call[c].reader
               /\ y.manifest = call[c].manifest /\ y.left = call[c].left /\ y.since = call[c].since \cup {v}
    BY <1>1, <2>1, CallType DEF Inv, Call
  <2>2. \A c \in Calls : call[c] \in Call
    BY DEF Inv, TypeOK
  <2> QED BY <1>1, <2>1, <2>2
<1>12. TypeOK'
  <2>1. \A j \in Items : item'[j].current <= written' /\ item'[j].draft <= written'
    BY <1>2, <1>3, <1>7, <1>8, ItemType DEF Inv
  <2> QED BY <1>1, <1>7, <1>8, <1>10, <1>11, <2>1 DEF Inv, TypeOK
<1>13. Heads'
  <2>1. \A u \in Done' : /\ version'[u].item \in Items /\ version'[u].audience \in Audiences
                         /\ version'[u].conflict \in 0 .. written'
                         /\ version'[u].status = "draft" => version'[u].text = u /\ version'[u].supersedes = 0
    BY <1>2, <1>3, <1>5, <1>6, <1>8, <1>9 DEF Inv, Heads
  <2>2. ASSUME NEW j \in Items
        PROVE  /\ item'[j].draft # 0 => /\ version'[item'[j].draft].item = j
                                        /\ version'[item'[j].draft].status = "draft"
                                        /\ ~version'[item'[j].draft].erased
               /\ item'[j].current # 0 => /\ version'[item'[j].current].item = j
                                          /\ version'[item'[j].current].status = "published"
                                          /\ ~version'[item'[j].current].erased
               /\ item'[j].state \in {"none", "deleted"} => item'[j].current = 0
               /\ item'[j].state = "deleted" => item'[j].draft = 0
               /\ item'[j].state \in {"archived", "withdrawn"} /\ item'[j].current # 0 =>
                    item'[j].current \in retired'
    <3>1. item[j].current # 0 => item[j].current \in Done
      BY ItemType DEF Inv, Done
    <3>2. item[j].draft # 0 => item[j].draft \in Done
      BY ItemType DEF Inv, Done
    <3>3. CASE j = k
      BY <1>5, <1>7, <1>9, <3>3
    <3>4. CASE j # k
      BY <1>1, <1>7, <1>8, <3>1, <3>2, <3>4 DEF Inv, Heads
    <3> QED BY <3>3, <3>4
  <2> QED BY <2>1, <2>2 DEF Heads
<1>14. \A u \in Done : IsCurrent(u)' => IsCurrent(u)
  <2> SUFFICES ASSUME NEW u \in Done, IsCurrent(u)' PROVE IsCurrent(u)
    OBVIOUS
  <2>1. version[u].item \in Items /\ version'[u] = version[u] /\ u # v
    BY <1>8 DEF Inv, Heads
  <2>2. version[u].item # k
    BY <1>7, <2>1 DEF IsCurrent
  <2> QED BY <1>7, <2>1, <2>2 DEF IsCurrent
<1>15. Publications'
  <2>1. OnlyReviewed'
    BY <1>1, <1>2, <1>5, <1>8, <1>9 DEF Inv, Publications, OnlyReviewed, Done
  <2>2. ErasedWasShown'
    BY <1>1, <1>5, <1>8, <1>9 DEF Inv, Publications, ErasedWasShown, Done
  <2>3. NoOpenConflict'
    <3> SUFFICES ASSUME NEW u \in Done', IsCurrent(u)', version'[u].conflict # 0
                 PROVE  ~IsCurrent(version[u].conflict)'
      BY DEF NoOpenConflict, Done
    <3>1. PICK w \in Done : w = version'[u].conflict /\ ~IsCurrent(w)
      <4>1. CASE u = v
        <5>1. version'[u].conflict = version[d].conflict
          BY <1>5, <1>9, <4>1
        <5>2. version[d].conflict \in Done /\ ~IsCurrent(version[d].conflict)
          BY <1>1, <1>3, <1>6, <5>1 DEF Opposed, Done
        <5> QED BY <5>1, <5>2
      <4>2. CASE u # v
        <5>1. u \in Done /\ version'[u] = version[u] /\ IsCurrent(u)
          BY <1>8, <1>14, <4>2
        <5>2. version[u].conflict \in Done
          BY <1>3, <5>1 DEF Inv, Heads, Done
        <5> QED BY <5>1, <5>2 DEF Inv, Publications, NoOpenConflict, Done
      <4> QED BY <4>1, <4>2
    <3>2. ~IsCurrent(w)'
      BY <1>14, <3>1
    <3> QED BY <3>1, <3>2 DEF IsCurrent
  <2>4. ASSUME NEW u \in Done'
        PROVE  /\ version'[u].supersedes \in 0 .. written'
               /\ version'[u].supersedes # 0
                    /\ version'[version'[u].supersedes].audience # version'[u].audience
                  => version'[u].supersedes \in retired'
    <3>1. CASE u = v
      <4>1. version'[u].supersedes = n /\ version'[u].audience = version[d].audience /\ n \in 0 .. written'
        BY <1>2, <1>3, <1>5, <1>8, <1>9, <3>1
      <4>2. ASSUME n # 0, version[n].audience # version[d].audience PROVE n \in retired
        <5>1. item[k].state # "active" /\ item[k].current # 0
          BY <1>1, <4>2 DEF MovesScope, CurrentOf, n
        <5> QED BY <1>2, <5>1, ItemType DEF Inv, Heads, n
      <4>3. n # 0 => version'[n] = version[n]
        BY <1>2, <1>8
      <4> QED BY <1>1, <4>1, <4>2, <4>3
    <3>2. CASE u # v
      <4>1. u \in Done /\ version'[u] = version[u] /\ version[u].supersedes \in 0 .. written
        BY <1>8, <3>2 DEF Inv, Publications
      <4>2. version[u].supersedes # 0 => version[u].supersedes \in Done
        BY <1>3, <4>1 DEF Done
      <4> QED BY <1>1, <1>3, <1>8, <4>1, <4>2 DEF Inv, Publications, ScopeMovesKnowingly, Done
    <3> QED BY <3>1, <3>2
  <2>5. ScopeMovesKnowingly'
    BY <2>4 DEF ScopeMovesKnowingly, Done
  <2> QED BY <2>1, <2>2, <2>3, <2>4, <2>5 DEF Publications
<1>16. Tombs'
  <2> SUFFICES ASSUME ~Unpublished PROVE TombstoneStands' /\ CapacityKept'
    BY DEF Tombs
  <2>1. k \notin tombs /\ item[k].state # "deleted"
    BY <1>2, <1>4 DEF Inv, Tombs, TombstoneStands, Heads
  <2>2. TombstoneStands'
    <3>1. ASSUME NEW j \in tombs
          PROVE  /\ item'[j] = [state |-> "deleted", current |-> 0, draft |-> 0]
                 /\ \A u \in VersionsOf(j)' : version'[u].erased
      <4>1. j # k /\ j \in Items
        BY <2>1 DEF Inv, TypeOK
      <4>2. \A u \in VersionsOf(j)' : u \in VersionsOf(j) /\ version'[u] = version[u]
        BY <1>5, <1>8, <1>9, <4>1 DEF VersionsOf, Done
      <4> QED BY <1>7, <4>1, <4>2 DEF Inv, Tombs, TombstoneStands
    <3> QED BY <1>1, <3>1 DEF TombstoneStands
  <2>3. Drafts' \subseteq Drafts \ {k} /\ k \in Drafts
    BY <1>2, <1>4, <1>7 DEF Drafts
  <2>4. Published' = Published \cup {k}
    BY <1>2, <1>3, <1>7 DEF Published
  <2>5. Living' = Living \cup {v}
    <3>1. \A u \in Done : version[u].item \in Items
      BY DEF Inv, Heads
    <3> QED BY <1>5, <1>7, <1>8, <1>9, <2>1, <3>1 DEF Living, Done
  <2>6. k \in Published <=> n # 0
    BY <1>2 DEF Published, n
  <2>7. Cardinality(Drafts) \in Nat /\ Cardinality(Living) \in Nat /\ Cardinality(Published) \in Nat
    BY Finite DEF Inv
  <2>8. Cardinality(Drafts') <= Cardinality(Drafts) /\ Cardinality(Drafts') \in Nat
    BY <2>3, Finite, FS_Subset, FS_CardinalityType DEF Inv
  <2>9. Cardinality(Published') = IF n = 0 THEN Cardinality(Published) + 1 ELSE Cardinality(Published)
    <3>1. Cardinality(Published \cup {k}) =
            IF k \in Published THEN Cardinality(Published) ELSE Cardinality(Published) + 1
      BY Finite, FS_AddElement DEF Inv
    <3> QED BY <2>4, <2>6, <3>1
  <2>10. Cardinality(Living') <= Cardinality(Living) + 1 /\ Cardinality(Living') \in Nat
    <3>1. IsFiniteSet(Living \cup {v}) /\ Cardinality(Living \cup {v}) =
            IF v \in Living THEN Cardinality(Living) ELSE Cardinality(Living) + 1
      BY Finite, FS_AddElement DEF Inv
    <3> QED BY <2>5, <2>7, <3>1
  <2>11. CapacityKept
    BY DEF Inv, Tombs
  <2>12. /\ Cardinality(Published) + (IF n = 0 THEN 1 ELSE 0) <= PublishedLimit
         /\ Cardinality(Living) + 1 <= VersionLimit
    BY <1>1 DEF RoomToPublish, Fits, n
  <2>13. CapacityKept'
    BY <2>7, <2>8, <2>9, <2>10, <2>11, <2>12, BoundsAssumption DEF CapacityKept
  <2> QED BY <2>2, <2>13
<1>17. Requests' /\ Kept'
  <2>1. \A u \in Done' : IsCurrent(u)' => \/ u \in Done /\ IsCurrent(u)
                                          \/ \A c \in Calls : call'[c].phase # "idle" => u \in call'[c].since
    BY <1>8, <1>11, <1>14
  <2> QED BY <1>1, <1>8, <1>11, <2>1, RequestsStay
<1> QED BY <1>10, <1>12, <1>13, <1>15, <1>16, <1>17 DEF Inv

-----------------------------------------------------------------------------
(* Every step keeps the invariant. *)

LEMMA InvKept == Inv /\ [Next]_vars => Inv'
<1> SUFFICES ASSUME Inv, [Next]_vars PROVE Inv'
  OBVIOUS
<1>1. CASE UNCHANGED vars
  <2>1. UNCHANGED <<hub, page, shown, reviewed, retired, tombs, context, call, overtaken, answered, told>>
    BY <1>1 DEF vars, ghosts
  <2>2. Heads' /\ Pages' /\ Publications' /\ Tombs' /\ Done' = Done /\ \A v : IsCurrent(v)' <=> IsCurrent(v)
    BY <2>1, HubSame
  <2>3. Requests' /\ Kept'
    BY <2>1, <2>2 DEF Inv, Requests, Kept, NoCopyLeft, hub
  <2>4. TypeOK'
    BY <2>1 DEF Inv, TypeOK, hub
  <2> QED BY <2>2, <2>3, <2>4 DEF Inv
<1>2. CASE \E k \in Items, a \in Audiences, w \in 0 .. written : Propose(k, a, w)
  BY <1>2, ProposeKeeps
<1>3. CASE \E o \in Owners :
             \/ \E k \in Items : Load(o, k)
             \/ Publish(o) \/ RefuseScope(o) \/ Erase(o)
             \/ \E state \in {"archived", "withdrawn"} : SetLifecycle(o, state)
  BY <1>3, LoadKeeps, PublishKeeps, RefuseScopeKeeps, EraseKeeps, LifecycleKeeps
<1>4. CASE \E v \in Ids : Expire(v)
  BY <1>4, ExpireKeeps
<1>5. CASE \E c \in Calls :
             \/ \E s \in Starts, r \in Readers : Begin(c, s, r)
             \/ Build(c) \/ Keep(c) \/ Replay(c) \/ Refuse(c) \/ End(c)
             \/ \E v \in Ids : CheckOne(c, v)
  BY <1>5, BeginKeeps, BuildKeeps, KeepKeeps, ReplayKeeps, EndKeeps, CheckKeeps
<1>6. CASE \E s \in Starts, h \in {"exact", "wrong"} : Report(s, h)
  BY <1>6, ReportKeeps
<1> QED BY <1>1, <1>2, <1>3, <1>4, <1>5, <1>6 DEF Next

LEMMA InvAlways == Spec => []Inv
  BY InitInv, InvKept, PTL DEF Spec

(* The state, the ghosts and the numbering of versions keep their types. *)
THEOREM TypeCorrect == Spec => []TypeOK
<1>1. Inv => TypeOK
  BY DEF Inv
<1> QED BY <1>1, InvAlways, PTL

(* However proposals, publications and withdrawals of several owners interleave, a publication is *)
(* a draft its owner was shown, over the publication he was shown it against.                      *)
THEOREM ReviewedBeforePublished == Spec => []OnlyReviewed
<1>1. Inv => OnlyReviewed
  BY DEF Inv, Publications
<1> QED BY <1>1, InvAlways, PTL

(* Two publications declared to oppose each other are never both current, in whichever order they *)
(* are published, archived and published again.                                                    *)
THEOREM NoOppositesInForce == Spec => []NoOpenConflict
<1>1. Inv => NoOpenConflict
  BY DEF Inv, Publications
<1> QED BY <1>1, InvAlways, PTL

(* The readers of a key change only after its publication was archived or withdrawn. *)
THEOREM ReadersChangeKnowingly == Spec => []ScopeMovesKnowingly
<1>1. Inv => ScopeMovesKnowingly
  BY DEF Inv, Publications
<1> QED BY <1>1, InvAlways, PTL

(* Nothing is erased that no owner was shown. *)
THEOREM ErasesWhatWasShown == Spec => []ErasedWasShown
<1>1. Inv => ErasedWasShown
  BY DEF Inv, Publications
<1> QED BY <1>1, InvAlways, PTL

(* The copies kept when a text is erased, and those built afterwards, are without it. *)
THEOREM CopiesAreScrubbed == Spec => []NoCopyLeft
<1>1. Inv => NoCopyLeft
  BY DEF Inv, Kept
<1> QED BY <1>1, InvAlways, PTL

(* What a request is answered with was current at some moment of the request, and for its reader. *)
THEOREM NothingOutdatedAnswered == Spec => []AnsweredWithCurrent
<1>1. Inv => AnsweredWithCurrent
  <2> SUFFICES ASSUME Inv, NEW c \in Calls, call[c].phase = "answered", NEW v \in call[c].manifest
               PROVE  v \in call[c].since /\ version[v].audience \in Sees[call[c].reader]
    BY DEF AnsweredWithCurrent
  <2> QED BY DEF Inv, Requests
<1> QED BY <1>1, InvAlways, PTL

(* A start is answered with one manifest however often its request is repeated. *)
THEOREM OneManifestPerStart == Spec => []OneEnvelope
<1>1. Inv => OneEnvelope
  <2> SUFFICES ASSUME Inv, NEW s \in Starts, NEW m \in answered[s], NEW n \in answered[s] PROVE m = n
    BY DEF OneEnvelope
  <2> QED BY DEF Inv, Kept
<1> QED BY <1>1, InvAlways, PTL

(* A client is told of one report about a start, the first. *)
THEOREM FirstReportStands == Spec => []OneReport
<1>1. Inv => OneReport
  <2> SUFFICES ASSUME Inv, NEW s \in Starts, NEW g \in told[s], NEW h \in told[s] PROVE g = h
    BY DEF OneReport
  <2> QED BY DEF Inv, Kept
<1> QED BY <1>1, InvAlways, PTL

(* As long as lifecycle requests are made from the console's buttons, which an unpublished item does *)
(* not have, an erased key stays a tombstone and all its versions stay empty.                        *)
THEOREM ErasedForGood == ASSUME ~Unpublished PROVE Spec => []TombstoneStands
<1>1. Inv => TombstoneStands
  BY DEF Inv, Tombs
<1> QED BY <1>1, InvAlways, PTL

(* With the same proviso drafts, publications and living versions never exceed their limits. *)
THEOREM CapacityHolds == ASSUME ~Unpublished PROVE Spec => []CapacityKept
<1>1. Inv => CapacityKept
  BY DEF Inv, Tombs
<1> QED BY <1>1, InvAlways, PTL
=============================================================================
