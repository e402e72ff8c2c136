# STMA in TLA+

STMA ("Speak to my Agent") lets the coding agents of a team share sessions, hand
work to each other and keep out of each other's way.  One server
(`src/packages/server`, any number of replicas) keeps everything in a PostgreSQL
database (or an embedded PGlite).  Agents reach it over MCP and a small control
API, the CLI (`src/packages/cli`) installs hooks in a checkout that call the same
API, and people use a web console.  There is no process in the server that owns a
piece of state: every request is a transaction or several against the tables, and
what makes the system right or wrong is which rows a transaction locks, what it
read before it had the lock, and what is left for a second transaction.

This directory holds TLA+ models of the parts where that matters, the TLC
configurations that check them on small instances, and TLAPS proofs of their
central properties for every instance.

| file | what it is |
|---|---|
| `AgentRuns.tla` | agent runs, claimed ground, the write guard, heartbeats, ends of runs |
| `Handoffs.tla` | creating handoffs once per request, and their life cycle |
| `Work.tla` | what handing work over promises, in 40 lines; `Handoffs` implements it |
| `AdapterOutbox.tla` | the hooks of one client session: storing events, the replay lock, replaying |
| `Connections.tla` | a connection from its approval to its end: consent, exchange, refresh, reuse, revocation |
| `Membership.tla` | members, roles, seats, links and emailed invitations of one workspace |
| `Knowledge.tla` | the knowledge hub: drafts, publication, life cycle, erasure, retained contexts |
| `NotificationOutbox.tla` | queueing, coalescing, sending and retrying session mail |
| `ChangeStream.tla` | news of changes between servers and to open pages, and the pages' timer |
| `MC<Module>.tla` | the small instances for TLC |
| `<Module>_<question>.cfg` | one configuration per question; `_v_` are those whose property fails |
| `<Module>Proofs.tla` | theorems |
| `PROJECT.json` | components, runs, mutants, the lines each definition stands for, hazards |

Run `tlc -config Handoffs_life.cfg MCHandoffs.tla` for a configuration and
`tlapm HandoffsProofs.tla` for the proofs of a module.

## Inventory

For each part of the system: its state, its operations, with whom it interacts,
what is hard about it, and what must hold.  "Modelled" names the module.

**Agent runs, claims and the write guard** (`domain/agents.ts`; *AgentRuns*).
State: `agent_runs` (status, start, heartbeat, end), `work_claims` (key, access,
source planned/observed/released, lease, created, first declared),
`agent_installations`, `agent_events`.  Operations: start, heartbeat, guard a
write, release ground, finish, revoke an installation, sweep silent runs.  Callers:
MCP tools, control API, hooks of the CLI, the sweep, handoffs (which finish the
source run and release the ground of completed work) and OAuth (which revokes).
Hard: every declaration takes an advisory lock of the workspace, but finishing
takes the run's row only and revocation neither; rows carry four times; leases run
out under live runs.  Must hold: two runs are not cleared for common ground while both
hold it; a heartbeat keeps scope alive; ground that moved is reported before it is overwritten;
ended runs stay ended.

**Handoffs and assignments** (`domain/collaboration.ts`, `domain/assignments.ts`,
`domain/handoffRequests.ts`, `mcp/fleet.ts`; *Work*, *Handoffs*).  State:
`handoffs`, `handoff_requests` (receipts), the monthly allowance, sessions and
messages.  Operations: `handoff_work`, `assign_work`, `update_handoff` (accept,
resume, complete, decline, cancel, needs_attention), the console's cancel and
decline.  Interacts with runs, checkpoints, counters, knowledge contexts,
notifications.  Hard: concurrent retries, an agent and its paired adapter acting on
one run, several receivers, proof of where the receiver's checkout is, completion
in two transactions.  Must hold: one handoff per request, one holder, one handoff
per run, work begun where it was handed over, ground freed at the end.

**Run checkpoints** (`domain/checkpoints.ts`; in *Handoffs*, *AdapterOutbox*).  Append-only reports of repository,
commit and cleanliness, idempotent by request id.  *Handoffs* has the start and the
newest checkpoint of a run.  Must hold: one row per request id, never rewritten.  *AdapterOutbox* has the refusal
of a request id that comes again with other facts.

**Connector OAuth** (`routes/oauth.tsx`; *Connections*).  State: clients, authorization codes,
refresh tokens (used, revoked), tokens.  Operations: authorize, exchange, refresh,
revoke.  Hard: lost answers, a client racing itself, the two-minute replay window,
reuse that revokes in two transactions, the token row read before the owner's row is
locked.  Must hold: a spend retires everything older; reuse ends the connection; a lost
answer does not; what the console shows as revoked is dead.

**Notification outbox** (`lib/notifications.ts`; *NotificationOutbox*).  State: `notification_queue`
(status, attempts, lease).  Operations: enqueue with coalescing, claim a due batch,
deliver, settle, retry.  Hard: several workers, crashes between sending and
recording, events arriving while their row is being sent.  Must hold: critical
messages are tried until sent or three times, routine ones at most once, no event is
dropped without a message that covers it.

**Counters and allowances** (`lib/counters.ts`, `lib/ceilings.ts`,
`lib/entitlements.ts`, `lib/planGrants.ts`).  Window counters bumped by an upsert,
plans and grants that end by the clock.  *Handoffs* has the handoff counter inside
one window.  Must hold: no ceiling is passed, a refused request costs nothing.

**One-time codes, sign-in and sessions** (`auth/`).  State: `auth_codes`, failure
counters, sessions.  Hard: issue and check in parallel without locks.  Must hold:
single use, five guesses, three codes per window, lockout.

**Enrollment** (`domain/enrollments.ts`, `connector/installer.ts`; in *Connections*).  One-time codes
turned into an installation and a credential.  Must hold: redeemed once, not after
revocation or expiry, credential and installation as one.

**Membership and invitations** (`domain/invites.ts`, `lib/memberships.ts`, the team pages of
`routes/dashboard.tsx` and `routes/admin.tsx`; *Membership*).  Hard:
the last seat, the last use of a link, the last owner.  Must hold: seats and uses are
never passed, a workspace keeps an owner.

**Projects, scopes and grants** (`lib/projects.ts`, `lib/grants.ts`, `lib/scope.ts`).
Projects are created lazily under the team's row lock.  Must hold: one project per
repository and name; a credential reaches its scope only.

**Policy, approvals and readiness** (`domain/policies.ts`, `packages/shared/src/policy.ts`,
`readiness.ts`).  Versioned policies and pure merging.  Must hold: a merge never
loosens; the start check agrees with its reasons.

**Knowledge hub** (`domain/knowledge.ts`; *Knowledge*).  Items with drafts, current versions and
life cycle; contexts retained per run.  Hard: optimistic publication under the team's
row lock, replays of retained contexts.  Must hold: only the reviewed draft is
published; a withdrawn version is not replayed.

**Delivery flows, environments, evidence** (`domain/delivery.ts`,
`domain/environments.ts`).  One active flow per project; the rest projects data of
other services.  Must hold: one active flow.

**CLI: adapters, hooks, file guard** (`packages/cli/src/adapters.ts`, `adapterHook` in
`index.ts`; *AdapterOutbox*).  State: files in
a checkout: outbox of hook events, delivery record, lock files.  Hard: concurrent hook
processes, crashes, stale locks, the outbox at its limit.  Must hold: an accepted event
is delivered or its loss recorded; no run of the session is left alive with nobody to
end it.  Its heartbeats are inputs of *AgentRuns*.

**Change stream** (`lib/stream.ts`, `lib/track.ts`, `routes/stream.ts`, `ui/client.ts`;
*ChangeStream*).  State: the subscriptions of a process and their queues, its `LISTEN` connection,
and in the browser the moment of the last event.  Operations: publish, receive, subscribe, the
loop of a stream, the page's timer.  Interacts with everything that writes (news) and with
membership.  Hard: news is best effort, may precede its commit, and a dead connection looks
alive.  Must hold: a page is behind for a bounded time only, news that arrives is not dropped,
a stream ends with its person's membership and with its browser.

**Sessions and messages, integrations, snapshots and comparison, mail, retention and
metrics, web console, storage, HTTP and MCP entry points**: conversations, calls to
other services, rendering, reporting, parsing.  Little state of their own that
decides anything; `PROJECT.json` says for each why it is left out.

## AgentRuns

One project of one workspace.  `Runs` are start requests, `Ground` the keys of claims
with a reflexive and symmetric relation `Overlaps` (what `conflicts.ts` computes from
files, directories and globs), `Scopes` the sets of claims a call may declare, `Voices`
who sends a heartbeat (the agent itself with planned claims, a hook with observed ones), and
`Observable` what a hook may state: files its checkout has changed, never a directory or a read.

| action | code |
|---|---|
| `Start` | `startAgentRun`: locks the installation row, inserts run and planned claims |
| `Heartbeat` | `heartbeatAgentRun`: renews all leases if no scope is sent, else replaces the rows of that source; reports moved ground and, for the agent's own call, records that it did |
| `GuardClears`, `GuardReportsMove` | `guardRunWrite`: right of way, then stale ground, then the planned scope with the new file is stated again |
| `ReleaseGround` | `releaseGroundAfterCompletion`: held rows become released ones |
| `FinishBegin`, `FinishCommit` | `finishAgentRun`: holds the run's row from the stamp to the commit, without the workspace lock |
| `RevokeBegin`, `RevokeCommit` | `revokeAgentInstallation`: reads the live runs without a lock, later ends those by id |
| `Sweep` | `markStaleAgentRuns` for one silent run |
| `Tick` | the clock, in the unit of leases |

A transaction that holds the workspace's advisory lock from its first read is one step.
The two that do not are two steps, with what they read (`revoking`) or stamped
(`finishing`) kept in between.  Rows of one claim come back from the database in no
stated order, and the code lets the last one decide; the model leaves open which
(`MayBeYours`/`IsYours`, `MayBeOldNews`/`MayBeNews`).  Five variables
are history that no call reads: `told` (which moves a reply has named to whom), `cleared` (which
writes the guard let through and still stand), `lapsed` (write claims of live runs that no lease
covered any more), `veiled` (pairs of claims of which the first has a row that hides it was
declared before the second) and `slipped` (moves that a later declaration came to hide).  Left out: quota, cost, names, events
other than acknowledgments, the limits of 200 moved rows and of reported conflicts,
starting twice under one request id, the readers of the agent map.

### What the runs show

| run | instance | states | result |
|---|---|---|---|
| `runs_guard` | 2 runs of one agent identity, a directory and a file in it, agent and hook heartbeats of parked runs, sweeps, one revocation in two steps, 1 tick | 593,000 | `WriteExclusion`, `AScopeOutlivesHeartbeat`, `EndedStaysEnded` hold |
| `runs_moved` | two files, agent heartbeats that state both and hook heartbeats that renew, the first run with completed work to release, finishes stamped before they commit, 2 ticks | 514,000 | `MovedGroundIsTold`, `ReleasedStaysReleased` hold |

What the guard promises is less than the code's comments say, and the properties say how much.
`WriteExclusion` excuses a pair of cleared runs if one of the two claims has been without a running
lease (`lapsed`), or if a row of one of them was written after the other's declaration and so may
hide that it was declared first (`veiled`): a hook states a file under its own source, dated
when it does, and the guard looks at one row of a rival's claim.  The guard's only caller in
the CLI, `adapterFileGuard`, asks for runs that have hooks, so both voices are in the run.
`AScopeOutlivesHeartbeat` is the part of a heartbeat's promise that holds with hooks: the source
it states or renews lives on, the other may lapse.  `MovedGroundIsTold` excuses a move only if it
is in `slipped`, and that is written in two places: when the guard, asked for one file, restates
the claim of another under which something moved, and when a finish or a release is committed
with a date before a declaration its reader had made by then.

More configurations show disagreements between code and text.  Each checks one property
that fails, and is to be run by hand:

| configuration | what fails, and where the code and the text disagree |
|---|---|
| `AgentRuns_v_bothway` | `WriteExclusionAlways` with agent and hook rows for one file, no lease running out: a later observed row hides an earlier planned one, and both runs are cleared |
| `AgentRuns_v_lapse` | `ScopeOutlivesHeartbeat`: a heartbeat with observed claims does not renew the planned leases |
| `AgentRuns_v_dir` | `FirstHolderKeepsEditing`: who declared a directory is stopped in it by who later declared a file |
| `AgentRuns_v_regain` | `WriteExclusionAlways`: a lease that lapsed and is renewed keeps its old right of way, agents.ts:709-712 against 511-513 |
| `AgentRuns_v_silent` | `EveryMoveIsTold`: clearing one file restates the whole planned scope and so acknowledges moves under other files that no reply named, 1136 against 1106-1108.  It fails in two more ways, with `SlowFinish` on one ground, or with completed work (`Assigned`) and leases of 1: a finish is stamped before it commits and a declaration in between is dated after it, 1324 against 59-60; an older release of a run hides its later finish, 1532 against 1530 |
| `AgentRuns_v_final` | `OutcomeIsFinal`: a revocation turns a completed run stale, 145-179 against 223 |
| `AgentRuns_v_revoked` | `RevokedHoldsNothing`: a run started while its installation is revoked stays live, 145 against 129 |

Bounds.  Two runs are enough for properties that relate two runs and a clock; a third
adds no new kind of interference, because the guard looks at rivals one at a time.
In `runs_guard` the
lease is one tick, so a claim is held, lapses and is claimed by the other within the bound;
`WaitingLease` is longer so that a parked run keeps its ground over the tick on which a silent
one would be swept.  `runs_moved` needs the second tick: the writer starts, another run declares
and finishes later, and the writer declares later still.  Its hook states no files, because
with them the instance has several million states more; `MovesAreTold` below has no such limit.
Nobody finishes in `runs_guard`, and no claim is only read in either run.  The clock is bounded, so these
configurations do not check deadlock: a run of the model stops at `MaxTime`, where the
system would not.  The runs of `runs_guard` are interchangeable and declared
symmetric; in `runs_moved`, where one of them carries work, they are not.

## Handoffs

One repository, constant membership, one allowance window.

| action | code |
|---|---|
| `SendBegin` | `createHandoffOnce` has locked the token row, found no receipt, and `handoff_work` has read its source run |
| `SendReplay` | a receipt with the same fingerprint answers |
| `SendRefused` | any refusal after that: the transaction, charge included, is rolled back |
| `SendCommit` | source run re-read under its lock, recipient resolved, checkpoint carried, allowance charged, brief and offer written, source run finished, receipt written |
| `UpdateBegin` | `transitionHandoff`: access checked, before the handoff's row is locked |
| `UpdateMoves`, `UpdateReplays`, `UpdateRefused` | the rest, under the lock |
| `Release`, `ReleaseFails` | `releaseGroundAfterCompletion` in its own transaction after a completion; failure is swallowed |
| `StartRun`, `ReportDelivery`, `Declare`, `Heartbeat`, `FinishRun`, `Revoke`, `Tick` | runs, as far as handoffs depend on them; *AgentRuns* has them in full |
| `Checkout` | git in the agent's checkout (external) |

`receipts` holds whole requests; `Fingerprint` says which fields a retry is compared by.
`Verified` and `RunProves` are the two proofs a resume needs: the checkout observed
at the handed-over commit (or the receiving run begun there), and, for work whose source
run read the knowledge hub, where the named run began or last reported clean.
`answered`, `stood`, `fresh` and `lost` are history variables.  Simplifications: a checkpoint sent
inside the handoff call is reported just before it; launch attempts, run names, wording,
messages and notifications are left out; an unknown recipient or one outside the
workspace never appears among the requests; the replay of a retained knowledge context
is never blocked by a policy; the revocation is one step and waits for the token row a
creation holds.

### The promise

`Work` says what handing work over means: an offer names the agents that may take it,
one takes it, and that agent alone has it until it is done or dropped.  `KeepsPromise`
is `Work!Spec` under the mapping `WorkView`: offered is open; accepted, in progress and
needing attention are held; completed is done; declined and cancelled are dropped.  A
cancel of a declined offer, a retry, a refusal and everything around are stutters.  The
two concurrent calls of the model make the lock matter: with the mutant `MovesUnlocked`
two agents take one offer.

### What the runs show

| run | instance | states | result |
|---|---|---|---|
| `handoffs_life` | 3 installations of 2 people, offers to all, to a person, to an agent; all six actions, 2 calls in flight, failing releases | 112,148 | `KeepsPromise` |
| `handoffs_once` | an agent and its paired adapter, 2 runs, 3 handoffs, allowance of 2, an assignee that is revoked | 85,226 | `OncePerRequest`, `HandedOffOnce`, `ChargedForEach` |
| `handoffs_code` | a run handed to another agent with and without a branch, checkouts at two commits and dirty, knowledge | 452,264 | `BegunAtHandedCommit` |
| `handoffs_release` | two runs of the receiver with a lease of 2, releases that may fail or be lost, under `FairSpec` | 51,584 | `CompletionFreesGround` |

Four more configurations are kept to be run by hand.  `Handoffs_v_args` (`AnswerFitsRequest`): one
request id with two recipients, the second of which is answered with the first's handoff, because
the fingerprint of `handoff_work` leaves out `to_agent` (fleet.ts:1877); PRODUCT_FLOWS.md:878-879
says "Reusing it with changed arguments is refused."  `Handoffs_v_replay`
(`ResumeCanBeRepeated`): a resume proved by where its run began is refused when it is
repeated after that run ended.  `Handoffs_v_lost`
(`CompletionAlwaysFreesGround`): if the second transaction of a completion fails once, the retried
complete is a replay and releases nothing, and every heartbeat renews the lease, so the ground
stays claimed as long as the run lives; fleet.ts:1527-1528 says "the lease would have released the
ground later anyway".  What holds is `CompletionFreesGround`: such ground stays held only if the
release failed, was lost or found more than one run to take (`lost`), and the run goes on renewing
it for ever; once it ends, falls silent or declares anew, the old claim is gone.  `Handoffs_v_new` (`SparesNewGround`): ground declared between the two
transactions is released with the rest; fleet.ts:1530 calls it "new work".

Bounds.  One handoff is enough for its life cycle, since calls on different handoffs
touch different rows; two calls in flight are every pair that can cross.  Three handoffs,
an allowance of two and two runs let a retry, a refusal at the limit, and a second handoff of
the same run all happen.  `handoffs_code` uses two reductions: `CodeView` drops the
leases, the pending releases and what they left undone, which no guard that the property depends
on reads, and
`SourceRests` keeps the sender's checkout still once the work is with the other agent and
gives its run no start checkpoint, which only the holder's would be asked for.

Fairness.  `FairSpec` assumes that time passes (`WF(Tick)`) and that the second transaction of a
completion is carried out or lost (`WF` of `Release` or `ReleaseFails`, for each call): both
transactions are in one request handler with no wait for anybody else between them, and a failure
or a crash is one of the two outcomes.  `handoffs_release` leaves checkpoints out
(`NothingReported`), which bear on nothing while no work carries code.  No fairness is assumed of
agents: they may be silent or send heartbeats forever, and the liveness property holds
against the latter.  All of these configurations check deadlock; time never stops.

## AdapterOutbox

One client session in one checkout.  Each hook is a process that stores its event and then
replays what is stored if it gets the replay lock.  Events are numbered by `queuedAt`; a
run is named by the event that asked for it, which is the server's idempotency key.

| action | code |
|---|---|
| `Fire`, `Enqueue` | `adapterHook` stamps the event; `enqueueHookEvent` stores it under the outbox lock or counts it as overflow |
| `TakeLock`, `Look`, `Steal`, `Leave` | `acquireFileLock`, `staleLock`, and the release, which removes whatever lock is there |
| `Pick`, `GoOn`, `Stop` | `processHookEvent` for the oldest event: by its kind, by whether the session has a run, by whether the branch is still that run's |
| `FinishOld`, `ForgetOld` | `migrateRunIfBranchChanged` |
| `Reprint`, `Ping`, `Freeze`, `Resend`, `PostStart`, `Save`, `StoreNotice` | `startNativeRun`, between its awaits |
| `Beat`, `Finish`, `ForgetFinished` | the heartbeat and the finish with their checkpoints |
| `Fail` | a request that got no answer, or an error that may pass: the event waits with all behind it |
| `Refused` | any 4xx answer (`isPermanentHookFailure`), also to a start that was carried out before: `startAgentRun` asks installation, membership and entitlement first and looks for the earlier run later, agents.ts 294-302 |
| `Discard` | a refused event is removed and then counted |
| `PrintAll`, `MarkDelivered` | notices go to the client before any file is removed |
| `Kill`, `Checkout`, `EndElsewhere` | the client's timeout; git (external); the server's sweep or the agent's own finish |

Every request may be carried out and its answer lost, and every one may be refused.  `printed`,
`cut`, `refused` (events whose start the server refused, the first time or again), `overtook`,
`stolen` and `again` are history variables.

| run | instance | states | result |
|---|---|---|---|
| `hooks_replay` | 2 hooks, 3 events, a queue of 2, two branches one of which may be dirty, 1 mishap | 5.3 million | `PromptIsAnswered`, `NoRunIsOrphaned`, `FinishLeavesNothing` |

A start may be carried out and its answer lost; if its retry is then refused, the hook discards
the event (index.ts 1753-1757, 1833-1844), and the run stays live with nobody to end it until the
server's sweep does.  `NoRunIsOrphaned` and `FinishLeavesNothing` say that among hooks that keep
their turn this is the one way: what is live and unknown was `refused`, and a delivered finish
leaves only such a run.  Keeping their turn is `Orderly`.  The three
exceptions are histories of the code in which both fail: an event can be stored after one
with a later stamp (the stamp precedes the lock); a lock can be removed from a living hook,
because what `staleLock` found is not what is unlinked a moment later (adapters.ts 194-251);
and a hook killed with events handled but not yet removed leaves them to be handled a second
time, which can start a run after its session's finish (it takes a second mishap to leave that
run unknown, so the instance alone would not show that the third exception is needed).  By hand:
`AdapterOutbox_v_retry` (`RetryIsNotRefused`: the answer to a finish is lost, a file changes
but not the commit, and the repetition carries the same checkpoint id with other facts and is
refused, index.ts 235-239 against README.md 999-1000), `AdapterOutbox_v_branch`
(`RunIsOneBranch`: the branch is read after the answer of the start, 1519-1527) and
`AdapterOutbox_v_notice` (`StoredNoticeIsPrinted`: a heartbeat that had to start a run drops
the stored notice, adapters.ts 73).

Bounds.  A second hook is what it takes for a lock to be contended or stolen; a third event
overflows the queue of two, and start, heartbeat and finish are one each.  One mishap at a time
shows what each one does alone, beside any number of lost answers and refusals; the theorems hold
for any number of each.
`StolenWithTwo` lets a lock be stolen only while an event is still to come, since with all
three fired the exempted histories alone would double the states.  Events and mishaps are
bounded, so the session comes to rest and deadlock is not checked.

## Connections

One connection of one owner to one workspace: an approval, a code, an installation, and the
line of refresh tokens, numbered as issued; `order` is `used_at`, in which a spend outranks
what came before.

| action | code |
|---|---|
| `Approve`, `IssueCode` | the consent page: `createEnrollment`, then the authorization code |
| `BeginExchange`, `Exchange` | `POST /oauth/token` for a code: `redeemEnrollmentToken` by a conditional update, installation, credential and first refresh token in one transaction |
| `Send`, `Read`, `Lock`, `Rotate` | `refreshGrant`: the token's row is read, then the owner's row is locked, then the code decides by what it *read* |
| `CutOff`, `FinishCut` | reuse or lost access: tokens in the transaction, installation and runs in another |
| `Receive` | the client stores what it got (external) |
| `Disconnect`, `RevokeTokens` | `POST /oauth/revoke` |
| `RevokeApproval`, `FollowApproval` | the console: the approval, then whatever an exchange made of it |
| `LoseAccess`, `Crash`, `Tick` | membership ends; a process stops between two transactions or an answer is lost; time |

`made`, `mark`, `said`, `cut` and the client's `strayed` are history variables.

| run | instance | states | result |
|---|---|---|---|
| `connections_life` | 2 requests at once, 4 tokens, approval of 2 ticks, code of 1, replay window of 2, a client patient for 1 | 1.71 million | `OneIdentity`, `RevokedMeansRevoked`, `NothingOlderIsLive`, `HonestClientGoesOn` |

By hand: `Connections_v_moved` (`AnsweredUnlessMovedOn`: two requests read one live token, the
second waits for the lock, and the token spent meanwhile is judged by what was read, oauth.tsx
757-758, PRODUCT_FLOWS.md 477-478) and `Connections_v_halfway` (`ReuseEndsInstallation` under
`FairSpec`: a crash between the two transactions of a reuse leaves the installation and its
runs standing, and no later request repeats the second, PRODUCT_FLOWS.md 475-476).

Bounds.  Two requests are every pair that can cross at the lock.  Four tokens are a
line, its replay, and a spend of either; `Lock` waits at the bound so that a holder of the
lock can always finish.  The window is longer than a request and than the client's patience,
as in the code (two minutes against seconds), so a lost answer can be made good inside the
window and a late one falls outside it.

## Membership

One workspace.  Joining and adding lock the team's row; leaving, removal and roles in the
console check and then write without it; the operator's pages do both under it.

| action | code |
|---|---|
| `Leave`, `Remove`, `SetRole`, then `Take` | the check and the write of the team page's routes |
| `OperatorTakes`; `OperatorAdds`, `Add` | the operator's routes, under the lock |
| `Claim`, `Join` | `claimInviteMembership`: invitation, seats and membership under the lock |
| `SendInvite`, `IssueInvite` | an emailed invitation: what waits for the address is renewed, or one is created |
| `Resend`, `Resent`, `Abort` | a renewal reads, sends mail, writes |
| `CreateLink`, `Revoke`, `Expire` | links, and the ends of invitations |

| run | instance | states | result |
|---|---|---|---|
| `membership_team` | 3 accounts, 2 of them confirmed, a plan of 2, one invitation (a link for 2 or an email), 2 calls | 370,000 | `SeatsKept`, `UsesAreJoins`, `OwnedUnlessRaced`, `RevokedIsDead` |

By hand: `Membership_v_owner` (`TeamKeepsOwner`: two owners who demote each other, or leave, at
once, dashboard.tsx 1967-1971, lib/memberships.ts 166-168) and `Membership_v_address`
(`OneWaitingPerAddress`: two invitations sent to one address at once, invites.ts 118-125).
`OwnedUnlessRaced` says that nothing but such an overlap does it, `RevokedIsDead` that a
revoked invitation comes back only through a renewal that had read it before.

Bounds.  The second seat and the second use are the last ones, and the third account is
the one that must not get in; two calls are every pair of checks and writes that can cross.

## Knowledge

One workspace's hub.  Everything an owner does runs under the team's row lock and is one
action; contexts for run starts are read and kept without it and take several.

| action | code |
|---|---|
| `Propose`, `Load`, `Publish`, `RefuseScope` | a draft; the console page an owner sees; publication against what that page showed; the refusal to change a key's readers, which reopens the draft's head |
| `SetLifecycle`, `Erase`, `Expire` | archive, withdraw; erasure of what the page showed; validity that ends |
| `Begin`, `Build`, `Keep` | `contextForRun` and `retainContext`: current versions are read, the first context kept wins |
| `CheckOne`, `Replay`, `Refuse`, `End` | a repeated start: each version of the kept context is looked up again, one read each |
| `Report` | `reportKnowledgeApplied`: the first report is kept |

| run | instance | states | result |
|---|---|---|---|
| `knowledge_hub` | 2 keys that may oppose each other, 4 versions, one perishable text, one owner, two kinds of readers, one start, capacity of 1 draft, 2 publications, 4 versions | 2.02 million | `OnlyReviewed`, `NoOpenConflict`, `ScopeMovesKnowingly`, `TombstoneStands`, `NoCopyLeft`, `AnsweredWithCurrent`, `CapacityKept` |

By hand: `Knowledge_v_retained` (`NothingRetained`: a context that is being built while a text
is erased is kept with it, knowledge.ts 1028-1032, PRODUCT_FLOWS.md 1091-1094) and
`Knowledge_v_tombstone` (`TombstoneStands` with `Unpublished`: a lifecycle request for an item
without a publication, which the console does not offer but the function accepts, revives an
erased key; capacity can then be passed too).

Bounds.  Two keys are what a conflict takes, four versions a publication, its successor, an
opponent and one more draft.  One owner is enough for stale pages, since a page may stay
while the same owner works elsewhere.  Versions are bounded, so deadlock is not checked.

## NotificationOutbox

The queue of one person.  A stamp in the future is kept as the ticks left, one in the past as
its age, so that the clock needs no bound.

| action | code |
|---|---|
| `Post`, `ReadThread`, `ChangeStanding` | a message is stored; the thread is read; preference or membership changes |
| `Enqueue`, `Promote`, `LoseEvent` | `queueSessionEvent`, the second statement of a handoff's notice, and a process that stops before |
| `Claim` | `claimDueNotifications`: one transaction fails what died on its last attempt and leases what is due |
| `ReadBudget`, `Compose`, `Deliver`, `Settle` | `flushNotificationsOnce`: the rate cap read once, then row by row; a settlement counts only for the lease's owner |
| `Crash`, `Tick` | a sweep stops at any point; time |

`mails`, `reached`, `handled` and `astray` are history variables.

| run | instance | states | result |
|---|---|---|---|
| `outbox` | one thread, one row, 2 sweeps, 2 messages, all delays of 1 tick, a cap of 1 mail an hour, under `FairSpec` | 700,951 | `OneMailPerAttempt`, `QueuedIsNotForgotten`, `OverIsOver`, `EveryRowIsSettled` |

By hand: `NotificationOutbox_v_late` (`WindowIncludesEvent`): an event that coalesces into a row
that is already being sent is covered by no mail, though the comment says the window already
includes it (notifications.ts 192-194).  `QueuedIsNotForgotten` is the promise for every other
event.

Bounds and fairness.  Two sweeps with leases as long as a sweep make a lease expire under a
living sweep and let two sweeps carry one row; two messages make one coalesce.  An event that
finds the row in use waits for it or is lost; `NothingQueuedIsForgotten` holds for any number of
rows.  `Elsewhere`
is what other rows have mailed in the hour, so the cap is met with one row; two rows were
explored once, safety only: 4.0 million states, no violation.  `FairSpec` assumes the timer
starts sweeps (`startCleanup`), that a sweep under way goes on (transports time out) and
that time passes.  Crashes are not limited: attempts are counted by the claim, so a row that
always dies ends as failed.

## ChangeStream

The watch pages of one person, showing one team.  Time is the page's 30-second timer in half
turns: a load is a moment turns are counted from, an event falls inside one.

| action | code |
|---|---|
| `Commit`, then `TellKept` or `TrackFails` | a write commits, `track` stores the feed row and publishes; or it cannot, and nothing is published |
| `TellFirst`, then `CommitTold` or `RollBack` | `replaceRunClaimsForFound` publishes inside the transaction that writes the claims |
| `Receive` | the `LISTEN` callback on another server, which hands the event to its own streams |
| `attachChangeTransport`, `ListenerDies`, `ListenerReturns`, `Restart` | a server carries news to and from the others; its connection goes and comes back; it stops |
| `Connect`, `Greet`, `Look`, `Tell`, `Ping` | `GET /app/stream` between its awaits: memberships and subscription, `ready`, memberships again, `change` or `ping` |
| `Age`, `Abort`, `Cut` | `MAX_LIFETIME_MS` passes; the browser is gone and the server notices; the connection is dead and nobody has noticed (external) |
| `Error`, `Pending`, `Timer`, `Occupy` | the page: its stream broke off, 400 ms after an event, every 30 seconds; frozen, in a dialog, being typed in |

`NOTIFY` may fail (`sent`), a listener that is down receives nothing and what was under way to it
is lost.  `stalled` counts the firings of the timer at which a page that may reload was behind
and did not, `missed` marks the pages news was lost for, `late` what a stream told after its
person left the team: these are history variables.

| run | instance | states | result |
|---|---|---|---|
| `changes_live` | 2 servers, one of which writes, one page, one stream and room for one, 1 notification under way, silence of 2 turns, under `FairSpec` | 599,712 | `StaleNotForLong`, `NothingIsDropped`, `OneMoreAtMost`, `GoneIsForgotten` |

`NothingIsDropped` exempts what the code leaves to the timer: news that came before its commit, a
lost listener, notification, feed row or process, a page occupied when the event came, and a
change between two streams of a page.  Nothing else loses any: the subscription begins before the
browser is greeted, the queue is emptied only into an event.  What the exempted cases cost is
`StaleNotForLong`: the silence a live page allows, and one turn more.  By hand,
`ChangeStream_v_floor` (`PollIsTheFloor`): README.md 1193-1195 of the repository says the
30-second poll is what a lost notification costs, but while the stream is up the timer does not
reload until 120 seconds without an event (client.ts 338; stream.ts 193-194 says so).

Bounds.  The page's silence is 4 turns in the code and 2 here, so that a firing inside the
silence and one at its end both exist.  One writing server is enough, since pages do not tell
writers apart; the other has only its listener.  With room for one stream, a dead stream that
lingers keeps the page from connecting again, which is the ceiling's case.  Two streams, so that
a page connects again while its old stream lingers, were explored once, without fairness, before
`Look` could fail by a read: 8.9 million states, no violation.

Fairness.  `FairSpec` assumes of the server only that a stream's handler goes on, woken by its own
20-second timer if by nothing else, that its reads return and its writes of a few bytes do not wait
for a browser that is gone, and that five minutes pass.  Of pages, people and the network
nothing is assumed.

## What is proved

TLC looks at the instances above; the theorems hold for any sets of runs, installations,
ground, handoffs, requests and any leases and caps, under the named assumptions on
constants in the modules (checked by every run).

*AgentRunsProofs*
- `TypeCorrect`: `Spec => []TypeOK`, including that a run has one row per claim and source.
- `GuardExcludes`: `Spec => []WriteExclusion`, whoever states scope, agents, hooks or both.
  `WriteExclusion` is not inductive: that nobody else is cleared follows from whose row
  is older, which only holds while the cleared run's row is there.  `GuardInv` adds: stamps are
  not of the future (`Stamped`), runs that have not started have no rows (`Unstarted`), a cleared
  run has a planned row of what it was cleared for (`ClearedHeld`), some lease of every claim a
  live run holds is running unless the claim is in `lapsed` (`LeasesRun`), released rows are not
  live, and a cleared claim is older, by every row of it, than every row of a rival's claim over
  common ground, unless the pair is excused (`FirstKept`).  So the guard, which clears a run only
  if it may be first, has nothing to clear the rival for.
- `HeartbeatKeepsScope` (`AScopeOutlivesHeartbeat`): a heartbeat renews all rows or rewrites
  all of one source, and no other step shortens what it left (`Covered`).
- `MovesAreTold` (`MovedGroundIsTold`), for any ground, any work and finishes of any length.  Its
  core `Informed` says that a move which a declaration could hide was told or is in `slipped`: an
  agent's declaration comes with a reply that names every mover of what it declares, a guard's with
  the look at the one file it is asked for, and what is committed later is compared when it is.
- `ReleaseIsFinal` (`ReleasedStaysReleased`) and `EndedForGood` (`EndedStaysEnded`), from `TypeOK`,
  one step per action, without assumptions.

*HandoffsProofs*
- `HandoffsTyped`: `Spec => []TypeOK`, with the allowance never passed.
- `PromiseKept`: `Spec => Work!Spec` under the mapping.  Every step moves one row at most;
  `MovedRow` says what a move does to it, and `MoveIsPromised`, `SendIsPromised` map it
  to a step of `Work`.
- `RunHandedOffOnce`: `HandedOffOnce` is inductive together with `TypeOK`, because
  `SendCommit` sees the run live under its lock and ended runs rest (`EndedRunsRest`).
- `RequestedOnce`: `OncePerRequest` by the invariant `ReceiptInv`: every keyed answer has a
  receipt (`AnswersKept`), a credential has one receipt per key (`OneReceipt`), and the
  creation that holds a token row has none yet (`TokenLocked`).
- `BegunWhereHandedOver`: `BegunAtHandedCommit` by the invariant `BeginInv`: what is
  reported now, in calls under way and at starts was seen in the reporter's checkout
  (`TreesStood`, `CallsStood`, `StartsStood`), and what is taken has a holder (`TakenHeld`).
- `ChargedOncePerHandoff` (`ChargedForEach`): a commit that raises the counter makes one offer
  exist that did not, under the same lock, and an offer that exists never ceases to (`OfferSteps`,
  `CounterSteps`); the rest is the cardinality of a set with one more element.
  `WithinAllowance` follows: the number of handoffs never passes the cap.

*AdapterOutboxProofs*
- `TypeCorrect`, `PromptsAnswered`, `LossesCounted`, from `Inv`: what a hook has in hand was
  reported and fits its phase (`InHand`), a prompt it is done with is among its notices until
  it prints them (`Told`), and stored events were reported (`Stored`).
- `NoOrphans` (`NoRunIsOrphaned`) and `FinishedSessionsRest` (`FinishLeavesNothing`), from
  `Inv /\ (Orderly => Ord)`.  `Orderly` is part of both properties: no event was stored out of turn,
  no lock taken from a living hook, no hook killed between handling events and removing them.
  So is that a run whose start the server refused is not accounted for (`Live` in the invariant
  is a live run that was not refused).
  `Ord` is what the outbox lock is for: the hook that replays holds the lock alone and has the
  oldest open event in hand (`Turns`), a stamp belongs to one hook (`Stamps`), only the oldest open
  event can have asked the server for anything (`Frozen`), the server has not heard of unstored
  ones (`Fresh`), a live run is the session's or that event's, known by the request the event
  stores (`Runs`), and no run is live that began before a finish which is done (`Finished`).  Each
  action has a lemma.

*ConnectionsProofs*
- `TypeCorrect`, `OneInstallationPerApproval`, `ConsoleTellsTheTruth`, `SpendRetires`, from
  `Inv`: approval, installation and ghosts agree (`Consistent`: redeemed exactly when an
  installation was made, revoked while pending only if none was), calls hold tokens that were
  issued (`AtWork`), tokens above the counter are blank and those up to the mark over
  (`Numbered`).
- `HonestClientIsServed` (`HonestClientGoesOn`) by `HonestInv`: spends are numbered in the order they
  happen (`Orders`), and while the client has not strayed `Honest` holds: all its calls under way
  present one token (`OneToken`), the token it holds is answerable (`HeldAnswerable`), calls are in
  time for the grace window (`PresentedInTime`), answers carry live tokens (`AnswersLive`), and
  what a call read before its write still decides the same (`ReadsHold`).

*MembershipProofs*
- `TypeCorrect`, `LimitHolds`, `EveryUseIsAJoin`, `RevocationStands`, `OnlyRacesOrphan`.  The limit
  needs `Seated`: whoever is about to join holds the row and there is room; the owner needs
  `Owned`: unless two such calls overlapped, what a call checked is still so when it writes.

*KnowledgeProofs*
- `TypeCorrect`, `ReviewedBeforePublished`, `NoOppositesInForce`, `ReadersChangeKnowingly`,
  `ErasesWhatWasShown`, `CopiesAreScrubbed`, `NothingOutdatedAnswered`, `OneManifestPerStart`,
  `FirstReportStands`; and `ErasedForGood`, `CapacityHolds` for `~ Unpublished`, which
  `Knowledge_v_tombstone` shows is needed.  `Inv` adds what items point at (`Heads`), what pages
  showed (`Pages`), what requests hold (`Requests`) and what is kept (`Kept`).

*NotificationOutboxProofs*
- `TypeCorrect`, including that a thread has one waiting row; `MailedOncePerAttempt` by
  `Carried`: a claim raises the attempts, so no two sweeps carry the same attempt of a row, and
  one not delivered yet has mailed nothing; `OverForGood`, from the types alone.
- `NothingQueuedIsForgotten` (`QueuedIsNotForgotten`) by `Reckoned`: what a sweep holds covers the
  events of its row, for none joins a row that is being sent (`Held`), and the row of each event
  has it in its window or has ended for one of the code's reasons (`Kept`).

*ChangeStreamProofs*
- `TypeCorrect`, `NotStaleForLong`, `NewsIsNotDropped`, `ToldOnceMore`.  The first bound needs
  `Patient`: turns stalled are turns of silence, so whatever the stream does the silence runs out;
  the others need `Orderly`, which says for each phase what a stream may have told and of
  whom, and `Told`, by which news that is not lost is in a write, a notification, a queue or a
  pending reload.

The types, `LossesAreCounted` and `OneEnvelope` are proved and are not among the regular runs.

Every safety and action property of the runs has a theorem; the two that rest on an assumption
beyond those of the model (`~ Unpublished`, in *KnowledgeProofs*) say so, and the run's constants satisfy it.  Only
model-checked are the liveness properties `CompletionFreesGround`, `EveryRowIsSettled` and
`GoneIsForgotten`: liveness under fairness and `ENABLED` are outside what the prover can do, and
so are induction over data and modules with RECURSIVE operators; none of the modules here
declares one.

## Plan

What is left, the most important first.

1. Sign-in codes (`auth/codes.ts`): guesses in flight together are counted after the attempts were
   read (165), and codes issued together before either is written (83).
2. Environments and approvals: `setEnvironmentBaseline` takes no lock and has no unique index
   behind it, where a delivery flow has both; `effectivePolicy` reads the team's and the project's
   policy one after the other; a policy receipt is read and then written.
3. Pure operators against reference definitions over bounded inputs: overlap of files,
   directories and globs (`conflicts.ts`), merging of policies, readiness, comparison.
4. `AgentRuns` and `Handoffs` composed, the run that `Handoffs` abbreviates being the real one;
   `AdapterOutbox`'s deliveries as the heartbeats of `AgentRuns`.
5. In the modules here: the start repeated under one request id, the launch check
   (collaboration.ts 75-196), contexts fetched without a start, contention for the outbox lock.

## Not modelled

Inside the modelled parts:
- *AgentRuns*: quotas, cost, naming, hints of duplicate work, the readers of the agent map, the
  limit of 200 moved rows.
- *Handoffs*: the launch check, the end of an allowance's window, notices and wording.
- *AdapterOutbox*: contention for the outbox lock, locks taken for their age (120 s), corrupt files and their
  repair, legacy profiles, policy receipts and the preflight, the file guard, the announcements,
  the local credentials.
- *Connections*: client registration, PKCE, scopes, the terminal's device request, setup receipts,
  the installer.
- *Membership*: the history of membership changes, links without a limit, the deletion of a
  workspace.
- *Knowledge*: search and reading, contexts fetched without a start, diagnostics of conflicts,
  provenance, import.
- *NotificationOutbox*: digests, the kinds of notice that only share the queue, wording.
- *ChangeStream*: payloads and their parsing, several writes at once in one process, the loss of
  the sign-in, slow connections that do not break.

Whole parts: sign-in, counters outside handoffs, projects and scopes, policy and readiness,
delivery and environments could be modelled and are planned above or in `PROJECT.json`.  The web
console's pages and documents, which are most of the code by length, render what the other parts
keep; the entry points parse; integrations and mail call other services; metrics report; storage
is tables.  They have little state that decides anything.
