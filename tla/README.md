# A formal model of the team supervisor

`src/supervisor/` is a daemon that runs a team of coding-agent sessions: it starts harness
processes (Claude Code, OpenCode), follows their event streams, parks their permission
requests on a human, leases machine-wide resources to them, shares MCP server processes
between them, and keeps all of it in one SQLite database so that it survives its own crashes.
This directory holds TLA+ modules of that daemon, the TLC configurations that check them on
small instances, and proofs, checked by TLAPS, of their main safety properties for instances
of every size.

Paths below are relative to `src/supervisor/` unless they start with `src/`.

## 1. Inventory

The daemon is one Node process and its database driver is synchronous. So code between two
`await`s is atomic with respect to everything else in the daemon, a transaction is atomic with
respect to a crash, and what interleaves is: continuations after an `await`, events of child
processes, timers, commands of several clients, and what the operating system and humans do in
the meantime. Only the instance lock is contended by several processes.

| Component | State | Operations | What is hard about it | What makes it correct | Module |
|---|---|---|---|---|---|
| Resource leases (`db/index.js` 1880-2060, `config/resources.js`, lease commands of `runtime/supervisor.js`) | `resource_leases`, `resources.json`, `runs.ended_at` | acquire, release, renew, sweep, end / reconcile / reopen of the run | time, a policy file edited under active leases, runs that end and are resumed | never oversubscribed, one policy per resource, no revival, dead holders swept | `ResourceLeases`, `ResourceArbiter` |
| MCP server pool (`runtime/mcp-pool.js`, `mcp_pool*` rows) | pool row, attachment rows, `liveChildren` | attach, spawn, readiness, detach, teardown, exit event, boot, dispose | every step awaits; a kill may fail; the daemon may die | one resident process, nobody attached to a pool that is not ready, idle pools die | `McpPool` |
| Runs and the approval round trip (`runtime/supervisor.js`, `runs` and `asks` rows) | run row, asks, task state | start, stop, resume, answer, retry, withdraw, sweep, end of stream | answers race withdrawals, ends, sweeps and restarts; request ids recur after a resume | decisions stand, an answer reaches its asker and nobody else, no ask is stranded | `AskRoundTrip`, `AskBook` |
| Boot reconciliation and reap (`runtime/reconcile.js`) | reads and writes the same rows | reconcileOnBoot, reap | acts on a row read before two awaits | as above | `AskRoundTrip` |
| Claude Code adapter (`adapters/claude-code/adapter.js`) | run handle, parked requests, child | spawn, observe, answerApproval, stop, resume | statuses, exits and replaced processes arrive in any order | a dead process ends its stream | `AskRoundTrip` |
| Event pump (`runtime/event-pump.js`) | per run: ring buffer, sequence numbers, waiters, the consumer | attach, append, subscribe, close, reset, cancel | a subscriber is suspended at every `yield` while events are evicted, the run ends or is resumed under it | no loss unannounced; every subscription ends with its stream | `EventPump`; the consumers also in `AskRoundTrip` |
| Process spawning (`runtime/spawn.js`) | child, identity | spawn, verify by `ps`, kill the group | identity is asked for later than the spawn | never signals a stranger | as steps of `McpPool`, `AskRoundTrip` |
| Instance lock (`lock/lock.js`, `ipc/daemon.js`) | the lock file | acquire, recheck, steal, release | several processes, one file, no atomic compare-and-delete | one daemon; not none | `DaemonLock` |
| Worktree slots (`runtime/worktree-service.js`, claim columns of `tasks`) | `worktree_id`, the claim and its age, the directory on disk | create, poll, take over a stale claim, discard | a claim in the database around git processes that take seconds or die | row and disk agree; one git at a time | `WorktreeSlot` |
| Task states and review (`domain/task-states.js`, `domain/review.js`, `config/review-profiles.js`, review commands) | task state, verdicts, rounds, profiles | record a verdict, approve, merge, import profiles | a verdict waits for its verification while the task is decided and profiles are edited | an approval stays valid; no worker's token counts for two reviewers | `TaskStates`, `ReviewRules`, `TaskReview` |
| Authorization (`domain/capabilities.js`, `principals`, `sensitive_approvals`) | principals, approvals | authorize, grant, consume, expire, revoke | an approval is for one act of one principal, once | nothing sensitive happens that was not signed for | `Authorization` |
| Notification outbox (`runtime/slack-outbox.js`, `outbox`) | outbox rows | write, drain, mark | overlapping drains; a crash between post and mark | posted once, and in the end | `Outbox` |
| Assignment (`domain/assignment.js`, `domain/workflow-profiles.js`, `assignTask`) | the assignment record | plan, claim, start, compensate | starts are awaited one by one while others assign, cancel or crash | somebody books the outcome | `AssignmentPlan`, `Assignment` |
| Git agent (`agents/git-create-push.js`, `config/protected-branches.js`) | the `git:identity` lease | stage, commit, autofix, compare, push | every git command is awaited while the worktree is edited and switched | what goes under a protected name is approved | `GitPush` |
| IPC server and clients (`ipc/*`) | sockets, requests in flight | request, reply, subscribe, disconnect | a peer goes away under its subscription | subscriptions are cancelled | subscriptions in `EventPump`; framing not modelled |
| Terminal UI, pane (`tui/*`, `pane/*`) | cursors, transcript, requests panel, focus | poll, apply, keys, clicks | a slow refresh overlaps the next; the state changes under a key | no line twice or lost; a key decides what is on screen | `Tui` |
| OpenCode adapter (`adapters/opencode/adapter.js`) and its runs in the supervisor | `serverPool`, `runs` with each handle's log and flags, `runs` rows | start, turns and their ends, input, interrupt, stop, resume, reap in a shared group, disposal | several runs in one process group; a turn ends in two events; a row is closed after each turn and the session goes on | reaping one run spares whoever is at work beside it; a turn ends once, and is booked; orphans can be got rid of | `SharedServer` |
| Wrapper adapter (`adapters/wrapper/adapter.js`) | a child | a one-shot command | little | - | not modelled |
| Adopted sessions and hooks | adopted runs | adopt, release | processes the daemon did not start | never killed | not modelled |
| Clear policy, digests, handoff | none | a table, text | the clear is itself a turn | clears once per turn | not modelled; see section 7 |
| MCP stdio proxy, vault projector, conformance suite, migrations | - | relays, renders, writes reports | I/O | - | not modelled: I/O that no other part reads back |
| Prototypes (`src/spike-0b`) | - | - | - | - | not modelled: the supervisor does not load them |

How they interact. `supervisor.js` calls everything else. `start` asks the pool for its
servers, spawns through the adapter, attaches the pump, and waits for the child's identity. The
pump's consumer reads the adapter's stream: approval requests become `asks`, withdrawals close
them, and the end of the stream runs the `onEnd` hook, which books the end of the run, schedules
or closes its asks, releases its leases and detaches it from its pools. `reap` and
`reconcileOnBoot` write the same rows without a stream. A timer drives the ask sweep and the
lease sweep. Commands reach all of this through `authorizedCommandHandlers`. Those about a task
share its row: the review commands its state, the worktree service its slot, `assignTask` both,
`gitPush` the slot and the lease on the git identity. An approval and a merge write the outbox,
which its own timer drains. What a run says is read by subscribers of the pump and by the
terminal UI, which polls the event log. `PROJECT.json` lists the hazards at the lines where they bite.

## 2. Plan

In the order of importance; all of it is done.

1. `ResourceLeases` with the abstract `ResourceArbiter` it implements, and proofs.
2. `McpPool`, and proofs.
3. `AskRoundTrip`: composes run, asks, adapter, pump consumer, reap, boot. Proofs, and the abstract
   `AskBook` it implements.
4. `DaemonLock`, and proofs.
5. The life of a task, in two compositions: `TaskReview` (over `TaskStates`, `ReviewRules` and
   `Outbox`) and `TaskRepo` (over `WorktreeSlot`, `Assignment` with `AssignmentPlan`, `GitPush`,
   `Authorization`).
6. What people see of a run: `EventFeed`, composed of `EventPump` and `Tui`.
7. `SharedServer`: runs that share a process, and their reap.
8. Proofs about 5 to 7: every safety property a run checks is a theorem (section 5). What is left to
   the model checker, and why, is in section 6.

## 3. The modules

**`ResourceLeases`** - `rows` is the table `resource_leases`, `runs` the `ended_at` of the runs,
`declared` the policy file. Each operation is one SQLite transaction and so one action, and an
early return is a conjunct of its guard. `ttl_expires_at` is kept as the number of ticks left,
because the code only ever compares it with now; `Tick` moves time. `EndRun`, `ReconcileRun` and
`ReopenRun` are the three statements that change a run's `ended_at`, with the release of leases
that the first two do in the same transaction.

**`ResourceArbiter`** - the promise: a claim is admitted under terms that all present holders
share and that leave room, once; whoever has left stays out. No time, no rows, no runs.

**`McpPool`** - one (name, config) pair, rows of different pairs never touch. `status`, `pgid`,
`att` are the two tables; `child` is the entry of `liveChildren`; `proc`, `watched`, `signalled`
are the operating system, with `exited` for a process whose exit event the daemon has not yet
handled. A caller's `pc` names the await of `attach` / `detach` it is in: `identity` (the `ps`
round trip of the spawn), `socket` (the readiness loop), `cleanup` (the kill of a failed spawn),
`polling`, `tearing`. Daemon crashes, graceful shutdowns (`disposing`) and boots are actions.

**`AskRoundTrip`** - one run over its generations of processes. `row`, `asks`, `task` are the
database; `adapter`, `parked`, `procs` the adapter and its children; `consumer`, `pending` the
pump; `launch` and `reap` the two operations that await with a row in hand; `writing` the answers
handed to a pipe whose callback is still to come. `heard` and `missed` are history: what workers have
read, and the asks whose answer's own delivery came to nothing.
`EndsAs` is `closeAndScheduleAsks` (first writer wins), `Create` is `recordApprovalAsk` with
`createAsk`, `Withdraw` is `withdrawApprovalAsk` with `withdrawAsk`, `Send` is `deliverAnswer`.
`Enabled` says which operators' and harness behaviours an instance has, so that a run can ask a
question about one of them: `stop-ended`, for example, is a stop of a run that has already ended.

**`DaemonLock`** - every file operation of `acquireLock` and `release` is an action, since
contenders are separate processes. `since` is a history variable: who has published the lock
since a process last looked at it.

**`AskBook`** - the promise of it: an ask is decided once, while it is open; whoever asked is told, and
told what was decided; an ask is marked delivered by the step that tells, never before; a task is blocked
by open asks only. No processes, no daemon, no clock: whatever withdraws, closes or raises any number
of asks in one step is a `Change`, answers that got through while whoever was to note it died are a
`Slip`. `Book` is the mapping: the state of an ask is its row's, `told` what workers have heard under
their own generation, `marked` the rows that say delivered.

**`TaskStates`**, **`ReviewRules`** - pure: the state machine with the context a transition needs,
and the review rule with profiles from the file to the evaluation. A profile is addressed by the
hash of its content in the code and stands for itself here; a glob is the set of paths it matches.

**`TaskReview`** - one task. `BeginVerdict` and `FinishVerdict` are `recordVerdict` before and
after the wait for the verification of its findings, during which it holds the task's lock
(`verifying`); `Approve`, `Merge` and `ImportReviewProfiles` are single steps, since they do not
wait for anything whose answer is not chosen anew (the worktree's HEAD, the changed paths).
A verdict's `by` is the token it came with: the worker's own, or the owner's, which may record for
anybody. `decided` is history. Rounds, verdicts, attempts and the states in which somebody reviews are
bounded.

**`Outbox`** - included by `TaskReview`: an event is written after a transition (best effort, in a
transaction of its own), and drains read the undelivered rows, call the bridge, and mark. The
bridge is external: it posts unless its ledger knows the key, and it may be killed before or after.

**`WorktreeSlot`** - `slot` is the three claim columns with "older than a minute" for the claim's
age, `dir` and `dirty` the disk, `call` the awaits of `createTaskWorktree` and
`discardTaskWorktree`. A call may die at any of them. `outlived` is history: a claim was taken
over although its call was alive.

**`AssignmentPlan`**, **`Assignment`** - `planAssignment` as a fold over the roles of the task's
type, and `assignTask`: the claim under the idempotency key, one `StartRun` per worker, the
outcome.

**`Authorization`** - presets and the capability of every command, written out; a command with its
arguments, which the code compares by hash, is an act. `AuthorizeSensitive` is the wrapper of a
sensitive command, which consumes its approval before the handler's first wait.

**`GitPush`** - one action per git command of `gitPush`, `gitPushProtected` and the fight loop; a
branch is the set of its commits, so a fast-forward is inclusion. What callers pass as `targetBranch` is
a string (`Targets`); the protected list is looked up with it as it stands, the branch git takes it for
(`RefOf`, any function that leaves plain names alone) only matters to the push. `moved` is history.

**`TaskRepo`** composes slot, assignment, pushes and authorization, and lets a caller have one
call in progress. Cancelling and retrying a task, edits, checkouts, lapsing leases and ageing claims happen meanwhile.

**`EventPump`** - `pump` is the sequence of the pump states a run has had: a resume gives it a new
one and leaves the old to the subscriptions that hold it. A subscription's `pc` names the `yield`
or the await it is suspended at; `heard` is what its client knows from the frames it got.

**`Tui`** - a snapshot request per tick and one run on display. A transcript line is an interval of
rows of the event log. Keys are looked up as `keyToAction` does, by the view that has the focus.
**`EventFeed`** composes it with the pump.

**`SharedServer`** - the opencode runs of one directory. `pool` is the entry of `serverPool` for it and
`proc` the servers it has had; `pc` names the await `start` is in, `on` the run's server, which is also
the process group in its row (`ownership: 'shared-server'`), and whose recorded identity always verifies
while it lives. `run` is the handle with the flags of the adapter's `Run`; of its event log only the ends
of turns are kept, each as the turn's number, with the ends still on the event stream in `wire`.
`consumer` is the pump's, `row` the row, `call` a stop or reap suspended at an await with the row and the siblings it has read.
`ReapFindsNobody`, `ReapKills`, `ReapSpares`, `GroupKilled` and `GroupSurvives` are the branches of
`reap`. What happens in a session without a handle is not followed, since nothing in the daemon learns of
it; a server that is not ready in time is forgotten like one that was never born. `Patient` says that
operators resume a run only after its stream has ended, and give input only to a run that is consumed and
has no end of a turn unread: what happens otherwise is in section 7.

**`*_proofs`** hold the theorems; **`MC*`** the values and symmetries for TLC. A definition named
like another one with a suffix (`HasRoomOffByOne`, `AgainWithoutBound`) is a plausible bug in the
code it stands for, used to test that a property notices.

Simplifications that are part of the reading of the modules: one launch and one reap of a run at
a time; the task never becomes terminal; a run has its own process group (except in
`SharedServer`); every ask is a question
(the other kinds are answered by the same path with less in their payload); the wall clock does
not run backwards; a pid is not reused during one contention for the lock, and the lock file of
old releases (`legacyLockPath`) does not exist; all callers of a worktree slot name the same
repository and branch; a Slack channel is configured; the terminal UI holds the owner's token, and
shows a tree that has rows.

## 4. The runs

| Run | Question | Instance |
|---|---|---|
| `leases` | all lease properties, the refinement, liveness | 2 leases, 1 resource, 4 policies (two exclusive, counted 1 and 2), 3 principals of which 2 workers, 1 run, terms of 1 tick |
| `pool_races` | one resident process, idle pools die, with no faults | 3 callers, 3 processes |
| `pool_faults` | attachments, teardown, settling, with failing spawns, failing kills, one crash or shutdown | 3 callers, 2 processes |
| `ask_answers` | the book of asks (the refinement), deliveries, payloads intact, the blocked task, deadlines, stream ends, with everything but turn errors and resumes of live runs | 1 request id, 2 decisions, 2 generations, 1 crash or shutdown |
| `ask_grace` | no stranded ask, open asks are parked, asks settle | as above with 1 decision; no rejected identity, no crash inside a reap, no retry, no stop of an ended run |
| `lock` | what the recheck achieves, unreadable files, progress | 3 daemons, 3 attempts, 1 retry of an unreadable file; the file absent, stale or torn at first |
| `task_review` | a decision stands, nobody counts twice, announcements are posted once and in the end | 2 reviewers, one of them the parent, for whom the other and the owner try to speak too; a strict profile file and an edited one with a looser team profile and a path rule; 2 commits, 2 rounds, 2 verdicts, 1 attempt; 2 drains, 1 fault |
| `task_repo` | row and disk, one git at a time, signed pushes, no stranded start | 2 callers, 2 calls, 2 claims, 1 death; a bug with a coder and a reviewer, 1 key; a git agent and the owner, 1 approval (a revocation counts as a call); 2 branches, one of which goes by two names, 1 commit |
| `event_feed` | losses are announced, the transcript is whole, keys decide what was opened, subscriptions end | 1 subscriber, a buffer of 1, 2 generations, 5 stimuli (events, keys, clicks, connections, faults); 2 refreshes at a time, snapshots of 2 rows, 2 requests |
| `shared_server` | a reap spares who is followed or at work beside it, turns end once and are booked, orphans go | 2 runs, one of them with 2 turns, 2 servers, 1 crash or shutdown |
| `ask_resume_live`, `lock_two_holders` | a documented promise the code breaks (section 7) | the smallest instance that shows it |

Why the bounds are enough. The safety theorems of section 5 hold for all values of the constants,
so for them the bounds only matter to the search for mistakes. For what is model-checked only:
two leases are enough to oversubscribe an exclusive resource and to disagree on a policy, and a term
of one tick is renewed, expires and is swept; three callers are the winner of a race, a loser, and
one that arrives after either has left; two generations are enough to confuse a process with its
predecessor under the same request id, and one request id makes them collide; one downtime suffices
for a restart in any state, and the actions of a second one differ in nothing. Three contenders
for the lock are the two that race and one that watches. Two verdicts are a quorum, or an approval and
a change request on the other commit; two rounds tell an old verdict from a current one; two drains and
one fault lose an answer and post again. Two callers are a claimant and the one that polls, takes over,
assigns or pushes beside it; one approval and two pushes would use it twice, and the second branch is
what gets checked out between two git commands of a push; approvals are asked for its plain name, the listed
one, and the other name shows that nothing else is signed for. An owner who speaks for both reviewers is
left to the theorem. A buffer of one evicts at the second event, and
five stimuli are enough to fill it, read, evict, end and resume; two refreshes can overlap; and of two
requests one can be handled elsewhere while the other is open. Two runs on a server are the reaped one
and its sibling, of which either may be the one with a second turn; the second turn follows an end the
first has left behind; and a second server is the one started after a restart beside the orphans of the
first.

`CHECK_DEADLOCK FALSE` is set where a system may come to rest: a pool all of whose callers are
done, a run whose processes and crashes are used up, contenders that all exited.

Fairness.
- `ResourceLeases`: time passes and the supervisor's timer keeps sweeping (`WF` of both). Nobody
  has to release or renew.
- `McpPool`: each caller's next step happens (its awaits are bounded by the timeouts in the
  code), a process that was signalled dies, exit events are delivered, disposal and boot go on.
  Healthy processes need not die and runs need not end.
- `AskRoundTrip`: the sweep is a timer, and a daemon that went down is started again. Humans,
  harnesses and processes owe nothing.
- `TaskReview`: the timer keeps starting drains, and a call of the bridge ends (it is given a
  timeout). Reviewers, the CTO and the owner owe nothing.
- `TaskRepo`: none; its properties are invariants.
- `EventFeed`: a subscription that can go on does, since the server writes frames without waiting for
  its peer; the hooks of an event return; and the adapter's stream settles once it is cancelled
  (`adapters/claude-code/adapter.js:546` wakes it). Harness, clients and the UI owe nothing.
- `SharedServer`: the harness ends the turns it runs, the reader of its events, the pump and a reap's
  wait for `ps` are scheduled (`WF`), and a kill that is tried again and again works (`SF`). Servers need
  not live or die, and operators owe nothing: `OrphansGo` has "somebody keeps reaping" as its premise.
- `DaemonLock`: file operations return. Nobody has to be started, stopped or killed.

Properties, by component:

- Leases. `SamePolicy`, `WithinLimit`: all active leases of a resource were admitted under one
  policy and are no more than it allows. `HeldByOpenRun`: an unreleased lease names an open run.
  `NoRevival`: a lease out of force stays so. `LossIsAccountedFor`: a lease in force is only lost
  by its own release, its expiry or the end of its own run. `ImplementsArbiter`: the refinement.
  `DeadHolderIsSwept`: without eternal renewals the row is released.
- Pool. `OneResident`; `IdlePoolDies`; `OpenMeansReady`: an open attachment is to a ready pool;
  `TeardownIsExclusive`: one teardown at a time and nobody attached during it; `AttachSettles`.
- Asks. `ImplementsAskBook`: the refinement. `DecisionStands`, nobody rewrites a resolved ask, follows
  from it and is proved but no longer run. `HeardByItsAsker`: a worker reads
  answers to its own requests only, and the decision on record. `BlockedMeansAsked`: a blocked
  task has an open ask. `NoStrandedAsk`: an open ask has an open run or a deadline.
  `DeadlineMeansEnded`: never both. `OpenMeansParked`: an open ask of a running worker is one it
  waits on. `ExitEndsStream`: no consumer waits on a dead process. `AnswerIntact`: what a
  worker reads was not reduced to a hash before it was sent, unless the delivery of that answer itself had
  failed before; a redelivery after another answer, a restart or a resume finds it whole. `AskSettles`: an ask left by an ended run is resolved.
- Review. `ApprovalStands`: under whichever profile now governs the task, the rule still approves
  the round and the commit of the last approval. `QuorumIsOfPeople`: behind the verdicts a quorum
  counted stand as many different workers as it asks for, each with its own token or spoken for by the
  owner, so that a worker's token counts once (an owner may speak for several: section 7). `PostedOnce`: an announcement is in the channel at
  most once, and is marked delivered only when it is. `ToldInTheEnd`: a row written is told.
- Repository. `RowMatchesDisk`: whenever nobody claims the slot, the row names a worktree if and
  only if there is one. `OneGitPerSlot`: one caller runs git for a task at a time. Both except
  after a live call's claim was taken for dead (section 7). `ProtectedPushesSigned`: under
  the names on the protected list a branch has moved at most once for each approval consumed. `NoStrandedStart`: without a crash, a
  task is in `starting` only while a call is starting it.
- Feed. `NothingUnannounced`: from its frames a client always knows where its subscription
  stands, and a finished stream was sent or announced to the last event. `SubscriptionsEnd`: none
  outlives its stream. `TranscriptWhole`: the lines on screen are in order, none is there twice,
  and every row up to the cursor is shown or counted as skipped. `DecidesTheOpened`: an open
  detail view acts on the request that was opened.
- Shared server. `NoCollateral`: when a reap starts to kill a group, no other run of that server has its
  stream followed and, where operators are patient, none has a prompt under way. `OneEndPerTurn`: of the ends of
  a turn the log keeps the first, while it is the run's last turn and, where operators are patient, later.
  `TurnsAreBooked`: a turn that runs under a consumer ends that consumer's stream, the second turn like
  the first, unless the server died without a word. `OrphansGo`: an orphan that is reaped again and again does not stay
  one.
- Lock. `TheftNeedsTheWindow`: a lock that is removed was published after the remover's last
  look. `UnknownIsNotStolen`, proved and no longer run: an unreadable file is never taken. `NotEveryoneLoses`: contenders
  never all turn each other away from a lock that could be had. `Settles`: each is told
  something.

## 5. What is proved

All theorems are about `Spec` without fairness and assume only the named `ASSUME`s of the module:
bounds are numbers, sentinels are not values, sets of decisions avoid the names of the other
states. Everything is for any size of every set.

**`ResourceLeases_proofs`**: `TypeCorrect`, `HoldersAgree` (`SamePolicy`), `NeverOversubscribed`
(`WithinLimit`), `EndedRunsHoldNothing` (`HeldByOpenRun`), `LostIsLost` (`NoRevival`),
`LossHasACause` (`LossIsAccountedFor`), `LeasesRefineArbiter` (`ImplementsArbiter`). `WithinLimit` alone
is not inductive: a limit from a new policy says nothing about holders admitted under an old one,
so it is carried with `SamePolicy`, and cardinality lemmas say that admission adds one holder and
every other action removes some. `LossIsAccountedFor` needs that a worker's lease is bound to
a run of its own from its admission on (`BoundToOwnRun`). The refinement maps the holders of a
resource to its active leases; all but the acquisition map to `Leave` or to a stutter.

**`McpPool_proofs`**: `TypeCorrect`, `AttachedMeansServed` (`OpenMeansReady`), `OneTeardown`
(`TeardownIsExclusive`) and, under a hypothesis, `OneProcess` (`OneResident`). The invariant adds: the child in memory is the process the row names,
and it is still watched (`ChildIsServed`); a caller that spawns watches what it spawned
(`SpawnIsWatched`), so an unobserved exit cannot leave a row ready; nobody is in the middle
of anything while the daemon is down (`QuietWhileDown`); and while `disposeAll` awaits, the row
is as it was or an exit event has closed every attachment (`DisposeIsAlone`). `OneProcess` supposes that
no spawn fails and the daemon stays up, as the run `pool_races` does (kills may fail, children may die,
callers may race); section 7 says how a failed spawn breaks it. The invariant then follows every
process: at most one caller is spawning, its claim is not taken from it (`OneSpawner`), and a process that
runs is either in that caller's hands or the one the row names (`AllAreHeld`).

**`AskRoundTrip_proofs`**: `TypeCorrect`, `ResolvedStays` (`DecisionStands`), `AskerHears`
(`HeardByItsAsker`), `BlockedTaskIsAsked` (`BlockedMeansAsked`), `DeadlinesWaitForTheEnd`
(`DeadlineMeansEnded`), `ExitIsSeen` (`ExitEndsStream`), `AnswersStayIntact` (`AnswerIntact`); and under
a hypothesis on `Enabled`, `NobodyIsStranded` (`NoStrandedAsk`, if no identity is rejected and no crash
falls inside a reap) and `AnswersReachSomebody`
(`OpenMeansParked`, if no run that has ended is stopped once more). The hypotheses are the
known deviations of section 7. The argument: every operation on the asks table is a move
(`Moves`), that is, it keeps the table sane and a resolved ask resolved; moves compose; a lemma per
operation of the table, then one step per action (`AsksStep`). To that the invariant adds
that only the newest process has requests parked (`ParkedByNewest`) and that an answer under way is
a decision, on its way to the process that asked (`WritesAreDecided`): without the two a delivery
could put anything in `heard`. `AnswersStayIntact` adds that a payload is reduced only in a row
that is marked delivered or whose answer is `missed` (`Reduced`), which every move keeps. `AnswersReachSomebody` adds that every open ask is one its process is
parked on, or was answered there a moment ago, or is slated for a withdrawal that waits for a consumer (`Owned`);
that a consumer takes such withdrawals with it when it comes (`HarnessInv`); and that a
withdrawal finds the newest open ask of its request id (`NewestIsWithdrawn`), so that the one
slated is the one it closes.

`RunKeepsTheBook` (`ImplementsAskBook`) is the refinement of `AskBook`. Every table operation is a turn of
the book (`Turns`: each ask passes as the book allows), turns compose, and every action but an
answer, a confirmed delivery and a crash is therefore a `Change` or a stutter; those three map to
`Decide`, `Deliver` and `Slip`. That the task is blocked by open asks only (`AlwaysAsked`) has to hold
while the daemon is down too, or a restart could unblock a task in a step the book does not have.

**`DaemonLock_proofs`**: `TypeCorrect`, `RecheckNarrowsTheft` (`TheftNeedsTheWindow`),
`UnknownStays` (`UnknownIsNotStolen`), and `SomebodyServes` (`NotEveryoneLoses`, for at least one
contender and two attempts). The invariant says that a torn file is untouched, that a file
naming a contender was published by it, and that a pid taken for dead is dead. `SomebodyServes`
adds `Fresh`: as long as nobody has held the lock, the file is the one left over at first or
none, nobody has been turned away, and whoever is in a later attempt finds no file.

**`TaskReview_proofs`**: `AnnouncedOnce` (`PostedOnce`), `NobodyCountsTwice`
(`QuorumIsOfPeople`) and, under a hypothesis, `DecisionsStand` (`ApprovalStands`). The first rests
on `LedgerIsTrue`: the bridge has posted exactly the events in its ledger, and a drain with an answer,
like a row marked delivered, is about one of them; a row's event is the key of its calls, so a
second post of it finds the key. The other two rest on `ReviewInv`: a decision is taken with no
verdict in flight, on the verdicts there are, none is recorded after it, and `by` is `worker` or the
owner in every verdict. From a profile that approves the round follows that every profile does
(`OneProfileJudges`), provided it requires a reviewer at all: then the round has a verdict, hence one
recorded profile, and that one judges. The hypothesis is that every profile requires one; section 7
says what happens otherwise. `GovernedAssumption`, that a rule of an accepted file names a profile of
it, stands for the loader's checks, and TLC evaluates it on the files of the instance.

**`TaskRepo_proofs`**: `RowIsTrue` (`RowMatchesDisk`), `OneGit` (`OneGitPerSlot`), `PushesAreSigned`
(`ProtectedPushesSigned`), `StartsAreBooked` (`NoStrandedStart`). The slot's invariant (`SlotInv`): as long
as no claim was taken over from a live call, a call in git holds the pending claim and is the only one
(`SoleClaimant`), and it knows what is on disk (`ClaimantKnows`), so that what it writes into the row is
true. For the pushes, counting: every push still in the loop towards a name not known to be
off the list has an approval of its own that it consumed, and so has every move under a listed name,
`moved + Cardinality(Signed) <= Cardinality(Used)`. For the starts: a call with workers left to start is in
`starting`, and without a crash some call is while the task is.

**`SharedServer_proofs`**: `FollowedRunsAreSpared` (`NoCollateral`) and `TurnsEndOnce` (`OneEndPerTurn`), both
action properties, whatever operators do. The first: while its server lives, a run that is followed has an
open row and a handle (`WorkIsBooked`), so it is among the siblings a reap reads before it kills, and makes
them more than orphans. The second: the flag is up whenever the end of the current turn is in the log already
(`Honest`), which input keeps true because it begins a turn that cannot have ended yet. Each says more where
operators are patient, and the invariants carry that part under `Patient`: a run at work is followed, with no
earlier end and no cancellation under way; and the flag is up for every end still on the wire.

**`EventFeed_proofs`**: `ClientsKnowTheirPlace` (`NothingUnannounced`), `DecisionsAreInformed`
(`DecidesTheOpened`), `TranscriptsAreWhole` (`TranscriptWhole`). The first rests on the shape of the ring
(`Buffered`: the buffer holds the events from `firstSeq` up to `nextSeq`, for any size) and on
`Follows`, that a client has heard what its subscription's cursor says. The third on `TranscriptInv`: only
one refresh is under way, and its answer continues the transcript from where it stands
(`SnapshotContinues`, from what `collapseTranscript` makes of any range of rows: the lines cover it, are in
order and do not meet, `LinesCover`, `LinesStayApart`). That the lines can be put in order is itself
proved, by minimality instead of induction (`CanBeOrdered`).

## 6. What is only model-checked

Liveness (`DeadHolderIsSwept`, `IdlePoolDies`, `AttachSettles`, `AskSettles`, `Settles`,
`ToldInTheEnd`, `SubscriptionsEnd`, `TurnsAreBooked`, `OrphansGo`): the prover has no rules for fairness.
Every other property of a passing run is a theorem. Three of the theorems have a hypothesis about what is
switched on in the instance: `OneProcess`, `NobodyIsStranded` and `AnswersReachSomebody`; the runs that check
the same properties switch off the same things, and section 7 names what happens with them on.
`DecisionsStand` has one about profiles, and `SomebodyServes` one about the bounds. `shared_server` runs with
patient operators, since `TurnsAreBooked` supposes them; the two theorems about it do not.

A type invariant that is proved is not run as well: those of `ResourceLeases`, `McpPool`, `AskRoundTrip` and
`DaemonLock`. `TypeOK` of `TaskReview`, `SharedServer`, `TaskRepo` and `EventFeed` hold on the
instances above and are in no configuration. None of the four is proved: for `TaskReview` because
what a drain has read is a selection (`SelectSeq`) of the rows, and that a selection is a sequence needs
induction; the other proofs carry the part of the type they need (`Form`, `SlotForm`, `PushForm`, `State`).

## 7. Known deviations

Found while modelling; each is a reading of the code against a sentence of its own comments.
The first two are shown by a run.

- `ask_resume_live`: a resume of a live run cancels its stream and closes its row over the
  process (`runtime/supervisor.js:1690` against `:1642`, and adapter.js:953).
- `lock_two_holders`: recheck and unlink of a stale lock are two steps (`lock/lock.js:314`), so
  that two daemons can both hold it (`lock.js:130`, `ipc/daemon.js:9`).
- The exit listener of a pooled child (`runtime/mcp-pool.js:207`) acts on the pool id, not on the
  child. The event of a child that failed to start can arrive after the slot was claimed again, and
  fails the row of the successor, whose process stays beside the next one (`mcp-pool.js:3` promises
  one resident process). `MCMcpPool` with `SpawnsFail = TRUE`, 3 callers, 3 processes and nothing else
  that fails shows it with the invariant `OneResident`.
- `reap` books a lost run and closes its asks in two statements (`runtime/reconcile.js:275`); at
  `:181` the same pair is one transaction, with the reason. `MCAskRoundTrip` with `MaxGens = 1`,
  `MaxDowns = 1`, `Enabled = {"reap", "crash-in-reap"}` and the invariant `NoStrandedAsk` shows it.
- A start whose identity is rejected leaves the asks its child already raised open, with no
  deadline (`supervisor.js:432` against `:500`). Excluded from `ask_grace` by `Enabled`.
- A reap between `createRun` and the identity books the run as lost while its process lives
  (`reconcile.js:275` against `:6`); one that began before a resume books the resumed run
  (`reconcile.js:420` against `:403`).
- After an aborted turn an exit does not end the stream (`adapter.js:422` against `:425`): the
  exception `ExitEndsStream` names.
- An answer whose delivery failed is reduced all the same, so that its redelivery is built from a payload
  that is gone (`supervisor.js:1061` against `:1059`): the exception `missed` that `AnswerIntact` names.
- Asks of an orphaned run are closed at boot (`reconcile.js:172`) although `supervisor.js:1070`
  means to deliver their answers.
- A stop of an ended run drops parked requests whose asks stay open for their grace period
  (`adapter.js:1037`), and a later resume cannot answer them (`supervisor.js:1374`, `:600`).
- Boot detaches lost runs (`supervisor.js:349`) before it reconciles pools (`:353`), so that a row is
  stopped whose process is never killed (`mcp-pool.js:328`); a daemon killed during a teardown leaves a
  draining row that no boot path selects (`db/index.js:2237` against `supervisor.js:300`).

Review and outbox:
- A token that is bound to no worker may record for any number of reviewers (`supervisor.js:2211`, which
  defers it), so that the owner alone can make a quorum of different workers.
- A reviewer may name the next round before this one is settled, and the change requests of the round
  before no longer count (`supervisor.js:2223`). Verdicts of an attempt that failed survive its retry.
- An approval without a readable HEAD falls back to the newest verdict's commit or the caller's
  (`supervisor.js:2440`); a merge does not look at HEAD again, and what it is approved for names neither
  commit nor attempt (`supervisor.js:3217`).
- A loose profile (`revisionBound: false`) under which verdicts were recorded still judges the round when
  a stricter path rule has come to apply.
- A profile may require no reviewer (`review-profiles.js:239`). With no blocking dimension either, it
  approves a round without verdicts, and a stricter profile that comes to govern the task afterwards does
  not: `DecisionsStand` has the contrary as its hypothesis, and the instance's files require one or two.
- A crash, or a failing write, between a decision and its outbox row loses the announcement
  (`supervisor.js:2481`).

Repository:
- `assignTask` calls with different keys, or none, overlap: workers can be started twice, and a task can
  become `start-failed` with a run live. A crash in the middle leaves the task in `starting` and its key
  answering "in progress" for good (`supervisor.js:2594`). A cancel followed by a discard can remove the
  worktree under a run being started (against the comment at `supervisor.js:2580`), and the marker of a
  pending claim is used as a directory.
- A worktree half created by a git that was killed is adopted (`worktree-service.js:80`). A removal that
  takes more than a minute can remove a worktree adopted since: the exception `outlived` of the two
  properties. A directory no row names makes every later create fail.
- Whether a push needs an approval is decided by comparing the string the caller passes with the list
  (`supervisor.js:3854`-`3861`, `protected-branches.js:78`); git takes other strings for the same branch, the full
  name of its ref for one, and moves it without an approval (`git-create-push.js:313`).
  `ProtectedPushesSigned` is about listed names for that reason. The update check of the fight loop finds a
  branch by its plain name only (`git-create-push.js:172`).
- What a protected push is approved for names no commit and, without a target branch, no branch: whatever
  is checked out is pushed (`supervisor.js:3876`). The lease on the git identity is not renewed in the fight loop.
  An approval outlives the revocation of who granted it.
- A start rotates the worker's token before it succeeds, so a live run's callbacks are refused when a second
  start fails (`supervisor.js:1929`).

Feed:
- A subscription's `fromSeq` is the next event to deliver (`event-pump.js:168`); the pane passes the last
  one it rendered (`pane/pane.js:104`), so that a re-attached pane repeats an event, and its first
  `fromSeq` of 0 is told of a gap of one. A `fromSeq` of an earlier generation misses events silently, and
  subscribing to an unknown run makes a state that never ends.
- The pane writes its request without the token (`pane/pane.js:132`), which the wrapper refuses.
- A client whose connection closes with a request pending never settles it (`tui/cli.js:60`); the
  single-flight refresh of the terminal UI then never runs again (`tui/app.js:312`). `Fails` models it.
- While a long run of prose keeps the cursor still, the same gap is announced at every refresh. The
  terminal UI forgets the run that started first at 200 runs, although it is on display (`tui/app.js:242`).
- Accepting or declining after `R` leaves the focus on a hidden panel (`tui/state.js:339`). Teams are
  indexed in the filtered list by keys and in the full list by the tree.
- The clear policy `always` clears at every `turn.end` (`supervisor.js:805`, which says "once per turn"),
  and Claude Code is cleared by a message (`adapters/claude-code/adapter.js:929`) that itself ends with a
  result record, recorded in `src/spike-0b/claude-code-adapter/evidence/17-slash-clear-resident.txt`: the
  next `turn.end`. Not part of a model.
- A turn whose digest is awaited can be digested again when a resume replays its end (`supervisor.js:834`).

Shared server:
- A server that is killed by a reap, or dies, stays in `serverPool` (nothing listens for its exit, and only
  `disposeServer` and a failed start delete an entry): every later start in that directory fails until the
  daemon restarts or disposes of it. A server that is merely late (15 seconds) is forgotten alive (`adapters/opencode/adapter.js:369`).
- A row is closed when a turn ends, and input does not reopen it (`supervisor.js:1383`). A run given input
  without a resume works under a closed row, so that a reap of its sibling finds nobody beside it and kills
  the group (`reconcile.js:213`). The second end of an aborted turn that arrives after new input ends the new turn
  (`adapter.js:749` resets what `:543` looks at). `NoCollateral` and `OneEndPerTurn` claim these cases for
  patient operators only; `MCSharedServer` with `Patient = FALSE` shows both once their `Patient` is dropped.
- A resume of a live run sets `_cancelled` (`adapter.js:820`), which nothing resets: every later stream of
  the run ends at once and closes its row.
- A stop of an orphaned run closes its row over a session the adapter never heard of (`adapter.js:982`
  returns; `reconcile.js:372` avoids the same).
- A server that dies without `server.instance.disposed` ends no stream, so its runs stay open until they are
  reaped or the daemon restarts. A run recorded on a group while it is being killed is not spared
  (`reconcile.js:422` says so).

## 8. Not modelled, and why

Section 1 lists the parts.

- Adopted sessions: somebody else started them, and a hook script reports them once per event.
- `recordRunProcess` keeps the old pid where the resumed process could not be verified
  (`db/index.js:510`): in the models an identity, once known, verifies.
- Of the opencode adapter: `clearContext`, `discardSession`, `verifyRunIdentity` and `preflight`, which
  change nothing of a run; the wrapper adapter.
- Interrupt, clear-context and reset-session of a run put a message on the worker's input; the clear
  policy, digests and handoff are a table and texts.
- `requestWorktree`'s overlay: a path and a branch of its own per run, with no row to agree with.
- The preflight of a harness, the conformance suite, instructions and models for workers.
- Minting and rotating principals, the journal of decisions, `domain/session-intent.js`.
- Framing, sizes and the token file of the socket; the client library.
- Of the terminal UI: teams, tree, panes, reviewers, scrolling, caps of 500 lines and 200 runs, drawing.
- The refusal of a push without paths from a worktree that is shared (`gitCreatePush`): a push that is not
  made. A gap line of the transcript that is announced again is one line (section 7).
- Which roles need which pools; the argument lists, event normalisation and redaction rules of the
  adapters (data no property tells apart, other than "payload reduced or not"); the memory-pressure
  refusal of a heavy job, which is the acquisition not happening.
- The stdio proxy, the vault projector, migrations: I/O that nothing modelled reads back. The prototypes
  in `src/spike-0b` are not loaded.
