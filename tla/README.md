# Jait: a TLA+ verification project

Jait is a local-first agent gateway: one Node process (`src/packages/gateway`) that
holds chats, agent threads and scheduled jobs, runs tools on behalf of language
models, and asks people before it does anything dangerous. Web, desktop, mobile and
messenger clients talk to it over HTTP and WebSockets; model providers and remote
nodes are separate processes. Nearly all of its own state machine lives in the
gateway, and that is what this project models.

The gateway is single-threaded JavaScript over synchronous SQLite. A handler runs
alone until it `await`s; everything read before an `await` may be stale after it. The
modules therefore have one action per stretch of code between two awaits, and every
database statement is atomic. What survives a restart is what the code writes to
SQLite; all else is reset by the `Restart`, `RestartTrust` or `Crash` action.

## 1. Inventory

| Component | State | Operations | Hard part | What makes it correct |
|---|---|---|---|---|
| Tool permission policy (`security/tool-permissions.ts`) | none | `requiresConsent` over profile, level, command | several rules that override one another | an irreversible command is asked about whatever was granted before |
| Trust engine (`security/trust-engine.ts`) | cache and table of approval counts, revert counts, level | record approval, record revert, reset, lazy load | failed writes are swallowed, then a restart | no level that its approvals did not earn; the cache is what the table will say |
| Consent manager (`security/consent-manager.ts`, `routes/consent.ts`) | pending requests with timers, approve-all switch and its table | request, decide, timeout, approve chat, approve-all on and off, cancel all | answer, bulk approval, timer, shutdown racing for one request | one decision per request, and every caller gets it |
| Consent-aware executor (`security/consent-executor.ts`) | session approvals, calls in progress | execute, run tool, abort | policy is read before a wait of up to two minutes | no effect without authority; none after an abort |
| Job scheduler (`scheduler/service.ts`) | jobs and run rows, `runningJobIds`, last purge | create, update, remove, trigger, tick, purge, end of run | overlapping ticks; a run ends with a job record that is hours old | a job never runs over itself, a one-shot fires once, a deleted job stays deleted |
| Disk space watchdog (`services/disk-space-watchdog.ts`) | none of its own; pauses jobs | `check` before every tick | writes back what it listed before its disk reads | pauses only, and loses nothing |
| Agent threads (`routes/threads.ts`, `services/threads.ts`) | rows with status and provider session, recovery rows | start, send, steer, stop, interrupt, provider events, restart recovery | every route awaits a provider and then writes the row | a stop stays a stop; a recovery happens once, after its predecessor is gone, a bounded number of times |
| Agent control (`services/agent-control.ts`) | one halted row per owner | halt, resume | everything already in flight when the halt comes | nothing starts during a halt |
| Chat turns and message queue (`routes/chat.ts`) | stream slots, durable queue, consumed ids, active-turn marker | post, enqueue, drain, cancel, recover | drain against client sync, refused sends, a second turn, restart | no queued message is sent twice, lost or left behind |
| Chat goal loops (`services/chat-loops.ts`) | goal, revision, budget, stalled checks | set, control, check, finish turn | a review awaited from a model; a dispatch or turn that outlives its goal | a stopped loop stays stopped, a running one goes on, the budget bounds it |
| User questions, secret input (`services/user-questions.ts`, `services/secret-input.ts`) | pending and resumable requests | ask, wait, yield, submit, cancel, time out | an answer between two waits; a client that is gone | a request is settled once and its outcome reaches its asker or is announced |
| Team chat deliveries (`services/team-chat.ts`, `routes/team-chat.ts`) | delivery rows, running set | pump, dispatch, poll, recover, cancel | a 100 ms poll of a thread others stop, halt and recover | one delivery per thread at a time and in order, none done twice, none forgotten, every failure escalated |
| Steering, resume registry, idle lease, waits (`providers/steering-dispatcher.ts`, `services/intervention-run-resume.ts`, `providers/session-idle.ts`, `services/session-waits.ts`) | small maps with timers | deliver, pause, register, reap, raise, clear | turn boundaries, lease expiry as a message arrives | guidance is delivered once; no message goes to a dying session |
| Background commands, execution guard, usage cache (`services/background-command-monitor.ts`, `services/execution-guard.ts`, `services/usage-refresh-cache.ts`) | watchers, counters, single-flight entries | track, complete, record, run | caps, three ways a command ends, forgiveness of failures | a completion wakes its chat once; a budget is really bounded |

The remaining parts (providers, surfaces, WebSocket plane, memory, channels, plugins,
voice, git, the web, desktop and mobile applications, the Rust port) are listed in
`PROJECT.json` with the reason each is left out: they are adapters to external
processes, user interface, or storage without a protocol of its own.

How the parts interact: a chat turn or a thread calls the executor for every tool; the
executor asks the policy, the trust engine and the consent manager; people answer over
HTTP, by voice or by messenger. The scheduler launches tools and asks the watchdog
first. Agent control halts an owner's threads and is looked at by every route that
starts work. At start-up the thread service queues what was running, and a sweep every
15 seconds restarts it through the public start route. Whatever continues a chat without
its user (the queue's drain, a goal loop, a finished command, an answered question, the
recovery of an interrupted turn) signs a token and posts to the same `POST /api/chat`
that clients use; that await between the decision and the request is where most of the
races of the chat are. Team rooms dispatch their deliveries through the thread routes and
poll the thread's row.

## 2. Modules

| Module | Models |
|---|---|
| `ToolPermissions` | `requiresConsent`, as an operator |
| `TrustEngine` | cache, table, approvals, reverts, resets, failed writes, restart |
| `Consent` | executor, consent manager and consent routes; extends the two above, shares the trust engine's variables, and is shown to implement `TrustSpec` |
| `Scheduler` | scheduler service and watchdog |
| `AgentThreads` | thread routes, rows and recovery queue, provider events, halt and resume, restart |
| `ChatQueue` | one session's turns, message queue with receipts, drain, client snapshots, active-turn marker and its recovery |
| `ChatLoops` | the goal loop of a session, its timer, dispatch, reviewed checks and everything that may stop or continue it |
| `PendingRequest` | abstract: a request is opened once, settled once, and its asker gets that outcome |
| `Interventions` | questions, browser hand-overs and secrets, their waits and the notice that wakes a session; implements `PendingRequest` |
| `TeamDeliveries` | the deliveries of a team room over threads reduced to status and recovery, with stops, halt and restart |
| `TrustEngineProofs`, `ConsentProofs`, `AgentThreadsProofs`, `SchedulerProofs`, `ChatQueueProofs`, `ChatLoopsProofs`, `InterventionsProofs`, `TeamDeliveriesProofs` | the theorems about the module of that name |
| `MC*` and `*.cfg` | instances for TLC |

Names follow the source. `PROJECT.json` maps every definition to its lines. Definitions
introduced by a comment "Mutant:" are plausible bugs of the definition they precede;
they occur in no specification and serve to show that each property can fail.

**Trust and consent.** `trustCache` and `trustDb` are the two copies of a tool's trust state; a
write that fails (`saved = FALSE`) changes only the cache, and `RestartTrust` empties
it. A tool call is at `idle`, `waiting`, `running` or `done`: `ExecuteReturnsEarly`,
`ExecuteAuto` and `ExecuteAsks` are the three ways through `execute`, `Resume` is what
follows the awaited decision and `FinishTool` what follows the tool. `Decide` is shared
by an answer, a bulk approval, the approve-all switch, the timeout and shutdown, as in
the code, and carries the lookup that makes the second decider a no-op. A call's context
(what the policy says of the command, full access, approval requirement, scheduler origin) is chosen from a
set when it starts. Matching of globs and regular expressions is abstracted to its answer. `recordRevert` is
modelled in `TrustEngine` alone: no code of the gateway calls it.

**Scheduler.** Time is in minutes, the resolution of cron and of the same-minute test. A
cron expression is the set of minutes it matches; of an input only the one-shot flag is
kept. `TickStart` is `tick` up to the watchdog's disk reads, `TickRun` everything after
them (pause, selection, launch and the hourly purge, which the code runs without a further
await), `TickFails` a watchdog that throws (the jobs it has paused by then stay paused),
`Finish` the end of a run. `fired`, `lastFiredAt`, `gone`, `edits` and `lost` are
history variables.

**Threads.** A request is a slot in `req` with its phase (the await it stands at);
recovery requests use their thread's own slot, because the sweep injects at most one per
thread. `CheckDone`, `StaleStopped`, `Started` and `Discarded` are the stretches of the
start route between its awaits. A provider session is a process (`worker`) of which the
routes see only events; a remote one outlives a crash of the gateway. The handlers of
`stop`, `interrupt`, `halt` and steering are split at the awaited provider call in the
same way. `stopped`, `startedBy` and `haltErrors` are history variables; `stopped` is the
number of the first session that comes up after the stop took effect, so that a property can tell
later sessions from those the stop was asked about. The queued
deliveries that `markInterrupted` cancels are in `TeamDeliveries`; the title turn before
the first turn, pull requests and worktrees are left out.

**Chat queue.** The body of `POST /api/chat` has no await between its checks and
`activeStreams.add`, so a post is one action: `PostDirect`, `PostBusy`, `BackgroundTurn`,
`DrainSends` or `RecoverSends`, by who sends it. The drain is split where it awaits:
`DrainPass` claims the head and shortens the queue, then its request is accepted, refused
(`DrainRefused`) or fails (`DrainThrows`), and `DrainResumes` goes round its loop. `turns`
is the set of turns really running, `streaming` what the code believes, and the two come
apart when two turns overlap. A message is its own queue id and `Content` tells which
messages are equal; a client may write any list of entries it has seen.

**Goal loops.** Iteration numbers are kept as differences (turns used since the budget began,
whether the current iteration was checked), revisions as they are. A review is
`StartReview`, an awaited model and `ReviewReturns`; a dispatch is `TimerFires`, `Signed`,
`LoopPosts`, the turn and `Answered`. Of the queue only the kind of head is kept, which is
what the dispatch looks at.

**Interventions.** One request per kind (in-process question, question of an MCP client,
browser hand-over, secret). A wait call is attached, yields after its minute, or has lost
its client, which the service cannot see. A notice is delivered to a running turn,
posted as a new turn, or dropped where that request meets another turn. The refinement mapping to `PendingRequest` takes the
request's status for the outcome and what a listening call returned for what was received.

**Team deliveries.** `Pump` is a function of the rows, as in the code, and every caller
includes it: a post, the end of a call, resume and start-up. A call is `preparing` until
the thread route has taken the message and then `polling`. `Fails` chooses the reason, because a
failure of quota, rate or capacity is not escalated to a manager on the same backend
(`SameBackend`). `Stop` goes through `markInterrupted` and cancels the followers; `Interrupt` marks the
row before it asks the provider and leaves them queued, and `RunsAgain` is a provider that
refuses or announces a turn it had begun. `AgentThreads` has the detail
of what a thread does between its statuses.

## 3. Runs

| Run | Shows |
|---|---|
| `consent_races` | two calls in two chats against answers, bulk approval, timeout, aborts, shutdown and restart: one decision per request, nothing pending without a waiter, each tool starts with the authority it needs then, none after an abort, ask-once approvals only from people and per chat |
| `consent_policy` | failing writes: approve-all and trust tables follow memory, levels are earned, the pipeline implements the trust engine, every waiting call is resumed |
| `scheduler` | two overlapping ticks, manual runs, edits, switches, removals, pauses, failing ticks and crashes |
| `threads_safety` | one remote thread with every event and two restarts: a stop that has taken effect holds for row and sessions, attempts are bounded, a halt freezes starts |
| `threads_recovery` | two threads sharing one recovery worker over two restarts: the old remote session is gone first, the queue empties |
| `threads_halt_doc` | a finding: a halt passes by a thread that is being interrupted |
| `chat_queue` | sends, snapshots, drains, refusals, cancellations, overlapping turns, two restarts: no early resend, no loss and no stranded queue except where the code gives up, bounded recovery |
| `chat_turns_doc` | a finding: a drained message and a direct send run two turns at once |
| `interventions` | two tabs answering, yielding and deserted waits, timers, turns that end: one settlement per request (refinement), answers kept, announced and not acted on twice |
| `chat_loops` | goals, checks, reviews, dispatches, replies, cancellations, waits and a restart: a running loop goes on, stays within its budget, and nothing stale decides |
| `team_deliveries` | three deliveries to two threads with failures, stops, interrupts, halts, recoveries and two restarts: in order, once, none left behind, failures escalated |
| `team_halt_doc` | a finding: a halt cancels the deliveries it promises to hold |

**Bounds.** Two calls suffice for the races over a request (decider against decider, and
the bystander a bulk decision must or must not touch); thresholds of at most 3 in place of
the configured ones keep all trust levels within reach; in `consent_races` they are 1, so that
one call that ran earns an always-ask tool its start. One job is enough for the
scheduler because no operation reads two jobs, except the bulk launch, which treats them
independently (the proofs have any number); two ticks, which are symmetric, make overlap possible, three minutes make room for the purge and for
an old tick finishing late. `MaxAttempts = 1` (3 in the code) with `MaxCrashes = 2` lets
a recovery be claimed, cut by a crash and given up; one start per thread is enough
because a stop, a recovery and a send take place after it. `threads_recovery` uses one
worker for two threads, so one must wait for the other. The queue has two messages, one
of which can be locked, two client snapshots and two restarts; a receipt store of one id (100 in the
code) makes the cap bite, one automatic recovery (3) makes it run out, and two slots for
turns besides the drain's let three turns overlap. Loops have a budget of two turns (50),
two stalled checks, two unchecked turns (3), two goals, four revisions and one crash or
foreign write. Three wait calls let one attach while another yields and a third has
lost its client. Three deliveries to two threads give a follower, a bystander and a
manager's escalation; one of the managed ones has its manager on the same backend.
The largest runs are `team_deliveries` (4.0 million states), `threads_safety` and `consent_races`
(2.7 million each), one to two minutes with two workers. `CHECK_DEADLOCK FALSE` stands where clock, runs, revisions, starts,
snapshots and crashes are bounded, so that a model may legitimately reach its end.

**What a property leaves open.** Where the code has a way out, the property names it and section
6 describes it, so that everything else is still excluded:

- `RecoveryHonoursStop`: a stop takes effect when the call it awaits has returned; a session that
  recovery brings up while the stop waits for the old one is not excluded.
- `OneLaunchPerMinute` and `OneShotFiresOnce`: launches during which the process died, and for the
  former a run of another minute that ends in between and replaces `lastRunAt`.
- `NothingStranded` and `LostOnlyWhereKnown` of the queue: drains that were refused or threw.
- `BudgetHolds`: turns the process died in, and answers.
- `AnswerAnnounced`: the request that starts a turn for a notice meets another turn and is not
  repeated; the answer is still kept.
- `NothingStranded` of the deliveries: followers behind an `/interrupt`, until the delivery in
  progress pumps.
- `FailuresEscalatedOnce`: failures a restart finds behind a stopped thread, and those of an
  exhausted backend that the manager shares.
- `CancelledByStops`: a pump between the claim of a recovery and its session.

`threads_recovery` is run without halts (see section 6) and without failing providers,
which `threads_safety` includes.

**Fairness.** Consent: the timer of every request fires unless something else settles it,
and the continuation of a resolved promise runs; both are guarantees of the JavaScript
event loop. Threads: the sweep's 15-second timer fires and the calls it awaits return:
availability checks answer, a remote stop has a 15-second limit, a session start succeeds
or rejects. Nothing is assumed of people, of providers' turns, or of crashes.

## 4. Proofs

All theorems are for every value of the constants allowed by the named assumptions.

Each inductive invariant was first checked by TLC on the instance of the component's run.
Of the 40 properties the passing runs check, 36 are theorems.

*Trust engine.* `TrustSafety`: types, and `LevelEarned`. The invariant is inductive once
cache and table are taken together, because `getState` copies one to the other. The
lemmas say what one approval, one revert and the default do to a single state; the
arithmetic is that `computeLevel` is monotone. `TrustWrittenThrough`: cache and table differ
only where a write failed.

*Consent.* `ConsentTypes`, `RequestsDecidedOnce`, `NobodyIsStranded`, `NoUnauthorisedEffect`,
`PeopleApproveOnce`, `AbortIsFinal`, `ConsentImplementsTrust` and `TablesReadBack`. None of
the properties is inductive alone: that a late answer cannot touch a call whose tool has
started depends on where the call stands. `CallPhases` says what each position of a call
implies about its decision, its prompt and its effect; it is proved together with the
properties. `NoUnauthorisedEffect` is about the step in which a tool starts. It rests on `TrustPaid`: a
tool's level never stands above the number of its calls that ran to their end (`Completed`, hence
the cardinalities and the assumption that `Calls` is finite), through resets, failed writes and
restarts. Refinement maps every step to the trust engine's action or to a stutter, and
`TablesReadBack` uses it: the trust half of the property is the engine's own theorem.

*Threads.* `RecoveryNeverUndoesStop`, `AttemptsStayBounded` and `HaltIsAuthoritative`,
for any number of threads, requests and restarts. The invariant has four parts. `Shape`:
the rows are functions and a session belongs to its thread. `StopInv`: a stopped thread
has no recovery row, which is what recovery re-checks after its last await. `HaltInv`:
while a halt is on, a thread that a request or recovery runs is among those being
stopped. `AttemptInv`: the sweep compares an attempt count it read when it began, and
this is safe because only the thread's own request changes the count and that request
exists only after its entry was taken. There is one lemma per action. That no session
of a stopped thread works is a further invariant, `WInv`: a session that came up after the stop
took effect has no turn. Most actions give no session a turn (`WorkQuiet`), and one lemma serves
them.
`ReplacementsAreAlone` rests on a second invariant, `RInv`. `Claimed`: the session a recovery
stops is the one its row names, and a claimed row's session is gone; a row becomes
claimable again only by a restart, which names the latest session. `Known`: rows name
only sessions that exist, so no new session is the stale one. `Counted`: a session number is
paid for by a caller's start or by a restart, which is why the numbers of `SessionIds`
suffice; it counts the requests that may still use one, and so needs cardinalities. Most
actions are `Quiet`: they claim nothing, and one lemma serves them all. The theorem
covers every event, where the run that checks the property has stops and crashes only.

*Scheduler.* `ScheduledRunsDoNotOverlap`, `OneShotsFireOnce`, `RunRowsAreSettled`,
`GoneJobsStayGone` and `MinutesAreLaunchedOnce`, for any number of jobs, ticks and runs. The
invariant adds `Fresh` (a run number not yet given out is not in flight), `Armed` (a
one-shot that fired is armed only while the run that will disarm it is in flight) and
`Stamped` (the minute of the latest launch is in the job's row, or the run that will write it
is in flight). `Stamped` failed with an earlier form of `OneLaunchPerMinute`, which excepted
only runs that started before: any run of another minute that ends in between replaces
the stamp (section 6). The property says so now.

*Chat queue.* `QueueIsNotStranded`, `RecoveryIsBounded` and `RunningTurnsAreMarked`. `Alone`:
a turn that never ran beside another holds the stream slot and is marked. `Counted`: the marker,
and what recovery read of it before its await, are at least the number of automatic
continuations, though a newer turn may have replaced the marker.

*Goal loops.* `LoopsAreNotStranded`, `LoopsKeepTheirBudget`, `StaleDispatchesDie`,
`StaleReviewsDie` and `StoppedLoopsStayStopped`. `Revisions`: what a dispatch or a review read
is of the loop's goal or of an older revision, so that comparing revisions is enough.
`Budget`: every hidden turn that began is counted, in progress, or paid for by a crash or an
answer, and a running loop between two turns has one left.

*Interventions.* `NobodyIsLeftWaiting`, `AnswersAreAnnounced`, `AnswersLostOnlyToTheDeparted`,
`SessionsNotWokenTwice` and the refinement `InterventionsImplementPendingRequest`.
`AnswersAreAnnounced` is about the step that settles a request, the step
that takes its entry and the step that ends its notice. `ReceiptInv`: nothing is received of a request that is open or whose entry is kept, which
makes a second receipt impossible and is what the refinement needs.

*Team deliveries.* `DeliveriesSerialized`, `DeliveriesGivenOnce`, `DeliveriesNotStranded`,
`FailuresReachTheManager` and `OnlyStopsCancel`. An action changes a row and then pumps, so the
invariant is split: `Core` speaks of any rows, calls and given deliveries, is kept by the
change, and is kept by `Pump` once more. That `Pump` leaves nothing stranded uses that the
first queued delivery of a thread exists (the order on deliveries is well-founded).

The proofs of safety take `Spec` without fairness. Only model-checked are four properties.
`WaitersResume` and `RecoveryCompletes` are liveness under fairness, out of the prover's
reach. `NoEarlyResend` and `LostOnlyWhereKnown` of the chat queue depend on which entries
`SelectSeq` keeps, which takes an induction over the list. Outside consent no run lists
`TypeOK`; for threads, scheduler, loops and interventions it is proved with the
theorem named first (last, for the threads).

## 5. Findings carried by a run

- A halt selects threads by the status of their row, and misses one being interrupted, which
  runs again when its turn is announced or the interrupt is refused.
- The drain looks at the stream slot before it signs its token, and its request is exempt from
  the busy check: a direct send or hidden turn in between runs beside the drained message.
- A halt stops threads with the operation that cancels their queued deliveries, so the
  deliveries it promises to hold are lost.

## 6. Other observations

Met while modelling; not carried by a run of their own.

- `security/trust-engine.ts:20` speaks of resetting the revert counter; nothing but a full reset does.
- `security/trust-engine.ts:7` says that level 1 executes low-risk actions by itself; no rule of
  `requiresConsent` (`tool-permissions.ts:96`) looks at level 1.
- The watchdog's pause covers the jobs listed before its disk reads; one enabled meanwhile is
  launched by the same tick that found the storage full.
- The purge of spent one-shots also deletes one that was only tried by hand and then disabled.
- `PATCH` of a job (`routes/jobs.ts:352`) rebuilds its metadata without one-shot flag and time zone.
- A recovery claimed before a halt stays claimed: after resume nothing continues it until the next restart.
- A manual start after a restart forgets the remote session the recovery would have stopped.
- A steering message sent at the end of a turn marks its thread running after the awaited
  send, whatever became of the thread.
- `/stop` marks the session a thread has after the await, which may be newer than the one it
  stopped. With a queued recovery: while `/stop` awaits the old remote session
  (`routes/threads.ts:2045-2060`), the sweep may claim the row and bring up the replacement; the stop then
  marks the row interrupted and clears its handle, and the new session works on, although
  `docs/thread-recovery.md:7` says that stopping a queued recovery cancels it. `RecoveryHonoursStop`
  excepts just this window; without the exception TLC finds the sequence.
- The pull-request route resumes or starts a thread without looking at the halt.
- `scheduler/service.ts:470` disarms a one-shot only after its tool has returned, and nothing at
  start-up settles a run row left `running`: a crash during the tool fires the one-shot again
  in the same minute, though `service.ts:175` says "exactly once" (and the test at
  `service.test.ts:74` "across a restart").
- `services/disk-space-watchdog.ts:71` writes back the input it listed before its disk reads, so an
  edit saved meanwhile is undone; `docs/disk-space-protection.md:6` says prompts are preserved.
- A tick that read its minute before slow disk reads may launch that minute again once a run of
  another minute has ended: the same-minute test compares with `lastRunAt`, which every end of
  a run replaces (`scheduler/service.ts:467`, `:491`, `:508`). Found by the attempt to prove
  an earlier form of `OneLaunchPerMinute`.
- A one-shot that is edited into a repeating job during its run is deleted when that run ends.
- A scheduled tool that never returns keeps its job out of every later tick; there is no limit.
- `TrustEngine.recordRevert` has no caller: trust only rises, until it is reset.

Chat queue:

- A drain that throws leaves its message in no queue, though the comment at `chat.ts:3139`
  expects the next trigger to retry it.
- A refused drain restores the list it read before the await: entries queued meanwhile are
  overwritten, cancelled ones come back.
- The receipts another turn saves include the id the drain is just sending; if that send is
  then refused and the process dies, the queue drops the message as consumed.
- Of two overlapping turns the first to end clears the marker and the slot of the other, so
  a crash then is not recovered and a further send starts yet another turn.
- Recovery works with the marker as it was listed at start-up, which a newer turn may have replaced.
- A notice posted between `activeStreams.add` (`chat.ts:4206`) and the registration of the resume
  handler (`chat.ts:4315`) is skipped and not repeated.

Goal loops:

- A turn the process dies in is not counted, and an answer at an exhausted budget buys a
  turn, so "at most 50 turns per explicit resume" holds up to crashes and answers.
- A goal completed in a turn that is cancelled or fails afterwards becomes paused or failed.
- A dispatch that fails stops whatever goal is current by then.
- A refused queued message, or a consumed copy before a held one, keeps a running loop waiting
  without telling anybody.
- A goal that replaces another during a turn is charged for that turn, and may be paused by its end.

Team deliveries:

- Between the claim of a recovery and its session, a pump takes the thread for stopped and
  cancels its followers (`services/threads.ts:253`, `services/team-chat.ts:375`).
- A crash between the `completed` row and the posting of the result loses the message to the room.
- `/interrupt` leaves the followers of a delivery queued behind the interrupted thread until the next pump
  (`routes/threads.ts:2083`), and a pump before the provider's refusal cancels followers of a thread that runs on.
- A halt and a resume between two polls make a stopped delivery look failed, and it is escalated.
- A failure of quota, rate or capacity reaches no manager that runs on the same backend
  (`services/team-chat.ts:461`); nobody is asked instead.
- The poll may take the answer of a user's own turn in the thread for the delivery's.
- A delivery that fails under a halt before its thread was asked is recorded as interrupted.

## 7. Plan

Modelled: trust and consent, the scheduler with its watchdog, agent threads and the halt, the
chat queue, goal loops, interventions and team deliveries. Proved: the safety properties
of all of them but two of the chat queue. Left:

1. `NoEarlyResend` and `LostOnlyWhereKnown` for every queue: with the drain's filter stated by
   the set of entries it keeps in place of `SelectSeq`.
2. The pull-request, resume and delete routes of the threads.
3. The handover from `TeamDeliveries` to the thread model of `AgentThreads` in place of its
   status abstraction.

## 8. Not modelled, and why

- *Provider steering, CLI idle lease, background command monitor, execution guard, usage
  cache*: small protocols of their own, within reach of TLC; they matter less than what is
  modelled and come after the plan above. What they do to a chat or a thread is in the
  models as an event (a background turn, a block, the end of a session).
- *Prompt assembly, streaming formats, terminal parsing, cron text, globs and regular
  expressions*: functions of text; the models take their answers as choices.
- *The agent loop inside a turn, provider adapters, surfaces, git*: their state is in
  external processes; the models see their events.
- *Web, desktop and mobile applications*: user interface. They appear as requests in any order and as
  snapshots that may be stale.
- *The Rust gateway*: a port in progress; the TypeScript one is modelled.
