------------------------------ MODULE Scheduler ------------------------------
(***************************************************************************)
(* The job scheduler (scheduler/service.ts) together with the disk space   *)
(* watchdog that runs at the start of every tick                           *)
(* (services/disk-space-watchdog.ts).                                      *)
(*                                                                         *)
(* A tick captures the time, waits for the watchdog's disk reads, then in  *)
(* one go pauses, selects, launches and sweeps.  A run waits for its tool  *)
(* and then does its bookkeeping from the job record it read before.  The  *)
(* jobs and the run rows live in the database; the set of running job ids, *)
(* the ticks and the runs in flight die with the process.                  *)
(*                                                                         *)
(* Time is counted in minutes (the resolution of cron and of the           *)
(* same-minute test); a cron expression is the set of minutes it matches;  *)
(* of a job's input only the one-shot flag matters here.                   *)
(***************************************************************************)
EXTENDS Integers, FiniteSets

CONSTANTS
  Jobs,           \* job ids, never reused
  AgentJobs,      \* the jobs isAgentJob recognises
  Crons,          \* the cron expressions considered, as sets of minutes
  Ticks,          \* how many ticks can be in flight at once
  Retention,      \* ONE_SHOT_RETENTION_MS, in minutes
  PurgeInterval,  \* PURGE_INTERVAL_MS, in minutes
  MaxMinute,      \* bound on the clock
  MaxRuns,        \* bound on the runs of a job
  MaxEdits,       \* bound on the edits of a job
  Environment,    \* what may happen around the scheduler, subset of Events
  NoJob, NoRun, NoTick

Events == {"manual", "user", "remove", "disk", "throw", "crash"}

ASSUME SchedulerAssumption ==
  /\ AgentJobs \subseteq Jobs
  /\ Environment \subseteq Events
  /\ {Retention, PurgeInterval, MaxMinute, MaxRuns, MaxEdits} \subseteq Nat
  /\ Crons \subseteq SUBSET (0..MaxMinute)

VARIABLES
  now,            \* the current minute
  jobs,           \* scheduled_jobs rows
  runRow,         \* scheduled_job_runs rows: run id -> status or "none"
  exec,           \* runs in flight: run id -> what trigger() remembers
  running,        \* SchedulerService.runningJobIds
  tick,           \* ticks waiting for the watchdog's disk reads
  lastPurgeAt,    \* SchedulerService.lastPurgeAt
  nextRun,        \* the next run id of each job
  gone,           \* history: why a job no longer exists, "no" if it does
  fired,          \* history: launches as a one-shot since a user last armed the job,
                  \* not counting those the process died in
  lastFiredAt,    \* history: the minute of the latest scheduled launch, Never when the
                  \* process died in it or a run of another minute has stamped the job since
  edits,          \* history: how often users edited a job
  lost            \* history: the runs the process died in

history == <<gone, fired, lastFiredAt, edits, lost>>
vars == <<now, jobs, runRow, exec, running, tick, lastPurgeAt, nextRun, history>>

Never == -1
Minutes == 0..MaxMinute
RunIds == Jobs \X (1..MaxRuns)
Triggers == {"manual", "schedule"}

Job == [enabled : BOOLEAN, cron : SUBSET Minutes, once : BOOLEAN, lastRunAt : Minutes \cup {Never}]
Run == [by : Triggers, startedAt : Minutes, once : BOOLEAN]
Tick == [at : Minutes, agents : SUBSET Jobs, once : [Jobs -> BOOLEAN]]

ASSUME AbsentAssumption == NoJob \notin Job /\ NoRun \notin Run /\ NoTick \notin Tick

Exists(j) == jobs[j] # NoJob

Init ==
  /\ now = 0
  /\ jobs = [j \in Jobs |-> NoJob]
  /\ runRow = [r \in RunIds |-> "none"]
  /\ exec = [r \in RunIds |-> NoRun]
  /\ running = {}
  /\ tick = [t \in Ticks |-> NoTick]
  /\ lastPurgeAt = -PurgeInterval
  /\ nextRun = [j \in Jobs |-> 1]
  /\ gone = [j \in Jobs |-> "unborn"]
  /\ fired = [j \in Jobs |-> 0]
  /\ lastFiredAt = [j \in Jobs |-> Never]
  /\ edits = [j \in Jobs |-> 0]
  /\ lost = {}

Clock ==
  /\ now < MaxMinute
  /\ now' = now + 1
  /\ UNCHANGED <<jobs, runRow, exec, running, tick, lastPurgeAt, nextRun, history>>

------------------------------------------------------------------------------
\* Operators' requests: create, update, remove, trigger

Create(j, cron, once) ==
  /\ gone[j] = "unborn"
  /\ jobs' = [jobs EXCEPT ![j] = [enabled |-> TRUE, cron |-> cron,
                                  once |-> once, lastRunAt |-> Never]]
  /\ gone' = [gone EXCEPT ![j] = "no"]
  /\ UNCHANGED <<now, runRow, exec, running, tick, lastPurgeAt, nextRun, fired, lastFiredAt, edits, lost>>

\* update(id, {enabled})
SetEnabled(j, enabled) ==
  /\ "user" \in Environment
  /\ Exists(j)
  /\ jobs' = [jobs EXCEPT ![j].enabled = enabled]
  /\ fired' = IF enabled THEN [fired EXCEPT ![j] = 0] ELSE fired
  /\ UNCHANGED <<now, runRow, exec, running, tick, lastPurgeAt, nextRun, gone, lastFiredAt, edits, lost>>

\* update(id, {cron, input}): the whole input is replaced, one-shot flag included.
Edit(j, cron, once) ==
  /\ "user" \in Environment
  /\ Exists(j)
  /\ edits[j] < MaxEdits
  /\ jobs' = [jobs EXCEPT ![j].cron = cron, ![j].once = once]
  /\ edits' = [edits EXCEPT ![j] = @ + 1]
  /\ fired' = [fired EXCEPT ![j] = 0]
  /\ UNCHANGED <<now, runRow, exec, running, tick, lastPurgeAt, nextRun, gone, lastFiredAt, lost>>

\* remove(id): the row alone; run rows and runs in flight stay.
Remove(j) ==
  /\ "remove" \in Environment
  /\ Exists(j)
  /\ jobs' = [jobs EXCEPT ![j] = NoJob]
  /\ gone' = [gone EXCEPT ![j] = "removed"]
  /\ UNCHANGED <<now, runRow, exec, running, tick, lastPurgeAt, nextRun, fired, lastFiredAt, edits, lost>>

\* The run ids trigger() allots to the jobs in S.
NewRuns(S) == {<<j, nextRun[j]>> : j \in S}

\* The synchronous start of trigger() for every job in S: read the job, insert
\* its run row, enter the tool.  js is the job table at that point.
Launch(S, js, by, at) ==
  /\ \A j \in S : nextRun[j] <= MaxRuns
  /\ nextRun' = [j \in Jobs |-> IF j \in S THEN nextRun[j] + 1 ELSE nextRun[j]]
  /\ exec' = [r \in RunIds |-> IF r \in NewRuns(S)
                               THEN [by |-> by, startedAt |-> at, once |-> js[r[1]].once]
                               ELSE exec[r]]

\* POST /api/jobs/:id/trigger.  A manual run does not look at runningJobIds and
\* does not enter it.
ManualTrigger(j) ==
  /\ "manual" \in Environment
  /\ Exists(j)
  /\ Launch({j}, jobs, "manual", now)
  /\ runRow' = [r \in RunIds |-> IF r \in NewRuns({j}) THEN "running" ELSE runRow[r]]
  /\ UNCHANGED <<now, jobs, running, tick, lastPurgeAt, history>>

------------------------------------------------------------------------------
\* The tick

\* tick() captures the time and check() lists the enabled agent jobs.
TickStart(t) ==
  /\ tick[t] = NoTick
  /\ tick' = [tick EXCEPT ![t] =
       [at |-> now,
        agents |-> {j \in AgentJobs : Exists(j) /\ jobs[j].enabled},
        once |-> [j \in Jobs |-> Exists(j) /\ jobs[j].once]]]
  /\ UNCHANGED <<now, jobs, runRow, exec, running, lastPurgeAt, nextRun, history>>

\* Mutant: the pause writes the row whether or not it still exists.
PausedWithoutLookup(tk, affected) ==
  [j \in Jobs |-> IF j \in affected
                  THEN [enabled |-> FALSE, cron |-> {}, once |-> tk.once[j], lastRunAt |-> Never]
                  ELSE jobs[j]]

\* The end of check(): every affected job that still exists is disabled, and its
\* input is overwritten with the one check() read at its start.
Paused(tk, affected) ==
  [j \in Jobs |-> IF j \in affected /\ Exists(j)
                  THEN [jobs[j] EXCEPT !.enabled = FALSE, !.once = tk.once[j]]
                  ELSE jobs[j]]

\* Mutant: a job that is still running is selected again.
DueIgnoringRunning(js, at) ==
  {j \in Jobs : /\ js[j] # NoJob
                /\ js[j].enabled
                /\ at \in js[j].cron
                /\ js[j].lastRunAt # at}

\* Mutant: the minute of the last run is not looked at.
DueIgnoringLastRun(js, at) ==
  {j \in Jobs : /\ js[j] # NoJob
                /\ js[j].enabled
                /\ j \notin running
                /\ at \in js[j].cron}

\* The jobs tick() selects from the table js.
Due(js, at) ==
  {j \in Jobs : /\ js[j] # NoJob
                /\ js[j].enabled
                /\ j \notin running
                /\ at \in js[j].cron
                /\ js[j].lastRunAt # at}

\* purgeIfDue and purgeSpentOneShots
Spent(js, at) ==
  {j \in Jobs : /\ at - lastPurgeAt >= PurgeInterval
                /\ js[j] # NoJob
                /\ ~js[j].enabled
                /\ js[j].once
                /\ js[j].lastRunAt # Never
                /\ js[j].lastRunAt <= at - Retention}

\* The disk reads are done.  critical: the gateway's own storage is full, which
\* pauses every agent job listed; otherwise roots are the jobs whose project
\* disk is full.  Then the due jobs are launched and spent one-shots collected.
TickRun(t, critical, roots) ==
  LET tk == tick[t]
      affected == IF critical THEN tk.agents ELSE roots
      js == Paused(tk, affected)
      due == Due(js, tk.at)
      spent == Spent(js, tk.at)
  IN /\ tk # NoTick
     /\ roots \subseteq tk.agents
     /\ critical \/ roots # {} => "disk" \in Environment
     /\ Launch(due, js, "schedule", tk.at)
     /\ running' = running \cup due
     /\ jobs' = [j \in Jobs |-> IF j \in spent THEN NoJob ELSE js[j]]
     /\ runRow' = [r \in RunIds |-> IF r[1] \in spent THEN "none"
                                    ELSE IF r \in NewRuns(due) THEN "running" ELSE runRow[r]]
     /\ lastPurgeAt' = IF tk.at - lastPurgeAt >= PurgeInterval THEN tk.at ELSE lastPurgeAt
     /\ tick' = [tick EXCEPT ![t] = NoTick]
     /\ gone' = [j \in Jobs |-> IF j \in spent THEN "purged" ELSE gone[j]]
     /\ fired' = [j \in Jobs |-> IF j \in due /\ js[j].once THEN fired[j] + 1 ELSE fired[j]]
     /\ lastFiredAt' = [j \in Jobs |-> IF j \in due THEN tk.at ELSE lastFiredAt[j]]
     /\ UNCHANGED <<now, edits, lost>>

\* The watchdog throws (a pause could not be written): the jobs it paused until
\* then stay paused, and the tick launches nothing.
TickFails(t, done) ==
  /\ tick[t] # NoTick
  /\ "throw" \in Environment
  /\ done \subseteq tick[t].agents
  /\ done # {} => "disk" \in Environment
  /\ jobs' = Paused(tick[t], done)
  /\ tick' = [tick EXCEPT ![t] = NoTick]
  /\ UNCHANGED <<now, runRow, exec, running, lastPurgeAt, nextRun, history>>

------------------------------------------------------------------------------
\* The end of a run

\* Mutant: a failed one-shot stays armed.
OneShotOutcomeKeepsFailed(run, ok) ==
  IF run.by = "schedule" /\ run.once /\ ok THEN "delete" ELSE "keep"

\* oneShotOutcome, from the job record read before the tool ran
OneShotOutcome(run, ok) ==
  IF run.by # "schedule" \/ ~run.once THEN "keep"
  ELSE IF ok THEN "delete" ELSE "disarm"

\* Mutant: nothing is written when the job was removed during the run.
FinishIgnoresRemoved(r, ok) ==
  LET run == exec[r]
      j == r[1]
  IN /\ run # NoRun
     /\ exec' = [exec EXCEPT ![r] = NoRun]
     /\ running' = IF run.by = "schedule" THEN running \ {j} ELSE running
     /\ jobs' = IF ~Exists(j) THEN jobs
                ELSE [jobs EXCEPT ![j].lastRunAt = run.startedAt,
                                  ![j].enabled = @ /\ OneShotOutcome(run, ok) = "keep"]
     /\ runRow' = IF ~Exists(j) THEN runRow
                  ELSE [runRow EXCEPT ![r] = IF ok THEN "completed" ELSE "failed"]
     /\ UNCHANGED <<now, tick, lastPurgeAt, nextRun, history>>

\* The tool returns or throws (ok = FALSE): settle the run row, then delete,
\* disarm or stamp the job, and leave runningJobIds.
Finish(r, ok) ==
  LET run == exec[r]
      j == r[1]
      outcome == OneShotOutcome(run, ok)
  IN /\ run # NoRun
     /\ exec' = [exec EXCEPT ![r] = NoRun]
     /\ running' = IF run.by = "schedule" THEN running \ {j} ELSE running
     /\ IF outcome = "delete"
        THEN /\ jobs' = [jobs EXCEPT ![j] = NoJob]
             /\ runRow' = [q \in RunIds |-> IF q[1] = j THEN "none" ELSE runRow[q]]
             /\ gone' = [gone EXCEPT ![j] = IF Exists(j) THEN "delivered" ELSE @]
        ELSE /\ jobs' = IF ~Exists(j) THEN jobs
                        ELSE [jobs EXCEPT ![j].lastRunAt = run.startedAt,
                                          ![j].enabled = @ /\ outcome # "disarm"]
             /\ runRow' = IF runRow[r] = "none" THEN runRow
                          ELSE [runRow EXCEPT ![r] = IF ok THEN "completed" ELSE "failed"]
             /\ UNCHANGED gone
     /\ lastFiredAt' = [lastFiredAt EXCEPT ![j] = IF run.startedAt # @ THEN Never ELSE @]
     /\ UNCHANGED <<now, tick, lastPurgeAt, nextRun, fired, edits, lost>>

Scheduled(r) == exec[r] # NoRun /\ exec[r].by = "schedule"

\* The process dies and a new one starts.
Crash ==
  /\ "crash" \in Environment
  /\ exec' = [r \in RunIds |-> NoRun]
  /\ running' = {}
  /\ tick' = [t \in Ticks |-> NoTick]
  /\ lastPurgeAt' = -PurgeInterval
  /\ fired' = [j \in Jobs |-> IF \E r \in RunIds : r[1] = j /\ Scheduled(r) /\ exec[r].once /\ fired[j] > 0
                               THEN fired[j] - 1 ELSE fired[j]]
  /\ lastFiredAt' = [j \in Jobs |-> IF j \in running THEN Never ELSE lastFiredAt[j]]
  /\ lost' = lost \cup {r \in RunIds : exec[r] # NoRun}
  /\ UNCHANGED <<now, jobs, runRow, nextRun, gone, edits>>

Next ==
  \/ Clock
  \/ \E j \in Jobs, cron \in Crons, once \in BOOLEAN : Create(j, cron, once)
  \/ \E j \in Jobs, enabled \in BOOLEAN : SetEnabled(j, enabled)
  \/ \E j \in Jobs, cron \in Crons, once \in BOOLEAN : Edit(j, cron, once)
  \/ \E j \in Jobs : Remove(j)
  \/ \E j \in Jobs : ManualTrigger(j)
  \/ \E t \in Ticks : TickStart(t)
  \/ \E t \in Ticks, critical \in BOOLEAN, roots \in SUBSET AgentJobs : TickRun(t, critical, roots)
  \/ \E t \in Ticks, done \in SUBSET AgentJobs : TickFails(t, done)
  \/ \E r \in RunIds, ok \in BOOLEAN : Finish(r, ok)
  \/ Crash

Spec == Init /\ [][Next]_vars

------------------------------------------------------------------------------
\* Properties

\* Every variable keeps its type: a job is a whole row or none, never a remnant
\* that a late pause or a late end of a run has written.
TypeOK ==
  /\ now \in Minutes
  /\ jobs \in [Jobs -> Job \cup {NoJob}]
  /\ runRow \in [RunIds -> {"none", "running", "completed", "failed"}]
  /\ exec \in [RunIds -> Run \cup {NoRun}]
  /\ running \subseteq Jobs
  /\ tick \in [Ticks -> Tick \cup {NoTick}]
  /\ lastPurgeAt \in Int
  /\ nextRun \in [Jobs -> 1..(MaxRuns + 1)]
  /\ gone \in [Jobs -> {"unborn", "no", "removed", "delivered", "purged"}]
  /\ fired \in [Jobs -> Nat]
  /\ lastFiredAt \in [Jobs -> Minutes \cup {Never}]
  /\ edits \in [Jobs -> 0..MaxEdits]
  /\ lost \subseteq RunIds

\* However ticks overlap, a job has at most one scheduled run in flight, and
\* runningJobIds is exactly the set of jobs that have one: no job is launched
\* over itself and no finished run keeps its job out of later ticks.
NoOverlappingRuns ==
  /\ running = {r[1] : r \in {q \in RunIds : Scheduled(q)}}
  /\ \A r, q \in RunIds : Scheduled(r) /\ Scheduled(q) /\ r[1] = q[1] => r = q

\* Between two requests of a user that arm it, a job is launched at most once as a
\* one-shot, not counting launches during which the process died: neither a failed
\* run nor a pause, nor a run of an older form of the job, arms it again.
OneShotFiresOnce == \A j \in Jobs : fired[j] <= 1

\* A run row says "running" only as long as the run is in flight, whatever happened
\* to its job in the meantime, or if the process died during the run.
RunRowsSettle ==
  \A r \in RunIds : runRow[r] = "running" => exec[r] # NoRun \/ r \in lost

\* A removed, delivered or purged job never comes back: not from a run that ends
\* after the row is gone, not from a watchdog that listed the job before, and
\* not after a restart.
GoneStaysGone == \A j \in Jobs : Exists(j) <=> gone[j] = "no"

\* Two scheduled launches of a job in a row are never for the same minute, unless the
\* process died during the first or a run of another minute, whose stamp replaces
\* lastRunAt, ended after it: overlapping ticks of one minute launch once.
OneLaunchPerMinute ==
  [][\A r \in RunIds : ~Scheduled(r) /\ Scheduled(r)' =>
       exec'[r].startedAt # lastFiredAt[r[1]]]_vars
==============================================================================
