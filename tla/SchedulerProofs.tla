--------------------------- MODULE SchedulerProofs ---------------------------
(***************************************************************************)
(* Proofs about the job scheduler and its disk watchdog, for any number of *)
(* jobs, overlapping ticks, runs, edits and restarts.                      *)
(***************************************************************************)
EXTENDS Scheduler, TLAPS

\* A run id that has not been allotted is not in flight.
Fresh == \A r \in RunIds : exec[r] # NoRun => r[2] < nextRun[r[1]]

\* A job that has been fired as a one-shot is not armed any more, unless the run is
\* still in flight that will disarm or delete it.
Armed ==
  \A j \in Jobs :
    /\ fired[j] <= 1
    /\ fired[j] = 1 /\ Exists(j) /\ jobs[j].enabled =>
         \E r \in RunIds : r[1] = j /\ Scheduled(r) /\ exec[r].once

\* The minute of the latest launch is the one the job is stamped with, or the run
\* that will stamp it is in flight; a job that was never created has none.
Stamped ==
  \A j \in Jobs :
    /\ Exists(j) /\ lastFiredAt[j] # Never =>
         j \in running \/ jobs[j].lastRunAt = lastFiredAt[j]
    /\ gone[j] = "unborn" => lastFiredAt[j] = Never /\ fired[j] = 0

IInv ==
  /\ TypeOK /\ Fresh /\ NoOverlappingRuns /\ Armed /\ RunRowsSettle /\ GoneStaysGone /\ Stamped

\* The step OneLaunchPerMinute is about.
LaunchStep ==
  \A r \in RunIds : ~Scheduled(r) /\ Scheduled(r)' => exec'[r].startedAt # lastFiredAt[r[1]]

\* runningJobIds, pointwise.
RunningIs == \A j \in Jobs : j \in running <=> \E r \in RunIds : r[1] = j /\ Scheduled(r)
OneEach == \A r, q \in RunIds : Scheduled(r) /\ Scheduled(q) /\ r[1] = q[1] => r = q

\* The two forms of NoOverlappingRuns say the same.
LEMMA Pointwise ==
  ASSUME running \subseteq Jobs
  PROVE  NoOverlappingRuns <=> RunningIs /\ OneEach
<1>1. \A r \in RunIds : r[1] \in Jobs
  BY DEF RunIds
<1> QED BY <1>1 DEF NoOverlappingRuns, RunningIs, OneEach

\* The same of the next state.
LEMMA PointwiseNext ==
  ASSUME running' \subseteq Jobs
  PROVE  NoOverlappingRuns' <=> RunningIs' /\ OneEach'
<1>1. \A r \in RunIds : r[1] \in Jobs
  BY DEF RunIds
<1> QED BY <1>1 DEF NoOverlappingRuns, RunningIs, OneEach

------------------------------------------------------------------------------
\* Steps that leave the runs alone

\* The clock, and ticks that begin, touch no job and no run.
LEMMA QuietStep ==
  ASSUME IInv, TypeOK', UNCHANGED <<jobs, runRow, exec, running, nextRun, history>>
  PROVE  IInv' /\ LaunchStep
<1> USE DEF history
<1>1. Fresh' /\ RunRowsSettle' /\ GoneStaysGone'
  BY DEF IInv, Fresh, RunRowsSettle, GoneStaysGone, Exists
<1>2. NoOverlappingRuns' /\ Armed' /\ Stamped'
  BY DEF IInv, NoOverlappingRuns, Armed, Stamped, Exists, Scheduled
<1>3. LaunchStep
  BY DEF LaunchStep, Scheduled
<1> QED BY <1>1, <1>2, <1>3 DEF IInv

LEMMA ClockStep ==
  ASSUME IInv, Clock \/ (\E t \in Ticks : TickStart(t))
  PROVE  IInv' /\ LaunchStep
<1>1. CASE Clock
  <2>1. TypeOK'
    BY <1>1, SchedulerAssumption DEF Clock, IInv, TypeOK, Minutes, history
  <2> QED BY <1>1, <2>1, QuietStep DEF Clock
<1>2. ASSUME NEW t \in Ticks, TickStart(t) PROVE IInv' /\ LaunchStep
  <2>1. [at |-> now,
         agents |-> {j \in AgentJobs : Exists(j) /\ jobs[j].enabled},
         once |-> [j \in Jobs |-> Exists(j) /\ jobs[j].once]] \in Tick
    <3>1. now \in Minutes /\ {j \in AgentJobs : Exists(j) /\ jobs[j].enabled} \in SUBSET Jobs
      BY SchedulerAssumption DEF IInv, TypeOK
    <3>2. \A j \in Jobs : (Exists(j) /\ jobs[j].once) \in BOOLEAN
      OBVIOUS
    <3> QED BY <3>1, <3>2 DEF Tick
  <2>2. TypeOK'
    BY <1>2, <2>1 DEF TickStart, IInv, TypeOK, history
  <2> QED BY <1>2, <2>2, QuietStep DEF TickStart
<1> QED BY <1>1, <1>2

------------------------------------------------------------------------------
\* The requests of users

LEMMA CreateStep ==
  ASSUME IInv, NEW j \in Jobs, NEW cron \in Crons, NEW once \in BOOLEAN, Create(j, cron, once)
  PROVE  IInv' /\ LaunchStep
<1> DEFINE row == [enabled |-> TRUE, cron |-> cron, once |-> once, lastRunAt |-> Never]
<1>1. row \in Job
  BY SchedulerAssumption DEF Job, Minutes, Never
<1>2. row # NoJob
  BY <1>1, AbsentAssumption
<1> HIDE DEF row
<1>3. /\ jobs' = [jobs EXCEPT ![j] = row]
      /\ gone' = [gone EXCEPT ![j] = "no"]
      /\ gone[j] = "unborn"
      /\ UNCHANGED <<now, runRow, exec, running, tick, lastPurgeAt, nextRun, fired, lastFiredAt, edits, lost>>
  BY DEF Create, row
<1>4. TypeOK'
  BY <1>1, <1>3 DEF IInv, TypeOK
<1>5. Fresh' /\ NoOverlappingRuns' /\ RunRowsSettle' /\ LaunchStep
  BY <1>3 DEF IInv, Fresh, NoOverlappingRuns, Scheduled, RunRowsSettle, LaunchStep
<1>6. \A k \in Jobs : /\ k # j => jobs'[k] = jobs[k] /\ gone'[k] = gone[k]
                      /\ k = j => jobs'[k] = row /\ gone'[k] = "no"
  BY <1>3 DEF IInv, TypeOK
<1>7. GoneStaysGone'
  BY <1>2, <1>6 DEF IInv, GoneStaysGone, Exists
<1>8. Armed'
  BY <1>3, <1>6 DEF IInv, Armed, Stamped, Exists, Scheduled
<1>9. Stamped'
  BY <1>3, <1>6 DEF IInv, Stamped, Exists
<1> QED BY <1>4, <1>5, <1>7, <1>8, <1>9 DEF IInv

\* An update of a row that exists, by which the job is armed anew or not armed.
LEMMA UpdateStep ==
  ASSUME IInv, TypeOK', NEW j \in Jobs, Exists(j), NEW row \in Job,
         jobs' = [jobs EXCEPT ![j] = row],
         row.lastRunAt = jobs[j].lastRunAt,
         \/ fired' = [fired EXCEPT ![j] = 0]
         \/ fired' = fired /\ ~row.enabled,
         UNCHANGED <<runRow, exec, running, nextRun, gone, lastFiredAt, lost>>
  PROVE  IInv' /\ LaunchStep
<1>1. Fresh' /\ NoOverlappingRuns' /\ RunRowsSettle' /\ LaunchStep
  BY DEF IInv, Fresh, NoOverlappingRuns, Scheduled, RunRowsSettle, LaunchStep
<1>2. \A k \in Jobs : /\ k # j => jobs'[k] = jobs[k] /\ fired'[k] = fired[k]
                      /\ k = j => /\ jobs'[k] = row
                                  /\ fired'[k] = 0 \/ (fired'[k] = fired[k] /\ ~row.enabled)
  BY DEF IInv, TypeOK
<1>3. row # NoJob
  BY AbsentAssumption
<1>4. GoneStaysGone'
  BY <1>2, <1>3 DEF IInv, GoneStaysGone, Exists
<1>5. Armed'
  BY <1>2 DEF IInv, Armed, Exists, Scheduled
<1>6. Stamped'
  BY <1>2 DEF IInv, Stamped, Exists, GoneStaysGone
<1> QED BY <1>1, <1>4, <1>5, <1>6 DEF IInv

LEMMA UserStep ==
  ASSUME IInv, NEW j \in Jobs,
         \/ \E enabled \in BOOLEAN : SetEnabled(j, enabled)
         \/ \E cron \in Crons, once \in BOOLEAN : Edit(j, cron, once)
  PROVE  IInv' /\ LaunchStep
<1>1. ASSUME NEW enabled \in BOOLEAN, SetEnabled(j, enabled) PROVE IInv' /\ LaunchStep
  <2> DEFINE row == [jobs[j] EXCEPT !.enabled = enabled]
  <2>1. Exists(j) /\ jobs[j] \in Job
    BY <1>1 DEF SetEnabled, Exists, IInv, TypeOK
  <2>2. row \in Job /\ row.lastRunAt = jobs[j].lastRunAt /\ row.enabled = enabled
    BY <2>1 DEF Job
  <2>3. jobs' = [jobs EXCEPT ![j] = row]
    BY <1>1 DEF SetEnabled
  <2> HIDE DEF row
  <2>4. TypeOK'
    BY <1>1, <2>2, <2>3 DEF SetEnabled, IInv, TypeOK
  <2> QED BY <1>1, <2>1, <2>2, <2>3, <2>4, UpdateStep DEF SetEnabled
<1>2. ASSUME NEW cron \in Crons, NEW once \in BOOLEAN, Edit(j, cron, once)
      PROVE  IInv' /\ LaunchStep
  <2> DEFINE row == [jobs[j] EXCEPT !.cron = cron, !.once = once]
  <2>1. Exists(j) /\ jobs[j] \in Job
    BY <1>2 DEF Edit, Exists, IInv, TypeOK
  <2>2. row \in Job /\ row.lastRunAt = jobs[j].lastRunAt
    <3>1. cron \in SUBSET Minutes
      BY SchedulerAssumption DEF Minutes
    <3> QED BY <2>1, <3>1 DEF Job
  <2>3. jobs' = [jobs EXCEPT ![j] = row]
    <3>1. jobs' = [jobs EXCEPT ![j].cron = cron, ![j].once = once]
      BY <1>2 DEF Edit
    <3> QED BY <3>1 DEF IInv, TypeOK
  <2> HIDE DEF row
  <2>4. /\ edits[j] < MaxEdits
        /\ edits' = [edits EXCEPT ![j] = edits[j] + 1]
        /\ fired' = [fired EXCEPT ![j] = 0]
        /\ UNCHANGED <<now, runRow, exec, running, tick, lastPurgeAt, nextRun, gone, lastFiredAt, lost>>
    BY <1>2 DEF Edit
  <2>5. edits' \in [Jobs -> 0..MaxEdits]
    BY <2>4, SchedulerAssumption DEF IInv, TypeOK
  <2>6. TypeOK'
    BY <2>2, <2>3, <2>4, <2>5 DEF IInv, TypeOK
  <2> QED BY <2>1, <2>2, <2>3, <2>4, <2>6, UpdateStep
<1> QED BY <1>1, <1>2

LEMMA RemoveStep ==
  ASSUME IInv, NEW j \in Jobs, Remove(j)
  PROVE  IInv' /\ LaunchStep
<1>1. /\ jobs' = [jobs EXCEPT ![j] = NoJob]
      /\ gone' = [gone EXCEPT ![j] = "removed"]
      /\ UNCHANGED <<now, runRow, exec, running, tick, lastPurgeAt, nextRun, fired, lastFiredAt, edits, lost>>
  BY DEF Remove
<1>2. TypeOK'
  BY <1>1 DEF IInv, TypeOK
<1>3. Fresh' /\ NoOverlappingRuns' /\ RunRowsSettle' /\ LaunchStep
  BY <1>1 DEF IInv, Fresh, NoOverlappingRuns, Scheduled, RunRowsSettle, LaunchStep
<1>4. \A k \in Jobs : /\ k # j => jobs'[k] = jobs[k] /\ gone'[k] = gone[k]
                      /\ k = j => jobs'[k] = NoJob /\ gone'[k] = "removed"
  BY <1>1 DEF IInv, TypeOK
<1>5. GoneStaysGone' /\ Armed' /\ Stamped'
  BY <1>1, <1>4 DEF IInv, GoneStaysGone, Armed, Stamped, Exists, Scheduled
<1> QED BY <1>2, <1>3, <1>5 DEF IInv

------------------------------------------------------------------------------
\* Launches

\* The run that trigger() allots to j.
NewRun(j) == <<j, nextRun[j]>>

\* A launch gives every job of S a run id that was not in flight, and touches no
\* other run.
LEMMA LaunchRuns ==
  ASSUME TypeOK, Fresh, NEW S \in SUBSET Jobs, NEW js, \A j \in S : js[j] \in Job,
         NEW by \in Triggers, NEW at \in Minutes, Launch(S, js, by, at)
  PROVE  /\ \A r \in RunIds : r \in NewRuns(S) <=> r[1] \in S /\ r = NewRun(r[1])
         /\ \A j \in S : NewRun(j) \in RunIds /\ exec[NewRun(j)] = NoRun
         /\ \A r \in RunIds : r \notin NewRuns(S) => exec'[r] = exec[r]
         /\ \A r \in RunIds : r \in NewRuns(S) =>
               exec'[r] = [by |-> by, startedAt |-> at, once |-> js[r[1]].once]
         /\ \A r \in RunIds : r \in NewRuns(S) => exec'[r] \in Run /\ exec'[r] # NoRun
         /\ exec' \in [RunIds -> Run \cup {NoRun}]
         /\ nextRun' \in [Jobs -> 1..(MaxRuns + 1)]
         /\ Fresh'
<1>1. \A r \in RunIds : r[1] \in Jobs /\ r[2] \in 1..MaxRuns /\ r = <<r[1], r[2]>>
  BY DEF RunIds
<1>2. \A r \in RunIds : r \in NewRuns(S) <=> r[1] \in S /\ r = NewRun(r[1])
  BY <1>1 DEF NewRuns, NewRun
<1>3. \A j \in S : nextRun[j] \in 1..MaxRuns
  BY SchedulerAssumption DEF Launch, TypeOK
<1>4. \A j \in S : NewRun(j) \in RunIds /\ exec[NewRun(j)] = NoRun
  <2> TAKE j \in S
  <2>1. NewRun(j) \in RunIds /\ NewRun(j)[1] = j /\ NewRun(j)[2] = nextRun[j]
    BY <1>3 DEF NewRun, RunIds
  <2> QED BY <2>1, <1>3 DEF Fresh
<1>5. \A r \in RunIds : exec'[r] = IF r \in NewRuns(S)
                                   THEN [by |-> by, startedAt |-> at, once |-> js[r[1]].once]
                                   ELSE exec[r]
  BY DEF Launch
<1>6. \A r \in RunIds : r \in NewRuns(S) => exec'[r] \in Run /\ exec'[r] # NoRun
  <2> TAKE r \in RunIds
  <2> HAVE r \in NewRuns(S)
  <2>1. js[r[1]].once \in BOOLEAN
    BY <1>2 DEF Job
  <2>2. [by |-> by, startedAt |-> at, once |-> js[r[1]].once] \in Run
    BY <2>1 DEF Run
  <2>3. exec'[r] \in Run
    BY <1>5, <2>2
  <2> QED BY <2>3, AbsentAssumption
<1>7. exec' \in [RunIds -> Run \cup {NoRun}]
  BY <1>5, <1>6 DEF Launch, TypeOK
<1>8. nextRun' \in [Jobs -> 1..(MaxRuns + 1)]
  BY <1>3, SchedulerAssumption DEF Launch, TypeOK
<1>9. Fresh'
  <2> SUFFICES ASSUME NEW r \in RunIds, exec'[r] # NoRun PROVE r[2] < nextRun'[r[1]]
    BY DEF Fresh
  <2>1. nextRun[r[1]] \in Nat /\ r[2] \in Nat /\ r[1] \in Jobs
    BY <1>1 DEF TypeOK
  <2>2. nextRun'[r[1]] = IF r[1] \in S THEN nextRun[r[1]] + 1 ELSE nextRun[r[1]]
    BY <2>1 DEF Launch
  <2>3. CASE r \in NewRuns(S)
    <3>1. r[1] \in S /\ r[2] = nextRun[r[1]]
      BY <1>2, <2>3 DEF NewRun
    <3> QED BY <3>1, <2>1, <2>2
  <2>4. CASE r \notin NewRuns(S)
    <3>1. r[2] < nextRun[r[1]]
      BY <1>5, <2>4 DEF Fresh
    <3> QED BY <3>1, <2>1, <2>2
  <2> QED BY <2>3, <2>4
<1> QED BY <1>2, <1>4, <1>5, <1>6, <1>7, <1>8, <1>9

LEMMA ManualStep ==
  ASSUME IInv, NEW j \in Jobs, ManualTrigger(j)
  PROVE  IInv' /\ LaunchStep
<1>1. /\ Launch({j}, jobs, "manual", now)
      /\ runRow' = [r \in RunIds |-> IF r \in NewRuns({j}) THEN "running" ELSE runRow[r]]
      /\ UNCHANGED <<now, jobs, running, tick, lastPurgeAt, gone, fired, lastFiredAt, edits, lost>>
  BY DEF ManualTrigger, history
<1>2. /\ \A r \in RunIds : r \notin NewRuns({j}) => exec'[r] = exec[r]
      /\ \A r \in RunIds : r \in NewRuns({j}) => exec'[r] # NoRun /\ exec[r] = NoRun
      /\ \A r \in RunIds : r \in NewRuns({j}) => exec'[r].by = "manual"
      /\ exec' \in [RunIds -> Run \cup {NoRun}]
      /\ nextRun' \in [Jobs -> 1..(MaxRuns + 1)]
      /\ Fresh'
  <2>1. {j} \in SUBSET Jobs /\ \A k \in {j} : jobs[k] \in Job
    BY DEF ManualTrigger, Exists, IInv, TypeOK
  <2>2. "manual" \in Triggers /\ now \in Minutes
    BY DEF Triggers, IInv, TypeOK
  <2>3. /\ \A r \in RunIds : r \in NewRuns({j}) <=> r[1] \in {j} /\ r = NewRun(r[1])
        /\ \A k \in {j} : NewRun(k) \in RunIds /\ exec[NewRun(k)] = NoRun
        /\ \A r \in RunIds : r \notin NewRuns({j}) => exec'[r] = exec[r]
        /\ \A r \in RunIds : r \in NewRuns({j}) =>
              exec'[r] = [by |-> "manual", startedAt |-> now, once |-> jobs[r[1]].once]
        /\ \A r \in RunIds : r \in NewRuns({j}) => exec'[r] \in Run /\ exec'[r] # NoRun
        /\ exec' \in [RunIds -> Run \cup {NoRun}]
        /\ nextRun' \in [Jobs -> 1..(MaxRuns + 1)]
        /\ Fresh'
    BY <1>1, <2>1, <2>2, LaunchRuns DEF IInv
  <2>4. ASSUME NEW r \in RunIds, r \in NewRuns({j})
        PROVE  exec'[r].by = "manual"
    <3>1. exec'[r] = [by |-> "manual", startedAt |-> now, once |-> jobs[r[1]].once]
      BY <2>3, <2>4
    <3> QED BY <3>1
  <2>5. \A r \in RunIds : r \in NewRuns({j}) => exec[r] = NoRun
    BY <2>3
  <2> QED BY <2>3, <2>4, <2>5
<1>3. TypeOK'
  BY <1>1, <1>2 DEF IInv, TypeOK
<1>4. \A r \in RunIds : /\ Scheduled(r)' <=> Scheduled(r)
                        /\ Scheduled(r) => exec'[r] = exec[r]
  BY <1>2 DEF Scheduled
<1>5. LaunchStep
  BY <1>4 DEF LaunchStep
<1>6. NoOverlappingRuns'
  <2>1. RunningIs /\ OneEach
    BY Pointwise DEF IInv, TypeOK
  <2>2. RunningIs' /\ OneEach'
    BY <1>1, <1>4, <2>1 DEF RunningIs, OneEach
  <2> QED BY <1>3, <2>2, PointwiseNext DEF TypeOK
<1>7. Armed' /\ Stamped' /\ GoneStaysGone'
  BY <1>1, <1>4 DEF IInv, Armed, Stamped, GoneStaysGone, Exists
<1>8. RunRowsSettle'
  BY <1>1, <1>2 DEF IInv, RunRowsSettle
<1> QED BY <1>2, <1>3, <1>5, <1>6, <1>7, <1>8 DEF IInv

\* A pause keeps a row a row, leaves its stamp alone and arms nothing.
LEMMA PausedRows ==
  ASSUME TypeOK, NEW tk \in Tick, NEW affected
  PROVE  \A j \in Jobs :
           /\ Paused(tk, affected)[j] = NoJob <=> jobs[j] = NoJob
           /\ jobs[j] # NoJob => Paused(tk, affected)[j] \in Job
           /\ jobs[j] # NoJob => Paused(tk, affected)[j].lastRunAt = jobs[j].lastRunAt
           /\ jobs[j] # NoJob /\ Paused(tk, affected)[j].enabled => jobs[j].enabled
<1> TAKE j \in Jobs
<1>1. Paused(tk, affected)[j] = IF j \in affected /\ jobs[j] # NoJob
                                THEN [jobs[j] EXCEPT !.enabled = FALSE, !.once = tk.once[j]]
                                ELSE jobs[j]
  BY DEF Paused, Exists
<1>2. tk.once[j] \in BOOLEAN
  BY DEF Tick
<1>3. CASE j \in affected /\ jobs[j] # NoJob
  <2> DEFINE row == [jobs[j] EXCEPT !.enabled = FALSE, !.once = tk.once[j]]
  <2>1. jobs[j] \in Job
    BY <1>3 DEF TypeOK
  <2>2. row \in Job /\ row.lastRunAt = jobs[j].lastRunAt /\ ~row.enabled
    BY <1>2, <2>1 DEF Job
  <2>3. row # NoJob
    BY <2>2, AbsentAssumption
  <2> HIDE DEF row
  <2>4. Paused(tk, affected)[j] = row
    BY <1>1, <1>3 DEF row
  <2> QED BY <1>3, <2>2, <2>3, <2>4
<1>4. CASE ~(j \in affected /\ jobs[j] # NoJob)
  BY <1>1, <1>4 DEF TypeOK
<1> QED BY <1>3, <1>4

\* A tick that fails has at most paused some jobs.
LEMMA TickFailsStep ==
  ASSUME IInv, NEW t \in Ticks, NEW done \in SUBSET AgentJobs, TickFails(t, done)
  PROVE  IInv' /\ LaunchStep
<1>1. /\ jobs' = Paused(tick[t], done)
      /\ tick' = [tick EXCEPT ![t] = NoTick]
      /\ UNCHANGED <<now, runRow, exec, running, lastPurgeAt, nextRun, gone, fired, lastFiredAt, edits, lost>>
  BY DEF TickFails, history
<1>2. tick[t] \in Tick
  BY DEF TickFails, IInv, TypeOK
<1>3. \A j \in Jobs :
        /\ jobs'[j] = NoJob <=> jobs[j] = NoJob
        /\ jobs[j] # NoJob => jobs'[j] \in Job
        /\ jobs[j] # NoJob => jobs'[j].lastRunAt = jobs[j].lastRunAt
        /\ jobs[j] # NoJob /\ jobs'[j].enabled => jobs[j].enabled
  BY <1>1, <1>2, PausedRows DEF IInv
<1>4. TypeOK'
  <2>1. jobs' = [j \in Jobs |-> jobs'[j]]
    BY <1>1 DEF Paused
  <2>2. jobs' \in [Jobs -> Job \cup {NoJob}]
    BY <1>3, <2>1
  <2> QED BY <1>1, <2>2 DEF IInv, TypeOK
<1>5. Fresh' /\ NoOverlappingRuns' /\ RunRowsSettle' /\ LaunchStep
  BY <1>1 DEF IInv, Fresh, NoOverlappingRuns, Scheduled, RunRowsSettle, LaunchStep
<1>6. GoneStaysGone' /\ Armed' /\ Stamped'
  BY <1>1, <1>3 DEF IInv, GoneStaysGone, Armed, Stamped, Exists, Scheduled
<1> QED BY <1>4, <1>5, <1>6 DEF IInv

LEMMA TickRunStep ==
  ASSUME IInv, NEW t \in Ticks, NEW critical \in BOOLEAN, NEW roots \in SUBSET AgentJobs,
         TickRun(t, critical, roots)
  PROVE  IInv' /\ LaunchStep
<1> DEFINE tk == tick[t]
           js == Paused(tk, IF critical THEN tk.agents ELSE roots)
           due == Due(js, tk.at)
           spent == Spent(js, tk.at)
<1>1. /\ tk # NoTick
      /\ Launch(due, js, "schedule", tk.at)
      /\ running' = running \cup due
      /\ jobs' = [j \in Jobs |-> IF j \in spent THEN NoJob ELSE js[j]]
      /\ runRow' = [r \in RunIds |-> IF r[1] \in spent THEN "none"
                                     ELSE IF r \in NewRuns(due) THEN "running" ELSE runRow[r]]
      /\ lastPurgeAt' = IF tk.at - lastPurgeAt >= PurgeInterval THEN tk.at ELSE lastPurgeAt
      /\ tick' = [tick EXCEPT ![t] = NoTick]
      /\ gone' = [j \in Jobs |-> IF j \in spent THEN "purged" ELSE gone[j]]
      /\ fired' = [j \in Jobs |-> IF j \in due /\ js[j].once THEN fired[j] + 1 ELSE fired[j]]
      /\ lastFiredAt' = [j \in Jobs |-> IF j \in due THEN tk.at ELSE lastFiredAt[j]]
      /\ UNCHANGED <<now, edits, lost>>
  BY DEF TickRun
<1>2. tk \in Tick /\ tk.at \in Minutes /\ tk.at \in Int
  <2>1. tk \in Tick
    BY <1>1 DEF IInv, TypeOK
  <2>2. tk.at \in Minutes
    BY <2>1 DEF Tick
  <2> QED BY <2>1, <2>2 DEF Minutes
<1>3. \A j \in Jobs :
        /\ js[j] = NoJob <=> jobs[j] = NoJob
        /\ jobs[j] # NoJob => js[j] \in Job
        /\ jobs[j] # NoJob => js[j].lastRunAt = jobs[j].lastRunAt
        /\ jobs[j] # NoJob /\ js[j].enabled => jobs[j].enabled
  BY <1>2, PausedRows DEF IInv
<1> HIDE DEF js
<1>4. /\ due \in SUBSET Jobs
      /\ spent \in SUBSET Jobs
      /\ \A j \in due : /\ jobs[j] # NoJob /\ js[j] # NoJob
                        /\ js[j].enabled /\ jobs[j].enabled
                        /\ j \notin running
                        /\ jobs[j].lastRunAt # tk.at
                        /\ js[j] \in Job
      /\ \A j \in spent : jobs[j] # NoJob /\ ~js[j].enabled
  BY <1>3 DEF Due, Spent
<1> HIDE DEF due, spent
<1>5. /\ \A r \in RunIds : r \in NewRuns(due) <=> r[1] \in due /\ r = NewRun(r[1])
      /\ \A j \in due : NewRun(j) \in RunIds /\ exec[NewRun(j)] = NoRun
      /\ \A r \in RunIds : r \notin NewRuns(due) => exec'[r] = exec[r]
      /\ \A r \in RunIds : r \in NewRuns(due) =>
            exec'[r] = [by |-> "schedule", startedAt |-> tk.at, once |-> js[r[1]].once]
      /\ \A r \in RunIds : r \in NewRuns(due) => exec'[r] \in Run /\ exec'[r] # NoRun
      /\ exec' \in [RunIds -> Run \cup {NoRun}]
      /\ nextRun' \in [Jobs -> 1..(MaxRuns + 1)]
      /\ Fresh'
  BY <1>1, <1>2, <1>4, LaunchRuns DEF IInv, Triggers
<1>6. /\ \A j \in Jobs : jobs'[j] = IF j \in spent THEN NoJob ELSE js[j]
      /\ \A j \in Jobs : gone'[j] = IF j \in spent THEN "purged" ELSE gone[j]
      /\ \A j \in Jobs : fired'[j] = IF j \in due /\ js[j].once THEN fired[j] + 1 ELSE fired[j]
      /\ \A j \in Jobs : lastFiredAt'[j] = IF j \in due THEN tk.at ELSE lastFiredAt[j]
      /\ \A j \in Jobs : j \in running' <=> j \in running \/ j \in due
  BY <1>1
<1>7. TypeOK'
  <2>1. jobs' \in [Jobs -> Job \cup {NoJob}] /\ gone' \in [Jobs -> {"unborn", "no", "removed", "delivered", "purged"}]
    BY <1>1, <1>3 DEF IInv, TypeOK
  <2>2. fired' \in [Jobs -> Nat] /\ lastFiredAt' \in [Jobs -> Minutes \cup {Never}]
    BY <1>1, <1>2 DEF IInv, TypeOK
  <2>3. tick' \in [Ticks -> Tick \cup {NoTick}] /\ lastPurgeAt' \in Int
    BY <1>1, <1>2 DEF IInv, TypeOK
  <2>4. runRow' \in [RunIds -> {"none", "running", "completed", "failed"}] /\ running' \subseteq Jobs
    BY <1>1, <1>4 DEF IInv, TypeOK
  <2> HIDE DEF tk
  <2>5. now' \in Minutes /\ edits' \in [Jobs -> 0..MaxEdits] /\ lost' \subseteq RunIds
    BY <1>1 DEF IInv, TypeOK
  <2> QED BY <1>5, <2>1, <2>2, <2>3, <2>4, <2>5 DEF TypeOK
<1> HIDE DEF tk
<1>8. RunningIs /\ OneEach
  BY Pointwise DEF IInv, TypeOK
<1>9. \A r \in RunIds : /\ r \in NewRuns(due) => Scheduled(r)' /\ ~Scheduled(r)
                        /\ r \notin NewRuns(due) => (Scheduled(r)' <=> Scheduled(r))
  BY <1>5 DEF Scheduled
<1>10. \A r \in RunIds : Scheduled(r) => r[1] \in Jobs /\ r[1] \notin due /\ exec'[r] = exec[r]
  <2>1. \A r \in RunIds : Scheduled(r) => r[1] \in running
    BY <1>8 DEF RunningIs, RunIds
  <2>2. \A r \in RunIds : r[1] \in Jobs
    BY DEF RunIds
  <2> QED BY <2>1, <2>2, <1>4, <1>5, <1>9
<1>11. \A j \in due : \E r \in RunIds : r \in NewRuns(due) /\ r[1] = j /\ Scheduled(r)'
  <2> TAKE j \in due
  <2>1. PICK r \in RunIds : r = NewRun(j)
    BY <1>5
  <2>2. r[1] = j
    BY <2>1 DEF NewRun
  <2>3. r \in NewRuns(due)
    BY <1>5, <2>1, <2>2
  <2> QED BY <1>9, <2>2, <2>3
<1>12. NoOverlappingRuns'
  <2>1. RunningIs'
    <3> SUFFICES ASSUME NEW j \in Jobs
                 PROVE  j \in running' <=> \E r \in RunIds : r[1] = j /\ Scheduled(r)'
      BY DEF RunningIs
    <3>1. ASSUME j \in due PROVE \E r \in RunIds : r[1] = j /\ Scheduled(r)'
      BY <1>11, <3>1
    <3>2. ASSUME j \in running PROVE \E r \in RunIds : r[1] = j /\ Scheduled(r)'
      BY <1>8, <1>9, <3>2 DEF RunningIs
    <3>3. ASSUME NEW r \in RunIds, r[1] = j, Scheduled(r)' PROVE j \in running \/ j \in due
      BY <1>5, <1>8, <1>9, <3>3 DEF RunningIs
    <3> QED BY <1>6, <3>1, <3>2, <3>3
  <2>2. OneEach'
    <3> SUFFICES ASSUME NEW r \in RunIds, NEW q \in RunIds, Scheduled(r)', Scheduled(q)', r[1] = q[1]
                 PROVE  r = q
      BY DEF OneEach
    <3>1. CASE r[1] \in due
      BY <1>5, <1>9, <1>10, <3>1
    <3>2. CASE r[1] \notin due
      BY <1>5, <1>8, <1>9, <3>2 DEF OneEach
    <3> QED BY <3>1, <3>2
  <2> QED BY <1>7, <2>1, <2>2, PointwiseNext DEF TypeOK
<1>13. \A j \in due : fired[j] = 0
  <2>1. \A j \in due : ~\E r \in RunIds : r[1] = j /\ Scheduled(r)
    BY <1>10
  <2>2. \A j \in due : fired[j] <= 1 /\ fired[j] # 1
    BY <1>4, <2>1 DEF IInv, Armed, Exists
  <2>3. \A j \in due : fired[j] \in Nat
    BY <1>4 DEF IInv, TypeOK
  <2> QED BY <2>2, <2>3
<1>14. Armed'
  <2> SUFFICES ASSUME NEW j \in Jobs
               PROVE  /\ fired'[j] <= 1
                      /\ fired'[j] = 1 /\ jobs'[j] # NoJob /\ jobs'[j].enabled =>
                           \E r \in RunIds : r[1] = j /\ Scheduled(r)' /\ exec'[r].once
    BY DEF Armed, Exists
  <2>1. CASE j \in due /\ js[j].once
    <3>1. PICK r \in RunIds : r \in NewRuns(due) /\ r[1] = j /\ Scheduled(r)'
      BY <1>11, <2>1
    <3>2. exec'[r].once
      BY <1>5, <2>1, <3>1
    <3>3. fired'[j] = 1
      BY <1>6, <1>13, <2>1
    <3> QED BY <3>1, <3>2, <3>3
  <2>2. CASE j \in due /\ ~js[j].once
    BY <1>6, <1>13, <2>2
  <2>3. CASE j \notin due
    <3>1. fired'[j] = fired[j] /\ (jobs'[j] # NoJob /\ jobs'[j].enabled => jobs[j] # NoJob /\ jobs[j].enabled)
      BY <1>3, <1>6, <2>3
    <3>2. fired[j] <= 1 /\ (fired[j] = 1 /\ jobs[j] # NoJob /\ jobs[j].enabled =>
                              \E r \in RunIds : r[1] = j /\ Scheduled(r) /\ exec[r].once)
      BY DEF IInv, Armed, Exists
    <3>3. \A r \in RunIds : Scheduled(r) => Scheduled(r)' /\ exec'[r] = exec[r]
      BY <1>9, <1>10
    <3> QED BY <3>1, <3>2, <3>3
  <2> QED BY <2>1, <2>2, <2>3
<1>15. GoneStaysGone'
  BY <1>3, <1>6 DEF IInv, GoneStaysGone, Exists
<1>16. Stamped'
  <2> SUFFICES ASSUME NEW j \in Jobs
               PROVE  /\ jobs'[j] # NoJob /\ lastFiredAt'[j] # Never =>
                           j \in running' \/ jobs'[j].lastRunAt = lastFiredAt'[j]
                      /\ gone'[j] = "unborn" => lastFiredAt'[j] = Never /\ fired'[j] = 0
    BY DEF Stamped, Exists
  <2>1. CASE j \in due
    BY <1>4, <1>6, <2>1 DEF IInv, GoneStaysGone, Exists
  <2>2. CASE j \notin due
    BY <1>3, <1>6, <2>2 DEF IInv, Stamped, Exists
  <2> QED BY <2>1, <2>2
<1>17. RunRowsSettle'
  BY <1>1, <1>5 DEF IInv, RunRowsSettle
<1>18. LaunchStep
  <2> SUFFICES ASSUME NEW r \in RunIds, ~Scheduled(r), Scheduled(r)'
               PROVE  exec'[r].startedAt # lastFiredAt[r[1]]
    BY DEF LaunchStep
  <2>1. r[1] \in due /\ r[1] \in Jobs /\ exec'[r].startedAt = tk.at
    BY <1>4, <1>5, <1>9
  <2>2. tk.at # Never
    BY <1>2, SchedulerAssumption DEF Minutes, Never
  <2> QED BY <1>4, <2>1, <2>2 DEF IInv, Stamped, Exists
<1> QED BY <1>5, <1>7, <1>12, <1>14, <1>15, <1>16, <1>17, <1>18 DEF IInv

------------------------------------------------------------------------------
\* The end of a run, and of the process

\* What the end of a run writes into the job's row.
LEMMA FinishRow ==
  ASSUME TypeOK, NEW r \in RunIds, NEW ok \in BOOLEAN, Finish(r, ok)
  PROVE  /\ r[1] \in Jobs
         /\ exec[r] \in Run
         /\ \A k \in Jobs : k # r[1] => jobs'[k] = jobs[k] /\ gone'[k] = gone[k]
         /\ \/ jobs'[r[1]] = NoJob /\ gone'[r[1]] = (IF Exists(r[1]) THEN "delivered" ELSE gone[r[1]])
            \/ /\ Exists(r[1]) /\ jobs'[r[1]] \in Job /\ gone'[r[1]] = gone[r[1]]
               /\ jobs'[r[1]].lastRunAt = exec[r].startedAt
               /\ jobs'[r[1]].enabled =>
                    jobs[r[1]].enabled /\ ~(exec[r].by = "schedule" /\ exec[r].once)
         /\ jobs' \in [Jobs -> Job \cup {NoJob}]
         /\ gone' \in [Jobs -> {"unborn", "no", "removed", "delivered", "purged"}]
<1> DEFINE j == r[1]
           outcome == OneShotOutcome(exec[r], ok)
<1>1. j \in Jobs /\ exec[r] \in Run
  BY DEF RunIds, TypeOK, Finish
<1>2. exec[r].startedAt \in Minutes /\ exec[r].once \in BOOLEAN
  BY <1>1 DEF Run
<1>3. CASE outcome = "delete"
  <2>1. /\ jobs' = [jobs EXCEPT ![j] = NoJob]
        /\ gone' = [gone EXCEPT ![j] = IF Exists(j) THEN "delivered" ELSE gone[j]]
    BY <1>3 DEF Finish
  <2> HIDE DEF j
  <2>2. /\ \A k \in Jobs : k # j => jobs'[k] = jobs[k] /\ gone'[k] = gone[k]
        /\ jobs'[j] = NoJob /\ gone'[j] = (IF Exists(j) THEN "delivered" ELSE gone[j])
        /\ jobs' \in [Jobs -> Job \cup {NoJob}]
        /\ gone' \in [Jobs -> {"unborn", "no", "removed", "delivered", "purged"}]
    BY <1>1, <2>1 DEF TypeOK
  <2> QED BY <1>1, <2>2 DEF j
<1>4. CASE outcome # "delete" /\ ~Exists(j)
  <2>1. jobs' = jobs /\ gone' = gone
    BY <1>4 DEF Finish
  <2> QED BY <1>1, <1>4, <2>1 DEF TypeOK, Exists
<1>5. CASE outcome # "delete" /\ Exists(j)
  <2> DEFINE row == [jobs[j] EXCEPT !.lastRunAt = exec[r].startedAt,
                                    !.enabled = jobs[j].enabled /\ outcome # "disarm"]
  <2>1. jobs[j] \in Job
    BY <1>1, <1>5 DEF Exists, TypeOK
  <2>0. gone' = gone
    BY <1>5 DEF Finish
  <2>2. jobs' = [jobs EXCEPT ![j].lastRunAt = exec[r].startedAt,
                             ![j].enabled = @ /\ outcome # "disarm"]
    BY <1>5 DEF Finish
  <2>3. outcome = "keep" => ~(exec[r].by = "schedule" /\ exec[r].once)
    BY <1>5 DEF OneShotOutcome
  <2>4. outcome \in {"keep", "disarm"}
    BY <1>5 DEF OneShotOutcome
  <2> HIDE DEF outcome
  <2>5. jobs' = [jobs EXCEPT ![j] = row]
    BY <1>1, <2>1, <2>2 DEF TypeOK, Job
  <2>6. /\ row \in Job
        /\ row.lastRunAt = exec[r].startedAt
        /\ row.enabled => jobs[j].enabled /\ outcome # "disarm"
    BY <1>2, <2>1 DEF Job
  <2> HIDE DEF row
  <2>7. /\ \A k \in Jobs : k # j => jobs'[k] = jobs[k] /\ gone'[k] = gone[k]
        /\ jobs'[j] = row /\ gone'[j] = gone[j]
        /\ jobs' \in [Jobs -> Job \cup {NoJob}]
        /\ gone' \in [Jobs -> {"unborn", "no", "removed", "delivered", "purged"}]
    BY <1>1, <2>0, <2>5, <2>6 DEF TypeOK
  <2> QED BY <1>1, <1>5, <2>3, <2>4, <2>6, <2>7
<1> QED BY <1>3, <1>4, <1>5

LEMMA FinishStep ==
  ASSUME IInv, NEW r \in RunIds, NEW ok \in BOOLEAN, Finish(r, ok)
  PROVE  IInv' /\ LaunchStep
<1> DEFINE j == r[1]
           run == exec[r]
           settled == IF ok THEN "completed" ELSE "failed"
<1>1. /\ exec[r] # NoRun
      /\ exec' = [exec EXCEPT ![r] = NoRun]
      /\ running' = IF run.by = "schedule" THEN running \ {j} ELSE running
      /\ \/ runRow' = [q \in RunIds |-> IF q[1] = j THEN "none" ELSE runRow[q]]
         \/ runRow[r] = "none" /\ runRow' = runRow
         \/ runRow' = [runRow EXCEPT ![r] = settled]
      /\ lastFiredAt' = [lastFiredAt EXCEPT ![j] = IF run.startedAt # lastFiredAt[j] THEN Never ELSE lastFiredAt[j]]
      /\ UNCHANGED <<now, tick, lastPurgeAt, nextRun, fired, edits, lost>>
  BY DEF Finish
<1>2. /\ j \in Jobs
      /\ run \in Run
      /\ \A k \in Jobs : k # j => jobs'[k] = jobs[k] /\ gone'[k] = gone[k]
      /\ \/ jobs'[j] = NoJob /\ gone'[j] = (IF Exists(j) THEN "delivered" ELSE gone[j])
         \/ /\ Exists(j) /\ jobs'[j] \in Job /\ gone'[j] = gone[j]
            /\ jobs'[j].lastRunAt = run.startedAt
            /\ jobs'[j].enabled => jobs[j].enabled /\ ~(run.by = "schedule" /\ run.once)
      /\ jobs' \in [Jobs -> Job \cup {NoJob}]
      /\ gone' \in [Jobs -> {"unborn", "no", "removed", "delivered", "purged"}]
  BY FinishRow DEF IInv
<1>3. /\ \A q \in RunIds : q # r => exec'[q] = exec[q]
      /\ exec'[r] = NoRun
      /\ \A k \in Jobs : k # j => lastFiredAt'[k] = lastFiredAt[k]
      /\ lastFiredAt'[j] = IF run.startedAt # lastFiredAt[j] THEN Never ELSE lastFiredAt[j]
  BY <1>1, <1>2 DEF IInv, TypeOK
<1>4. \A q \in RunIds : q[1] \in Jobs
  BY DEF RunIds
<1> HIDE DEF j
<1>5. TypeOK'
  <2>1. runRow' \in [RunIds -> {"none", "running", "completed", "failed"}] /\ running' \subseteq Jobs
    BY <1>1 DEF IInv, TypeOK
  <2>2. exec' \in [RunIds -> Run \cup {NoRun}] /\ lastFiredAt' \in [Jobs -> Minutes \cup {Never}]
    BY <1>1, <1>2 DEF IInv, TypeOK
  <2>3. /\ now' \in Minutes /\ tick' \in [Ticks -> Tick \cup {NoTick}] /\ lastPurgeAt' \in Int
        /\ nextRun' \in [Jobs -> 1..(MaxRuns + 1)] /\ fired' \in [Jobs -> Nat]
        /\ edits' \in [Jobs -> 0..MaxEdits] /\ lost' \subseteq RunIds
    BY <1>1 DEF IInv, TypeOK
  <2> QED BY <1>2, <2>1, <2>2, <2>3 DEF TypeOK
<1>6. \A q \in RunIds : Scheduled(q)' <=> Scheduled(q) /\ q # r
  BY <1>3 DEF Scheduled
<1>7. Fresh' /\ LaunchStep
  BY <1>1, <1>3, <1>6 DEF IInv, Fresh, LaunchStep
<1>8. NoOverlappingRuns'
  <2>1. RunningIs /\ OneEach
    BY Pointwise DEF IInv, TypeOK
  <2>2. OneEach'
    BY <1>6, <2>1 DEF OneEach
  <2>3. CASE run.by = "schedule"
    <3>1. Scheduled(r)
      BY <1>1, <2>3 DEF Scheduled
    <3>2. \A q \in RunIds : Scheduled(q) /\ q[1] = j => q = r
      BY <2>1, <3>1 DEF OneEach, j
    <3>3. \A q \in RunIds : Scheduled(q)' <=> Scheduled(q) /\ q[1] # j
      BY <1>6, <3>2 DEF j
    <3>4. RunningIs'
      BY <1>1, <2>1, <2>3, <3>3 DEF RunningIs
    <3> QED BY <1>5, <2>2, <3>4, PointwiseNext DEF TypeOK
  <2>4. CASE run.by # "schedule"
    <3>1. \A q \in RunIds : Scheduled(q)' <=> Scheduled(q)
      BY <1>6, <2>4 DEF Scheduled
    <3>2. RunningIs'
      BY <1>1, <2>1, <2>4, <3>1 DEF RunningIs
    <3> QED BY <1>5, <2>2, <3>2, PointwiseNext DEF TypeOK
  <2> QED BY <2>3, <2>4
<1>9. Armed'
  <2> SUFFICES ASSUME NEW k \in Jobs
               PROVE  /\ fired'[k] <= 1
                      /\ fired'[k] = 1 /\ jobs'[k] # NoJob /\ jobs'[k].enabled =>
                           \E q \in RunIds : q[1] = k /\ Scheduled(q)' /\ exec'[q].once
    BY DEF Armed, Exists
  <2>1. fired'[k] = fired[k] /\ fired[k] <= 1
    BY <1>1 DEF IInv, Armed
  <2> SUFFICES ASSUME fired[k] = 1, jobs'[k] # NoJob, jobs'[k].enabled
               PROVE  \E q \in RunIds : q[1] = k /\ Scheduled(q)' /\ exec'[q].once
    BY <2>1
  <2>2. jobs[k] # NoJob /\ jobs[k].enabled /\ (k = j => ~(run.by = "schedule" /\ run.once))
    BY <1>2 DEF Exists
  <2>3. PICK q \in RunIds : q[1] = k /\ Scheduled(q) /\ exec[q].once
    BY <2>2 DEF IInv, Armed, Exists
  <2>4. q # r
    BY <2>2, <2>3 DEF j, Scheduled
  <2> QED BY <1>3, <1>6, <2>3, <2>4
<1>10. GoneStaysGone'
  <2>1. jobs'[j] \in Job => jobs'[j] # NoJob
    BY AbsentAssumption
  <2> QED BY <1>2, <2>1 DEF IInv, GoneStaysGone, Exists
<1>11. Stamped'
  <2> SUFFICES ASSUME NEW k \in Jobs
               PROVE  /\ jobs'[k] # NoJob /\ lastFiredAt'[k] # Never =>
                           k \in running' \/ jobs'[k].lastRunAt = lastFiredAt'[k]
                      /\ gone'[k] = "unborn" => lastFiredAt'[k] = Never /\ fired'[k] = 0
    BY DEF Stamped, Exists
  <2>1. /\ jobs[k] # NoJob /\ lastFiredAt[k] # Never => k \in running \/ jobs[k].lastRunAt = lastFiredAt[k]
        /\ gone[k] = "unborn" => lastFiredAt[k] = Never /\ fired[k] = 0
    BY DEF IInv, Stamped, Exists
  <2>2. CASE k # j
    BY <1>1, <1>2, <1>3, <2>1, <2>2
  <2>3. CASE k = j
    BY <1>1, <1>2, <1>3, <2>1, <2>3
  <2> QED BY <2>2, <2>3
<1>12. RunRowsSettle'
  <2> SUFFICES ASSUME NEW q \in RunIds, runRow'[q] = "running"
               PROVE  exec'[q] # NoRun \/ q \in lost'
    BY DEF RunRowsSettle
  <2>1. runRow[q] = "running" /\ q # r
    BY <1>1 DEF j, IInv, TypeOK
  <2> QED BY <1>1, <1>3, <2>1 DEF IInv, RunRowsSettle
<1> QED BY <1>5, <1>7, <1>8, <1>9, <1>10, <1>11, <1>12 DEF IInv

LEMMA CrashStep ==
  ASSUME IInv, Crash
  PROVE  IInv' /\ LaunchStep
<1>1. /\ exec' = [r \in RunIds |-> NoRun]
      /\ running' = {}
      /\ tick' = [t \in Ticks |-> NoTick]
      /\ lastPurgeAt' = -PurgeInterval
      /\ \A j \in Jobs : fired'[j] = IF \E r \in RunIds : r[1] = j /\ Scheduled(r) /\ exec[r].once /\ fired[j] > 0
                                     THEN fired[j] - 1 ELSE fired[j]
      /\ fired' = [j \in Jobs |-> fired'[j]]
      /\ lastFiredAt' = [j \in Jobs |-> IF j \in running THEN Never ELSE lastFiredAt[j]]
      /\ lost' = lost \cup {r \in RunIds : exec[r] # NoRun}
      /\ UNCHANGED <<now, jobs, runRow, nextRun, gone, edits>>
  BY DEF Crash
<1>2. \A j \in Jobs : /\ fired[j] \in Nat /\ fired[j] <= 1
                      /\ fired'[j] \in Nat /\ fired'[j] <= fired[j]
                      /\ fired'[j] = 1 => ~\E r \in RunIds : r[1] = j /\ Scheduled(r) /\ exec[r].once
  <2> TAKE j \in Jobs
  <2>1. fired[j] \in Nat /\ fired[j] <= 1
    BY DEF IInv, TypeOK, Armed
  <2>2. CASE \E r \in RunIds : r[1] = j /\ Scheduled(r) /\ exec[r].once /\ fired[j] > 0
    <3>1. fired'[j] = fired[j] - 1 /\ fired[j] > 0
      BY <1>1, <2>2
    <3> QED BY <2>1, <3>1
  <2>3. CASE ~\E r \in RunIds : r[1] = j /\ Scheduled(r) /\ exec[r].once /\ fired[j] > 0
    <3>1. fired'[j] = fired[j]
      BY <1>1, <2>3
    <3>2. fired[j] = 1 => fired[j] > 0
      OBVIOUS
    <3> QED BY <2>1, <2>3, <3>1, <3>2
  <2> QED BY <2>2, <2>3
<1>3. TypeOK'
  <2>1. fired' \in [Jobs -> Nat]
    BY <1>1, <1>2
  <2>2. lastFiredAt' \in [Jobs -> Minutes \cup {Never}] /\ lastPurgeAt' \in Int
    BY <1>1, SchedulerAssumption DEF IInv, TypeOK
  <2> QED BY <1>1, <2>1, <2>2 DEF IInv, TypeOK
<1>4. \A r \in RunIds : ~Scheduled(r)'
  BY <1>1 DEF Scheduled
<1>5. NoOverlappingRuns' /\ Fresh' /\ LaunchStep
  <2>1. RunningIs' /\ OneEach'
    BY <1>1, <1>4 DEF RunningIs, OneEach
  <2>2. Fresh' /\ LaunchStep
    BY <1>1, <1>4 DEF Fresh, LaunchStep
  <2> QED BY <1>3, <2>1, <2>2, PointwiseNext DEF TypeOK
<1>6. Armed'
  <2> SUFFICES ASSUME NEW j \in Jobs
               PROVE  fired'[j] <= 1 /\ (fired'[j] = 1 => ~(jobs[j] # NoJob /\ jobs[j].enabled))
    BY <1>1 DEF Armed, Exists
  <2>1. fired'[j] = 1 => fired[j] = 1
    BY <1>2
  <2>2. fired'[j] <= 1
    BY <1>2
  <2> QED BY <1>2, <2>1, <2>2 DEF IInv, Armed, Exists
<1>7. GoneStaysGone'
  BY <1>1 DEF IInv, GoneStaysGone, Exists
<1>8. Stamped'
  <2>1. \A j \in Jobs : fired[j] = 0 => fired'[j] = 0
    BY <1>2
  <2> QED BY <1>1, <2>1 DEF IInv, Stamped, Exists
<1>9. RunRowsSettle'
  BY <1>1 DEF IInv, RunRowsSettle
<1> QED BY <1>3, <1>5, <1>6, <1>7, <1>8, <1>9 DEF IInv

------------------------------------------------------------------------------
\* The theorems

LEMMA InitIInv == Init => IInv
<1> SUFFICES ASSUME Init PROVE IInv
  OBVIOUS
<1>1. TypeOK
  BY SchedulerAssumption DEF Init, TypeOK, Minutes, Never
<1>2. Fresh /\ RunRowsSettle /\ GoneStaysGone /\ Stamped /\ Armed
  BY DEF Init, Fresh, RunRowsSettle, GoneStaysGone, Stamped, Armed, Exists
<1>3. NoOverlappingRuns
  BY DEF Init, NoOverlappingRuns, Scheduled
<1> QED BY <1>1, <1>2, <1>3 DEF IInv

LEMMA NextStep == IInv /\ [Next]_vars => IInv' /\ [LaunchStep]_vars
<1> SUFFICES ASSUME IInv, [Next]_vars PROVE IInv' /\ [LaunchStep]_vars
  OBVIOUS
<1>1. CASE UNCHANGED vars
  <2>1. TypeOK'
    BY <1>1 DEF vars, history, IInv, TypeOK
  <2> QED BY <1>1, <2>1, QuietStep DEF vars
<1>2. CASE Next
  BY <1>2, ClockStep, CreateStep, UserStep, RemoveStep, ManualStep, TickFailsStep, TickRunStep,
     FinishStep, CrashStep DEF Next
<1> QED BY <1>1, <1>2

LEMMA IInvAlways == Spec => []IInv
<1> QED BY InitIInv, NextStep, PTL DEF Spec

\* However ticks overlap, whoever triggers, edits or removes the job meanwhile and
\* wherever the process dies, a job has at most one scheduled run in flight and
\* runningJobIds is exactly the jobs that have one; every row is a whole row or none.
THEOREM ScheduledRunsDoNotOverlap == Spec => [](TypeOK /\ NoOverlappingRuns)
<1>1. IInv => TypeOK /\ NoOverlappingRuns
  BY DEF IInv
<1> QED BY <1>1, IInvAlways, PTL

\* A one-shot job is launched at most once between two requests that arm it, unless
\* the process dies in the run.
THEOREM OneShotsFireOnce == Spec => []OneShotFiresOnce
<1>1. IInv => OneShotFiresOnce
  BY DEF IInv, Armed, OneShotFiresOnce
<1> QED BY <1>1, IInvAlways, PTL

\* A run row left in "running" belongs to a run in flight or to one a crash cut off.
THEOREM RunRowsAreSettled == Spec => []RunRowsSettle
<1>1. IInv => RunRowsSettle
  BY DEF IInv
<1> QED BY <1>1, IInvAlways, PTL

\* No late pause, late end of a run or restart brings a removed, delivered or purged
\* job back.
THEOREM GoneJobsStayGone == Spec => []GoneStaysGone
<1>1. IInv => GoneStaysGone
  BY DEF IInv
<1> QED BY <1>1, IInvAlways, PTL

\* Two successive scheduled launches of a job are for different minutes, short of a
\* crash or of a run of another minute that ends in between.
THEOREM MinutesAreLaunchedOnce == Spec => OneLaunchPerMinute
<1>1. IInv /\ [Next]_vars => [LaunchStep]_vars
  BY NextStep
<1> QED BY <1>1, IInvAlways, PTL DEF Spec, OneLaunchPerMinute, LaunchStep

==============================================================================
