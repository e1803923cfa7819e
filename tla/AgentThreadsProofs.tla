------------------------- MODULE AgentThreadsProofs -------------------------
(***************************************************************************)
(* Proofs about the agent threads, for any number of threads, requests,    *)
(* attempts and restarts.                                                  *)
(***************************************************************************)
EXTENDS AgentThreads, FiniteSetTheorems, TLAPS

\* The variables the argument reads are functions of their index, and a session
\* belongs to the thread whose row names it.
Shape ==
  /\ status \in [Threads -> Statuses]
  /\ session = [t \in Threads |-> session[t]]
  /\ recovery = [t \in Threads |-> recovery[t]]
  /\ startedBy \in [Threads -> Sources]
  /\ req = [r \in Slots |-> req[r]]
  /\ sweep = [t \in Threads |-> sweep[t]]
  /\ \A t \in Threads : session[t] # None => session[t][1] = t
  /\ None \notin halting
  /\ stopped \in [Threads -> Nat] /\ nextSession \in [Threads -> Nat]

\* A stop takes the recovery row with it, and only a row lets recovery run.
StopInv ==
  \A t \in Threads : stopped[t] # 0 => recovery[t] = None /\ status[t] # "running"

\* While a halt is on, what a request or recovery runs is being stopped.
HaltInv ==
  halted /\ ~haltErrors =>
    \A t \in Threads : status[t] = "running" /\ startedBy[t] \in {"caller", "recovery"}
                       => session[t] \in halting

\* The attempts of a row stay within the limit because the list a sweep works
\* from agrees with the rows: a row's attempts change only by its own request's
\* claim, and a request exists only after its entry was taken.
Attempts(t) ==
  /\ recovery[t] # None => recovery[t].attempts \in 0..MaxAttempts
  /\ req[t] # None => req[t].thread = t
  /\ sweep[t] # None => /\ req[t] = None
                        /\ recovery[t] # None => recovery[t].attempts = sweep[t]
  /\ ~sweeping => sweep[t] = None /\ req[t] = None
  /\ /\ req[t] # None /\ req[t].phase \in {"entering", "checking", "stopping-stale"}
     /\ recovery[t] # None
     => recovery[t].attempts < MaxAttempts

AttemptInv == \A t \in Threads : Attempts(t)

IInv == Shape /\ StopInv /\ HaltInv /\ AttemptInv

\* A fresh database holds no row that could break the invariant.
LEMMA InitIInv == Init => IInv
  BY AgentThreadsAssumption DEF Init, IInv, Shape, StopInv, HaltInv, AttemptInv, Attempts,
       Statuses, Sources, Slots

\* A request that moves on without touching its row: its phase before the claim
\* is followed only by a phase before the claim, or by its reply.
LEMMA GotoKeepsAttempts ==
  ASSUME IInv,
         NEW r \in Slots, NEW phase, NEW s, NEW code,
         InPhase(r, "checking") \/ InPhase(r, "stopping-stale"),
         Goto(r, req[r].thread, phase, s, code),
         UNCHANGED <<recovery, sweep, sweeping>>
  PROVE  AttemptInv'
<1>1. SUFFICES ASSUME NEW u \in Threads PROVE Attempts(u)'
  BY DEF AttemptInv
<1>2. CASE u = r
  <2>1. req[u].thread = u /\ sweep[u] = None /\ sweeping
    BY <1>2 DEF IInv, AttemptInv, Attempts, InPhase
  <2>2. req'[u].thread = u
    BY <1>2, <2>1 DEF IInv, Shape, Goto
  <2>3. recovery[u] # None => recovery[u].attempts < MaxAttempts
    BY <1>2 DEF IInv, AttemptInv, Attempts, InPhase
  <2>4. recovery'[u] = recovery[u] /\ sweep'[u] = None /\ sweeping'
    BY <2>1
  <2>5. QED
    BY <2>2, <2>3, <2>4 DEF IInv, AttemptInv, Attempts
<1>3. CASE u # r
  <2>1. req'[u] = req[u]
    BY <1>3 DEF IInv, Shape, Goto, Slots
  <2>2. QED
    BY <2>1 DEF IInv, AttemptInv, Attempts
<1>4. QED
  BY <1>2, <1>3

\* A claim counts one attempt of a row that had not reached the limit.
LEMMA ClaimKeepsAttempts ==
  ASSUME IInv,
         NEW r \in Slots,
         InPhase(r, "checking") \/ InPhase(r, "stopping-stale"),
         Claim(r),
         UNCHANGED <<sweep, sweeping>>
  PROVE  AttemptInv'
<1>1. SUFFICES ASSUME NEW u \in Threads PROVE Attempts(u)'
  BY DEF AttemptInv
<1>2. CASE u = r
  <2>1. req[r].thread = u /\ Recovering(r) /\ sweep[u] = None /\ sweeping
    BY <1>2 DEF IInv, AttemptInv, Attempts, InPhase, Recovering
  <2>2. CASE halted \/ ~Claimable(u)
    <3>1. UNCHANGED recovery /\ \E code : Reply(r, code)
      BY <1>2, <2>1, <2>2 DEF Claim
    <3>2. AttemptInv'
      BY <3>1, GotoKeepsAttempts DEF Reply
    <3>3. QED
      BY <3>2 DEF AttemptInv
  <2>3. CASE ~halted /\ Claimable(u)
    <3>1. recovery[u].attempts \in Nat /\ recovery[u].attempts < MaxAttempts /\ MaxAttempts \in Nat
      BY <1>2, <2>3, AgentThreadsAssumption DEF IInv, AttemptInv, Attempts, InPhase,
           Claimable
    <3>2. recovery'[u].attempts = recovery[u].attempts + 1
      BY <1>2, <2>1, <2>3 DEF IInv, Shape, Claim
    <3>3. req'[u].phase = "starting" /\ req'[u].thread = u
      BY <1>2, <2>1, <2>3 DEF IInv, Shape, Claim, Goto
    <3>4. QED
      BY <2>1, <3>1, <3>2, <3>3 DEF Attempts
  <2>4. QED
    BY <2>2, <2>3
<1>3. CASE u # r
  <2>1. req'[u] = req[u]
    BY <1>3 DEF IInv, Shape, Claim, Reply, Goto, Slots
  <2>2. recovery'[u] \in {recovery[u], None}
    <3>1. CASE r \in Threads
      BY <1>3, <3>1 DEF IInv, Shape, AttemptInv, Attempts, Claim, InPhase, Recovering
    <3>2. CASE r \notin Threads
      BY <1>3, <3>2 DEF IInv, Shape, Claim, ClearRecovery, Recovering
    <3>3. QED
      BY <3>1, <3>2
  <2>3. QED
    BY <2>1, <2>2 DEF IInv, AttemptInv, Attempts
<1>4. QED
  BY <1>2, <1>3

\* The start route up to its first await writes only the caller's own slot.
LEMMA CallerStartStep ==
  ASSUME IInv,
       NEW c \in Callers,
       NEW t \in Threads,
       CallerStart(c, t)
  PROVE  IInv'
<1>1. Shape'
  BY DEF IInv, Shape, Statuses, Sources, CallerStart, Enter, Goto, rows, waits, steering,
       workers, hist
<1>2. StopInv'
  BY DEF IInv, Shape, StopInv, CallerStart, Enter, Goto, rows, waits, steering, workers,
       hist
<1>3. HaltInv'
  BY DEF IInv, Shape, HaltInv, CallerStart, Enter, Goto, rows, waits, steering, workers,
       hist
<1>4. AttemptInv'
  <2>1. SUFFICES ASSUME NEW u \in Threads PROVE Attempts(u)'
    BY DEF AttemptInv
  <2>2. req'[u] = req[u] /\ UNCHANGED <<recovery, sweep, sweeping>>
    BY AgentThreadsAssumption DEF IInv, Shape, Slots, CallerStart, Enter, Goto, rows, waits
  <2>3. QED
    BY <2>2 DEF IInv, AttemptInv, Attempts
<1>5. QED
  BY <1>1, <1>2, <1>3, <1>4 DEF IInv

\* A message is sent to a thread that is not halted: it runs, and no stop stands any more.
LEMMA SendStep ==
  ASSUME IInv,
       NEW c \in Callers,
       NEW t \in Threads,
       Send(c, t)
  PROVE  IInv'
<1>1. Shape'
  BY DEF IInv, Shape, Statuses, Sources, Send, Goto, MarkRunning, waits, steering, bounds
<1>2. StopInv'
  <2>1. UNCHANGED recovery
    BY DEF Send
  <2>2. CASE UNCHANGED <<status, stopped>>
    BY <2>1, <2>2 DEF IInv, StopInv
  <2>3. CASE MarkRunning(t, session[t], "caller")
    BY <2>1, <2>3 DEF IInv, Shape, StopInv, MarkRunning
  <2>4. QED
    BY <2>2, <2>3 DEF Send
<1>3. HaltInv'
  BY DEF IInv, Shape, HaltInv, Send, Goto, MarkRunning, waits, steering, bounds
<1>4. AttemptInv'
  <2>1. UNCHANGED <<recovery, sweep, sweeping>>
    BY DEF Send
  <2>2. \A u \in Threads : req'[u] = req[u]
    BY AgentThreadsAssumption DEF IInv, Shape, Slots, Send, Goto
  <2>3. QED
    BY <2>1, <2>2 DEF IInv, AttemptInv, Attempts
<1>5. QED
  BY <1>1, <1>2, <1>3, <1>4 DEF IInv

\* The availability check answers; a recovery may claim its row and count the attempt.
LEMMA CheckDoneStep ==
  ASSUME IInv,
       NEW r \in Slots,
       NEW outcome \in {"ok", "unavailable", "bad"},
       CheckDone(r, outcome)
  PROVE  IInv'
<1>1. Shape'
  BY DEF IInv, Shape, Statuses, Sources, CheckDone, InPhase, Claim, Claimable,
       ClearRecovery, Reply, Goto, Recovering, waits, steering, workers, bounds, hist
<1>2. StopInv'
  BY DEF IInv, Shape, StopInv, CheckDone, InPhase, Claim, Claimable, ClearRecovery, Reply,
       Goto, Recovering, waits, steering, workers, bounds, hist
<1>3. HaltInv'
  BY DEF IInv, Shape, HaltInv, CheckDone, InPhase, Claim, Claimable, ClearRecovery, Reply,
       Goto, Recovering, waits, steering, workers, bounds, hist
<1>4. AttemptInv'
  <2>1. CASE Claim(r)
    BY <2>1, ClaimKeepsAttempts DEF CheckDone, waits, steering, workers, bounds, hist
  <2>2. CASE ~Claim(r)
    <3>1. PICK phase, s, code : Goto(r, req[r].thread, phase, s, code)
      BY <2>2 DEF CheckDone, Reply
    <3>2. UNCHANGED <<recovery, sweep, sweeping>>
      BY <2>2 DEF CheckDone
    <3>3. InPhase(r, "checking") \/ InPhase(r, "stopping-stale")
      BY DEF CheckDone
    <3>4. QED
      BY <3>1, <3>2, <3>3, GotoKeepsAttempts
  <2>3. QED
    BY <2>1, <2>2
<1>5. QED
  BY <1>1, <1>2, <1>3, <1>4 DEF IInv

\* The left-behind remote session is gone; a recovery may claim its row.
LEMMA StaleStoppedStep ==
  ASSUME IInv,
       NEW r \in Slots,
       NEW ok \in BOOLEAN,
       StaleStopped(r, ok)
  PROVE  IInv'
<1>1. Shape'
  BY DEF IInv, Shape, Statuses, Sources, StaleStopped, InPhase, Claim, Claimable,
       ClearRecovery, Reply, Goto, Recovering, waits, steering, bounds, hist
<1>2. StopInv'
  BY DEF IInv, Shape, StopInv, StaleStopped, InPhase, Claim, Claimable, ClearRecovery,
       Reply, Goto, Recovering, waits, steering, bounds, hist
<1>3. HaltInv'
  BY DEF IInv, Shape, HaltInv, StaleStopped, InPhase, Claim, Claimable, ClearRecovery,
       Reply, Goto, Recovering, waits, steering, bounds, hist
<1>4. AttemptInv'
  <2>1. CASE Claim(r)
    BY <2>1, ClaimKeepsAttempts DEF StaleStopped, waits, steering, bounds, hist
  <2>2. CASE ~Claim(r)
    <3>1. PICK phase, s, code : Goto(r, req[r].thread, phase, s, code)
      BY <2>2 DEF StaleStopped, Reply
    <3>2. UNCHANGED <<recovery, sweep, sweeping>>
      BY <2>2 DEF StaleStopped
    <3>3. InPhase(r, "checking") \/ InPhase(r, "stopping-stale")
      BY DEF StaleStopped
    <3>4. QED
      BY <3>1, <3>2, <3>3, GotoKeepsAttempts
  <2>3. QED
    BY <2>1, <2>2
<1>5. QED
  BY <1>1, <1>2, <1>3, <1>4 DEF IInv

\* A session nobody wants is stopped; at worst the thread is marked in error.
LEMMA DiscardedStep ==
  ASSUME IInv,
       NEW r \in Slots,
       NEW ok \in BOOLEAN,
       Discarded(r, ok)
  PROVE  IInv'
<1>1. Shape'
  BY DEF IInv, Shape, Statuses, Sources, Discarded, InPhase, Reply, Goto, Mark,
       ClearRecovery, rows, waits, bounds, hist
<1>2. StopInv'
  BY DEF IInv, Shape, StopInv, Discarded, InPhase, Reply, Goto, Mark, ClearRecovery, rows,
       waits, bounds, hist
<1>3. HaltInv'
  BY DEF IInv, Shape, HaltInv, Discarded, InPhase, Reply, Goto, Mark, ClearRecovery, rows,
       waits, bounds, hist
<1>4. AttemptInv'
  <2>1. SUFFICES ASSUME NEW u \in Threads PROVE Attempts(u)'
    BY DEF AttemptInv
  <2>2. CASE u = r
    BY <2>2, AgentThreadsAssumption DEF IInv, Shape, AttemptInv, Attempts, Slots,
         Discarded, InPhase, Reply, Goto, Mark, ClearRecovery, rows, waits, bounds, hist
  <2>3. CASE u # r
    BY <2>3, AgentThreadsAssumption DEF IInv, Shape, AttemptInv, Attempts, Slots,
         Discarded, InPhase, Reply, Goto, Mark, ClearRecovery, rows, waits, bounds, hist
  <2>4. QED
    BY <2>2, <2>3
<1>5. QED
  BY <1>1, <1>2, <1>3, <1>4 DEF IInv

\* A session is up: the halt and the recovery row are looked at once more.
LEMMA StartedStep ==
  ASSUME IInv,
       NEW r \in Slots,
       Started(r)
  PROVE  IInv'
<1>1. Shape'
  <2>1. /\ status' \in [Threads -> Statuses] /\ startedBy' \in [Threads -> Sources]
        /\ stopped' \in [Threads -> Nat]
    <3>1. CASE UNCHANGED <<status, startedBy, stopped>>
      BY <3>1 DEF IInv, Shape
    <3>2. ASSUME NEW x, NEW who \in {"caller", "recovery"}, MarkRunning(req[r].thread, x, who)
          PROVE  /\ status' \in [Threads -> Statuses] /\ startedBy' \in [Threads -> Sources]
                 /\ stopped' \in [Threads -> Nat]
      <4>1. status' = [status EXCEPT ![req[r].thread] = "running"]
        BY <3>2 DEF MarkRunning
      <4>2. startedBy' = [startedBy EXCEPT ![req[r].thread] = who] /\ who \in Sources
        BY <3>2 DEF MarkRunning, Sources
      <4>3. stopped' = stopped \/ stopped' = [stopped EXCEPT ![req[r].thread] = 0]
        BY <3>2 DEF MarkRunning
      <4>4. /\ status \in [Threads -> Statuses] /\ startedBy \in [Threads -> Sources]
            /\ stopped \in [Threads -> Nat]
        BY DEF IInv, Shape
      <4>5. "running" \in Statuses
        BY DEF Statuses
      <4>6. status' \in [Threads -> Statuses]
        BY <4>1, <4>4, <4>5
      <4>7. startedBy' \in [Threads -> Sources]
        BY <4>2, <4>4
      <4>8. stopped' \in [Threads -> Nat]
        BY <4>3, <4>4
      <4>9. QED
        BY <4>6, <4>7, <4>8
    <3>3. QED
      BY <3>1, <3>2 DEF Started
  <2>2. nextSession' \in [Threads -> Nat]
    <3>1. /\ nextSession \in [Threads -> Nat]
          /\ nextSession' = [nextSession EXCEPT ![req[r].thread] = @ + 1]
      BY DEF IInv, Shape, Started
    <3>2. CASE req[r].thread \in Threads
      BY <3>1, <3>2
    <3>3. CASE req[r].thread \notin Threads
      BY <3>1, <3>3
    <3>4. QED
      BY <3>2, <3>3
  <2>3. /\ session' = [t \in Threads |-> session'[t]]
        /\ \A t \in Threads : session'[t] # None => session'[t][1] = t
    <3>1. PICK t, x : /\ x[1] = t
                      /\ UNCHANGED session \/ session' = [session EXCEPT ![t] = x]
      <4>1. <<req[r].thread, nextSession[req[r].thread]>>[1] = req[r].thread
        OBVIOUS
      <4>2. QED
        BY <4>1 DEF Started, MarkRunning
    <3>2. /\ session = [u \in Threads |-> session[u]]
          /\ \A u \in Threads : session[u] # None => session[u][1] = u
      BY DEF IInv, Shape
    <3>3. QED
      BY <3>1, <3>2
  <2>4. req' = [x \in Slots |-> req'[x]]
    BY DEF IInv, Shape, Started, Reply, Goto
  <2>5. QED
    BY <2>1, <2>2, <2>3, <2>4 DEF IInv, Shape, Started, waits
<1>2. StopInv'
  <2>1. UNCHANGED recovery
    BY DEF Started
  <2>2. CASE UNCHANGED <<status, stopped>>
    BY <2>1, <2>2 DEF IInv, StopInv
  <2>3. CASE \E x : MarkRunning(req[r].thread, x, "caller")
    BY <2>1, <2>3 DEF IInv, Shape, StopInv, MarkRunning
  <2>4. CASE /\ recovery[req[r].thread] # None
             /\ \E x : MarkRunning(req[r].thread, x, "recovery")
    BY <2>1, <2>4 DEF IInv, Shape, StopInv, MarkRunning
  <2>5. QED
    BY <2>2, <2>3, <2>4 DEF Started
<1>3. HaltInv'
  BY DEF IInv, Shape, HaltInv, Started, InPhase, Reply, Goto, MarkRunning, Recovering,
       waits, bounds
<1>4. AttemptInv'
  <2>1. SUFFICES ASSUME NEW u \in Threads PROVE Attempts(u)'
    BY DEF AttemptInv
  <2>2. CASE u = r
    BY <2>2, AgentThreadsAssumption DEF IInv, Shape, AttemptInv, Attempts, Slots, Started,
         InPhase, Reply, Goto, MarkRunning, Recovering, waits, bounds
  <2>3. CASE u # r
    BY <2>3, AgentThreadsAssumption DEF IInv, Shape, AttemptInv, Attempts, Slots, Started,
         InPhase, Reply, Goto, MarkRunning, Recovering, waits, bounds
  <2>4. QED
    BY <2>2, <2>3
<1>5. QED
  BY <1>1, <1>2, <1>3, <1>4 DEF IInv

\* startSession rejects: the row is marked in error and leaves the queue.
LEMMA StartFailsStep ==
  ASSUME IInv,
       NEW r \in Slots,
       StartFails(r)
  PROVE  IInv'
<1>1. Shape'
  BY DEF IInv, Shape, Statuses, Sources, StartFails, InPhase, Reply, Goto, Mark,
       ClearRecovery, waits, workers, bounds, hist
<1>2. StopInv'
  BY DEF IInv, Shape, StopInv, StartFails, InPhase, Reply, Goto, Mark, ClearRecovery,
       waits, workers, bounds, hist
<1>3. HaltInv'
  BY DEF IInv, Shape, HaltInv, StartFails, InPhase, Reply, Goto, Mark, ClearRecovery,
       waits, workers, bounds, hist
<1>4. AttemptInv'
  BY AgentThreadsAssumption DEF IInv, Shape, AttemptInv, Attempts, Slots, StartFails,
       InPhase, Reply, Goto, Mark, ClearRecovery, waits, workers, bounds, hist
<1>5. QED
  BY <1>1, <1>2, <1>3, <1>4 DEF IInv

\* A reply is collected: only the caller's slot changes.
LEMMA CollectStep ==
  ASSUME IInv,
       NEW c \in Callers,
       Collect(c)
  PROVE  IInv'
<1>1. Shape'
  BY DEF IInv, Shape, Statuses, Sources, Collect, InPhase, rows, waits, steering, workers,
       bounds, hist
<1>2. StopInv'
  BY DEF IInv, Shape, StopInv, Collect, InPhase, rows, waits, steering, workers, bounds,
       hist
<1>3. HaltInv'
  BY DEF IInv, Shape, HaltInv, Collect, InPhase, rows, waits, steering, workers, bounds,
       hist
<1>4. AttemptInv'
  BY AgentThreadsAssumption DEF IInv, Shape, AttemptInv, Attempts, Slots, Collect,
       InPhase, rows, waits, steering, workers, bounds, hist
<1>5. QED
  BY <1>1, <1>2, <1>3, <1>4 DEF IInv

\* sendTurn returns or rejects.
LEMMA SendDoneStep ==
  ASSUME IInv,
       NEW c \in Callers,
       NEW ok \in BOOLEAN,
       SendDone(c, ok)
  PROVE  IInv'
<1>1. Shape'
  BY DEF IInv, Shape, Statuses, Sources, SendDone, InPhase, Reply, Goto, Mark,
       ClearRecovery, rows, waits, steering, workers, bounds, hist
<1>2. StopInv'
  BY DEF IInv, Shape, StopInv, SendDone, InPhase, Reply, Goto, Mark, ClearRecovery, rows,
       waits, steering, workers, bounds, hist
<1>3. HaltInv'
  BY DEF IInv, Shape, HaltInv, SendDone, InPhase, Reply, Goto, Mark, ClearRecovery, rows,
       waits, steering, workers, bounds, hist
<1>4. AttemptInv'
  <2>1. UNCHANGED <<sweep, sweeping>>
    BY DEF SendDone
  <2>2. \A u \in Threads : req'[u] = req[u]
    BY AgentThreadsAssumption DEF IInv, Shape, Slots, SendDone, Reply, Goto
  <2>3. \A u \in Threads : recovery'[u] \in {recovery[u], None}
    BY DEF IInv, Shape, SendDone, Mark, ClearRecovery, rows
  <2>4. QED
    BY <2>1, <2>2, <2>3 DEF IInv, AttemptInv, Attempts
<1>5. QED
  BY <1>1, <1>2, <1>3, <1>4 DEF IInv

\* The sweep reads the queue: every entry carries its row's attempts.
LEMMA SweepStartStep ==
  ASSUME IInv,
       SweepStart
  PROVE  IInv'
<1>1. Shape'
  BY DEF IInv, Shape, Statuses, Sources, SweepStart, rows, waits, steering, workers,
       bounds, hist
<1>2. StopInv'
  BY DEF IInv, Shape, StopInv, SweepStart, rows, waits, steering, workers, bounds, hist
<1>3. HaltInv'
  BY DEF IInv, Shape, HaltInv, SweepStart, rows, waits, steering, workers, bounds, hist
<1>4. AttemptInv'
  BY AgentThreadsAssumption DEF IInv, Shape, AttemptInv, Attempts, Slots, SweepStart,
       rows, waits, steering, workers, bounds, hist
<1>5. QED
  BY <1>1, <1>2, <1>3, <1>4 DEF IInv

\* The sweep ends when no entry and no request is left.
LEMMA SweepEndStep ==
  ASSUME IInv,
       SweepEnd
  PROVE  IInv'
<1>1. Shape'
  BY DEF IInv, Shape, Statuses, Sources, SweepEnd, rows, waits, steering, workers, bounds,
       hist
<1>2. StopInv'
  BY DEF IInv, Shape, StopInv, SweepEnd, rows, waits, steering, workers, bounds, hist
<1>3. HaltInv'
  BY DEF IInv, Shape, HaltInv, SweepEnd, rows, waits, steering, workers, bounds, hist
<1>4. AttemptInv'
  BY AgentThreadsAssumption DEF IInv, Shape, AttemptInv, Attempts, Slots, SweepEnd, rows,
       waits, steering, workers, bounds, hist
<1>5. QED
  BY <1>1, <1>2, <1>3, <1>4 DEF IInv

\* An entry is taken: dropped, given up, or turned into a request below the limit.
LEMMA SweepTakeStep ==
  ASSUME IInv,
       NEW t \in Threads,
       SweepTake(t)
  PROVE  IInv'
<1>1. Shape'
  <2>1. status' \in [Threads -> Statuses]
    BY DEF IInv, Shape, Statuses, SweepTake, ClearRecovery, Mark, GivenUp, Goto, rows
  <2>2. session' = [u \in Threads |-> session'[u]] /\ recovery' = [u \in Threads |-> recovery'[u]]
    BY DEF IInv, Shape, SweepTake, ClearRecovery, Mark, GivenUp, Goto, rows
  <2>3. req' = [r \in Slots |-> req'[r]] /\ sweep' = [u \in Threads |-> sweep'[u]]
    BY DEF IInv, Shape, SweepTake, ClearRecovery, Mark, GivenUp, Goto, rows
  <2>4. \A u \in Threads : session'[u] \in {session[u], None}
    BY DEF IInv, Shape, SweepTake, ClearRecovery, Mark, GivenUp, Goto, rows
  <2>5. QED
    BY <2>1, <2>2, <2>3, <2>4 DEF IInv, Shape, SweepTake, waits, workers, hist
<1>2. StopInv'
  BY DEF IInv, Shape, StopInv, SweepTake, ClearRecovery, Mark, GivenUp, Goto, rows, waits,
       steering, workers, bounds, hist
<1>3. HaltInv'
  BY DEF IInv, Shape, HaltInv, SweepTake, ClearRecovery, Mark, GivenUp, Goto, rows, waits,
       steering, workers, bounds, hist
<1>4. AttemptInv'
  <2>1. SUFFICES ASSUME NEW u \in Threads PROVE Attempts(u)'
    BY DEF AttemptInv
  <2>2. CASE u = t
    BY <2>2, AgentThreadsAssumption DEF IInv, Shape, AttemptInv, Attempts, Slots,
         SweepTake, ClearRecovery, Mark, GivenUp, Goto, rows, waits, steering, workers,
         bounds, hist
  <2>3. CASE u # t
    BY <2>3, AgentThreadsAssumption DEF IInv, Shape, AttemptInv, Attempts, Slots,
         SweepTake, ClearRecovery, Mark, GivenUp, Goto, rows, waits, steering, workers,
         bounds, hist
  <2>4. QED
    BY <2>2, <2>3
<1>5. QED
  BY <1>1, <1>2, <1>3, <1>4 DEF IInv

\* The injected request enters the start route.
LEMMA RecoveryEnterStep ==
  ASSUME IInv,
       NEW t \in Threads,
       RecoveryEnter(t)
  PROVE  IInv'
<1>1. Shape'
  BY DEF IInv, Shape, Statuses, Sources, RecoveryEnter, InPhase, Enter, Goto, rows, waits,
       steering, workers, bounds, hist
<1>2. StopInv'
  BY DEF IInv, Shape, StopInv, RecoveryEnter, InPhase, Enter, Goto, rows, waits, steering,
       workers, bounds, hist
<1>3. HaltInv'
  BY DEF IInv, Shape, HaltInv, RecoveryEnter, InPhase, Enter, Goto, rows, waits, steering,
       workers, bounds, hist
<1>4. AttemptInv'
  <2>1. SUFFICES ASSUME NEW u \in Threads PROVE Attempts(u)'
    BY DEF AttemptInv
  <2>2. CASE u = t
    BY <2>2, AgentThreadsAssumption DEF IInv, Shape, AttemptInv, Attempts, Slots,
         RecoveryEnter, InPhase, Enter, Goto, rows, waits, steering, workers, bounds, hist
  <2>3. CASE u # t
    BY <2>3, AgentThreadsAssumption DEF IInv, Shape, AttemptInv, Attempts, Slots,
         RecoveryEnter, InPhase, Enter, Goto, rows, waits, steering, workers, bounds, hist
  <2>4. QED
    BY <2>2, <2>3
<1>5. QED
  BY <1>1, <1>2, <1>3, <1>4 DEF IInv

\* The sweep reads the reply of its request.
LEMMA RecoveryRepliedStep ==
  ASSUME IInv,
       NEW t \in Threads,
       RecoveryReplied(t)
  PROVE  IInv'
<1>1. Shape'
  BY DEF IInv, Shape, Statuses, Sources, RecoveryReplied, InPhase, Mark, ClearRecovery,
       rows, waits, steering, workers, bounds, hist
<1>2. StopInv'
  BY DEF IInv, Shape, StopInv, RecoveryReplied, InPhase, Mark, ClearRecovery, rows, waits,
       steering, workers, bounds, hist
<1>3. HaltInv'
  BY DEF IInv, Shape, HaltInv, RecoveryReplied, InPhase, Mark, ClearRecovery, rows, waits,
       steering, workers, bounds, hist
<1>4. AttemptInv'
  BY AgentThreadsAssumption DEF IInv, Shape, AttemptInv, Attempts, Slots, RecoveryReplied,
       InPhase, Mark, ClearRecovery, rows, waits, steering, workers, bounds, hist
<1>5. QED
  BY <1>1, <1>2, <1>3, <1>4 DEF IInv

\* The first turn is refused: the thread is marked in error.
LEMMA FirstTurnFailsStep ==
  ASSUME IInv,
       NEW t \in Threads,
       FirstTurnFails(t)
  PROVE  IInv'
<1>1. Shape'
  BY DEF IInv, Shape, Statuses, Sources, FirstTurnFails, Mark, ClearRecovery, requests,
       waits, bounds, hist
<1>2. StopInv'
  BY DEF IInv, Shape, StopInv, FirstTurnFails, Mark, ClearRecovery, requests, waits,
       bounds, hist
<1>3. HaltInv'
  BY DEF IInv, Shape, HaltInv, FirstTurnFails, Mark, ClearRecovery, requests, waits,
       bounds, hist
<1>4. AttemptInv'
  BY AgentThreadsAssumption DEF IInv, Shape, AttemptInv, Attempts, Slots, FirstTurnFails,
       Mark, ClearRecovery, requests, waits, bounds, hist
<1>5. QED
  BY <1>1, <1>2, <1>3, <1>4 DEF IInv

\* A steering message is queued: no row changes.
LEMMA SteerStep ==
  ASSUME IInv,
       NEW t \in Threads,
       Steer(t)
  PROVE  IInv'
<1>1. Shape'
  BY DEF IInv, Shape, Statuses, Sources, Steer, rows, requests, waits, workers, bounds, hist
<1>2. StopInv'
  BY DEF IInv, Shape, StopInv, Steer, rows, requests, waits, workers, bounds, hist
<1>3. HaltInv'
  BY DEF IInv, Shape, HaltInv, Steer, rows, requests, waits, workers, bounds, hist
<1>4. AttemptInv'
  BY AgentThreadsAssumption DEF IInv, Shape, AttemptInv, Attempts, Slots, Steer, rows,
       requests, waits, workers, bounds, hist
<1>5. QED
  BY <1>1, <1>2, <1>3, <1>4 DEF IInv

\* The execution guard parks the turn; the row leaves the queue.
LEMMA BlockStep ==
  ASSUME IInv,
       NEW t \in Threads,
       Block(t)
  PROVE  IInv'
<1>1. Shape'
  BY DEF IInv, Shape, Statuses, Sources, Block, ClearRecovery, requests, waits, bounds, hist
<1>2. StopInv'
  BY DEF IInv, Shape, StopInv, Block, ClearRecovery, requests, waits, bounds, hist
<1>3. HaltInv'
  BY DEF IInv, Shape, HaltInv, Block, ClearRecovery, requests, waits, bounds, hist
<1>4. AttemptInv'
  BY AgentThreadsAssumption DEF IInv, Shape, AttemptInv, Attempts, Slots, Block,
       ClearRecovery, requests, waits, bounds, hist
<1>5. QED
  BY <1>1, <1>2, <1>3, <1>4 DEF IInv

\* A stop without a session takes the recovery row with it.
LEMMA StopNowStep ==
  ASSUME IInv,
       NEW t \in Threads,
       StopNow(t)
  PROVE  IInv'
<1>1. Shape'
  BY DEF IInv, Shape, Statuses, Sources, StopNow, Mark, ClearRecovery, requests, waits,
       workers, bounds
<1>2. StopInv'
  BY DEF IInv, Shape, StopInv, StopNow, Mark, ClearRecovery, requests, waits, workers,
       bounds
<1>3. HaltInv'
  BY DEF IInv, Shape, HaltInv, StopNow, Mark, ClearRecovery, requests, waits, workers,
       bounds
<1>4. AttemptInv'
  BY AgentThreadsAssumption DEF IInv, Shape, AttemptInv, Attempts, Slots, StopNow, Mark,
       ClearRecovery, requests, waits, workers, bounds
<1>5. QED
  BY <1>1, <1>2, <1>3, <1>4 DEF IInv

\* A stop begins to wait: no row changes.
LEMMA StopBeginStep ==
  ASSUME IInv,
       NEW t \in Threads,
       StopBegin(t)
  PROVE  IInv'
<1>1. Shape'
  BY DEF IInv, Shape, Statuses, Sources, StopBegin, rows, requests, steering, workers,
       bounds, hist
<1>2. StopInv'
  BY DEF IInv, Shape, StopInv, StopBegin, rows, requests, steering, workers, bounds, hist
<1>3. HaltInv'
  BY DEF IInv, Shape, HaltInv, StopBegin, rows, requests, steering, workers, bounds, hist
<1>4. AttemptInv'
  BY AgentThreadsAssumption DEF IInv, Shape, AttemptInv, Attempts, Slots, StopBegin, rows,
       requests, steering, workers, bounds, hist
<1>5. QED
  BY <1>1, <1>2, <1>3, <1>4 DEF IInv

\* An interruption is recorded and the row leaves the queue.
LEMMA InterruptBeginStep ==
  ASSUME IInv,
       NEW t \in Threads,
       InterruptBegin(t)
  PROVE  IInv'
<1>1. Shape'
  BY DEF IInv, Shape, Statuses, Sources, InterruptBegin, ClearRecovery, requests,
       steering, workers, bounds, hist
<1>2. StopInv'
  BY DEF IInv, Shape, StopInv, InterruptBegin, ClearRecovery, requests, steering, workers,
       bounds, hist
<1>3. HaltInv'
  BY DEF IInv, Shape, HaltInv, InterruptBegin, ClearRecovery, requests, steering, workers,
       bounds, hist
<1>4. AttemptInv'
  BY AgentThreadsAssumption DEF IInv, Shape, AttemptInv, Attempts, Slots, InterruptBegin,
       ClearRecovery, requests, steering, workers, bounds, hist
<1>5. QED
  BY <1>1, <1>2, <1>3, <1>4 DEF IInv

\* turn.started of the thread's own session brings it back to running.
LEMMA TurnStartedStep ==
  ASSUME IInv,
       NEW s \in SessionIds,
       TurnStarted(s)
  PROVE  IInv'
<1>1. Shape'
  BY DEF IInv, Shape, Statuses, Sources, TurnStarted, MarkRunning, Heard, requests, waits,
       steering, bounds
<1>2. StopInv'
  BY DEF IInv, Shape, StopInv, TurnStarted, MarkRunning, Heard, requests, waits, steering,
       bounds
<1>3. HaltInv'
  BY DEF IInv, Shape, HaltInv, TurnStarted, MarkRunning, Heard, requests, waits, steering,
       bounds
<1>4. AttemptInv'
  BY AgentThreadsAssumption DEF IInv, Shape, AttemptInv, Attempts, Slots, TurnStarted,
       MarkRunning, Heard, requests, waits, steering, bounds
<1>5. QED
  BY <1>1, <1>2, <1>3, <1>4 DEF IInv

\* turn.completed: the next message is sent, or the thread is completed.
LEMMA TurnCompletedStep ==
  ASSUME IInv,
       NEW s \in SessionIds,
       TurnCompleted(s)
  PROVE  IInv'
<1>1. Shape'
  BY DEF IInv, Shape, Statuses, Sources, TurnCompleted, MarkCompleted, ClearRecovery,
       rows, requests, waits, steering, bounds, hist
<1>2. StopInv'
  BY DEF IInv, Shape, StopInv, TurnCompleted, MarkCompleted, ClearRecovery, rows,
       requests, waits, steering, bounds, hist
<1>3. HaltInv'
  BY DEF IInv, Shape, HaltInv, TurnCompleted, MarkCompleted, ClearRecovery, rows,
       requests, waits, steering, bounds, hist
<1>4. AttemptInv'
  BY AgentThreadsAssumption DEF IInv, Shape, AttemptInv, Attempts, Slots, TurnCompleted,
       MarkCompleted, ClearRecovery, rows, requests, waits, steering, bounds, hist
<1>5. QED
  BY <1>1, <1>2, <1>3, <1>4 DEF IInv

\* The provider session is gone.
LEMMA SessionEndsStep ==
  ASSUME IInv,
       NEW s \in SessionIds,
       NEW how \in {"completed", "error"},
       SessionEnds(s, how)
  PROVE  IInv'
<1>1. Shape'
  BY DEF IInv, Shape, Statuses, Sources, SessionEnds, Mark, ClearRecovery, rows, requests,
       waits, bounds, hist
<1>2. StopInv'
  BY DEF IInv, Shape, StopInv, SessionEnds, Mark, ClearRecovery, rows, requests, waits,
       bounds, hist
<1>3. HaltInv'
  BY DEF IInv, Shape, HaltInv, SessionEnds, Mark, ClearRecovery, rows, requests, waits,
       bounds, hist
<1>4. AttemptInv'
  BY AgentThreadsAssumption DEF IInv, Shape, AttemptInv, Attempts, Slots, SessionEnds,
       Mark, ClearRecovery, rows, requests, waits, bounds, hist
<1>5. QED
  BY <1>1, <1>2, <1>3, <1>4 DEF IInv

\* The steering message was sent, or not.
LEMMA FlushDoneStep ==
  ASSUME IInv,
       NEW s \in SessionIds,
       NEW ok \in BOOLEAN,
       FlushDone(s, ok)
  PROVE  IInv'
<1>1. Shape'
  BY DEF IInv, Shape, Statuses, Sources, FlushDone, MarkRunning, Mark, ClearRecovery,
       requests, waits, workers, bounds
<1>2. StopInv'
  <2>1. CASE ok
    <3>1. SUFFICES ASSUME NEW u \in Threads, stopped'[u] # 0
                   PROVE  recovery'[u] = None /\ status'[u] # "running"
      BY DEF StopInv
    <3>2. u \in Threads
      OBVIOUS
    <3>3. CASE u = s[1]
      BY <2>1, <3>1, <3>2, <3>3 DEF IInv, Shape, FlushDone, MarkRunning, Mark, ClearRecovery
    <3>4. CASE u # s[1]
      <4>1. stopped[u] # 0
        BY <2>1, <3>1, <3>4 DEF IInv, Shape, FlushDone, MarkRunning, Mark, ClearRecovery
      <4>2. recovery[u] = None /\ status[u] # "running"
        BY <4>1 DEF IInv, StopInv
      <4>3. status'[u] = status[u]
        BY <2>1, <3>2, <3>4 DEF IInv, Shape, FlushDone, MarkRunning, Mark, ClearRecovery
      <4>4. recovery'[u] = recovery[u]
        BY <2>1, <3>2, <3>4 DEF IInv, Shape, FlushDone, MarkRunning, Mark, ClearRecovery
      <4>5. QED
        BY <4>2, <4>3, <4>4
    <3>5. QED
      BY <3>3, <3>4
  <2>2. CASE ~ok
    BY <2>2 DEF IInv, Shape, StopInv, FlushDone, MarkRunning, Mark, ClearRecovery, rows
  <2>3. QED
    BY <2>1, <2>2
<1>3. HaltInv'
  BY DEF IInv, Shape, HaltInv, FlushDone, MarkRunning, Mark, ClearRecovery, requests,
       waits, workers, bounds
<1>4. AttemptInv'
  BY AgentThreadsAssumption DEF IInv, Shape, AttemptInv, Attempts, Slots, FlushDone,
       MarkRunning, Mark, ClearRecovery, requests, waits, workers, bounds
<1>5. QED
  BY <1>1, <1>2, <1>3, <1>4 DEF IInv

\* A stop takes the recovery row with it once the provider has answered.
LEMMA StopEndStep ==
  ASSUME IInv,
       NEW s \in SessionIds,
       NEW ok \in BOOLEAN,
       StopEnd(s, ok)
  PROVE  IInv'
<1>1. Shape'
  BY DEF IInv, Shape, Statuses, Sources, StopEnd, Mark, ClearRecovery, SessionIds, rows,
       requests, bounds
<1>2. StopInv'
  <2>1. CASE ok
    <3>1. SUFFICES ASSUME NEW u \in Threads, stopped'[u] # 0
                   PROVE  recovery'[u] = None /\ status'[u] # "running"
      BY DEF StopInv
    <3>2. u \in Threads
      OBVIOUS
    <3>3. CASE u = s[1]
      BY <2>1, <3>1, <3>2, <3>3 DEF IInv, Shape, StopEnd, Mark, ClearRecovery
    <3>4. CASE u # s[1]
      <4>1. stopped[u] # 0
        BY <2>1, <3>1, <3>4 DEF IInv, Shape, StopEnd, Mark, ClearRecovery
      <4>2. recovery[u] = None /\ status[u] # "running"
        BY <4>1 DEF IInv, StopInv
      <4>3. status'[u] = status[u]
        BY <2>1, <3>2, <3>4 DEF IInv, Shape, StopEnd, Mark, ClearRecovery
      <4>4. recovery'[u] = recovery[u]
        BY <2>1, <3>2, <3>4 DEF IInv, Shape, StopEnd, Mark, ClearRecovery
      <4>5. QED
        BY <4>2, <4>3, <4>4
    <3>5. QED
      BY <3>3, <3>4
  <2>2. CASE ~ok
    BY <2>2 DEF IInv, Shape, StopInv, StopEnd, Mark, ClearRecovery, rows
  <2>3. QED
    BY <2>1, <2>2
<1>3. HaltInv'
  BY DEF IInv, Shape, HaltInv, StopEnd, Mark, ClearRecovery, rows, requests, bounds
<1>4. AttemptInv'
  BY AgentThreadsAssumption DEF IInv, Shape, AttemptInv, Attempts, Slots, StopEnd, Mark,
       ClearRecovery, rows, requests, bounds
<1>5. QED
  BY <1>1, <1>2, <1>3, <1>4 DEF IInv

\* The provider has interrupted the turn, or has refused to.
LEMMA InterruptEndStep ==
  ASSUME IInv,
       NEW s \in SessionIds,
       NEW ok \in BOOLEAN,
       InterruptEnd(s, ok)
  PROVE  IInv'
<1>1. Shape'
  BY DEF IInv, Shape, Statuses, Sources, InterruptEnd, MarkRunning, requests, steering,
       bounds
<1>2. StopInv'
  BY DEF IInv, Shape, StopInv, InterruptEnd, MarkRunning, requests, steering, bounds
<1>3. HaltInv'
  BY DEF IInv, Shape, HaltInv, InterruptEnd, MarkRunning, requests, steering, bounds
<1>4. AttemptInv'
  BY AgentThreadsAssumption DEF IInv, Shape, AttemptInv, Attempts, Slots, InterruptEnd,
       MarkRunning, requests, steering, bounds
<1>5. QED
  BY <1>1, <1>2, <1>3, <1>4 DEF IInv

\* One session of the halt is stopped: only the thread that session belongs to changes.
LEMMA HaltStopStep ==
  ASSUME IInv,
       NEW s \in SessionIds,
       NEW ok \in BOOLEAN,
       HaltStop(s, ok)
  PROVE  IInv'
<1>1. Shape'
  BY DEF IInv, Shape, Statuses, Sources, HaltStop, Mark, ClearRecovery, rows, requests,
       bounds
<1>2. StopInv'
  BY DEF IInv, Shape, StopInv, HaltStop, Mark, ClearRecovery, rows, requests, bounds
<1>3. HaltInv'
  <2>1. CASE ok
    <3>1. SUFFICES ASSUME halted, ~haltErrors, NEW u \in Threads, status'[u] = "running",
                          startedBy'[u] \in {"caller", "recovery"}
                   PROVE  session'[u] \in halting'
      BY <2>1 DEF HaltInv, HaltStop
    <3>2. u # s[1]
      BY <2>1, <3>1 DEF IInv, Shape, HaltStop, Mark, ClearRecovery
    <3>3. session'[u] = session[u] /\ status[u] = "running" /\ startedBy[u] = startedBy'[u]
      BY <2>1, <3>1, <3>2 DEF IInv, Shape, HaltStop, Mark, ClearRecovery
    <3>4. session[u] \in halting
      BY <3>1, <3>3 DEF IInv, HaltInv
    <3>5. session[u] # s
      BY <3>2, <3>4 DEF IInv, Shape, HaltStop
    <3>6. QED
      BY <3>3, <3>4, <3>5 DEF HaltStop
  <2>2. CASE ~ok
    BY <2>2 DEF HaltInv, HaltStop
  <2>3. QED
    BY <2>1, <2>2
<1>4. AttemptInv'
  BY AgentThreadsAssumption DEF IInv, Shape, AttemptInv, Attempts, Slots, HaltStop, Mark,
       ClearRecovery, rows, requests, bounds
<1>5. QED
  BY <1>1, <1>2, <1>3, <1>4 DEF IInv

\* A halt begins: every running thread's session is among those to be stopped.
LEMMA HaltBeginStep ==
  ASSUME IInv,
       HaltBegin
  PROVE  IInv'
<1>1. Shape'
  BY DEF IInv, Shape, Statuses, Sources, HaltBegin, requests, workers, bounds
<1>2. StopInv'
  BY DEF IInv, Shape, StopInv, HaltBegin, requests, workers, bounds
<1>3. HaltInv'
  BY DEF IInv, Shape, HaltInv, HaltBegin, requests, workers, bounds
<1>4. AttemptInv'
  BY AgentThreadsAssumption DEF IInv, Shape, AttemptInv, Attempts, Slots, HaltBegin,
       requests, workers, bounds
<1>5. QED
  BY <1>1, <1>2, <1>3, <1>4 DEF IInv

\* The halt is lifted.
LEMMA ResumeAgentsStep ==
  ASSUME IInv,
       ResumeAgents
  PROVE  IInv'
<1>1. Shape'
  BY DEF IInv, Shape, Statuses, Sources, ResumeAgents, rows, requests, waits, steering,
       workers, bounds, hist
<1>2. StopInv'
  BY DEF IInv, Shape, StopInv, ResumeAgents, rows, requests, waits, steering, workers,
       bounds, hist
<1>3. HaltInv'
  BY DEF IInv, Shape, HaltInv, ResumeAgents, rows, requests, waits, steering, workers,
       bounds, hist
<1>4. AttemptInv'
  BY AgentThreadsAssumption DEF IInv, Shape, AttemptInv, Attempts, Slots, ResumeAgents,
       rows, requests, waits, steering, workers, bounds, hist
<1>5. QED
  BY <1>1, <1>2, <1>3, <1>4 DEF IInv

\* A restart queues what was running; a stopped thread is not among it.
LEMMA CrashStep ==
  ASSUME IInv,
       Crash
  PROVE  IInv'
<1>1. Shape'
  BY DEF IInv, Shape, Statuses, Sources, Crash, Recoverable, hist
<1>2. StopInv'
  BY DEF IInv, Shape, StopInv, Crash, Recoverable, hist
<1>3. HaltInv'
  BY DEF IInv, Shape, HaltInv, Crash, Recoverable, hist
<1>4. AttemptInv'
  BY AgentThreadsAssumption DEF IInv, Shape, AttemptInv, Attempts, Slots, Crash,
       Recoverable, hist
<1>5. QED
  BY <1>1, <1>2, <1>3, <1>4 DEF IInv

\* Every step keeps the invariant: one case per action.
LEMMA NextIInv == IInv /\ [Next]_threadVars => IInv'
<1>1. SUFFICES ASSUME IInv, [Next]_threadVars PROVE IInv'
  OBVIOUS
<1>2. ASSUME NEW c \in Callers, NEW t \in Threads, CallerStart(c, t) PROVE IInv'
  BY <1>1, <1>2, CallerStartStep
<1>3. ASSUME NEW c \in Callers, NEW t \in Threads, Send(c, t) PROVE IInv'
  BY <1>1, <1>3, SendStep
<1>4. ASSUME NEW r \in Slots, NEW outcome \in {"ok", "unavailable", "bad"}, CheckDone(r, outcome) PROVE IInv'
  BY <1>1, <1>4, CheckDoneStep
<1>5. ASSUME NEW r \in Slots, NEW ok \in BOOLEAN, StaleStopped(r, ok) PROVE IInv'
  BY <1>1, <1>5, StaleStoppedStep
<1>6. ASSUME NEW r \in Slots, NEW ok \in BOOLEAN, Discarded(r, ok) PROVE IInv'
  BY <1>1, <1>6, DiscardedStep
<1>7. ASSUME NEW r \in Slots, Started(r) PROVE IInv'
  BY <1>1, <1>7, StartedStep
<1>8. ASSUME NEW r \in Slots, StartFails(r) PROVE IInv'
  BY <1>1, <1>8, StartFailsStep
<1>9. ASSUME NEW c \in Callers, Collect(c) PROVE IInv'
  BY <1>1, <1>9, CollectStep
<1>10. ASSUME NEW c \in Callers, NEW ok \in BOOLEAN, SendDone(c, ok) PROVE IInv'
  BY <1>1, <1>10, SendDoneStep
<1>11. CASE SweepStart
  BY <1>1, <1>11, SweepStartStep
<1>12. CASE SweepEnd
  BY <1>1, <1>12, SweepEndStep
<1>13. ASSUME NEW t \in Threads, SweepTake(t) PROVE IInv'
  BY <1>1, <1>13, SweepTakeStep
<1>14. ASSUME NEW t \in Threads, RecoveryEnter(t) PROVE IInv'
  BY <1>1, <1>14, RecoveryEnterStep
<1>15. ASSUME NEW t \in Threads, RecoveryReplied(t) PROVE IInv'
  BY <1>1, <1>15, RecoveryRepliedStep
<1>16. ASSUME NEW t \in Threads, FirstTurnFails(t) PROVE IInv'
  BY <1>1, <1>16, FirstTurnFailsStep
<1>17. ASSUME NEW t \in Threads, Steer(t) PROVE IInv'
  BY <1>1, <1>17, SteerStep
<1>18. ASSUME NEW t \in Threads, Block(t) PROVE IInv'
  BY <1>1, <1>18, BlockStep
<1>19. ASSUME NEW t \in Threads, StopNow(t) PROVE IInv'
  BY <1>1, <1>19, StopNowStep
<1>20. ASSUME NEW t \in Threads, StopBegin(t) PROVE IInv'
  BY <1>1, <1>20, StopBeginStep
<1>21. ASSUME NEW t \in Threads, InterruptBegin(t) PROVE IInv'
  BY <1>1, <1>21, InterruptBeginStep
<1>22. ASSUME NEW s \in SessionIds, TurnStarted(s) PROVE IInv'
  BY <1>1, <1>22, TurnStartedStep
<1>23. ASSUME NEW s \in SessionIds, TurnCompleted(s) PROVE IInv'
  BY <1>1, <1>23, TurnCompletedStep
<1>24. ASSUME NEW s \in SessionIds, NEW how \in {"completed", "error"}, SessionEnds(s, how) PROVE IInv'
  BY <1>1, <1>24, SessionEndsStep
<1>25. ASSUME NEW s \in SessionIds, NEW ok \in BOOLEAN, FlushDone(s, ok) PROVE IInv'
  BY <1>1, <1>25, FlushDoneStep
<1>26. ASSUME NEW s \in SessionIds, NEW ok \in BOOLEAN, StopEnd(s, ok) PROVE IInv'
  BY <1>1, <1>26, StopEndStep
<1>27. ASSUME NEW s \in SessionIds, NEW ok \in BOOLEAN, InterruptEnd(s, ok) PROVE IInv'
  BY <1>1, <1>27, InterruptEndStep
<1>28. ASSUME NEW s \in SessionIds, NEW ok \in BOOLEAN, HaltStop(s, ok) PROVE IInv'
  BY <1>1, <1>28, HaltStopStep
<1>29. CASE HaltBegin
  BY <1>1, <1>29, HaltBeginStep
<1>30. CASE ResumeAgents
  BY <1>1, <1>30, ResumeAgentsStep
<1>31. CASE Crash
  BY <1>1, <1>31, CrashStep
<1>32. CASE UNCHANGED threadVars
  BY <1>1, <1>32 DEF IInv, Shape, StopInv, HaltInv, AttemptInv, Attempts, threadVars,
       rows, requests, waits, steering, workers, bounds, hist
<1>33. QED
  BY <1>1, <1>2, <1>3, <1>4, <1>5, <1>6, <1>7, <1>8, <1>9, <1>10, <1>11, <1>12, <1>13,
       <1>14, <1>15, <1>16, <1>17, <1>18, <1>19, <1>20, <1>21, <1>22, <1>23, <1>24, <1>25,
       <1>26, <1>27, <1>28, <1>29, <1>30, <1>31, <1>32 DEF Next

\* The invariant holds in every reachable state.
LEMMA SpecIInv == Spec => []IInv
<1>1. QED
  BY InitIInv, NextIInv, PTL DEF Spec

\* The attempt count of the recovery queue (MAX_RECOVERY_ATTEMPTS): the sweep
\* compares the attempts it read when it began, and still no row is ever claimed
\* more than MaxAttempts times, whatever the number of restarts.
THEOREM AttemptsStayBounded == Spec => []AttemptsBounded
<1>1. IInv => AttemptsBounded
  BY AgentThreadsAssumption DEF IInv, AttemptInv, Attempts, AttemptsBounded
<1>2. QED
  BY <1>1, SpecIInv, PTL

\* The owner-wide halt (AgentControlService.halt and the checks of the start and
\* send routes): once it has stopped what it found, nothing a request or a recovery
\* started is running, for any number of requests in flight when it came.
THEOREM HaltIsAuthoritative == Spec => []HaltFreezesStarts
<1>1. IInv => HaltFreezesStarts
  BY DEF IInv, HaltInv, HaltFreezesStarts
<1>2. QED
  BY <1>1, SpecIInv, PTL

------------------------------------------------------------------------------
\* Why the replacement of a session is alone.  A row is claimed only after its
\* stale session was stopped, and no later session has the stale one's number.

\* The requests of callers that may still use up a session number of t.
Waiting(t) ==
  {c \in Callers : /\ req[c] # None /\ req[c].thread = t
                   /\ req[c].phase \in {"checking", "stopping-stale", "starting"}}

\* A queued recovery, or one that is starting its session, uses up one number.
Owing(t) == InPhase(t, "starting") \/ (recovery[t] # None /\ recovery[t].pending)

Owed(t) == IF Owing(t) THEN 1 ELSE 0

\* Every session number is paid for by a caller's start or by a restart.
Counted(t) ==
  /\ IsFiniteSet(Waiting(t))
  /\ nextSession[t] + Cardinality(Waiting(t)) + Owed(t) <= starts[t] + crashes + 1

\* The row and the recovery row name sessions of the thread that exist already.
Known(t) ==
  /\ session[t] # None => session[t][1] = t /\ session[t][2] < nextSession[t]
  /\ recovery[t] # None /\ recovery[t].stale # None
     => recovery[t].stale[1] = t /\ recovery[t].stale[2] < nextSession[t]

\* What a request has learnt about the row stays true until the next restart: the
\* session it stops is the row's, and a claimed row's session is gone.
Claimed(t) ==
  /\ InPhase(t, "stopping-stale") /\ recovery[t] # None => recovery[t].stale = req[t].session
  /\ InPhase(t, "starting") /\ recovery[t] # None => ~recovery[t].pending
  /\ status[t] = "running" /\ startedBy[t] = "recovery" /\ recovery[t] # None
     => ~recovery[t].pending
  /\ /\ t \in RemoteThreads
     /\ recovery[t] # None /\ ~recovery[t].pending /\ recovery[t].stale # None
     => worker[recovery[t].stale] = "none"

RInv == TypeOK /\ \A t \in Threads : Counted(t) /\ Known(t) /\ Claimed(t)

\* The bound on session numbers that SessionIds states is the count's.
LEMMA NumbersSuffice ==
  ASSUME TypeOK, NEW t \in Threads, Counted(t)
  PROVE  /\ nextSession[t] \in 1..(MaxStarts + MaxCrashes + 1)
         /\ Owing(t) \/ Waiting(t) # {} => <<t, nextSession[t]>> \in SessionIds
<1>1. Cardinality(Waiting(t)) \in Nat /\ (Waiting(t) # {} => Cardinality(Waiting(t)) # 0)
  BY FS_CardinalityType, FS_EmptySet DEF Counted
<1>2. /\ nextSession[t] \in Nat \ {0} /\ starts[t] \in 0..MaxStarts /\ crashes \in 0..MaxCrashes
      /\ MaxStarts \in Nat /\ MaxCrashes \in Nat
  BY AgentThreadsAssumption DEF TypeOK
<1>3. Owed(t) \in {0, 1} /\ (Owing(t) => Owed(t) = 1)
  BY DEF Owed
<1>4. QED
  BY <1>1, <1>2, <1>3 DEF Counted, SessionIds

\* The count does not grow when no request sets out and no number is used.
LEMMA CountKept ==
  ASSUME TypeOK, NEW t \in Threads, Counted(t),
         UNCHANGED <<nextSession, starts, crashes>>,
         Waiting(t)' \subseteq Waiting(t),
         Owing(t)' => Owing(t)
  PROVE  Counted(t)'
<1>1. IsFiniteSet(Waiting(t)') /\ Cardinality(Waiting(t)') <= Cardinality(Waiting(t))
  BY FS_Subset DEF Counted
<1>2. Cardinality(Waiting(t)') \in Nat /\ Cardinality(Waiting(t)) \in Nat
  BY <1>1, FS_CardinalityType DEF Counted
<1>3. Owed(t) \in {0, 1} /\ Owed(t)' \in {0, 1} /\ Owed(t)' <= Owed(t)
  BY DEF Owed
<1>4. nextSession[t] \in Nat /\ starts[t] \in Nat /\ crashes \in Nat
  BY AgentThreadsAssumption DEF TypeOK
<1>5. QED
  BY <1>1, <1>2, <1>3, <1>4 DEF Counted

\* A step that claims nothing: requests move on to no phase that counts, rows only
\* lose what they name, and no process appears.
QuietRequests(t) ==
  /\ \A c \in Callers : \/ req'[c] = req[c]
                        \/ req'[c] = None
                        \/ req'[c].phase \notin {"checking", "stopping-stale", "starting"}
  /\ \/ req'[t] = req[t]
     \/ req'[t] = None
     \/ req'[t].phase \notin {"stopping-stale", "starting"}

QuietRows(t) ==
  /\ UNCHANGED <<nextSession, starts, crashes>>
  /\ recovery'[t] \in {recovery[t], None}
  /\ session'[t] \in {session[t], None}
  /\ status'[t] = "running" /\ startedBy'[t] = "recovery"
     => status[t] = "running" /\ startedBy[t] = "recovery"
  /\ \A s \in SessionIds : worker[s] = "none" => worker'[s] = "none"

Quiet(t) == QuietRequests(t) /\ QuietRows(t)

\* Such a step keeps what is known of a thread.
LEMMA QuietStep ==
  ASSUME RInv, NEW t \in Threads, Quiet(t)
  PROVE  Counted(t)' /\ Known(t)' /\ Claimed(t)'
<1>1. Waiting(t)' \subseteq Waiting(t)
  BY DEF Quiet, QuietRequests, Waiting
<1>2. Owing(t)' => Owing(t)
  BY DEF Quiet, QuietRequests, QuietRows, Owing, InPhase
<1>3. Counted(t)'
  BY <1>1, <1>2, CountKept DEF RInv, Quiet, QuietRows
<1>4. Known(t)'
  BY DEF RInv, Quiet, QuietRows, Known
<1>5. Claimed(t)'
  <2>1. recovery[t] # None /\ recovery[t].stale # None => recovery[t].stale \in SessionIds
    BY DEF RInv, TypeOK, Recovery
  <2>2. QED
    BY <2>1 DEF RInv, Quiet, QuietRequests, QuietRows, Claimed, InPhase
<1>6. QED
  BY <1>3, <1>4, <1>5

\* A request that moves on, past the phases that count or to its first check.
LEMMA GotoIsQuiet ==
  ASSUME Shape, NEW r \in Slots, NEW t, NEW phase, NEW s, NEW code,
         Goto(r, t, phase, s, code),
         \/ phase \in {"entering", "discarding", "sending", "replied"}
         \/ r \in Threads /\ phase = "checking"
  PROVE  \A u \in Threads : QuietRequests(u)
<1>1. req'[r].phase = phase
  BY DEF Shape, Goto
<1>2. \A x \in Slots : x # r => req'[x] = req[x]
  BY DEF Shape, Goto
<1>3. r \in Threads => r \notin Callers
  BY AgentThreadsAssumption
<1>4. SUFFICES ASSUME NEW u \in Threads PROVE QuietRequests(u)
  OBVIOUS
<1>5. ASSUME NEW c \in Callers
      PROVE  \/ req'[c] = req[c]
             \/ req'[c].phase \notin {"checking", "stopping-stale", "starting"}
  BY <1>1, <1>2, <1>3, <1>5 DEF Slots
<1>6. req'[u] = req[u] \/ req'[u].phase \notin {"stopping-stale", "starting"}
  BY <1>1, <1>2 DEF Slots
<1>7. QED
  BY <1>5, <1>6 DEF QuietRequests

\* A message to a session that exists marks its thread and claims nothing.
LEMMA SendKeeps ==
  ASSUME IInv, RInv, NEW c \in Callers, NEW t \in Threads, Send(c, t)
  PROVE  RInv'
<1>1. TypeOK'
  BY AgentThreadsAssumption DEF RInv, TypeOK, Statuses, Recovery, Request, Phases,
       Codes, WorkerStates, Sources, Slots, Send, Goto, MarkRunning, rows, requests,
       waits, steering, workers, bounds, hist
<1>2. ASSUME NEW u \in Threads PROVE QuietRequests(u)
  <2>1. \/ UNCHANGED req
        \/ \E x, code : \E phase \in {"sending", "replied"} : Goto(c, t, phase, x, code)
    BY DEF Send, MarkRunning, rows, requests, waits, steering, workers, bounds, hist
  <2>2. CASE UNCHANGED req
    BY <2>2 DEF QuietRequests
  <2>3. CASE \E x, code : \E phase \in {"sending", "replied"} : Goto(c, t, phase, x, code)
    BY <2>3, GotoIsQuiet DEF IInv, Slots
  <2>4. QED
    BY <2>1, <2>2, <2>3
<1>3. ASSUME NEW u \in Threads PROVE QuietRows(u)
  BY DEF RInv, TypeOK, QuietRows, Send, Goto, MarkRunning, rows, requests, waits,
       steering, workers, bounds, hist
<1>4. QED
  BY <1>1, <1>2, <1>3, QuietStep DEF RInv, Quiet

\* Stopping the session nobody wants claims nothing.
LEMMA DiscardedKeeps ==
  ASSUME IInv, RInv, NEW r \in Slots, NEW ok \in BOOLEAN, Discarded(r, ok)
  PROVE  RInv'
<1>1. TypeOK'
  <2>1. TypeOK
    BY DEF RInv
  <2>2. /\ status' \in [Threads -> Statuses]
        /\ session' \in [Threads -> SessionIds \cup {None}]
        /\ recovery' \in [Threads -> Recovery \cup {None}]
    BY <2>1 DEF TypeOK, Statuses, Discarded, Mark, ClearRecovery, rows
  <2>3. worker' \in [SessionIds -> WorkerStates] /\ steered' \subseteq Threads
    BY <2>1 DEF TypeOK, WorkerStates, Discarded
  <2>4. req' \in [Slots -> Request \cup {None}]
    BY <2>1 DEF TypeOK, Request, Phases, Codes, Discarded, InPhase, Reply, Goto
  <2>5. QED
    BY <2>1, <2>2, <2>3, <2>4 DEF TypeOK, Discarded, waits, bounds, hist
<1>2. ASSUME NEW u \in Threads PROVE QuietRequests(u)
  <2>1. \/ UNCHANGED req
        \/ \E x, code : \E phase \in {"replied"} : Goto(r, req[r].thread, phase, x, code)
    BY DEF Discarded, InPhase, Reply, Mark, ClearRecovery, rows, requests, waits,
         steering, workers, bounds, hist
  <2>2. CASE UNCHANGED req
    BY <2>2 DEF QuietRequests
  <2>3. CASE \E x, code : \E phase \in {"replied"} : Goto(r, req[r].thread, phase, x, code)
    BY <2>3, GotoIsQuiet DEF IInv, Slots
  <2>4. QED
    BY <2>1, <2>2, <2>3
<1>3. ASSUME NEW u \in Threads PROVE QuietRows(u)
  BY DEF RInv, TypeOK, QuietRows, Discarded, InPhase, Reply, Goto, Mark, ClearRecovery,
       rows, requests, waits, steering, workers, bounds, hist
<1>4. QED
  BY <1>1, <1>2, <1>3, QuietStep DEF RInv, Quiet

\* A failed start drops its row.
LEMMA StartFailsKeeps ==
  ASSUME IInv, RInv, NEW r \in Slots, StartFails(r)
  PROVE  RInv'
<1>1. TypeOK'
  BY AgentThreadsAssumption DEF RInv, TypeOK, Statuses, Recovery, Request, Phases,
       Codes, WorkerStates, Sources, Slots, StartFails, InPhase, Reply, Goto, Mark,
       ClearRecovery, rows, requests, waits, steering, workers, bounds, hist
<1>2. ASSUME NEW u \in Threads PROVE Quiet(u)
  BY AgentThreadsAssumption DEF IInv, Shape, AttemptInv, Attempts, RInv, TypeOK, Slots,
       Quiet, QuietRequests, QuietRows, StartFails, InPhase, Reply, Goto, Mark,
       ClearRecovery, rows, requests, waits, steering, workers, bounds, hist
<1>3. QED
  BY <1>1, <1>2, QuietStep DEF RInv

\* A collected reply frees a slot.
LEMMA CollectKeeps ==
  ASSUME IInv, RInv, NEW c \in Callers, Collect(c)
  PROVE  RInv'
<1>1. TypeOK'
  BY AgentThreadsAssumption DEF RInv, TypeOK, Statuses, Recovery, Request, Phases,
       Codes, WorkerStates, Sources, Slots, Collect, InPhase, rows, requests, waits,
       steering, workers, bounds, hist
<1>2. ASSUME NEW u \in Threads PROVE Quiet(u)
  BY AgentThreadsAssumption DEF IInv, Shape, AttemptInv, Attempts, RInv, TypeOK, Slots,
       Quiet, QuietRequests, QuietRows, Collect, InPhase, rows, requests, waits,
       steering, workers, bounds, hist
<1>3. QED
  BY <1>1, <1>2, QuietStep DEF RInv

\* A send that fails drops the row.
LEMMA SendDoneKeeps ==
  ASSUME IInv, RInv, NEW c \in Callers, NEW ok \in BOOLEAN, SendDone(c, ok)
  PROVE  RInv'
<1>1. TypeOK'
  BY AgentThreadsAssumption DEF RInv, TypeOK, Statuses, Recovery, Request, Phases,
       Codes, WorkerStates, Sources, Slots, SendDone, InPhase, Reply, Goto, Mark,
       ClearRecovery, rows, requests, waits, steering, workers, bounds, hist
<1>2. ASSUME NEW u \in Threads PROVE QuietRequests(u)
  <2>1. \/ UNCHANGED req
        \/ \E x, code : \E phase \in {"replied"} : Goto(c, req[c].thread, phase, x, code)
    BY DEF SendDone, InPhase, Reply, Mark, ClearRecovery, rows, requests, waits,
         steering, workers, bounds, hist
  <2>2. CASE UNCHANGED req
    BY <2>2 DEF QuietRequests
  <2>3. CASE \E x, code : \E phase \in {"replied"} : Goto(c, req[c].thread, phase, x, code)
    BY <2>3, GotoIsQuiet DEF IInv, Slots
  <2>4. QED
    BY <2>1, <2>2, <2>3
<1>3. ASSUME NEW u \in Threads PROVE QuietRows(u)
  BY DEF RInv, TypeOK, QuietRows, SendDone, InPhase, Reply, Goto, Mark, ClearRecovery,
       rows, requests, waits, steering, workers, bounds, hist
<1>4. QED
  BY <1>1, <1>2, <1>3, QuietStep DEF RInv, Quiet

\* The sweep reads the rows.
LEMMA SweepStartKeeps ==
  ASSUME IInv, RInv, SweepStart
  PROVE  RInv'
<1>1. TypeOK'
  BY AgentThreadsAssumption DEF RInv, TypeOK, Statuses, Recovery, Request, Phases,
       Codes, WorkerStates, Sources, Slots, SweepStart, rows, requests, waits, steering,
       workers, bounds, hist
<1>2. ASSUME NEW u \in Threads PROVE Quiet(u)
  BY AgentThreadsAssumption DEF IInv, Shape, AttemptInv, Attempts, RInv, TypeOK, Slots,
       Quiet, QuietRequests, QuietRows, SweepStart, rows, requests, waits, steering,
       workers, bounds, hist
<1>3. QED
  BY <1>1, <1>2, QuietStep DEF RInv

\* The sweep ends.
LEMMA SweepEndKeeps ==
  ASSUME IInv, RInv, SweepEnd
  PROVE  RInv'
<1>1. TypeOK'
  BY AgentThreadsAssumption DEF RInv, TypeOK, Statuses, Recovery, Request, Phases,
       Codes, WorkerStates, Sources, Slots, SweepEnd, rows, requests, waits, steering,
       workers, bounds, hist
<1>2. ASSUME NEW u \in Threads PROVE Quiet(u)
  BY AgentThreadsAssumption DEF IInv, Shape, AttemptInv, Attempts, RInv, TypeOK, Slots,
       Quiet, QuietRequests, QuietRows, SweepEnd, rows, requests, waits, steering,
       workers, bounds, hist
<1>3. QED
  BY <1>1, <1>2, QuietStep DEF RInv

\* A worker takes an entry; its request has claimed nothing yet.
LEMMA SweepTakeKeeps ==
  ASSUME IInv, RInv, NEW t \in Threads, SweepTake(t)
  PROVE  RInv'
<1>1. TypeOK'
  BY AgentThreadsAssumption DEF RInv, TypeOK, Statuses, Recovery, Request, Phases,
       Codes, WorkerStates, Sources, Slots, SweepTake, Goto, Mark, ClearRecovery, rows,
       requests, waits, steering, workers, bounds, hist
<1>2. ASSUME NEW u \in Threads PROVE QuietRequests(u)
  <2>1. \/ UNCHANGED req
        \/ \E x, code : \E phase \in {"entering"} : Goto(t, t, phase, x, code)
    BY DEF SweepTake, Mark, ClearRecovery, rows, requests, waits, steering, workers,
         bounds, hist
  <2>2. CASE UNCHANGED req
    BY <2>2 DEF QuietRequests
  <2>3. CASE \E x, code : \E phase \in {"entering"} : Goto(t, t, phase, x, code)
    BY <2>3, GotoIsQuiet DEF IInv, Slots
  <2>4. QED
    BY <2>1, <2>2, <2>3
<1>3. ASSUME NEW u \in Threads PROVE QuietRows(u)
  BY DEF RInv, TypeOK, QuietRows, SweepTake, Goto, Mark, ClearRecovery, rows, requests,
       waits, steering, workers, bounds, hist
<1>4. QED
  BY <1>1, <1>2, <1>3, QuietStep DEF RInv, Quiet

\* The injected request enters the start route.
LEMMA RecoveryEnterKeeps ==
  ASSUME IInv, RInv, NEW t \in Threads, RecoveryEnter(t)
  PROVE  RInv'
<1>1. TypeOK'
  BY AgentThreadsAssumption DEF RInv, TypeOK, Statuses, Recovery, Request, Phases,
       Codes, WorkerStates, Sources, Slots, RecoveryEnter, InPhase, Enter, Goto, rows,
       requests, waits, steering, workers, bounds, hist
<1>2. ASSUME NEW u \in Threads PROVE QuietRequests(u)
  <2>1. \/ UNCHANGED req
        \/ \E x, code : \E phase \in {"checking", "replied"} : Goto(t, t, phase, x, code)
    BY DEF RecoveryEnter, InPhase, Enter, rows, requests, waits, steering, workers,
         bounds, hist
  <2>2. CASE UNCHANGED req
    BY <2>2 DEF QuietRequests
  <2>3. CASE \E x, code : \E phase \in {"checking", "replied"} : Goto(t, t, phase, x, code)
    BY <2>3, GotoIsQuiet DEF IInv, Slots
  <2>4. QED
    BY <2>1, <2>2, <2>3
<1>3. ASSUME NEW u \in Threads PROVE QuietRows(u)
  BY DEF RInv, TypeOK, QuietRows, RecoveryEnter, InPhase, Enter, Goto, rows, requests,
       waits, steering, workers, bounds, hist
<1>4. QED
  BY <1>1, <1>2, <1>3, QuietStep DEF RInv, Quiet

\* The answer to a recovery request at most drops its row.
LEMMA RecoveryRepliedKeeps ==
  ASSUME IInv, RInv, NEW t \in Threads, RecoveryReplied(t)
  PROVE  RInv'
<1>1. TypeOK'
  BY AgentThreadsAssumption DEF RInv, TypeOK, Statuses, Recovery, Request, Phases,
       Codes, WorkerStates, Sources, Slots, RecoveryReplied, InPhase, Mark,
       ClearRecovery, rows, requests, waits, steering, workers, bounds, hist
<1>2. ASSUME NEW u \in Threads PROVE Quiet(u)
  BY AgentThreadsAssumption DEF IInv, Shape, AttemptInv, Attempts, RInv, TypeOK, Slots,
       Quiet, QuietRequests, QuietRows, RecoveryReplied, InPhase, Mark, ClearRecovery,
       rows, requests, waits, steering, workers, bounds, hist
<1>3. QED
  BY <1>1, <1>2, QuietStep DEF RInv

\* A refused turn drops the row.
LEMMA FirstTurnFailsKeeps ==
  ASSUME IInv, RInv, NEW t \in Threads, FirstTurnFails(t)
  PROVE  RInv'
<1>1. TypeOK'
  BY AgentThreadsAssumption DEF RInv, TypeOK, Statuses, Recovery, Request, Phases,
       Codes, WorkerStates, Sources, Slots, FirstTurnFails, Mark, ClearRecovery, rows,
       requests, waits, steering, workers, bounds, hist
<1>2. ASSUME NEW u \in Threads PROVE Quiet(u)
  BY AgentThreadsAssumption DEF IInv, Shape, AttemptInv, Attempts, RInv, TypeOK, Slots,
       Quiet, QuietRequests, QuietRows, FirstTurnFails, Mark, ClearRecovery, rows,
       requests, waits, steering, workers, bounds, hist
<1>3. QED
  BY <1>1, <1>2, QuietStep DEF RInv

\* A steering message waits.
LEMMA SteerKeeps ==
  ASSUME IInv, RInv, NEW t \in Threads, Steer(t)
  PROVE  RInv'
<1>1. TypeOK'
  BY AgentThreadsAssumption DEF RInv, TypeOK, Statuses, Recovery, Request, Phases,
       Codes, WorkerStates, Sources, Slots, Steer, rows, requests, waits, steering,
       workers, bounds, hist
<1>2. ASSUME NEW u \in Threads PROVE Quiet(u)
  BY AgentThreadsAssumption DEF IInv, Shape, AttemptInv, Attempts, RInv, TypeOK, Slots,
       Quiet, QuietRequests, QuietRows, Steer, rows, requests, waits, steering, workers,
       bounds, hist
<1>3. QED
  BY <1>1, <1>2, QuietStep DEF RInv

\* A blocked thread loses its row and keeps its session.
LEMMA BlockKeeps ==
  ASSUME IInv, RInv, NEW t \in Threads, Block(t)
  PROVE  RInv'
<1>1. TypeOK'
  BY AgentThreadsAssumption DEF RInv, TypeOK, Statuses, Recovery, Request, Phases,
       Codes, WorkerStates, Sources, Slots, Block, ClearRecovery, rows, requests, waits,
       steering, workers, bounds, hist
<1>2. ASSUME NEW u \in Threads PROVE Quiet(u)
  BY AgentThreadsAssumption DEF IInv, Shape, AttemptInv, Attempts, RInv, TypeOK, Slots,
       Quiet, QuietRequests, QuietRows, Block, ClearRecovery, rows, requests, waits,
       steering, workers, bounds, hist
<1>3. QED
  BY <1>1, <1>2, QuietStep DEF RInv

\* A stop drops the row.
LEMMA StopNowKeeps ==
  ASSUME IInv, RInv, NEW t \in Threads, StopNow(t)
  PROVE  RInv'
<1>1. TypeOK'
  BY AgentThreadsAssumption DEF RInv, TypeOK, Statuses, Recovery, Request, Phases,
       Codes, WorkerStates, Sources, Slots, StopNow, Mark, ClearRecovery, rows,
       requests, waits, steering, workers, bounds, hist
<1>2. ASSUME NEW u \in Threads PROVE Quiet(u)
  BY AgentThreadsAssumption DEF IInv, Shape, AttemptInv, Attempts, RInv, TypeOK, Slots,
       Quiet, QuietRequests, QuietRows, StopNow, Mark, ClearRecovery, rows, requests,
       waits, steering, workers, bounds, hist
<1>3. QED
  BY <1>1, <1>2, QuietStep DEF RInv

\* The session to be stopped is one the rows name.
LEMMA StopBeginKeeps ==
  ASSUME IInv, RInv, NEW t \in Threads, StopBegin(t)
  PROVE  RInv'
<1>1. TypeOK'
  BY AgentThreadsAssumption DEF RInv, TypeOK, Statuses, Recovery, Request, Phases,
       Codes, WorkerStates, Sources, Slots, StopBegin, StopTarget, StaleSession, rows,
       requests, waits, steering, workers, bounds, hist
<1>2. ASSUME NEW u \in Threads PROVE Quiet(u)
  BY AgentThreadsAssumption DEF IInv, Shape, AttemptInv, Attempts, RInv, TypeOK, Slots,
       Quiet, QuietRequests, QuietRows, StopBegin, StopTarget, StaleSession, rows,
       requests, waits, steering, workers, bounds, hist
<1>3. QED
  BY <1>1, <1>2, QuietStep DEF RInv

\* An interruption drops the row.
LEMMA InterruptBeginKeeps ==
  ASSUME IInv, RInv, NEW t \in Threads, InterruptBegin(t)
  PROVE  RInv'
<1>1. TypeOK'
  BY AgentThreadsAssumption DEF RInv, TypeOK, Statuses, Recovery, Request, Phases,
       Codes, WorkerStates, Sources, Slots, InterruptBegin, ClearRecovery, rows,
       requests, waits, steering, workers, bounds, hist
<1>2. ASSUME NEW u \in Threads PROVE Quiet(u)
  BY AgentThreadsAssumption DEF IInv, Shape, AttemptInv, Attempts, RInv, TypeOK, Slots,
       Quiet, QuietRequests, QuietRows, InterruptBegin, ClearRecovery, rows, requests,
       waits, steering, workers, bounds, hist
<1>3. QED
  BY <1>1, <1>2, QuietStep DEF RInv

\* A turn that begins is one that was sent to a live process.
LEMMA TurnStartedKeeps ==
  ASSUME IInv, RInv, NEW s \in SessionIds, TurnStarted(s)
  PROVE  RInv'
<1>1. TypeOK'
  <2>1. TypeOK
    BY DEF RInv
  <2>2. status' \in [Threads -> Statuses] /\ session' \in [Threads -> SessionIds \cup {None}]
    BY <2>1 DEF TypeOK, Statuses, TurnStarted, Heard, MarkRunning
  <2>3. startedBy' \in [Threads -> Sources] /\ stopped' \in [Threads -> Nat]
    BY <2>1 DEF TypeOK, Sources, TurnStarted, Heard, MarkRunning
  <2>4. worker' \in [SessionIds -> WorkerStates]
    BY <2>1 DEF TypeOK, WorkerStates, TurnStarted
  <2>5. QED
    BY <2>1, <2>2, <2>3, <2>4 DEF TypeOK, TurnStarted, requests, waits, steering, bounds
<1>2. ASSUME NEW u \in Threads PROVE Quiet(u)
  BY AgentThreadsAssumption DEF IInv, Shape, AttemptInv, Attempts, RInv, TypeOK, Slots,
       Quiet, QuietRequests, QuietRows, TurnStarted, Heard, MarkRunning, rows, requests,
       waits, steering, workers, bounds, hist
<1>3. QED
  BY <1>1, <1>2, QuietStep DEF RInv

\* A turn that ends drops the row, or is followed by the steering message.
LEMMA TurnCompletedKeeps ==
  ASSUME IInv, RInv, NEW s \in SessionIds, TurnCompleted(s)
  PROVE  RInv'
<1>1. TypeOK'
  BY AgentThreadsAssumption DEF RInv, TypeOK, Statuses, Recovery, Request, Phases,
       Codes, WorkerStates, Sources, Slots, TurnCompleted, Heard, MarkCompleted,
       ClearRecovery, rows, requests, waits, steering, workers, bounds, hist
<1>2. ASSUME NEW u \in Threads PROVE Quiet(u)
  BY AgentThreadsAssumption DEF IInv, Shape, AttemptInv, Attempts, RInv, TypeOK, Slots,
       Quiet, QuietRequests, QuietRows, TurnCompleted, Heard, MarkCompleted,
       ClearRecovery, rows, requests, waits, steering, workers, bounds, hist
<1>3. QED
  BY <1>1, <1>2, QuietStep DEF RInv

\* A session ends for good.
LEMMA SessionEndsKeeps ==
  ASSUME IInv, RInv, NEW s \in SessionIds, NEW how \in {"completed", "error"}, SessionEnds(s, how)
  PROVE  RInv'
<1>1. TypeOK'
  <2>1. TypeOK
    BY DEF RInv
  <2>2. /\ status' \in [Threads -> Statuses]
        /\ session' \in [Threads -> SessionIds \cup {None}]
        /\ recovery' \in [Threads -> Recovery \cup {None}]
    BY <2>1 DEF TypeOK, Statuses, SessionEnds, Heard, Mark, ClearRecovery, rows
  <2>3. worker' \in [SessionIds -> WorkerStates] /\ steered' \subseteq Threads
    BY <2>1 DEF TypeOK, WorkerStates, SessionEnds
  <2>4. QED
    BY <2>1, <2>2, <2>3 DEF TypeOK, SessionEnds, requests, waits, bounds, hist
<1>2. ASSUME NEW u \in Threads PROVE Quiet(u)
  BY AgentThreadsAssumption DEF IInv, Shape, AttemptInv, Attempts, RInv, TypeOK, Slots,
       Quiet, QuietRequests, QuietRows, SessionEnds, Heard, Mark, ClearRecovery, rows,
       requests, waits, steering, workers, bounds, hist
<1>3. QED
  BY <1>1, <1>2, QuietStep DEF RInv

\* The steering message keeps the session of the row.
LEMMA FlushDoneKeeps ==
  ASSUME IInv, RInv, NEW s \in SessionIds, NEW ok \in BOOLEAN, FlushDone(s, ok)
  PROVE  RInv'
<1>1. s[1] \in Threads
  BY DEF SessionIds
<1>2. TypeOK'
  BY <1>1, AgentThreadsAssumption DEF RInv, TypeOK, Statuses, Recovery, Request, Phases,
       Codes, WorkerStates, Sources, Slots, FlushDone, MarkRunning, Mark, ClearRecovery,
       rows, requests, waits, steering, workers, bounds, hist
<1>3. ASSUME NEW u \in Threads PROVE Quiet(u)
  BY AgentThreadsAssumption DEF IInv, Shape, AttemptInv, Attempts, RInv, TypeOK, Slots,
       Quiet, QuietRequests, QuietRows, FlushDone, MarkRunning, Mark, ClearRecovery,
       rows, requests, waits, steering, workers, bounds, hist
<1>4. QED
  BY <1>2, <1>3, QuietStep DEF RInv

\* A stop ends its session and drops the row.
LEMMA StopEndKeeps ==
  ASSUME IInv, RInv, NEW s \in SessionIds, NEW ok \in BOOLEAN, StopEnd(s, ok)
  PROVE  RInv'
<1>1. s[1] \in Threads
  BY DEF SessionIds
<1>2. TypeOK'
  <2>1. CASE /\ worker' = [worker EXCEPT ![s] = "none"]
             /\ Mark(s[1], "interrupted")
             /\ steered' = steered \ {s[1]}
             /\ stopped' = [stopped EXCEPT ![s[1]] = nextSession[s[1]]]
    <3>1. /\ status' \in [Threads -> Statuses]
          /\ session' \in [Threads -> SessionIds \cup {None}]
          /\ recovery' \in [Threads -> Recovery \cup {None}]
      BY <1>1, <2>1 DEF RInv, TypeOK, Mark, ClearRecovery, Statuses
    <3>2. worker' \in [SessionIds -> WorkerStates]
      BY <2>1 DEF RInv, TypeOK, WorkerStates
    <3>3. stopped' \in [Threads -> Nat] /\ steered' \subseteq Threads
      <4>1. nextSession[s[1]] \in Nat
        BY <1>1, AgentThreadsAssumption DEF RInv, TypeOK
      <4>2. QED
        BY <2>1, <4>1 DEF RInv, TypeOK
    <3>4. QED
      BY <1>1, <2>1, <3>1, <3>2, <3>3 DEF RInv, TypeOK, StopEnd, requests, bounds
  <2>2. CASE UNCHANGED <<rows, worker, steered, stopped>>
    BY <2>2 DEF RInv, TypeOK, StopEnd, rows, requests, bounds
  <2>3. QED
    BY <2>1, <2>2 DEF StopEnd
<1>3. ASSUME NEW u \in Threads PROVE Quiet(u)
  BY AgentThreadsAssumption DEF IInv, Shape, AttemptInv, Attempts, RInv, TypeOK, Slots,
       Quiet, QuietRequests, QuietRows, StopEnd, Mark, ClearRecovery, rows, requests,
       waits, steering, workers, bounds, hist
<1>4. QED
  BY <1>2, <1>3, QuietStep DEF RInv

\* A failed interruption keeps the session of the row.
LEMMA InterruptEndKeeps ==
  ASSUME IInv, RInv, NEW s \in SessionIds, NEW ok \in BOOLEAN, InterruptEnd(s, ok)
  PROVE  RInv'
<1>1. TypeOK'
  BY AgentThreadsAssumption DEF RInv, TypeOK, Statuses, Recovery, Request, Phases,
       Codes, WorkerStates, Sources, Slots, InterruptEnd, MarkRunning, rows, requests,
       waits, steering, workers, bounds, hist
<1>2. ASSUME NEW u \in Threads PROVE Quiet(u)
  BY AgentThreadsAssumption DEF IInv, Shape, AttemptInv, Attempts, RInv, TypeOK, Slots,
       Quiet, QuietRequests, QuietRows, InterruptEnd, MarkRunning, rows, requests,
       waits, steering, workers, bounds, hist
<1>3. QED
  BY <1>1, <1>2, QuietStep DEF RInv

\* The halt ends a session and drops the row.
LEMMA HaltStopKeeps ==
  ASSUME IInv, RInv, NEW s \in SessionIds, NEW ok \in BOOLEAN, HaltStop(s, ok)
  PROVE  RInv'
<1>1. TypeOK'
  BY AgentThreadsAssumption DEF RInv, TypeOK, Statuses, Recovery, Request, Phases,
       Codes, WorkerStates, Sources, Slots, HaltStop, Mark, ClearRecovery, rows,
       requests, waits, steering, workers, bounds, hist
<1>2. ASSUME NEW u \in Threads PROVE Quiet(u)
  BY AgentThreadsAssumption DEF IInv, Shape, AttemptInv, Attempts, RInv, TypeOK, Slots,
       Quiet, QuietRequests, QuietRows, HaltStop, Mark, ClearRecovery, rows, requests,
       waits, steering, workers, bounds, hist
<1>3. QED
  BY <1>1, <1>2, QuietStep DEF RInv

\* A halt drops the rows of threads without a session.
LEMMA HaltBeginKeeps ==
  ASSUME IInv, RInv, HaltBegin
  PROVE  RInv'
<1>1. TypeOK'
  <2>1. /\ status' \in [Threads -> Statuses]
        /\ recovery' \in [Threads -> Recovery \cup {None}]
    BY DEF RInv, TypeOK, HaltBegin, Statuses
  <2>2. halting' \subseteq SessionIds
    BY DEF RInv, TypeOK, HaltBegin
  <2>3. QED
    BY <2>1, <2>2 DEF RInv, TypeOK, HaltBegin, requests, workers, bounds
<1>2. ASSUME NEW u \in Threads PROVE Quiet(u)
  BY AgentThreadsAssumption DEF IInv, Shape, AttemptInv, Attempts, RInv, TypeOK, Slots,
       Quiet, QuietRequests, QuietRows, HaltBegin, rows, requests, waits, steering,
       workers, bounds, hist
<1>3. QED
  BY <1>1, <1>2, QuietStep DEF RInv

\* The owner's resume touches no row.
LEMMA ResumeAgentsKeeps ==
  ASSUME IInv, RInv, ResumeAgents
  PROVE  RInv'
<1>1. TypeOK'
  BY AgentThreadsAssumption DEF RInv, TypeOK, Statuses, Recovery, Request, Phases,
       Codes, WorkerStates, Sources, Slots, ResumeAgents, rows, requests, waits,
       steering, workers, bounds, hist
<1>2. ASSUME NEW u \in Threads PROVE Quiet(u)
  BY AgentThreadsAssumption DEF IInv, Shape, AttemptInv, Attempts, RInv, TypeOK, Slots,
       Quiet, QuietRequests, QuietRows, ResumeAgents, rows, requests, waits, steering,
       workers, bounds, hist
<1>3. QED
  BY <1>1, <1>2, QuietStep DEF RInv

\* A claim writes a whole row and a whole request.
LEMMA ClaimTypes ==
  ASSUME TypeOK, NEW r \in Slots,
         InPhase(r, "checking") \/ InPhase(r, "stopping-stale"),
         Claim(r)
  PROVE  /\ recovery' \in [Threads -> Recovery \cup {None}]
         /\ req' \in [Slots -> Request \cup {None}]
<1>1. req[r] \in Request /\ req[r].thread \in Threads
  BY DEF TypeOK, InPhase, Request
<1>2. ASSUME NEW phase \in Phases, NEW code \in Codes
      PROVE  [thread |-> req[r].thread, phase |-> phase, session |-> None, code |-> code] \in Request
  BY <1>1, <1>2 DEF Request
<1>3. req' \in [Slots -> Request \cup {None}]
  <2>1. PICK phase \in Phases, code \in Codes : Goto(r, req[r].thread, phase, None, code)
    BY DEF Claim, Reply, Phases, Codes
  <2>2. QED
    BY <1>2, <2>1 DEF TypeOK, Goto
<1>4. recovery' \in [Threads -> Recovery \cup {None}]
  <2>1. CASE Claimable(req[r].thread)
    <3>1. recovery[req[r].thread] \in Recovery
      BY <1>1, <2>1 DEF TypeOK, Claimable
    <3>2. [pending |-> FALSE, attempts |-> recovery[req[r].thread].attempts + 1,
           stale |-> recovery[req[r].thread].stale] \in Recovery
      BY <3>1 DEF Recovery
    <3>3. QED
      BY <3>2 DEF TypeOK, Claim, ClearRecovery
  <2>2. CASE ~Claimable(req[r].thread)
    BY <2>2 DEF TypeOK, Claim, ClearRecovery
  <2>3. QED
    BY <2>1, <2>2
<1>5. QED
  BY <1>3, <1>4

\* A claim: the attempt is counted before its session is started, and the session it
\* replaces is gone by then.
LEMMA ClaimKeeps ==
  ASSUME IInv, RInv, NEW r \in Slots,
         InPhase(r, "checking") \/ InPhase(r, "stopping-stale"),
         Claim(r),
         UNCHANGED <<status, session, startedBy, nextSession, starts, crashes>>,
         \A s \in SessionIds : worker[s] = "none" => worker'[s] = "none",
         r \in RemoteThreads /\ recovery[r] # None /\ recovery[r].stale # None
           => worker'[recovery[r].stale] = "none",
         NEW u \in Threads
  PROVE  Counted(u)' /\ Known(u)' /\ Claimed(u)'
<1>1. r \in Threads => req[r].thread = r /\ r \notin Callers
  BY AgentThreadsAssumption DEF IInv, AttemptInv, Attempts, InPhase
<1>2. CASE UNCHANGED recovery /\ \E code : Reply(r, code)
  <2>1. QuietRequests(u)
    BY <1>2, GotoIsQuiet DEF Reply, IInv
  <2>2. QuietRows(u)
    BY <1>2 DEF QuietRows
  <2>3. QED
    BY <2>1, <2>2, QuietStep DEF Quiet
<1>3. CASE /\ r \in Threads /\ Claimable(r)
           /\ Goto(r, r, "starting", None, "none")
           /\ recovery' = [recovery EXCEPT ![r] =
                 [pending |-> FALSE, attempts |-> recovery[r].attempts + 1,
                  stale |-> recovery[r].stale]]
  <2>1. \A x \in Slots : x # r => req'[x] = req[x]
    BY <1>3 DEF IInv, Shape, Goto
  <2>2. req'[r].phase = "starting"
    BY <1>3 DEF IInv, Shape, Goto
  <2>3. CASE u # r
    <3>1. QuietRequests(u)
      BY <1>1, <1>3, <2>1, <2>3 DEF QuietRequests, Slots
    <3>2. QuietRows(u)
      BY <1>3, <2>3 DEF QuietRows, IInv, Shape
    <3>3. QED
      BY <3>1, <3>2, QuietStep DEF Quiet
  <2>4. CASE u = r
    <3>1. Waiting(u)' \subseteq Waiting(u)
      BY <1>1, <1>3, <2>1 DEF Waiting, Slots
    <3>2. Owing(u)
      BY <1>3, <2>4 DEF Owing, Claimable
    <3>3. Counted(u)'
      BY <3>1, <3>2, CountKept DEF RInv
    <3>4. recovery'[u] = [pending |-> FALSE, attempts |-> recovery[r].attempts + 1,
                          stale |-> recovery[r].stale]
      BY <1>3, <2>4 DEF IInv, Shape
    <3>5. recovery[u] # None
      BY <1>3, <2>4 DEF Claimable
    <3>6. Known(u)'
      BY <2>4, <3>4, <3>5 DEF RInv, Known
    <3>7. Claimed(u)'
      BY <2>2, <2>4, <3>4, <3>5 DEF Claimed, InPhase
    <3>8. QED
      BY <3>3, <3>6, <3>7
  <2>5. QED
    BY <2>3, <2>4
<1>4. CASE /\ r \notin Threads
           /\ Goto(r, req[r].thread, "starting", None, "none")
           /\ ClearRecovery(req[r].thread)
  <2>1. \A x \in Slots : x # r => req'[x] = req[x]
    BY <1>4 DEF IInv, Shape, Goto
  <2>2. req'[u] = req[u]
    BY <1>4, <2>1 DEF Slots
  <2>3. recovery'[u] \in {recovery[u], None}
    BY <1>4 DEF IInv, Shape, ClearRecovery
  <2>4. req'[r].thread = req[r].thread
    BY <1>4 DEF IInv, Shape, Goto
  <2>5. Waiting(u)' \subseteq Waiting(u)
    BY <2>1, <2>4 DEF Waiting, InPhase, Slots
  <2>6. Owing(u)' => Owing(u)
    BY <2>2, <2>3 DEF Owing, InPhase
  <2>7. Counted(u)'
    BY <2>5, <2>6, CountKept DEF RInv
  <2>8. Known(u)'
    BY <2>3 DEF RInv, Known
  <2>9. Claimed(u)'
    <3>1. recovery[u] # None /\ recovery[u].stale # None => recovery[u].stale \in SessionIds
      BY DEF RInv, TypeOK, Recovery
    <3>2. QED
      BY <2>2, <2>3, <3>1 DEF RInv, Claimed, InPhase
  <2>10. QED
    BY <2>7, <2>8, <2>9
<1>5. QED
  BY <1>1, <1>2, <1>3, <1>4 DEF Claim, Recovering

\* A start may use one more session number, which its counter pays for.
LEMMA CallerStartKeeps ==
  ASSUME IInv, RInv, NEW c \in Callers, NEW t \in Threads, CallerStart(c, t)
  PROVE  RInv'
<1>1. TypeOK'
  BY AgentThreadsAssumption DEF RInv, TypeOK, Request, Phases, Codes, Slots, CallerStart,
       Enter, Goto, rows, waits, steering, workers, hist
<1>2. ASSUME NEW u \in Threads PROVE Counted(u)' /\ Known(u)' /\ Claimed(u)'
  <2>1. PICK phase, code : Goto(c, t, phase, None, code)
    BY DEF CallerStart, Enter
  <2>2. /\ \A x \in Slots : x # c => req'[x] = req[x]
        /\ req'[c].thread = t
    BY <2>1 DEF IInv, Shape, Goto, Slots
  <2>3. req'[u] = req[u] /\ c # u
    BY <2>2, AgentThreadsAssumption DEF Slots
  <2>4. UNCHANGED <<status, session, recovery, startedBy, worker, nextSession, crashes>>
    BY DEF CallerStart, rows, workers, hist
  <2>5. Known(u)' /\ Claimed(u)' /\ Owed(u)' = Owed(u)
    BY <2>3, <2>4 DEF RInv, Known, Claimed, Owed, Owing, InPhase
  <2>6. Counted(u)'
    <3>1. /\ nextSession[u] \in Nat /\ starts[u] \in Nat /\ crashes \in Nat
          /\ Owed(u) \in {0, 1} /\ Cardinality(Waiting(u)) \in Nat /\ IsFiniteSet(Waiting(u))
      BY AgentThreadsAssumption, FS_CardinalityType DEF RInv, TypeOK, Owed, Counted
    <3>2. CASE u = t
      <4>1. Waiting(u)' \subseteq Waiting(u) \cup {c}
        BY <2>2 DEF Waiting, Slots
      <4>2. /\ IsFiniteSet(Waiting(u) \cup {c})
            /\ Cardinality(Waiting(u) \cup {c}) \in {Cardinality(Waiting(u)), Cardinality(Waiting(u)) + 1}
        BY <3>1, FS_AddElement
      <4>3. /\ IsFiniteSet(Waiting(u)')
            /\ Cardinality(Waiting(u)') <= Cardinality(Waiting(u) \cup {c})
        BY <4>1, <4>2, FS_Subset
      <4>4. Cardinality(Waiting(u)') \in Nat
        BY <4>3, FS_CardinalityType
      <4>5. starts'[u] = starts[u] + 1
        BY <3>2 DEF RInv, TypeOK, CallerStart
      <4>6. nextSession[u] + Cardinality(Waiting(u)) + Owed(u) <= starts[u] + crashes + 1
        BY DEF RInv, Counted
      <4>7. QED
        BY <2>4, <2>5, <3>1, <4>2, <4>3, <4>4, <4>5, <4>6 DEF Counted
    <3>3. CASE u # t
      <4>1. Waiting(u)' \subseteq Waiting(u)
        BY <2>2, <3>3 DEF Waiting, Slots
      <4>2. /\ IsFiniteSet(Waiting(u)')
            /\ Cardinality(Waiting(u)') <= Cardinality(Waiting(u))
        BY <4>1, <3>1, FS_Subset
      <4>3. Cardinality(Waiting(u)') \in Nat
        BY <4>2, FS_CardinalityType
      <4>4. starts'[u] = starts[u]
        BY <3>3 DEF RInv, TypeOK, CallerStart
      <4>5. nextSession[u] + Cardinality(Waiting(u)) + Owed(u) <= starts[u] + crashes + 1
        BY DEF RInv, Counted
      <4>6. QED
        BY <2>4, <2>5, <3>1, <4>2, <4>3, <4>4, <4>5 DEF Counted
    <3>4. QED
      BY <3>2, <3>3
  <2>7. QED
    BY <2>5, <2>6
<1>3. QED
  BY <1>1, <1>2 DEF RInv

\* The stale session of a row is looked up once, and the row keeps naming it.
LEMMA CheckDoneKeeps ==
  ASSUME IInv, RInv, NEW r \in Slots, NEW outcome \in {"ok", "unavailable", "bad"},
         CheckDone(r, outcome)
  PROVE  RInv'
<1>1. r \in Threads => req[r].thread = r /\ r \notin Callers
  BY AgentThreadsAssumption DEF IInv, AttemptInv, Attempts, CheckDone, InPhase
<1>2. TypeOK'
  <2>1. /\ recovery' \in [Threads -> Recovery \cup {None}]
        /\ req' \in [Slots -> Request \cup {None}]
    <3>1. CASE Claim(r)
      BY <3>1, ClaimTypes DEF RInv, CheckDone
    <3>2. CASE ~Claim(r)
      <4>1. req[r].thread \in Threads /\ StaleSession(req[r].thread) \in SessionIds \cup {None}
        BY DEF RInv, TypeOK, CheckDone, InPhase, Request, StaleSession, Recovery
      <4>2. PICK phase \in Phases, x \in SessionIds \cup {None}, code \in Codes :
              Goto(r, req[r].thread, phase, x, code)
        BY <3>2, <4>1 DEF CheckDone, Reply, Phases, Codes
      <4>3. [thread |-> req[r].thread, phase |-> phase, session |-> x, code |-> code] \in Request
        BY <4>1, <4>2 DEF Request
      <4>4. req' \in [Slots -> Request \cup {None}]
        BY <4>2, <4>3 DEF RInv, TypeOK, Goto
      <4>5. UNCHANGED recovery
        BY <3>2 DEF CheckDone
      <4>6. QED
        BY <4>4, <4>5 DEF RInv, TypeOK
    <3>3. QED
      BY <3>1, <3>2
  <2>2. QED
    BY <2>1 DEF RInv, TypeOK, CheckDone, waits, steering, workers, bounds, hist
<1>3. UNCHANGED <<status, session, startedBy, worker, nextSession, starts, crashes>>
  BY DEF CheckDone, workers, bounds, hist
<1>4. ASSUME NEW u \in Threads PROVE Counted(u)' /\ Known(u)' /\ Claimed(u)'
  <2>1. CASE UNCHANGED recovery /\ Reply(r, outcome)
    <3>1. QuietRequests(u)
      BY <2>1, GotoIsQuiet DEF Reply, IInv
    <3>2. QuietRows(u)
      BY <1>3, <2>1 DEF QuietRows
    <3>3. QED
      BY <3>1, <3>2, QuietStep DEF Quiet
  <2>2. CASE /\ r \in Threads /\ UNCHANGED recovery
             /\ Goto(r, r, "stopping-stale", StaleSession(r), "none")
    <3>1. \A x \in Slots : x # r => req'[x] = req[x]
      BY <2>2 DEF IInv, Shape, Goto
    <3>2. req'[r].phase = "stopping-stale" /\ req'[r].session = StaleSession(r)
      BY <2>2 DEF IInv, Shape, Goto
    <3>3. CASE u # r
      <4>1. QuietRequests(u)
        BY <1>1, <2>2, <3>1, <3>3 DEF QuietRequests, Slots
      <4>2. QuietRows(u)
        BY <1>3, <2>2 DEF QuietRows
      <4>3. QED
        BY <4>1, <4>2, QuietStep DEF Quiet
    <3>4. CASE u = r
      <4>1. Waiting(u)' \subseteq Waiting(u)
        BY <1>1, <2>2, <3>1 DEF Waiting, Slots
      <4>2. Owing(u)' => Owing(u)
        BY <2>2, <3>2, <3>4 DEF Owing, InPhase
      <4>3. Counted(u)'
        BY <1>3, <4>1, <4>2, CountKept DEF RInv
      <4>4. Known(u)'
        BY <1>3, <2>2 DEF RInv, Known
      <4>5. Claimed(u)'
        BY <1>3, <2>2, <3>2, <3>4 DEF RInv, Claimed, InPhase, StaleSession
      <4>6. QED
        BY <4>3, <4>4, <4>5
    <3>5. QED
      BY <3>3, <3>4
  <2>3. CASE /\ Claim(r)
             /\ r \in RemoteThreads => StaleSession(r) = None
    <3>1. r \in RemoteThreads /\ recovery[r] # None => recovery[r].stale = None
      BY <2>3 DEF StaleSession
    <3>2. InPhase(r, "checking")
      BY DEF CheckDone
    <3>3. QED
      BY <1>3, <2>3, <3>1, <3>2, ClaimKeeps
  <2>4. QED
    BY <1>1, <2>1, <2>2, <2>3, AgentThreadsAssumption DEF CheckDone, Recovering
<1>5. QED
  BY <1>2, <1>4 DEF RInv

\* The session left behind is gone before the row is claimed.
LEMMA StaleStoppedKeeps ==
  ASSUME IInv, RInv, NEW r \in Slots, NEW ok \in BOOLEAN, StaleStopped(r, ok)
  PROVE  RInv'
<1>1. TypeOK'
  <2>1. /\ recovery' \in [Threads -> Recovery \cup {None}]
        /\ req' \in [Slots -> Request \cup {None}]
    <3>1. CASE Claim(r)
      BY <3>1, ClaimTypes DEF RInv, StaleStopped
    <3>2. CASE ~Claim(r)
      BY <3>2 DEF RInv, TypeOK, Request, Phases, Codes, StaleStopped, InPhase, Reply, Goto
    <3>3. QED
      BY <3>1, <3>2
  <2>2. worker' \in [SessionIds -> WorkerStates]
    BY DEF RInv, TypeOK, StaleStopped, WorkerStates
  <2>3. QED
    BY <2>1, <2>2 DEF RInv, TypeOK, StaleStopped, waits, steering, bounds, hist
<1>2. UNCHANGED <<status, session, startedBy, nextSession, starts, crashes>>
  BY DEF StaleStopped, bounds, hist
<1>3. \A s \in SessionIds : worker[s] = "none" => worker'[s] = "none"
  BY DEF RInv, TypeOK, StaleStopped
<1>4. ASSUME NEW u \in Threads PROVE Counted(u)' /\ Known(u)' /\ Claimed(u)'
  <2>1. CASE UNCHANGED recovery /\ Reply(r, "unavailable")
    <3>1. QuietRequests(u)
      BY <2>1, GotoIsQuiet DEF Reply, IInv
    <3>2. QuietRows(u)
      BY <1>2, <1>3, <2>1 DEF QuietRows
    <3>3. QED
      BY <3>1, <3>2, QuietStep DEF Quiet
  <2>2. CASE worker' = [worker EXCEPT ![req[r].session] = "none"] /\ Claim(r)
    <3>1. InPhase(r, "stopping-stale")
      BY DEF StaleStopped
    <3>2. ASSUME r \in RemoteThreads, recovery[r] # None, recovery[r].stale # None
          PROVE  worker'[recovery[r].stale] = "none"
      <4>1. r \in Threads /\ recovery[r].stale \in SessionIds
        BY <3>2, AgentThreadsAssumption DEF RInv, TypeOK, Recovery
      <4>2. recovery[r].stale = req[r].session
        BY <3>1, <3>2, <4>1 DEF RInv, Claimed
      <4>3. QED
        BY <2>2, <4>1, <4>2 DEF RInv, TypeOK
    <3>3. QED
      BY <1>2, <1>3, <2>2, <3>1, <3>2, ClaimKeeps
  <2>3. QED
    BY <2>1, <2>2 DEF StaleStopped
<1>5. QED
  BY <1>1, <1>4 DEF RInv

\* A new session takes the next number, which no row names yet.
LEMMA StartedKeeps ==
  ASSUME IInv, RInv, NEW r \in Slots, Started(r)
  PROVE  RInv'
<1> DEFINE t == req[r].thread
           s == <<t, nextSession[t]>>
<1>1. InPhase(r, "starting") /\ t \in Threads
  BY DEF RInv, TypeOK, Request, Started, InPhase
<1>2. r \in Threads => t = r /\ r \notin Callers
  BY AgentThreadsAssumption DEF IInv, AttemptInv, Attempts, Started, InPhase
<1>3. r \notin Threads => r \in Callers /\ r \in Waiting(t)
  BY <1>1 DEF Slots, Waiting, InPhase
<1>4. s \in SessionIds
  BY <1>1, <1>2, <1>3, NumbersSuffice DEF RInv, Owing
<1>5. nextSession[t] \in 1..(MaxStarts + MaxCrashes)
  BY <1>4 DEF SessionIds
<1>6. PICK phase \in {"discarding", "replied"}, x \in {s, None}, code \in Codes :
        Goto(r, t, phase, x, code)
  BY DEF Started, Reply, Codes
<1>7. nextSession' = [nextSession EXCEPT ![t] = @ + 1]
  BY DEF Started
<1>8. TypeOK'
  <2>1. req' \in [Slots -> Request \cup {None}]
    <3>1. [thread |-> t, phase |-> phase, session |-> x, code |-> code] \in Request
      BY <1>1, <1>4, <1>6 DEF Request, Phases
    <3>2. QED
      BY <1>6, <3>1 DEF RInv, TypeOK, Goto
  <2>2. nextSession' \in [Threads -> 1..(MaxStarts + MaxCrashes + 1)]
    BY <1>1, <1>5, <1>7, AgentThreadsAssumption DEF RInv, TypeOK
  <2>3. worker' \in [SessionIds -> WorkerStates]
    BY DEF RInv, TypeOK, Started, WorkerStates
  <2>4. /\ status' \in [Threads -> Statuses] /\ startedBy' \in [Threads -> Sources]
        /\ session' \in [Threads -> SessionIds \cup {None}]
        /\ stopped' \in [Threads -> Nat] /\ steered' \subseteq Threads
    BY <1>4 DEF RInv, TypeOK, Started, MarkRunning, Statuses, Sources
  <2>5. QED
    BY <2>1, <2>2, <2>3, <2>4 DEF RInv, TypeOK, Started, waits, bounds
<1>9. ASSUME NEW u \in Threads PROVE Counted(u)' /\ Known(u)' /\ Claimed(u)'
  <2>1. /\ \A y \in Slots : y # r => req'[y] = req[y]
        /\ req'[r].phase \in {"discarding", "replied"}
    BY <1>6 DEF IInv, Shape, Goto
  <2>2. UNCHANGED <<recovery, starts, crashes>>
    BY DEF Started, bounds
  <2>3. \A y \in SessionIds : y # s => worker'[y] = worker[y]
    BY DEF RInv, TypeOK, Started
  <2>4. u # t => nextSession'[u] = nextSession[u]
    BY <1>7 DEF RInv, TypeOK
  <2>5. nextSession'[t] = nextSession[t] + 1
    BY <1>1, <1>7 DEF RInv, TypeOK
  <2>6. Counted(u)'
    <3>1. /\ nextSession[u] \in Nat /\ starts[u] \in Nat /\ crashes \in Nat
          /\ Owed(u) \in {0, 1} /\ Owed(u)' \in {0, 1}
          /\ Cardinality(Waiting(u)) \in Nat /\ IsFiniteSet(Waiting(u))
          /\ nextSession[u] + Cardinality(Waiting(u)) + Owed(u) <= starts[u] + crashes + 1
      BY AgentThreadsAssumption, FS_CardinalityType DEF RInv, TypeOK, Owed, Counted
    <3>2. Waiting(u)' \subseteq Waiting(u) \ {r}
      BY <2>1 DEF Waiting, Slots
    <3>3. /\ IsFiniteSet(Waiting(u) \ {r})
          /\ Cardinality(Waiting(u) \ {r}) =
               IF r \in Waiting(u) THEN Cardinality(Waiting(u)) - 1 ELSE Cardinality(Waiting(u))
      BY <3>1, FS_RemoveElement
    <3>4. IsFiniteSet(Waiting(u)') /\ Cardinality(Waiting(u)') <= Cardinality(Waiting(u) \ {r})
      BY <3>2, <3>3, FS_Subset
    <3>5. Cardinality(Waiting(u)') \in Nat
      BY <3>4, FS_CardinalityType
    <3>6. Owed(u)' <= Owed(u)
      BY <2>1, <2>2 DEF Owed, Owing, InPhase, Slots
    <3>7. CASE u # t
      BY <2>2, <2>4, <3>1, <3>3, <3>4, <3>5, <3>6, <3>7 DEF Counted
    <3>8. CASE u = t /\ r \in Threads
      <4>1. Owed(u) = 1
        BY <1>1, <1>2, <3>8 DEF Owed, Owing
      <4>2. ~Owing(u)'
        BY <1>1, <1>2, <2>1, <2>2, <3>8 DEF RInv, Claimed, Owing, InPhase
      <4>3. Owed(u)' = 0
        BY <4>2 DEF Owed
      <4>4. QED
        BY <2>2, <2>5, <3>1, <3>3, <3>4, <3>5, <3>8, <4>1, <4>3 DEF Counted
    <3>9. CASE u = t /\ r \notin Threads
      BY <1>3, <2>2, <2>5, <3>1, <3>3, <3>4, <3>5, <3>6, <3>9 DEF Counted
    <3>10. QED
      BY <3>7, <3>8, <3>9
  <2>7. nextSession[u] \in Nat /\ nextSession[u] <= nextSession'[u]
    BY <2>4, <2>5 DEF RInv, TypeOK
  <2>8. Known(u)'
    <3>1. session'[u] = session[u] \/ (u = t /\ session'[u] = s)
      BY <1>1 DEF RInv, TypeOK, Started, MarkRunning
    <3>2. CASE session'[u] = session[u]
      <4>1. session[u] # None => session[u][2] \in Nat
        BY DEF RInv, TypeOK, SessionIds
      <4>2. recovery[u] # None /\ recovery[u].stale # None => recovery[u].stale[2] \in Nat
        BY DEF RInv, TypeOK, SessionIds, Recovery
      <4>3. nextSession'[u] \in Nat
        BY <1>8 DEF TypeOK
      <4>4. QED
        BY <2>2, <2>7, <3>2, <4>1, <4>2, <4>3 DEF RInv, Known
    <3>3. CASE u = t /\ session'[u] = s
      <4>1. recovery[u] # None /\ recovery[u].stale # None => recovery[u].stale[2] \in Nat
        BY DEF RInv, TypeOK, SessionIds, Recovery
      <4>2. QED
        BY <2>2, <2>5, <2>7, <3>3, <4>1 DEF RInv, Known
    <3>4. QED
      BY <3>1, <3>2, <3>3
  <2>9. Claimed(u)'
    <3>1. recovery[u] # None /\ recovery[u].stale # None
          => recovery[u].stale \in SessionIds /\ recovery[u].stale # s
      BY DEF RInv, TypeOK, Recovery, Known
    <3>2. req'[u] = req[u] \/ (u = r /\ req'[u].phase \in {"discarding", "replied"})
      BY <2>1 DEF Slots
    <3>3. status'[u] = "running" /\ startedBy'[u] = "recovery"
          => \/ status[u] = "running" /\ startedBy[u] = "recovery"
             \/ u = r
      BY <1>1, <1>2 DEF RInv, TypeOK, Started, MarkRunning, Recovering
    <3>4. u = r /\ recovery[u] # None => ~recovery[u].pending
      BY <1>1 DEF RInv, Claimed
    <3>5. QED
      BY <2>2, <2>3, <3>1, <3>2, <3>3, <3>4 DEF RInv, Claimed, InPhase
  <2>10. QED
    BY <2>6, <2>8, <2>9
<1>10. QED
  BY <1>8, <1>9 DEF RInv

\* A restart forgets the requests and queues what was running with its session.
LEMMA CrashKeeps ==
  ASSUME IInv, RInv, Crash
  PROVE  RInv'
<1>1. TypeOK'
  <2>1. recovery' \in [Threads -> Recovery \cup {None}]
    <3>1. ASSUME NEW u \in Threads PROVE recovery'[u] \in Recovery \cup {None}
      <4>1. StaleSession(u) \in SessionIds \cup {None} /\ session[u] \in SessionIds \cup {None}
        BY DEF RInv, TypeOK, Recovery, StaleSession
      <4>2. recovery[u] # None => recovery[u].attempts \in Nat
        BY DEF RInv, TypeOK, Recovery
      <4>3. QED
        BY <4>1, <4>2 DEF RInv, TypeOK, Recovery, Crash
    <3>2. QED
      BY <3>1 DEF Crash
  <2>2. crashes' \in 0..MaxCrashes
    BY AgentThreadsAssumption DEF RInv, TypeOK, Crash
  <2>3. worker' \in [SessionIds -> WorkerStates]
    BY DEF RInv, TypeOK, Crash, WorkerStates
  <2>4. QED
    BY <2>1, <2>2, <2>3 DEF RInv, TypeOK, Crash, Statuses, hist
<1>2. ASSUME NEW u \in Threads PROVE Counted(u)' /\ Known(u)' /\ Claimed(u)'
  <2>1. \A x \in Slots : req'[x] = None
    BY DEF Crash
  <2>2. Waiting(u)' = {}
    BY <2>1 DEF Waiting, Slots
  <2>3. IsFiniteSet(Waiting(u)') /\ Cardinality(Waiting(u)') = 0
    BY <2>2, FS_EmptySet
  <2>4. Counted(u)'
    <3>1. /\ nextSession[u] \in Nat /\ starts[u] \in Nat /\ crashes \in Nat
          /\ Owed(u) \in {0, 1} /\ Owed(u)' \in {0, 1} /\ Cardinality(Waiting(u)) \in Nat
          /\ nextSession[u] + Cardinality(Waiting(u)) + Owed(u) <= starts[u] + crashes + 1
      BY AgentThreadsAssumption, FS_CardinalityType DEF RInv, TypeOK, Owed, Counted
    <3>2. UNCHANGED <<nextSession, starts>> /\ crashes' = crashes + 1
      BY DEF Crash
    <3>3. QED
      BY <2>3, <3>1, <3>2 DEF Counted
  <2>5. Known(u)'
    BY DEF RInv, Known, Crash, StaleSession
  <2>6. Claimed(u)'
    <3>1. req'[u] = None
      BY <2>1 DEF Slots
    <3>2. status'[u] # "running"
      BY DEF Crash, Recoverable
    <3>3. recovery'[u] # None /\ ~recovery'[u].pending => recovery'[u] = recovery[u]
      BY DEF Crash
    <3>4. recovery[u] # None /\ recovery[u].stale # None => recovery[u].stale \in SessionIds
      BY DEF RInv, TypeOK, Recovery
    <3>5. \A s \in SessionIds : worker[s] = "none" => worker'[s] = "none"
      BY DEF Crash
    <3>6. QED
      BY <3>1, <3>2, <3>3, <3>4, <3>5 DEF RInv, Claimed, InPhase
  <2>7. QED
    BY <2>4, <2>5, <2>6
<1>3. QED
  BY <1>1, <1>2 DEF RInv

\* A fresh database has used no session number.
LEMMA InitRInv == Init => RInv
<1>1. SUFFICES ASSUME Init PROVE RInv
  OBVIOUS
<1>2. TypeOK
  <2>1. /\ 0 \in 0..MaxStarts /\ 0 \in 0..MaxCrashes
        /\ 1 \in 1..(MaxStarts + MaxCrashes + 1)
    BY AgentThreadsAssumption
  <2>2. /\ nextSession \in [Threads -> 1..(MaxStarts + MaxCrashes + 1)]
        /\ starts \in [Threads -> 0..MaxStarts]
        /\ crashes \in 0..MaxCrashes
    BY <1>1, <2>1 DEF Init
  <2>3. QED
    BY <1>1, <2>2 DEF Init, TypeOK, Statuses, WorkerStates, Sources
<1>3. ASSUME NEW u \in Threads PROVE Counted(u) /\ Known(u) /\ Claimed(u)
  <2>1. Waiting(u) = {} /\ ~Owing(u)
    BY <1>1 DEF Init, Waiting, Owing, InPhase, Slots
  <2>2. IsFiniteSet(Waiting(u)) /\ Cardinality(Waiting(u)) = 0 /\ Owed(u) = 0
    BY <2>1, FS_EmptySet DEF Owed
  <2>3. Counted(u)
    BY <1>1, <2>2 DEF Init, Counted
  <2>4. Known(u) /\ Claimed(u)
    BY <1>1 DEF Init, Known, Claimed, InPhase, Slots
  <2>5. QED
    BY <2>3, <2>4
<1>4. QED
  BY <1>2, <1>3 DEF RInv

\* Every step keeps the second invariant, given the first: one case per action.
LEMMA NextRInv == IInv /\ RInv /\ [Next]_threadVars => RInv'
<1>1. SUFFICES ASSUME IInv, RInv, [Next]_threadVars PROVE RInv'
  OBVIOUS
<1>2. ASSUME NEW c \in Callers, NEW t \in Threads, CallerStart(c, t) PROVE RInv'
  BY <1>1, <1>2, CallerStartKeeps
<1>3. ASSUME NEW c \in Callers, NEW t \in Threads, Send(c, t) PROVE RInv'
  BY <1>1, <1>3, SendKeeps
<1>4. ASSUME NEW r \in Slots, NEW outcome \in {"ok", "unavailable", "bad"}, CheckDone(r, outcome) PROVE RInv'
  BY <1>1, <1>4, CheckDoneKeeps
<1>5. ASSUME NEW r \in Slots, NEW ok \in BOOLEAN, StaleStopped(r, ok) PROVE RInv'
  BY <1>1, <1>5, StaleStoppedKeeps
<1>6. ASSUME NEW r \in Slots, NEW ok \in BOOLEAN, Discarded(r, ok) PROVE RInv'
  BY <1>1, <1>6, DiscardedKeeps
<1>7. ASSUME NEW r \in Slots, Started(r) PROVE RInv'
  BY <1>1, <1>7, StartedKeeps
<1>8. ASSUME NEW r \in Slots, StartFails(r) PROVE RInv'
  BY <1>1, <1>8, StartFailsKeeps
<1>9. ASSUME NEW c \in Callers, Collect(c) PROVE RInv'
  BY <1>1, <1>9, CollectKeeps
<1>10. ASSUME NEW c \in Callers, NEW ok \in BOOLEAN, SendDone(c, ok) PROVE RInv'
  BY <1>1, <1>10, SendDoneKeeps
<1>11. CASE SweepStart
  BY <1>1, <1>11, SweepStartKeeps
<1>12. CASE SweepEnd
  BY <1>1, <1>12, SweepEndKeeps
<1>13. ASSUME NEW t \in Threads, SweepTake(t) PROVE RInv'
  BY <1>1, <1>13, SweepTakeKeeps
<1>14. ASSUME NEW t \in Threads, RecoveryEnter(t) PROVE RInv'
  BY <1>1, <1>14, RecoveryEnterKeeps
<1>15. ASSUME NEW t \in Threads, RecoveryReplied(t) PROVE RInv'
  BY <1>1, <1>15, RecoveryRepliedKeeps
<1>16. ASSUME NEW t \in Threads, FirstTurnFails(t) PROVE RInv'
  BY <1>1, <1>16, FirstTurnFailsKeeps
<1>17. ASSUME NEW t \in Threads, Steer(t) PROVE RInv'
  BY <1>1, <1>17, SteerKeeps
<1>18. ASSUME NEW t \in Threads, Block(t) PROVE RInv'
  BY <1>1, <1>18, BlockKeeps
<1>19. ASSUME NEW t \in Threads, StopNow(t) PROVE RInv'
  BY <1>1, <1>19, StopNowKeeps
<1>20. ASSUME NEW t \in Threads, StopBegin(t) PROVE RInv'
  BY <1>1, <1>20, StopBeginKeeps
<1>21. ASSUME NEW t \in Threads, InterruptBegin(t) PROVE RInv'
  BY <1>1, <1>21, InterruptBeginKeeps
<1>22. ASSUME NEW s \in SessionIds, TurnStarted(s) PROVE RInv'
  BY <1>1, <1>22, TurnStartedKeeps
<1>23. ASSUME NEW s \in SessionIds, TurnCompleted(s) PROVE RInv'
  BY <1>1, <1>23, TurnCompletedKeeps
<1>24. ASSUME NEW s \in SessionIds, NEW how \in {"completed", "error"}, SessionEnds(s, how) PROVE RInv'
  BY <1>1, <1>24, SessionEndsKeeps
<1>25. ASSUME NEW s \in SessionIds, NEW ok \in BOOLEAN, FlushDone(s, ok) PROVE RInv'
  BY <1>1, <1>25, FlushDoneKeeps
<1>26. ASSUME NEW s \in SessionIds, NEW ok \in BOOLEAN, StopEnd(s, ok) PROVE RInv'
  BY <1>1, <1>26, StopEndKeeps
<1>27. ASSUME NEW s \in SessionIds, NEW ok \in BOOLEAN, InterruptEnd(s, ok) PROVE RInv'
  BY <1>1, <1>27, InterruptEndKeeps
<1>28. ASSUME NEW s \in SessionIds, NEW ok \in BOOLEAN, HaltStop(s, ok) PROVE RInv'
  BY <1>1, <1>28, HaltStopKeeps
<1>29. CASE HaltBegin
  BY <1>1, <1>29, HaltBeginKeeps
<1>30. CASE ResumeAgents
  BY <1>1, <1>30, ResumeAgentsKeeps
<1>31. CASE Crash
  BY <1>1, <1>31, CrashKeeps
<1>32. CASE UNCHANGED threadVars
  <2>1. UNCHANGED <<status, session, recovery, req, worker, nextSession, starts, crashes, startedBy>>
    BY <1>32 DEF threadVars, rows, requests, workers, bounds, hist
  <2>2. TypeOK'
    BY <1>1, <1>32 DEF RInv, TypeOK, threadVars, rows, requests, waits, steering, workers,
         bounds, hist
  <2>3. ASSUME NEW u \in Threads PROVE Quiet(u)
    BY <2>1 DEF Quiet, QuietRequests, QuietRows
  <2>4. QED
    BY <1>1, <2>2, <2>3, QuietStep DEF RInv
<1>33. QED
  BY <1>1, <1>2, <1>3, <1>4, <1>5, <1>6, <1>7, <1>8, <1>9, <1>10, <1>11, <1>12, <1>13,
       <1>14, <1>15, <1>16, <1>17, <1>18, <1>19, <1>20, <1>21, <1>22, <1>23, <1>24, <1>25,
       <1>26, <1>27, <1>28, <1>29, <1>30, <1>31, <1>32 DEF Next

\* The second invariant holds in every reachable state.
LEMMA SpecRInv == Spec => []RInv
<1>1. QED
  BY InitRInv, NextRInv, SpecIInv, PTL DEF Spec

\* "any surviving old remote provider session is stopped before a replacement
\* starts" (docs/thread-recovery.md; the remote stop before claimRecovery in
\* routes/threads.ts): for any number of threads, restarts and racing requests, while
\* recovery runs a thread the session it replaces is not alive.
THEOREM ReplacementsAreAlone == Spec => [](TypeOK /\ ReplacementAlone)
<1>1. RInv => TypeOK /\ ReplacementAlone
  BY AgentThreadsAssumption DEF RInv, Claimed, ReplacementAlone, StaleSession
<1>2. QED
  BY <1>1, SpecRInv, PTL

------------------------------------------------------------------------------
\* Why a stop lasts.  What comes up after it took effect has a later number, and only
\* a request of a caller sends such a session a turn.

\* A number that is not given out has no process, and of a stopped thread the sessions
\* that came up after the stop have no turn.
WInv ==
  \A s \in SessionIds :
    /\ s[2] >= nextSession[s[1]] => worker[s] = "none"
    /\ stopped[s[1]] # 0 /\ s[2] >= stopped[s[1]] => worker[s] \notin {"sent", "active"}

\* A step that brings up no session and sends a turn to none that had none, unless
\* it ends the stop.
WorkQuiet ==
  /\ UNCHANGED nextSession
  /\ \A t \in Threads : stopped'[t] \in {0, stopped[t], nextSession[t]}
  /\ \A s \in SessionIds :
       /\ worker[s] = "none" => worker'[s] = "none"
       /\ worker'[s] \in {"sent", "active"} =>
            worker[s] \in {"sent", "active"} \/ stopped'[s[1]] = 0

LEMMA WorkQuietKeeps == WInv /\ WorkQuiet => WInv'
<1>1. SUFFICES ASSUME WInv, WorkQuiet, NEW s \in SessionIds
               PROVE  /\ s[2] >= nextSession[s[1]]' => worker'[s] = "none"
                      /\ stopped'[s[1]] # 0 /\ s[2] >= stopped'[s[1]]
                         => worker'[s] \notin {"sent", "active"}
  BY DEF WInv
<1>2. s[1] \in Threads
  BY DEF SessionIds
<1>3. QED
  BY <1>1, <1>2 DEF WInv, WorkQuiet

\* A session that starts is idle, or is sent its first turn: by a caller's request,
\* which ends the stop, or by a recovery whose row is there, so there is no stop.
LEMMA StartedWorks ==
  ASSUME IInv, RInv, WInv, NEW r \in Slots, Started(r)
  PROVE  WInv'
<1> DEFINE t == req[r].thread
           x == <<t, nextSession[t]>>
           cancelled == Recovering(r) /\ (status[t] # "interrupted" \/ recovery[t] = None)
<1>1. t \in Threads /\ nextSession[t] \in Nat
  BY DEF Started, InPhase, RInv, TypeOK, Request, IInv, Shape
<1>2. /\ nextSession' = [nextSession EXCEPT ![t] = @ + 1]
      /\ worker' = [worker EXCEPT ![x] = IF halted \/ cancelled THEN "idle" ELSE "sent"]
  BY DEF Started
<1>3. \A u \in Threads \ {t} : stopped'[u] = stopped[u]
  BY DEF Started, MarkRunning, RInv, TypeOK
<1>4. stopped'[t] = 0 \/ (stopped'[t] = stopped[t] /\ (halted \/ cancelled))
  <2>1. CASE halted \/ cancelled
    BY <2>1 DEF Started, MarkRunning
  <2>2. CASE ~halted /\ ~cancelled /\ Recovering(r)
    <3>1. stopped[t] = 0
      BY <1>1, <2>2 DEF IInv, StopInv
    <3>2. QED
      BY <2>2, <3>1 DEF Started, MarkRunning
  <2>3. CASE ~halted /\ ~cancelled /\ ~Recovering(r)
    BY <1>1, <2>3 DEF Started, MarkRunning, RInv, TypeOK
  <2>4. QED
    BY <2>1, <2>2, <2>3
<1>5. SUFFICES ASSUME NEW s \in SessionIds
               PROVE  /\ s[2] >= nextSession'[s[1]] => worker'[s] = "none"
                      /\ stopped'[s[1]] # 0 /\ s[2] >= stopped'[s[1]]
                         => worker'[s] \notin {"sent", "active"}
  BY DEF WInv
<1>6. s[1] \in Threads /\ s[2] \in Nat
  BY AgentThreadsAssumption DEF SessionIds
<1>7. CASE s = x
  BY <1>1, <1>2, <1>4, <1>7 DEF RInv, TypeOK
<1>8. CASE s # x
  <2>1. worker'[s] = worker[s]
    BY <1>2, <1>8 DEF RInv, TypeOK
  <2>2. s[2] >= nextSession'[s[1]] => s[2] >= nextSession[s[1]]
    BY <1>1, <1>2, <1>6 DEF RInv, TypeOK
  <2>3. stopped'[s[1]] # 0 => stopped'[s[1]] = stopped[s[1]]
    BY <1>3, <1>4, <1>6
  <2>4. QED
    BY <2>1, <2>2, <2>3 DEF WInv
<1>9. QED
  BY <1>7, <1>8

\* Requests, sweeps and stops send no turn; a process they end stays away.
LEMMA RequestsWork ==
  ASSUME IInv, RInv,
         \/ \E c \in Callers, t \in Threads : CallerStart(c, t)
         \/ \E r \in Slots, outcome \in {"ok", "unavailable", "bad"} : CheckDone(r, outcome)
         \/ \E r \in Slots, ok \in BOOLEAN : StaleStopped(r, ok) \/ Discarded(r, ok)
         \/ \E r \in Slots : StartFails(r)
         \/ \E c \in Callers : Collect(c)
         \/ \E c \in Callers, ok \in BOOLEAN : SendDone(c, ok)
         \/ SweepStart \/ SweepEnd
         \/ \E t \in Threads : SweepTake(t) \/ RecoveryEnter(t) \/ RecoveryReplied(t)
         \/ \E t \in Threads : FirstTurnFails(t) \/ Steer(t) \/ Block(t)
         \/ \E t \in Threads : StopBegin(t) \/ InterruptBegin(t)
         \/ \E s \in SessionIds, how \in {"completed", "error"} : SessionEnds(s, how)
         \/ \E s \in SessionIds, ok \in BOOLEAN : HaltStop(s, ok)
         \/ HaltBegin \/ ResumeAgents \/ Crash \/ UNCHANGED threadVars
  PROVE  WorkQuiet
<1>1. UNCHANGED <<nextSession, stopped>>
  BY DEF CallerStart, CheckDone, StaleStopped, Discarded, StartFails, Collect, SendDone,
       SweepStart, SweepEnd, SweepTake, RecoveryEnter, RecoveryReplied, FirstTurnFails, Steer,
       Block, StopBegin, InterruptBegin, SessionEnds, HaltStop, HaltBegin, ResumeAgents, Crash,
       threadVars, workers, hist
<1>2. \A s \in SessionIds :
        /\ worker[s] = "none" => worker'[s] = "none"
        /\ worker'[s] \in {"sent", "active"} => worker[s] \in {"sent", "active"}
  <2>1. CASE UNCHANGED worker
    BY <2>1
  <2>2. CASE \E s \in SessionIds : worker' = [worker EXCEPT ![s] = "none"]
    BY <2>2 DEF RInv, TypeOK
  <2>3. CASE \E t \in Threads : FirstTurnFails(t) \/ Block(t)
    BY <2>3 DEF FirstTurnFails, Block, RInv, TypeOK
  <2>4. CASE Crash
    BY <2>4 DEF Crash, RInv, TypeOK
  <2>5. ASSUME NEW r \in Slots, NEW ok \in BOOLEAN, StaleStopped(r, ok) \/ Discarded(r, ok)
        PROVE  UNCHANGED worker \/ \E s : worker' = [worker EXCEPT ![s] = "none"]
    BY <2>5 DEF StaleStopped, Discarded
  <2>6. CASE \E r \in Slots, ok \in BOOLEAN : StaleStopped(r, ok) \/ Discarded(r, ok)
    BY <2>5, <2>6 DEF RInv, TypeOK
  <2>7. QED
    BY <2>1, <2>2, <2>3, <2>4, <2>6
       DEF CallerStart, CheckDone, StartFails, Collect, SendDone, SweepStart, SweepEnd,
           SweepTake, RecoveryEnter, RecoveryReplied, Steer, StopBegin, InterruptBegin,
           SessionEnds, HaltStop, HaltBegin, ResumeAgents, threadVars, workers
<1>3. QED
  BY <1>1, <1>2 DEF WorkQuiet

\* A turn is sent by a caller's message, which ends the stop, or is the next one of a
\* session that works already; the stop itself takes the number that comes next.
LEMMA TurnsWork ==
  ASSUME IInv, RInv,
         \/ \E c \in Callers, t \in Threads : Send(c, t)
         \/ \E t \in Threads : StopNow(t)
         \/ \E s \in SessionIds : TurnStarted(s) \/ TurnCompleted(s)
         \/ \E s \in SessionIds, ok \in BOOLEAN :
              FlushDone(s, ok) \/ StopEnd(s, ok) \/ InterruptEnd(s, ok)
  PROVE  WorkQuiet
<1>0. /\ worker \in [SessionIds -> WorkerStates] /\ stopped \in [Threads -> Nat]
      /\ \A s \in SessionIds : s[1] \in Threads
      /\ \A t \in Threads : session[t] # None => session[t] \in SessionIds /\ session[t][1] = t
  BY DEF RInv, TypeOK, SessionIds, IInv, Shape
<1>1. ASSUME NEW c \in Callers, NEW t \in Threads, Send(c, t) PROVE WorkQuiet
  <2>1. UNCHANGED nextSession
    BY <1>1 DEF Send
  <2>2. CASE UNCHANGED <<stopped, worker>>
    BY <2>1, <2>2 DEF WorkQuiet
  <2>3. CASE /\ stopped' = [stopped EXCEPT ![t] = 0]
             /\ worker' = [worker EXCEPT ![session[t]] = IF @ = "none" THEN @ ELSE "sent"]
    BY <1>0, <1>1, <2>1, <2>3 DEF WorkQuiet, Send
  <2>4. QED
    BY <1>1, <2>2, <2>3 DEF Send, MarkRunning
<1>2. ASSUME NEW t \in Threads, StopNow(t) PROVE WorkQuiet
  BY <1>0, <1>2 DEF WorkQuiet, StopNow, workers
<1>3. ASSUME NEW s \in SessionIds, TurnStarted(s) \/ TurnCompleted(s) PROVE WorkQuiet
  <2>1. UNCHANGED nextSession
    BY <1>3 DEF TurnStarted, TurnCompleted
  <2>2. \A t \in Threads : stopped'[t] \in {0, stopped[t]}
    BY <1>0, <1>3 DEF TurnStarted, TurnCompleted, MarkRunning, hist
  <2>3. /\ worker[s] \in {"sent", "active"}
        /\ \E w \in {"active", "sent", "idle"} : worker' = [worker EXCEPT ![s] = w]
    BY <1>3 DEF TurnStarted, TurnCompleted
  <2>4. QED
    BY <1>0, <2>1, <2>2, <2>3 DEF WorkQuiet
<1>4. ASSUME NEW s \in SessionIds, NEW ok \in BOOLEAN, FlushDone(s, ok) PROVE WorkQuiet
  <2>1. UNCHANGED workers /\ \A t \in Threads : stopped'[t] \in {0, stopped[t]}
    BY <1>0, <1>4 DEF FlushDone, MarkRunning
  <2>2. QED
    BY <1>0, <2>1 DEF WorkQuiet, workers
<1>5. ASSUME NEW s \in SessionIds, NEW ok \in BOOLEAN, StopEnd(s, ok) PROVE WorkQuiet
  <2>1. UNCHANGED nextSession /\ \A t \in Threads : stopped'[t] \in {stopped[t], nextSession[t]}
    BY <1>0, <1>5 DEF StopEnd
  <2>2. UNCHANGED worker \/ worker' = [worker EXCEPT ![s] = "none"]
    BY <1>5 DEF StopEnd
  <2>3. QED
    BY <1>0, <2>1, <2>2 DEF WorkQuiet
<1>6. ASSUME NEW s \in SessionIds, NEW ok \in BOOLEAN, InterruptEnd(s, ok) PROVE WorkQuiet
  <2>1. UNCHANGED nextSession /\ \A t \in Threads : stopped'[t] \in {0, stopped[t]}
    BY <1>0, <1>6 DEF InterruptEnd, MarkRunning
  <2>2. \/ UNCHANGED worker
        \/ worker' = [worker EXCEPT ![s] = IF @ = "active" THEN "idle" ELSE @]
    BY <1>6 DEF InterruptEnd
  <2>3. QED
    BY <1>0, <2>1, <2>2 DEF WorkQuiet
<1>7. QED
  BY <1>1, <1>2, <1>3, <1>4, <1>5, <1>6

\* The third invariant holds in every reachable state.
LEMMA SpecWInv == Spec => []WInv
<1>1. Init => WInv
  BY DEF Init, WInv, SessionIds
<1>2. IInv /\ RInv /\ WInv /\ [Next]_threadVars => WInv'
  <2>1. SUFFICES ASSUME IInv, RInv, WInv, [Next]_threadVars PROVE WInv'
    OBVIOUS
  <2>2. ASSUME NEW r \in Slots, Started(r) PROVE WInv'
    BY <2>1, <2>2, StartedWorks
  <2>3. WorkQuiet \/ \E r \in Slots : Started(r)
    BY <2>1, RequestsWork, TurnsWork DEF Next
  <2>4. QED
    BY <2>1, <2>2, <2>3, WorkQuietKeeps
<1>3. QED
  BY <1>1, <1>2, SpecIInv, SpecRInv, PTL DEF Spec

\* Stopping a queued recovery cancels it (the stop route, claimRecovery and the
\* re-check after startSession in routes/threads.ts): however many restarts, sweeps
\* and requests race the stop, from the moment it takes effect recovery neither runs
\* the thread nor has a turn sent to a session that comes up later.
THEOREM RecoveryNeverUndoesStop == Spec => []RecoveryHonoursStop
<1>1. IInv /\ WInv => RecoveryHonoursStop
  BY DEF IInv, StopInv, WInv, RecoveryHonoursStop
<1>2. QED
  BY <1>1, SpecIInv, SpecWInv, PTL
==============================================================================
