---------------------------- MODULE AgentThreads ----------------------------
(***************************************************************************)
(* One owner's agent threads: the start, send, steer, stop and interrupt   *)
(* routes and the provider events of routes/threads.ts, the rows and the   *)
(* recovery queue of services/threads.ts, and the owner-wide halt of       *)
(* services/agent-control.ts.                                              *)
(*                                                                         *)
(* A handler runs alone until it awaits a provider, a remote node or an    *)
(* injected request; every such await is a step boundary here.  Thread     *)
(* rows, recovery rows and the halt survive a restart; requests, stops,    *)
(* sweeps and the queue of steering messages do not.  A provider session   *)
(* is a process of its own: on a remote node it outlives the gateway.      *)
(* Every start carries a first message; the title turn before it is left   *)
(* out.                                                                    *)
(***************************************************************************)
EXTENDS Integers, FiniteSets

CONSTANTS
  Threads,        \* thread ids; also the slot of a thread's recovery request
  RemoteThreads,  \* the threads that run on a remote node
  Callers,        \* the slots of all other requests in flight
  MaxAttempts,    \* recovery attempts before a thread is given up (3)
  MaxWorkers,     \* recovery requests a sweep keeps in flight (4)
  MaxStarts,      \* bound on the start requests of a thread
  MaxCrashes,     \* bound on the restarts of the gateway
  Environment,    \* what may happen around the threads, subset of Events
  None

Events == {"halt", "stop", "interrupt", "steer", "block", "fail"}

ASSUME AgentThreadsAssumption ==
  /\ RemoteThreads \subseteq Threads
  /\ Callers \cap Threads = {}
  /\ MaxAttempts \in Nat /\ MaxWorkers \in Nat \ {0}
  /\ MaxStarts \in Nat /\ MaxCrashes \in Nat
  /\ Environment \subseteq Events

VARIABLES
  status,         \* agent_threads.status
  session,        \* agent_threads.provider_session_id
  recovery,       \* thread_recovery rows
  halted,         \* agent_control.halted
  req,            \* start and send requests in flight, with their replies
  sweep,          \* recoverInterruptedThreadTurns: attempts of the entries still to do
  sweeping,       \* recoveryRunning
  stopping,       \* sessions whose /stop waits for the provider
  interrupting,   \* sessions whose /interrupt waits for the provider
  halting,        \* sessions stopUserThreads is stopping
  steered,        \* threads with pendingInterventionMessages
  flushing,       \* sessions flushPendingInterventionMessage is sending to
  worker,         \* provider sessions: "none", or where the process stands
  nextSession,    \* the next session number of a thread
  starts,         \* how often a caller has started a thread
  crashes,        \* how often the gateway has restarted
  stopped,        \* history: of a thread that was stopped and run by nothing but
                  \* recovery since, the number of the next session then; else 0
  startedBy,      \* history: what brought the thread to running last
  haltErrors      \* history: the latest halt could not stop some thread

rows == <<status, session, recovery>>
requests == <<req, sweep, sweeping>>
waits == <<stopping, interrupting, halting>>
steering == <<steered, flushing>>
workers == <<worker, nextSession>>
bounds == <<starts, crashes>>
hist == <<stopped, startedBy, haltErrors>>
threadVars == <<rows, halted, requests, waits, steering, workers, bounds, hist>>

Statuses == {"idle", "running", "completed", "error", "blocked", "interrupted"}
SessionIds == Threads \X (1..(MaxStarts + MaxCrashes))
Slots == Threads \cup Callers
Recovery == [pending : BOOLEAN, attempts : Nat, stale : SessionIds \cup {None}]
Codes == {"none", "ok", "halted", "conflict", "unavailable", "bad", "failed"}
Phases == {"entering", "checking", "stopping-stale", "starting", "discarding", "sending", "replied"}

\* session: the session being stopped or sent to, code: the reply (to be) given
Request == [thread : Threads, phase : Phases, session : SessionIds \cup {None}, code : Codes]

\* A turn was sent to the process, it has announced it (turn.started), or neither.
WorkerStates == {"none", "idle", "sent", "active"}

\* What can bring a thread to running.
Sources == {"nobody", "caller", "recovery", "turn", "flush", "interrupt"}

Init ==
  /\ status = [t \in Threads |-> "idle"]
  /\ session = [t \in Threads |-> None]
  /\ recovery = [t \in Threads |-> None]
  /\ halted = FALSE
  /\ req = [r \in Slots |-> None]
  /\ sweep = [t \in Threads |-> None]
  /\ sweeping = FALSE
  /\ stopping = {} /\ interrupting = {} /\ halting = {}
  /\ steered = {} /\ flushing = {}
  /\ worker = [s \in SessionIds |-> "none"]
  /\ nextSession = [t \in Threads |-> 1]
  /\ starts = [t \in Threads |-> 0]
  /\ crashes = 0
  /\ stopped = [t \in Threads |-> 0]
  /\ startedBy = [t \in Threads |-> "nobody"]
  /\ haltErrors = FALSE

------------------------------------------------------------------------------
\* The status transitions of ThreadService

MarkRunning(t, s, who) ==
  /\ status' = [status EXCEPT ![t] = "running"]
  /\ session' = [session EXCEPT ![t] = s]
  /\ startedBy' = [startedBy EXCEPT ![t] = who]
  /\ stopped' = IF who = "recovery" THEN stopped ELSE [stopped EXCEPT ![t] = 0]

ClearRecovery(t) == recovery' = [recovery EXCEPT ![t] = None]

MarkCompleted(t) ==
  /\ status' = [status EXCEPT ![t] = "completed"]
  /\ UNCHANGED session
  /\ ClearRecovery(t)

\* markError, markInterrupted and markCompletedAndClearSession.  The other
\* effect of markInterrupted, cancelling team deliveries, is in TeamDeliveries.
Mark(t, st) ==
  /\ status' = [status EXCEPT ![t] = st]
  /\ session' = [session EXCEPT ![t] = None]
  /\ ClearRecovery(t)

------------------------------------------------------------------------------
\* POST /api/threads/:id/start

Recovering(r) == r \in Threads

InPhase(r, phase) == req[r] # None /\ req[r].phase = phase

Goto(r, t, phase, s, code) ==
  req' = [req EXCEPT ![r] = [thread |-> t, phase |-> phase, session |-> s, code |-> code]]

Reply(r, code) == Goto(r, req[r].thread, "replied", None, code)

\* The route up to its first await.
Enter(r, t) ==
  \/ session[t] # None /\ status[t] = "running" /\ Goto(r, t, "replied", None, "conflict")
  \/ /\ ~(session[t] # None /\ status[t] = "running")
     /\ \/ halted /\ Goto(r, t, "replied", None, "halted")
        \/ ~halted /\ Goto(r, t, "checking", None, "none")

\* A caller's /start, or its /send to a completed thread without a session,
\* which the route passes on to /start.
CallerStart(c, t) ==
  /\ req[c] = None
  /\ starts[t] < MaxStarts
  /\ starts' = [starts EXCEPT ![t] = @ + 1]
  /\ Enter(c, t)
  /\ UNCHANGED <<rows, halted, sweep, sweeping, waits, steering, workers, crashes, hist>>

StaleSession(t) == IF recovery[t] = None THEN None ELSE recovery[t].stale

Claimable(t) == status[t] = "interrupted" /\ recovery[t] # None /\ recovery[t].pending

\* Before the session is started: a late halt or stop is honoured, a recovery
\* claims its row (claimRecovery) and any other start drops it.
Claim(r) ==
  LET t == req[r].thread IN
  \/ /\ halted
     /\ Reply(r, "halted")
     /\ UNCHANGED recovery
  \/ /\ ~halted /\ Recovering(r) /\ ~Claimable(t)
     /\ Reply(r, "conflict")
     /\ UNCHANGED recovery
  \/ /\ ~halted /\ Recovering(r) /\ Claimable(t)
     /\ Goto(r, t, "starting", None, "none")
     /\ recovery' = [recovery EXCEPT ![t] =
                      [pending |-> FALSE, attempts |-> recovery[t].attempts + 1, stale |-> recovery[t].stale]]
  \/ /\ ~halted /\ ~Recovering(r)
     /\ Goto(r, t, "starting", None, "none")
     /\ ClearRecovery(t)

\* Mutant: the session left behind on a remote node is not stopped.
CheckDoneForgetsStale(r, outcome) ==
  /\ InPhase(r, "checking")
  /\ outcome # "ok" => "fail" \in Environment
  /\ IF outcome = "ok" THEN Claim(r) ELSE Reply(r, outcome) /\ UNCHANGED recovery
  /\ UNCHANGED <<status, session, halted, sweep, sweeping, waits, steering, workers, bounds, hist>>

\* checkAvailability answers, or no provider could be resolved at all.
CheckDone(r, outcome) ==
  LET t == req[r].thread
      stale == IF Recovering(r) /\ t \in RemoteThreads THEN StaleSession(t) ELSE None
  IN /\ InPhase(r, "checking")
     /\ outcome # "ok" => "fail" \in Environment
     /\ \/ outcome \in {"unavailable", "bad"} /\ Reply(r, outcome) /\ UNCHANGED recovery
        \/ /\ outcome = "ok" /\ stale # None
           /\ Goto(r, t, "stopping-stale", stale, "none")
           /\ UNCHANGED recovery
        \/ outcome = "ok" /\ stale = None /\ Claim(r)
     /\ UNCHANGED <<status, session, halted, sweep, sweeping, waits, steering, workers, bounds, hist>>

\* The remote node has stopped the session that outlived the gateway, or not.
StaleStopped(r, ok) ==
  /\ InPhase(r, "stopping-stale")
  /\ \/ ok /\ worker' = [worker EXCEPT ![req[r].session] = "none"] /\ Claim(r)
     \/ ~ok /\ "fail" \in Environment /\ Reply(r, "unavailable") /\ UNCHANGED <<worker, recovery>>
  /\ UNCHANGED <<status, session, halted, sweep, sweeping, waits, steering, nextSession, bounds, hist>>

\* Mutant: a recovery that was cancelled while its session started goes on.
StartedIgnoringCancel(r) ==
  LET t == req[r].thread
      s == <<t, nextSession[t]>>
  IN /\ InPhase(r, "starting")
     /\ nextSession' = [nextSession EXCEPT ![t] = @ + 1]
     /\ worker' = [worker EXCEPT ![s] = IF halted THEN "idle" ELSE "sent"]
     /\ \/ halted /\ Goto(r, t, "discarding", s, "halted") /\ UNCHANGED <<status, session, startedBy, stopped, steered>>
        \/ /\ ~halted
           /\ Reply(r, "ok")
           /\ MarkRunning(t, s, IF Recovering(r) THEN "recovery" ELSE "caller")
           /\ steered' = steered \ {t}
     /\ UNCHANGED <<recovery, halted, sweep, sweeping, waits, flushing, bounds, haltErrors>>

\* Mutant: the halt is not looked at once the session is up.
StartedIgnoringHalt(r) ==
  LET t == req[r].thread
      s == <<t, nextSession[t]>>
      cancelled == Recovering(r) /\ (status[t] # "interrupted" \/ recovery[t] = None)
  IN /\ InPhase(r, "starting")
     /\ nextSession' = [nextSession EXCEPT ![t] = @ + 1]
     /\ worker' = [worker EXCEPT ![s] = IF cancelled THEN "idle" ELSE "sent"]
     /\ \/ cancelled /\ Goto(r, t, "discarding", s, "conflict") /\ UNCHANGED <<status, session, startedBy, stopped, steered>>
        \/ /\ ~cancelled
           /\ Reply(r, "ok")
           /\ MarkRunning(t, s, IF Recovering(r) THEN "recovery" ELSE "caller")
           /\ steered' = steered \ {t}
     /\ UNCHANGED <<recovery, halted, sweep, sweeping, waits, flushing, bounds, haltErrors>>

\* startSession has created a session.  It is stopped again when the owner
\* halted or the recovery was cancelled meanwhile; else the thread runs and its
\* first turn is sent.  The previous session, if there is one, is forgotten.
Started(r) ==
  LET t == req[r].thread
      s == <<t, nextSession[t]>>
      cancelled == Recovering(r) /\ (status[t] # "interrupted" \/ recovery[t] = None)
  IN /\ InPhase(r, "starting")
     /\ nextSession' = [nextSession EXCEPT ![t] = @ + 1]
     /\ worker' = [worker EXCEPT ![s] = IF halted \/ cancelled THEN "idle" ELSE "sent"]
     /\ \/ /\ halted \/ cancelled
           /\ Goto(r, t, "discarding", s, IF halted THEN "halted" ELSE "conflict")
           /\ UNCHANGED <<status, session, startedBy, stopped, steered>>
        \/ /\ ~halted /\ ~cancelled
           /\ Reply(r, "ok")
           /\ MarkRunning(t, s, IF Recovering(r) THEN "recovery" ELSE "caller")
           /\ steered' = steered \ {t}
     /\ UNCHANGED <<recovery, halted, sweep, sweeping, waits, flushing, bounds, haltErrors>>

\* The session nobody wants is stopped.  When that fails, a halted start says
\* nothing and a cancelled recovery marks the thread, whatever became of it.
Discarded(r, ok) ==
  /\ InPhase(r, "discarding")
  /\ \/ /\ ok
        /\ worker' = [worker EXCEPT ![req[r].session] = "none"]
        /\ Reply(r, req[r].code)
        /\ UNCHANGED <<rows, steered>>
     \/ /\ ~ok /\ "fail" \in Environment /\ req[r].code = "halted"
        /\ Reply(r, "halted")
        /\ UNCHANGED <<rows, worker, steered>>
     \/ /\ ~ok /\ "fail" \in Environment /\ req[r].code = "conflict"
        /\ Reply(r, "failed")
        /\ Mark(req[r].thread, "error")
        /\ steered' = steered \ {req[r].thread}
        /\ UNCHANGED worker
  /\ UNCHANGED <<halted, sweep, sweeping, waits, flushing, nextSession, bounds, hist>>

\* startSession rejects.  The row is marked whatever became of it meanwhile.
StartFails(r) ==
  /\ "fail" \in Environment
  /\ InPhase(r, "starting")
  /\ Mark(req[r].thread, "error")
  /\ steered' = steered \ {req[r].thread}
  /\ Reply(r, "failed")
  /\ UNCHANGED <<halted, sweep, sweeping, waits, flushing, workers, bounds, hist>>

\* The first turn, sent in the background of the reply, is refused.
FirstTurnFails(t) ==
  /\ "fail" \in Environment
  /\ session[t] # None /\ worker[session[t]] \in {"sent", "active"}
  /\ session[t] \notin flushing
  /\ \A c \in Callers : InPhase(c, "sending") => req[c].session # session[t]
  /\ status[t] # "completed"
  /\ Mark(t, "error")
  /\ steered' = steered \ {t}
  /\ worker' = [worker EXCEPT ![session[t]] = "idle"]
  /\ UNCHANGED <<halted, requests, waits, flushing, nextSession, bounds, hist>>

\* The response reaches a caller.
Collect(c) ==
  /\ c \in Callers
  /\ InPhase(c, "replied")
  /\ req' = [req EXCEPT ![c] = None]
  /\ UNCHANGED <<rows, halted, sweep, sweeping, waits, steering, workers, bounds, hist>>

------------------------------------------------------------------------------
\* recoverInterruptedThreadTurns

SweepStart ==
  /\ ~sweeping
  /\ sweeping' = TRUE
  /\ sweep' = [t \in Threads |-> IF recovery[t] # None /\ recovery[t].pending
                                 THEN recovery[t].attempts ELSE None]
  /\ UNCHANGED <<rows, halted, req, waits, steering, workers, bounds, hist>>

\* Mutant: one attempt too many.
GivenUpLate(attempts) == attempts > MaxAttempts

GivenUp(attempts) == attempts >= MaxAttempts

\* A worker takes an entry of the list read at the start of the sweep.
SweepTake(t) ==
  /\ sweeping /\ sweep[t] # None
  /\ Cardinality({u \in Threads : req[u] # None}) < MaxWorkers
  /\ sweep' = [sweep EXCEPT ![t] = None]
  /\ \/ status[t] # "interrupted" /\ ClearRecovery(t) /\ UNCHANGED <<status, session, req>>
     \/ status[t] = "interrupted" /\ GivenUp(sweep[t]) /\ Mark(t, "error") /\ UNCHANGED req
     \/ /\ status[t] = "interrupted" /\ ~GivenUp(sweep[t])
        /\ Goto(t, t, "entering", None, "none")
        /\ UNCHANGED rows
  /\ UNCHANGED <<halted, sweeping, waits, steering, workers, bounds, hist>>

\* The token is signed and the injected request enters the start route.
RecoveryEnter(t) ==
  /\ InPhase(t, "entering")
  /\ Enter(t, t)
  /\ UNCHANGED <<rows, halted, sweep, sweeping, waits, steering, workers, bounds, hist>>

\* 409, 422 and 503 leave the row alone; any other failure is an error.
RecoveryReplied(t) ==
  /\ InPhase(t, "replied")
  /\ req' = [req EXCEPT ![t] = None]
  /\ IF req[t].code \in {"bad", "failed"} THEN Mark(t, "error") ELSE UNCHANGED rows
  /\ UNCHANGED <<halted, sweep, sweeping, waits, steering, workers, bounds, hist>>

SweepEnd ==
  /\ sweeping
  /\ \A t \in Threads : sweep[t] = None /\ req[t] = None
  /\ sweeping' = FALSE
  /\ UNCHANGED <<rows, halted, req, sweep, waits, steering, workers, bounds, hist>>

------------------------------------------------------------------------------
\* POST /api/threads/:id/send and /steer

\* The thread is marked before sendTurn is awaited.
Send(c, t) ==
  /\ req[c] = None
  /\ session[t] # None
  /\ \/ halted /\ Goto(c, t, "replied", None, "halted")
        /\ UNCHANGED <<status, session, startedBy, stopped, worker>>
     \/ ~halted /\ status[t] = "running" /\ Goto(c, t, "replied", None, "conflict")
        /\ UNCHANGED <<status, session, startedBy, stopped, worker>>
     \/ /\ ~halted /\ status[t] # "running"
        /\ Goto(c, t, "sending", session[t], "none")
        /\ MarkRunning(t, session[t], "caller")
        /\ worker' = [worker EXCEPT ![session[t]] = IF @ = "none" THEN @ ELSE "sent"]
  /\ UNCHANGED <<recovery, halted, sweep, sweeping, waits, steering, nextSession, bounds, haltErrors>>

\* sendTurn returns, or rejects, which marks the row whatever became of it.
SendDone(c, ok) ==
  /\ InPhase(c, "sending")
  /\ \/ ok /\ Reply(c, "ok") /\ UNCHANGED rows
     \/ ~ok /\ ("fail" \in Environment \/ worker[req[c].session] = "none")
        /\ Mark(req[c].thread, "error") /\ Reply(c, "failed")
  /\ UNCHANGED <<halted, sweep, sweeping, waits, steering, workers, bounds, hist>>

\* A steering message waits for the end of the running turn.
Steer(t) ==
  /\ "steer" \in Environment
  /\ ~halted /\ session[t] # None /\ status[t] = "running"
  /\ steered' = steered \cup {t}
  /\ UNCHANGED <<rows, halted, requests, waits, flushing, workers, bounds, hist>>

------------------------------------------------------------------------------
\* Provider events (buildThreadEventHandler).  The events of a session that is
\* not the row's, and those of a blocked thread, whose handler is detached,
\* change no row.

Heard(s) == session[s[1]] = s /\ status[s[1]] # "blocked"

\* turn.started brings a thread back to running, an interrupted one too.
TurnStarted(s) ==
  /\ worker[s] = "sent"
  /\ worker' = [worker EXCEPT ![s] = "active"]
  /\ IF Heard(s) /\ status[s[1]] # "running"
     THEN MarkRunning(s[1], s, "turn")
     ELSE UNCHANGED <<status, session, startedBy, stopped>>
  /\ UNCHANGED <<recovery, halted, requests, waits, steering, nextSession, bounds, haltErrors>>

\* turn.completed: a waiting steering message is sent as the next turn, else the
\* thread is completed.  A thread that is not running ignores it.
TurnCompleted(s) ==
  LET t == s[1] IN
  /\ worker[s] = "active"
  /\ \/ /\ Heard(s) /\ status[t] = "running" /\ t \in steered
        /\ steered' = steered \ {t}
        /\ flushing' = flushing \cup {s}
        /\ worker' = [worker EXCEPT ![s] = "sent"]
        /\ UNCHANGED rows
     \/ /\ Heard(s) /\ status[t] = "running" /\ t \notin steered
        /\ MarkCompleted(t)
        /\ worker' = [worker EXCEPT ![s] = "idle"]
        /\ UNCHANGED steering
     \/ /\ ~(Heard(s) /\ status[t] = "running")
        /\ worker' = [worker EXCEPT ![s] = "idle"]
        /\ UNCHANGED <<rows, steering>>
  /\ UNCHANGED <<halted, requests, waits, nextSession, bounds, hist>>

\* sendTurn of the steering message returns: the thread is marked running
\* whatever became of it.  Or it rejects.
FlushDone(s, ok) ==
  LET t == s[1] IN
  /\ s \in flushing
  /\ flushing' = flushing \ {s}
  /\ \/ /\ ok
        /\ MarkRunning(t, session[t], "flush")
        /\ UNCHANGED <<recovery, steered>>
     \/ /\ ~ok /\ ("fail" \in Environment \/ worker[s] = "none")
        /\ Mark(t, "error")
        /\ steered' = steered \ {t}
        /\ UNCHANGED <<startedBy, stopped>>
  /\ UNCHANGED <<halted, requests, waits, workers, bounds, haltErrors>>

\* session.completed or session.error: the process is gone.  An interrupted
\* thread ignores both.
SessionEnds(s, how) ==
  LET t == s[1] IN
  /\ worker[s] # "none"
  /\ worker' = [worker EXCEPT ![s] = "none"]
  /\ IF Heard(s) /\ status[t] # "interrupted"
     THEN Mark(t, how) /\ steered' = steered \ {t}
     ELSE UNCHANGED <<rows, steered>>
  /\ UNCHANGED <<halted, requests, waits, flushing, nextSession, bounds, hist>>

\* The execution guard parks the turn; the session is kept for a resume.  Its
\* other outcome, a limit that is exceeded, ends the session: SessionEnds.
Block(t) ==
  /\ "block" \in Environment
  /\ session[t] # None /\ worker[session[t]] = "active" /\ status[t] = "running"
  /\ status' = [status EXCEPT ![t] = "blocked"]
  /\ ClearRecovery(t)
  /\ steered' = steered \ {t}
  /\ worker' = [worker EXCEPT ![session[t]] = "idle"]
  /\ UNCHANGED <<session, halted, requests, waits, flushing, nextSession, bounds, hist>>

------------------------------------------------------------------------------
\* POST /api/threads/:id/stop and /interrupt

\* The session /stop has to stop first: the thread's, or the remote one that a
\* restart left behind.
StopTarget(t) ==
  IF session[t] # None THEN session[t] ELSE IF t \in RemoteThreads THEN StaleSession(t) ELSE None

\* Nothing to stop, or the node of a left-behind session is not connected.
StopNow(t) ==
  /\ "stop" \in Environment
  /\ session[t] = None
  /\ StopTarget(t) # None => "fail" \in Environment
  /\ Mark(t, "interrupted")
  /\ steered' = steered \ {t}
  /\ stopped' = [stopped EXCEPT ![t] = nextSession[t]]
  /\ UNCHANGED <<halted, requests, waits, flushing, workers, bounds, startedBy, haltErrors>>

StopBegin(t) ==
  /\ "stop" \in Environment
  /\ StopTarget(t) # None
  /\ stopping' = stopping \cup {StopTarget(t)}
  /\ UNCHANGED <<rows, halted, requests, interrupting, halting, steering, workers, bounds, hist>>

\* stopSession returns, or rejects, and then the thread is left as it is.
StopEnd(s, ok) ==
  /\ s \in stopping
  /\ stopping' = stopping \ {s}
  /\ \/ /\ ok
        /\ worker' = [worker EXCEPT ![s] = "none"]
        /\ Mark(s[1], "interrupted")
        /\ steered' = steered \ {s[1]}
        /\ stopped' = [stopped EXCEPT ![s[1]] = nextSession[s[1]]]
     \/ ~ok /\ "fail" \in Environment /\ UNCHANGED <<rows, worker, steered, stopped>>
  /\ UNCHANGED <<halted, requests, interrupting, halting, flushing, nextSession, bounds,
                 startedBy, haltErrors>>

\* The interruption is recorded before the provider is asked.
InterruptBegin(t) ==
  /\ "interrupt" \in Environment
  /\ session[t] # None /\ status[t] = "running"
  /\ status' = [status EXCEPT ![t] = "interrupted"]
  /\ ClearRecovery(t)
  /\ interrupting' = interrupting \cup {session[t]}
  /\ UNCHANGED <<session, halted, requests, stopping, halting, steering, workers, bounds, hist>>

\* interruptTurn returns; or it rejects, and the same interrupted session is
\* running again.  A turn the provider has not announced yet still begins.
InterruptEnd(s, ok) ==
  LET t == s[1] IN
  /\ s \in interrupting
  /\ interrupting' = interrupting \ {s}
  /\ \/ /\ ok
        /\ worker' = [worker EXCEPT ![s] = IF @ = "active" THEN "idle" ELSE @]
        /\ UNCHANGED <<status, session, startedBy, stopped>>
     \/ /\ ~ok /\ ("fail" \in Environment \/ worker[s] = "none")
        /\ IF session[t] = s /\ status[t] = "interrupted"
           THEN MarkRunning(t, s, "interrupt")
           ELSE UNCHANGED <<status, session, startedBy, stopped>>
        /\ UNCHANGED worker
  /\ UNCHANGED <<recovery, halted, requests, stopping, halting, steering, nextSession, bounds,
                 haltErrors>>

------------------------------------------------------------------------------
\* AgentControlService and stopUserThreads

\* halt(): the row first, then every running or blocked thread.  One without a
\* session is marked at once.
HaltBegin ==
  LET targets == {t \in Threads : status[t] \in {"running", "blocked"}}
      bare == {t \in targets : session[t] = None}
  IN /\ "halt" \in Environment
     /\ halted' = TRUE
     /\ halting' = halting \cup {session[t] : t \in targets \ bare}
     /\ status' = [t \in Threads |-> IF t \in bare THEN "error" ELSE status[t]]
     /\ recovery' = [t \in Threads |-> IF t \in bare THEN None ELSE recovery[t]]
     /\ steered' = steered \ bare
     /\ haltErrors' = FALSE
     /\ UNCHANGED <<session, requests, stopping, interrupting, flushing, workers, bounds,
                    stopped, startedBy>>

\* One of the concurrent stopSession calls returns or rejects.
HaltStop(s, ok) ==
  /\ s \in halting
  /\ halting' = halting \ {s}
  /\ \/ /\ ok
        /\ worker' = [worker EXCEPT ![s] = "none"]
        /\ Mark(s[1], "interrupted")
        /\ steered' = steered \ {s[1]}
        /\ UNCHANGED haltErrors
     \/ /\ ~ok /\ "fail" \in Environment
        /\ haltErrors' = TRUE
        /\ UNCHANGED <<rows, worker, steered>>
  /\ UNCHANGED <<halted, requests, stopping, interrupting, flushing, nextSession, bounds,
                 stopped, startedBy>>

ResumeAgents ==
  /\ halted
  /\ halted' = FALSE
  /\ UNCHANGED <<rows, requests, waits, steering, workers, bounds, hist>>

------------------------------------------------------------------------------
\* The gateway exits and starts again

\* Mutant: only threads that say running are queued, not a claimed recovery.
RecoverableRunning(t) == status[t] = "running"

\* The threads queueRestartRecovery selects.
Recoverable(t) == status[t] = "running" \/ (status[t] = "interrupted" /\ recovery[t] # None)

Crash ==
  /\ crashes < MaxCrashes
  /\ crashes' = crashes + 1
  /\ recovery' = [t \in Threads |->
       IF ~Recoverable(t) THEN recovery[t]
       ELSE [pending |-> TRUE,
             attempts |-> IF recovery[t] = None THEN 0 ELSE recovery[t].attempts,
             stale |-> IF session[t] # None THEN session[t] ELSE StaleSession(t)]]
  /\ status' = [t \in Threads |-> IF Recoverable(t) THEN "interrupted" ELSE status[t]]
  /\ session' = [t \in Threads |-> IF Recoverable(t) THEN None ELSE session[t]]
  /\ worker' = [s \in SessionIds |-> IF s[1] \in RemoteThreads THEN worker[s] ELSE "none"]
  /\ req' = [r \in Slots |-> None]
  /\ sweep' = [t \in Threads |-> None]
  /\ sweeping' = FALSE
  /\ stopping' = {} /\ interrupting' = {} /\ halting' = {}
  /\ steered' = {} /\ flushing' = {}
  /\ UNCHANGED <<halted, nextSession, starts, hist>>

Next ==
  \/ \E c \in Callers, t \in Threads : CallerStart(c, t) \/ Send(c, t)
  \/ \E r \in Slots, outcome \in {"ok", "unavailable", "bad"} : CheckDone(r, outcome)
  \/ \E r \in Slots, ok \in BOOLEAN : StaleStopped(r, ok) \/ Discarded(r, ok)
  \/ \E r \in Slots : Started(r) \/ StartFails(r)
  \/ \E c \in Callers : Collect(c)
  \/ \E c \in Callers, ok \in BOOLEAN : SendDone(c, ok)
  \/ SweepStart \/ SweepEnd
  \/ \E t \in Threads : SweepTake(t) \/ RecoveryEnter(t) \/ RecoveryReplied(t)
  \/ \E t \in Threads : FirstTurnFails(t) \/ Steer(t) \/ Block(t)
  \/ \E t \in Threads : StopNow(t) \/ StopBegin(t) \/ InterruptBegin(t)
  \/ \E s \in SessionIds : TurnStarted(s) \/ TurnCompleted(s)
  \/ \E s \in SessionIds, how \in {"completed", "error"} : SessionEnds(s, how)
  \/ \E s \in SessionIds, ok \in BOOLEAN :
       FlushDone(s, ok) \/ StopEnd(s, ok) \/ InterruptEnd(s, ok) \/ HaltStop(s, ok)
  \/ HaltBegin \/ ResumeAgents \/ Crash

Spec == Init /\ [][Next]_threadVars

\* The sweep runs every 15 seconds, and what it awaits answers: availability
\* checks, remote stops (15 second limit) and session starts.
Fairness ==
  /\ WF_threadVars(SweepStart) /\ WF_threadVars(SweepEnd)
  /\ \A t \in Threads :
       /\ WF_threadVars(SweepTake(t)) /\ WF_threadVars(RecoveryEnter(t))
       /\ WF_threadVars(RecoveryReplied(t))
       /\ WF_threadVars(\E outcome \in {"ok", "unavailable", "bad"} : CheckDone(t, outcome))
       /\ WF_threadVars(\E ok \in BOOLEAN : StaleStopped(t, ok))
       /\ WF_threadVars(Started(t) \/ StartFails(t))
       /\ WF_threadVars(\E ok \in BOOLEAN : Discarded(t, ok))

FairSpec == Spec /\ Fairness

------------------------------------------------------------------------------
\* Properties

\* Every variable keeps its type: a recovery row is whole or gone, and session
\* numbers stay within what starts and restarts can use.
TypeOK ==
  /\ status \in [Threads -> Statuses]
  /\ session \in [Threads -> SessionIds \cup {None}]
  /\ recovery \in [Threads -> Recovery \cup {None}]
  /\ halted \in BOOLEAN
  /\ req \in [Slots -> Request \cup {None}]
  /\ sweep \in [Threads -> Nat \cup {None}]
  /\ sweeping \in BOOLEAN
  /\ stopping \subseteq SessionIds /\ interrupting \subseteq SessionIds
  /\ halting \subseteq SessionIds /\ flushing \subseteq SessionIds
  /\ steered \subseteq Threads
  /\ worker \in [SessionIds -> WorkerStates]
  /\ nextSession \in [Threads -> 1..(MaxStarts + MaxCrashes + 1)]
  /\ starts \in [Threads -> 0..MaxStarts]
  /\ crashes \in 0..MaxCrashes
  /\ stopped \in [Threads -> Nat]
  /\ startedBy \in [Threads -> Sources]
  /\ haltErrors \in BOOLEAN

\* docs/thread-recovery.md: "Stopping a queued recovery cancels it."  However the
\* stop races the sweep, the availability checks, the start of the replacement
\* session and further restarts: from the moment it takes effect recovery neither
\* runs the thread nor lets a session work that comes up after it.  A stop takes
\* effect when the provider or the remote node has answered; a replacement session
\* that recovery brings up while a stop still waits for the old one was there before,
\* and works on behind the stopped row.
RecoveryHonoursStop ==
  \A t \in Threads : stopped[t] # 0 =>
    /\ status[t] # "running"
    /\ \A s \in SessionIds :
         s[1] = t /\ s[2] >= stopped[t] => worker[s] \notin {"sent", "active"}

\* However often the gateway dies during recovery, a thread is given up after
\* MaxAttempts claims without a completed turn, a stop or a manual start.
AttemptsBounded ==
  \A t \in Threads : recovery[t] # None => recovery[t].attempts <= MaxAttempts

\* Once a halt has stopped what it found, no thread is running that a request
\* or a recovery started, whatever was in flight when the halt came.
HaltFreezesStarts ==
  halted /\ halting = {} /\ ~haltErrors =>
    \A t \in Threads : status[t] = "running" => startedBy[t] \notin {"caller", "recovery"}

\* agent-control.ts: "anything already running is stopped": once a halt has
\* stopped what it found, no thread is running a turn in a live session.
HaltStopsAgents ==
  halted /\ halting = {} /\ ~haltErrors =>
    \A t \in Threads : status[t] = "running" /\ session[t] # None => worker[session[t]] = "none"

\* docs/thread-recovery.md: "any surviving old remote provider session is stopped
\* before a replacement starts", through however many crashes the recovery takes.
ReplacementAlone ==
  \A t \in RemoteThreads :
    /\ status[t] = "running" /\ startedBy[t] = "recovery"
    /\ StaleSession(t) # None
    => worker[StaleSession(t)] = "none"

\* docs/thread-recovery.md: "Threads that were running when the gateway exited
\* automatically continue when it starts again": an interrupted thread in the
\* recovery queue does not stay there, unless the owner's halt is on.
RecoveryCompletes ==
  \A t \in Threads :
    (status[t] = "interrupted" /\ recovery[t] # None /\ ~halted)
      ~> (halted \/ status[t] # "interrupted" \/ recovery[t] = None)
==============================================================================
