---------------------------- MODULE TeamDeliveries ----------------------------
(***************************************************************************)
(* The deliveries of a team room (services/team-chat.ts) to the threads of *)
(* its agents, by the dispatcher of routes/team-chat.ts: pump claims what  *)
(* is queued, one delivery per thread at a time, and every claim runs until*)
(* the thread has answered.  Stops and interruptions of the threads, the   *)
(* owner's halt and restarts come in between.                              *)
(*                                                                         *)
(* A thread, which AgentThreads models in detail, is its status and its    *)
(* restart recovery.  Deliveries are numbered in the order of their rows.  *)
(* The texts of the messages, the routing of a message to a recipient and  *)
(* the goal of the room with its completion checks are left out, as are    *)
(* legacy deliveries to chats; agents are neither paused nor taken out of  *)
(* the room.  A thread blocked by its environment is one in error.         *)
(***************************************************************************)
EXTENDS Naturals

CONSTANTS
  N,           \* deliveries 1..N
  Threads,
  ThreadOf,    \* the thread a delivery is addressed to
  Managed,     \* deliveries whose agent reports to an active manager
  SameBackend, \* those of them whose manager has the agent's provider and model
  MaxCrashes   \* bound on the restarts

Deliveries == 1..N

ASSUME TeamAssumption ==
  /\ N \in Nat /\ MaxCrashes \in Nat
  /\ ThreadOf \in [Deliveries -> Threads]
  /\ Managed \subseteq Deliveries /\ SameBackend \subseteq Managed

VARIABLES
  status,     \* team_deliveries.status, "none" before the message is posted
  pc,         \* runDelivery: "off", "preparing" (before the thread is asked) or "polling"
  exhausted,  \* rows whose error is that the backend they share with the manager is exhausted
  reviews,    \* recovery requests posted to the manager, per delivery
  thread,     \* agent_threads.status
  recovery,   \* "none", "pending", or "claimed": taken, the session not yet up
  halted,     \* agent_control.halted
  halting,    \* threads stopUserThreads is stopping
  crashes,
  given,      \* history: how often a delivery's instructions reached its thread
  stopped,    \* history: what stopped a thread since it last ran: "no", "user" (/stop),
              \* "halt", or "interrupt": /interrupt, which the provider may yet refuse
  excused     \* history: failures a restart did not escalate, their thread being stopped

escalation == <<exhausted, reviews>>
vars == <<status, pc, escalation, thread, recovery, halted, halting, crashes, given, stopped,
          excused>>

\* What the error of a failed call says.
Reasons == {"blocked", "exhausted", "other"}

Final == {"completed", "delivered", "failed", "blocked", "cancelled", "interrupted"}

Init ==
  /\ status = [d \in Deliveries |-> "none"]
  /\ pc = [d \in Deliveries |-> "off"]
  /\ exhausted = {} /\ reviews = [d \in Deliveries |-> 0]
  /\ thread = [t \in Threads |-> "idle"]
  /\ recovery = [t \in Threads |-> "none"]
  /\ halted = FALSE /\ halting = {} /\ crashes = 0
  /\ given = [d \in Deliveries |-> 0]
  /\ stopped = [t \in Threads |-> "no"]
  /\ excused = {}

------------------------------------------------------------------------------
\* pump

\* Mutant: the pending recovery is not looked at.
AbandonedByInterruption(t, th, rec) == th[t] = "interrupted"

\* abandonedByStop: an interrupted thread without a pending recovery.
AbandonedByStop(t, th, rec) == th[t] = "interrupted" /\ rec[t] # "pending"

\* The rows are read in order: an earlier one of the thread is claimed first.
First(d, st, p) ==
  \A e \in 1..(d - 1) : ThreadOf[e] = ThreadOf[d] => ~(st[e] = "queued" /\ p[e] = "off")

\* Mutant: the thread's running delivery is not looked for.
ThreadBusyNever(d, st) == FALSE

ThreadBusy(d, st) == \E e \in Deliveries : ThreadOf[e] = ThreadOf[d] /\ st[e] = "running"

\* What pump does with d, given the rows st and the calls p in progress.
Pumped(d, st, p, th, rec, h) ==
  IF st[d] # "queued" \/ h THEN st[d]
  ELSE IF AbandonedByStop(ThreadOf[d], th, rec) THEN "cancelled"
  ELSE IF ~ThreadBusy(d, st) /\ p[d] = "off" /\ First(d, st, p) THEN "running"
  ELSE "queued"

\* pump on the rows st; a claimed delivery starts its call at once.
Pump(st, p, th, rec, h) ==
  /\ status' = [d \in Deliveries |-> Pumped(d, st, p, th, rec, h)]
  /\ pc' = [d \in Deliveries |->
              IF st[d] = "queued" /\ Pumped(d, st, p, th, rec, h) = "running"
              THEN "preparing" ELSE p[d]]

\* persistMessage, for the next delivery
Post(d) ==
  /\ status[d] = "none"
  /\ \A e \in 1..(d - 1) : status[e] # "none"
  /\ Pump([status EXCEPT ![d] = "queued"], pc, thread, recovery, halted)
  /\ UNCHANGED <<escalation, thread, recovery, halted, halting, crashes, given, stopped, excused>>

------------------------------------------------------------------------------
\* runDelivery and the dispatcher

\* The end of the call of d, with its row set to s: the call is forgotten, and
\* pump is called.
Ends(d, s, th) ==
  Pump([status EXCEPT ![d] = s], [pc EXCEPT ![d] = "off"], th, recovery, halted)

\* The route of a running thread takes the message as steering, that of any other
\* starts a turn, which the call then polls for.
ThreadTakes(d) ==
  LET t == ThreadOf[d] IN
  /\ pc[d] = "preparing"
  /\ ~halted
  /\ given' = [given EXCEPT ![d] = @ + 1]
  /\ IF thread[t] = "running"
     THEN Ends(d, "delivered", thread) /\ UNCHANGED <<thread, recovery, stopped>>
     ELSE /\ thread' = [thread EXCEPT ![t] = "running"]
          /\ recovery' = [recovery EXCEPT ![t] = "none"]
          /\ stopped' = [stopped EXCEPT ![t] = "no"]
          /\ pc' = [pc EXCEPT ![d] = "polling"]
          /\ UNCHANGED status
  /\ UNCHANGED <<escalation, halted, halting, crashes, excused>>

\* The route refuses with agent_halted: the delivery is queued again.
ThreadRefusesHalted(d) ==
  /\ pc[d] = "preparing"
  /\ halted
  /\ Ends(d, "queued", thread)
  /\ UNCHANGED <<escalation, thread, recovery, halted, halting, crashes, given, stopped, excused>>

\* requestRecovery: one request per delivery, by its idempotency key; none if the
\* manager would run on the backend that is exhausted.
Escalated(d, n, ex) == IF d \in Managed \ ex THEN 1 ELSE n

\* The call fails: the owner is unknown or the request cannot be signed (before the
\* thread is asked), the route answers with an error, the thread failed or was
\* interrupted, or it completed without an answer.  A thread that never ran is marked as failed
\* by the dispatcher.  Under a halt the delivery is interrupted; else it failed,
\* which the manager is told, or is blocked by its environment.
Fails(d, asked, reason) ==
  LET t == ThreadOf[d]
      th == IF asked /\ thread[t] = "idle" THEN [thread EXCEPT ![t] = "error"] ELSE thread
      s == IF halted THEN "interrupted" ELSE IF reason = "blocked" THEN "blocked" ELSE "failed"
  IN /\ pc[d] # "off"
     /\ pc[d] = "polling" => asked /\ thread[t] \in {"error", "interrupted", "completed"}
     /\ thread' = th
     /\ Ends(d, s, th)
     /\ exhausted' = IF s = "failed" /\ reason = "exhausted"
                     THEN exhausted \cup ({d} \cap SameBackend) ELSE exhausted
     /\ reviews' = IF s = "failed" THEN [reviews EXCEPT ![d] = Escalated(d, @, exhausted')]
                   ELSE reviews
     /\ UNCHANGED <<recovery, halted, halting, crashes, given, stopped, excused>>

\* A poll finds the thread completed, with an answer.
Completes(d) ==
  /\ pc[d] = "polling"
  /\ thread[ThreadOf[d]] = "completed"
  /\ Ends(d, "completed", thread)
  /\ UNCHANGED <<escalation, thread, recovery, halted, halting, crashes, given, stopped, excused>>

------------------------------------------------------------------------------
\* Threads

\* The turn of a thread ends, of itself or with an error.
TurnEnds(t, st) ==
  /\ thread[t] = "running"
  /\ st \in {"completed", "error"}
  /\ thread' = [thread EXCEPT ![t] = st]
  /\ recovery' = [recovery EXCEPT ![t] = "none"]
  /\ UNCHANGED <<status, pc, escalation, halted, halting, crashes, given, stopped, excused>>

\* Its user runs it, without a delivery.
UserRuns(t) ==
  /\ ~halted
  /\ thread[t] # "running"
  /\ thread' = [thread EXCEPT ![t] = "running"]
  /\ recovery' = [recovery EXCEPT ![t] = "none"]
  /\ stopped' = [stopped EXCEPT ![t] = "no"]
  /\ UNCHANGED <<status, pc, escalation, halted, halting, crashes, given, excused>>

\* Mutant: the stop leaves the queued followers to a later pump.
MarkInterruptedOnly(t) ==
  /\ thread' = [thread EXCEPT ![t] = "interrupted"]
  /\ recovery' = [recovery EXCEPT ![t] = "none"]
  /\ UNCHANGED status

\* markInterrupted: the followers that are queued for the thread are cancelled.
MarkInterrupted(t) ==
  /\ thread' = [thread EXCEPT ![t] = "interrupted"]
  /\ recovery' = [recovery EXCEPT ![t] = "none"]
  /\ status' = [d \in Deliveries |->
       IF ThreadOf[d] = t /\ status[d] = "queued" THEN "cancelled" ELSE status[d]]

\* POST /api/threads/:id/stop
Stop(t) ==
  /\ MarkInterrupted(t)
  /\ stopped' = [stopped EXCEPT ![t] = "user"]
  /\ UNCHANGED <<pc, escalation, halted, halting, crashes, given, excused>>

\* POST /api/threads/:id/interrupt: the row is marked before the provider is asked.
\* The queued followers are left to the next pump.
Interrupt(t) ==
  /\ thread[t] = "running"
  /\ thread' = [thread EXCEPT ![t] = "interrupted"]
  /\ recovery' = [recovery EXCEPT ![t] = "none"]
  /\ stopped' = [stopped EXCEPT ![t] = "interrupt"]
  /\ UNCHANGED <<status, pc, escalation, halted, halting, crashes, given, excused>>

\* The provider refuses, or announces a turn it had begun before: the row runs again.
RunsAgain(t) ==
  /\ thread[t] = "interrupted" /\ recovery[t] = "none" /\ stopped[t] = "interrupt"
  /\ thread' = [thread EXCEPT ![t] = "running"]
  /\ stopped' = [stopped EXCEPT ![t] = "no"]
  /\ UNCHANGED <<status, pc, escalation, recovery, halted, halting, crashes, given, excused>>

\* halt: what runs or is blocked is stopped, thread by thread, as the providers
\* answer.
Halt(blocked) ==
  /\ ~halted
  /\ \A t \in blocked : thread[t] = "error"
  /\ halted' = TRUE
  /\ halting' = halting \cup {t \in Threads : thread[t] = "running"} \cup blocked
  /\ UNCHANGED <<status, pc, escalation, thread, recovery, crashes, given, stopped, excused>>

\* stopUserThreads for one thread: it is stopped, or had no session and is marked
\* as failed, or its provider refuses.
HaltStops(t, how) ==
  /\ t \in halting
  /\ halting' = halting \ {t}
  /\ CASE how = "stopped" -> /\ MarkInterrupted(t)
                             /\ stopped' = [stopped EXCEPT ![t] = "halt"]
       [] how = "nosession" -> /\ thread' = [thread EXCEPT ![t] = "error"]
                               /\ recovery' = [recovery EXCEPT ![t] = "none"]
                               /\ UNCHANGED <<status, stopped>>
       [] how = "refused" -> UNCHANGED <<status, thread, recovery, stopped>>
  /\ UNCHANGED <<pc, escalation, halted, crashes, given, excused>>

\* resume lifts the halt and pumps.
Resume ==
  /\ halted
  /\ halted' = FALSE
  /\ Pump(status, pc, thread, recovery, FALSE)
  /\ UNCHANGED <<escalation, thread, recovery, halting, crashes, given, stopped, excused>>

\* The recovery of a thread is claimed, and its session comes up or not.
RecoveryClaimed(t) ==
  /\ ~halted /\ recovery[t] = "pending"
  /\ recovery' = [recovery EXCEPT ![t] = "claimed"]
  /\ UNCHANGED <<status, pc, escalation, thread, halted, halting, crashes, given, stopped, excused>>

Recovered(t, ok) ==
  /\ recovery[t] = "claimed"
  /\ thread' = [thread EXCEPT ![t] = IF ok THEN "running" ELSE "error"]
  /\ recovery' = [recovery EXCEPT ![t] = "none"]
  /\ UNCHANGED <<status, pc, escalation, halted, halting, crashes, given, stopped, excused>>

------------------------------------------------------------------------------
\* Restart

\* What recover makes of a delivery that ran.
Replayed(s) == IF s = "running" THEN "queued" ELSE s
Surfaced(s) == IF s = "running" THEN "interrupted" ELSE s

\* Mutant: failures are not looked at again.
ReconciledNever(st, th, rec) == {}

\* The failures recover escalates: a crash may have come between the row and the
\* request to the manager.
Reconciled(st, th, rec) ==
  {d \in Managed : st[d] = "failed" /\ ~AbandonedByStop(ThreadOf[d], th, rec)}

\* The gateway dies, perhaps just after the failure of d was written, and starts:
\* threads that ran are to be recovered, deliveries that ran are interrupted, and
\* pump is called.  An interruption can no longer be refused.
Crash(failed, ex) ==
  LET died == {d \in failed : status[d] = "running" /\ pc[d] # "off" /\ ~halted}
      th == [t \in Threads |-> IF thread[t] = "running" THEN "interrupted" ELSE thread[t]]
      rec == [t \in Threads |->
                IF thread[t] = "running" \/ recovery[t] = "claimed" THEN "pending" ELSE recovery[t]]
      st == [d \in Deliveries |-> IF d \in died THEN "failed" ELSE Surfaced(status[d])]
  IN /\ crashes < MaxCrashes
     /\ crashes' = crashes + 1
     /\ failed = died
     /\ ex \subseteq died \cap SameBackend /\ exhausted' = exhausted \cup ex
     /\ thread' = th /\ recovery' = rec
     /\ reviews' = [d \in Deliveries |->
          IF d \in Reconciled(st, th, rec) THEN Escalated(d, reviews[d], exhausted')
          ELSE reviews[d]]
     /\ excused' = excused \cup {d \in Managed : st[d] = "failed" /\ reviews[d] = 0
                                              /\ AbandonedByStop(ThreadOf[d], th, rec)}
     /\ stopped' = [t \in Threads |-> IF stopped[t] = "interrupt" THEN "user" ELSE stopped[t]]
     /\ halting' = {}
     /\ Pump(st, [d \in Deliveries |-> "off"], th, rec, halted)
     /\ UNCHANGED <<halted, given>>

Next ==
  \/ \E d \in Deliveries :
       \/ Post(d) \/ ThreadTakes(d) \/ ThreadRefusesHalted(d) \/ Completes(d)
       \/ \E asked \in BOOLEAN, reason \in Reasons : Fails(d, asked, reason)
  \/ \E t \in Threads :
       \/ \E st \in {"completed", "error"} : TurnEnds(t, st)
       \/ UserRuns(t) \/ Stop(t) \/ Interrupt(t) \/ RunsAgain(t) \/ RecoveryClaimed(t)
       \/ \E how \in {"stopped", "nosession", "refused"} : HaltStops(t, how)
       \/ \E ok \in BOOLEAN : Recovered(t, ok)
  \/ \E blocked \in SUBSET Threads : Halt(blocked)
  \/ Resume
  \/ \E failed \in {{}} \cup {{d} : d \in Deliveries} : \E ex \in SUBSET failed : Crash(failed, ex)

Spec == Init /\ [][Next]_vars

------------------------------------------------------------------------------
\* Properties

\* Every variable keeps its type.
TypeOK ==
  /\ status \in [Deliveries -> {"none", "queued", "running"} \cup Final]
  /\ pc \in [Deliveries -> {"off", "preparing", "polling"}]
  /\ exhausted \subseteq SameBackend /\ reviews \in [Deliveries -> Nat]
  /\ thread \in [Threads -> {"idle", "running", "completed", "error", "interrupted"}]
  /\ recovery \in [Threads -> {"none", "pending", "claimed"}]
  /\ halted \in BOOLEAN /\ halting \subseteq Threads

\* Turns within a thread are serialized: whatever calls pump, two deliveries of a
\* thread never run together and none overtakes an earlier one; and a row says
\* running exactly while a call is in progress that will settle it.
Serialized ==
  /\ \A d, e \in Deliveries : d < e /\ ThreadOf[d] = ThreadOf[e] =>
       /\ ~(status[d] = "running" /\ status[e] = "running")
       /\ given[e] > 0 => status[d] # "queued"
  /\ \A d \in Deliveries : status[d] = "running" <=> pc[d] # "off"

\* A delivery's instructions reach its thread at most once: neither a halt, which
\* queues it again, nor a restart, nor a failure makes the worker do it twice.
GivenOnce == \A d \in Deliveries : given[d] <= 1

\* Nothing is left queued with nobody to deliver it: without a halt, another delivery
\* of the thread is in progress, whose end pumps, and the thread was not stopped, as
\* nothing queued behind a stop will ever run.  Only /interrupt leaves deliveries
\* queued behind a thread it has stopped, for the pump of the delivery in progress.
NothingStranded ==
  \A d \in Deliveries : status[d] = "queued" /\ ~halted =>
    /\ ThreadBusy(d, status)
    /\ thread[ThreadOf[d]] = "interrupted" /\ recovery[ThreadOf[d]] = "none" =>
         stopped[ThreadOf[d]] = "interrupt"

\* Every failure of a delivery with a manager is escalated exactly once, also if
\* the gateway dies between the failure and the request, and however often it
\* restarts.  Passed over are the failures a restart finds behind a thread that was
\* stopped, and those of a backend that is exhausted and is the manager's too, which
\* no restart escalates either.  Nothing but a failure is escalated.
FailuresEscalatedOnce ==
  \A d \in Deliveries :
    /\ reviews[d] <= 1
    /\ reviews[d] = 1 => status[d] = "failed" /\ d \in Managed \ exhausted
    /\ status[d] = "failed" /\ d \in Managed \ exhausted => reviews[d] = 1 \/ d \in excused

\* A queued delivery is cancelled only if a user or a halt stopped its thread, or a
\* user interrupted it, be it that the provider refuses in the end: the interruption
\* a restart makes leaves the followers queued, except while the recovery of the
\* thread is between its claim and its session.
CancelledByStops ==
  [][\A d \in Deliveries : status[d] = "queued" /\ status'[d] = "cancelled" =>
       stopped'[ThreadOf[d]] # "no" \/ recovery[ThreadOf[d]] = "claimed"]_vars

\* What the code says of a halt: deliveries the stop held back are still queued, so
\* that lifting it delivers them.  Only a stop or an interruption by the thread's user
\* cancels.
HaltKeepsQueue ==
  [][\A d \in Deliveries : status[d] = "queued" /\ status'[d] = "cancelled" =>
       stopped'[ThreadOf[d]] \in {"user", "interrupt"}]_vars
==============================================================================
