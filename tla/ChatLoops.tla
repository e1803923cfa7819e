------------------------------ MODULE ChatLoops ------------------------------
(***************************************************************************)
(* The goal loop of one chat (services/chat-loops.ts, tools/loop-tools.ts) *)
(* and what continues it (routes/chat.ts): a timer wakes it, a dispatch    *)
(* signs and posts a hidden turn, the turn's agent checks its goal, and    *)
(* the end of the turn counts it.  Its user may pause, resume, cancel,     *)
(* write or answer at any moment; the review of a checkpoint by a second   *)
(* model and the signing of a request are awaited.                         *)
(*                                                                         *)
(* Of the loop's row the texts are left out, and its iteration numbers are *)
(* kept as differences: "used" is iteration - budgetStartIteration,        *)
(* "checked" is checkedIteration = iteration.  Of the message queue, which *)
(* ChatQueue models, only the head is kept.  The session stays active.     *)
(***************************************************************************)
EXTENDS Naturals

CONSTANTS
  MaxLoopTurns,   \* MAX_LOOP_TURNS, 50
  MaxStalled,     \* MAX_STALLED_CHECKS, 3
  MaxUnchecked,   \* turns without a check before the loop pauses, 3
  MaxRevision, MaxGoals, MaxOutside   \* bounds of the model

ASSUME LoopsAssumption ==
  /\ MaxLoopTurns \in Nat \ {0} /\ MaxStalled \in Nat \ {0} /\ MaxUnchecked \in Nat \ {0}
  /\ MaxRevision \in Nat /\ MaxGoals \in Nat /\ MaxOutside \in Nat

VARIABLES
  loop,       \* the saved loop, goal 0 if there is none
  queue,      \* the queue: "idle" (empty, or its head held), "ready", or "ghost" (a
              \* consumed copy before a held message)
  timer,      \* loopTimers has the session
  dispatch,   \* dispatchLoop: what it does, and the goal and revision it read
  turns,      \* the turns in progress: what each saw of the loop when it began
  streaming,  \* activeStreams has the session
  drain,      \* drainQueuedChatMessages: "off", "sending", "turn", "answered"
  review,     \* checkMonitored awaiting the model: the goal and revision it read
  waits,      \* the session has a blocking wait
  outside,    \* crashes and the clients' writes of the queue, so far
  auto,       \* history: loop turns begun since the user last renewed the budget
  spare       \* history: crashes and answers since then

vars == <<loop, queue, timer, dispatch, turns, streaming, drain, review,
          waits, outside, auto, spare>>

Statuses == {"none", "running", "paused", "waiting", "completed", "error"}
Heads == {"idle", "ready", "ghost"}
Turns == {"loop", "user", "drain"}
NoTurn == [on |-> FALSE, running |-> FALSE, rev |-> 0]
NoReview == [goal |-> 0, rev |-> 0]
NoDispatch == [pc |-> "off", goal |-> 0, rev |-> 0]
NoLoop == [goal |-> 0, status |-> "none", rev |-> 0, used |-> 0, checked |-> FALSE,
           stalled |-> 0, unchecked |-> 0]

Busy == \E t \in Turns : turns[t] # NoTurn
Exists == loop.goal # 0

Init ==
  /\ loop = NoLoop /\ queue = "idle"
  /\ timer = FALSE /\ dispatch = NoDispatch
  /\ turns = [t \in Turns |-> NoTurn] /\ streaming = FALSE
  /\ drain = "off" /\ review = NoReview
  /\ waits = FALSE /\ outside = 0
  /\ auto = 0 /\ spare = 0

------------------------------------------------------------------------------
\* ChatLoopService

\* save: every write has a new revision.
Saved(l) == [l EXCEPT !.rev = @ + 1]
CanSave == loop.rev < MaxRevision

\* wakeLoop, called where the loop may have to continue: no second timer, and
\* none during a dispatch.
Woken(asked, l, d) == timer \/ (asked /\ l.status = "running" /\ d.pc = "off")

Paused(l) == Saved([l EXCEPT !.status = "paused", !.checked = FALSE])
Resumed(l) ==
  Saved([l EXCEPT !.status = "running", !.checked = FALSE,
                  !.used = 0, !.stalled = 0, !.unchecked = 0])

\* Mutant: a new goal starts at revision 0.
NewGoalRestartsRevision(g) == Saved([NoLoop EXCEPT !.goal = g, !.status = "running"])

\* goal: a new id, and the revision goes on where the old goal's ended.
NewGoal(g) == Saved([NoLoop EXCEPT !.goal = g, !.status = "running", !.rev = loop.rev])

\* Mutant: neither limit is looked at.
FinishedUnlimited(l, how) ==
  LET status == CASE how = "error" -> "error"
                  [] how = "cancelled" -> "paused"
                  [] OTHER -> l.status
  IN Saved([l EXCEPT !.status = status, !.checked = FALSE, !.used = @ + 1,
                     !.unchecked = IF l.checked THEN 0 ELSE @ + 1])

\* finishTurn: the turn is counted against the budget and against the turns
\* without a check; an error or a cancellation stops the loop, whatever it was.
Finished(l, how) ==
  LET unchecked == IF l.checked THEN 0 ELSE l.unchecked + 1
      exhausted == /\ l.status = "running"
                   /\ l.used + 1 >= MaxLoopTurns \/ unchecked >= MaxUnchecked
      status == CASE how = "error" -> "error"
                  [] how = "cancelled" -> "paused"
                  [] how = "ok" /\ exhausted -> "paused"
                  [] OTHER -> l.status
  IN Saved([l EXCEPT !.status = status, !.checked = FALSE,
                     !.used = @ + 1, !.unchecked = unchecked])

\* The budget is renewed by a new goal and by control("resume").
Renew == auto' = 0 /\ spare' = 0

------------------------------------------------------------------------------
\* The agent of a turn, and its user

\* loop.goal
SetGoal ==
  /\ Busy /\ CanSave /\ loop.goal < MaxGoals
  /\ loop' = NewGoal(loop.goal + 1)
  /\ timer' = Woken(TRUE, loop', dispatch)
  /\ Renew
  /\ UNCHANGED <<queue, dispatch, turns, streaming, drain, review, waits, outside>>

\* control, by loop.pause and loop.resume or by POST .../loop
Pause ==
  /\ Exists /\ loop.status # "completed" /\ CanSave
  /\ loop' = Paused(loop)
  /\ UNCHANGED <<queue, timer, dispatch, turns, streaming, drain, review, waits,
                 outside, auto, spare>>

Resume ==
  /\ Exists /\ loop.status # "completed" /\ CanSave
  /\ loop' = Resumed(loop)
  /\ timer' = Woken(TRUE, loop', dispatch)
  /\ Renew
  /\ UNCHANGED <<queue, dispatch, turns, streaming, drain, review, waits, outside>>

\* loop.check with outcome "waiting"
CheckWaiting ==
  /\ Busy /\ loop.status = "running" /\ CanSave
  /\ loop' = Saved([loop EXCEPT !.status = "waiting", !.checked = TRUE])
  /\ UNCHANGED <<queue, timer, dispatch, turns, streaming, drain, review, waits,
                 outside, auto, spare>>

\* What checkMonitored saves: the answer of the monitor, and whether the
\* checkpoint shows no progress or repeats the last one.
Checked(complete, monitor, stalls) ==
  LET stalled == IF stalls THEN loop.stalled + 1 ELSE 0
      accepted == complete /\ monitor \in {"accepted", "disabled"}
      stopped == monitor = "unavailable" \/ (~accepted /\ stalled >= MaxStalled)
      status == IF stopped THEN "paused"
                ELSE IF complete /\ monitor # "rejected" THEN "completed" ELSE "running"
  IN Saved([loop EXCEPT !.status = status, !.checked = TRUE, !.stalled = stalled])

\* Without a monitor the check is one step; only a repetition counts as a stall.
CheckUnmonitored(complete, repeated) ==
  /\ Busy /\ loop.status = "running" /\ CanSave
  /\ repeated => ~loop.checked
  /\ loop' = Checked(complete, "disabled", repeated)
  /\ timer' = Woken(TRUE, loop', dispatch)
  /\ UNCHANGED <<queue, dispatch, turns, streaming, drain, review, waits, outside,
                 auto, spare>>

\* With one, the model is asked about the loop as read and the outcome claimed
\* (which is chosen where it is used).
StartReview ==
  /\ Busy /\ loop.status = "running" /\ review = NoReview
  /\ review' = [goal |-> loop.goal, rev |-> loop.rev]
  /\ UNCHANGED <<loop, queue, timer, dispatch, turns, streaming, drain, waits,
                 outside, auto, spare>>

\* The answer is there, or the call failed or timed out: a loop that has changed
\* or stopped meanwhile is left alone.
ReviewReturns(complete, monitor, stalls) ==
  /\ review # NoReview
  /\ review' = NoReview
  /\ monitor = "rejected" => complete
  /\ IF loop.status = "running" /\ loop.rev = review.rev
     THEN /\ CanSave
          /\ loop' = Checked(complete, monitor, stalls)
          /\ timer' = Woken(TRUE, loop', dispatch)
     ELSE UNCHANGED <<loop, timer>>
  /\ UNCHANGED <<queue, dispatch, turns, streaming, drain, waits, outside, auto, spare>>

\* A tool of the turn waits for a person.
WaitRaised ==
  /\ Busy /\ ~waits
  /\ waits' = TRUE
  /\ UNCHANGED <<loop, queue, timer, dispatch, turns, streaming, drain, review,
                 outside, auto, spare>>

\* The wait ends.  The submitted answer of a question continues a loop that
\* waits for it, within the budget it had.
WaitCleared(submitted) ==
  /\ waits
  /\ waits' = FALSE
  /\ IF submitted /\ loop.status = "waiting"
     THEN /\ CanSave
          /\ loop' = Saved([loop EXCEPT !.status = "running", !.checked = FALSE])
          /\ spare' = spare + 1
     ELSE UNCHANGED <<loop, spare>>
  /\ timer' = Woken(TRUE, loop', dispatch)
  /\ UNCHANGED <<queue, dispatch, turns, streaming, drain, review, outside, auto>>

------------------------------------------------------------------------------
\* Turns

\* loopAtTurnStart.  A new goal has a new revision too, and with a running loop
\* neither matters.
Snapshot(l) ==
  [on |-> TRUE, running |-> l.status = "running",
   rev |-> IF l.status = "running" THEN 0 ELSE l.rev]

\* Mutant: any message continues a paused loop too.
RepliedToPaused(l) == IF l.status \in {"waiting", "paused"} THEN Resumed(l) ELSE l

\* A message of the user that arrives at the loop l continues one that waits.
Replied(l) == IF l.status = "waiting" THEN Resumed(l) ELSE l
Reply ==
  /\ loop.status = "waiting" => CanSave
  /\ loop' = Replied(loop)
  /\ timer' = Woken(loop.status = "waiting", loop', dispatch)
  /\ IF loop.status = "waiting" THEN Renew ELSE UNCHANGED <<auto, spare>>

\* POST /api/chat, by the user: a turn, or an entry of the queue.
UserPost ==
  /\ Reply
  /\ IF streaming
     THEN /\ queue' \in {queue} \cup {h \in {"ready"} : queue = "idle"}
          /\ UNCHANGED <<turns, streaming>>
     ELSE /\ turns["user"] = NoTurn
          /\ turns' = [turns EXCEPT !["user"] = Snapshot(loop')]
          /\ streaming' = TRUE
          /\ UNCHANGED queue
  /\ UNCHANGED <<dispatch, drain, review, waits, outside>>

\* A finished background command, an answered question or the recovery after a
\* crash: a hidden turn, unless one is streaming.
BackgroundPost ==
  /\ ~streaming /\ turns["user"] = NoTurn
  /\ turns' = [turns EXCEPT !["user"] = Snapshot(loop)]
  /\ streaming' = TRUE
  /\ UNCHANGED <<loop, queue, timer, dispatch, drain, review, waits, outside,
                 auto, spare>>

\* POST .../cancel pauses a running loop and aborts the turn, which ends later;
\* it may choose the queued message that comes next.
Cancel(chosen) ==
  /\ loop.status = "running" => CanSave
  /\ loop' = IF loop.status = "running" THEN Paused(loop) ELSE loop
  /\ chosen => streaming
  /\ queue' = IF chosen THEN "ready" ELSE queue
  /\ UNCHANGED <<timer, dispatch, turns, streaming, drain, review, waits,
                 outside, auto, spare>>

------------------------------------------------------------------------------
\* drainQueuedChatMessages, and the end of a turn

\* Mutant: the drain does not wake the loop when it is done.
DrainCallNoWake(q, l, s, dr, d, saved) ==
  IF dr = "off" /\ ~s /\ q = "ready"
  THEN drain' = "sending" /\ queue' \in {"idle", "ready"} /\ timer' = Woken(saved, l, d)
  ELSE drain' = dr /\ queue' = q /\ timer' = Woken(saved, l, d)

\* A call of the drain, with the queue q, the loop l (just saved or not), the
\* stream slot s, the drain at dr and the dispatch at d: it returns at once, takes
\* the head and leaves whatever follows it, or ends and wakes the loop.
DrainCall(q, l, s, dr, d, saved) ==
  IF dr # "off" \/ s
  THEN drain' = dr /\ queue' = q /\ timer' = Woken(saved, l, d)
  ELSE IF q = "ready"
  THEN drain' = "sending" /\ queue' \in {"idle", "ready"} /\ timer' = Woken(saved, l, d)
  ELSE drain' = "off" /\ queue' = q /\ timer' = Woken(TRUE, l, d)

\* A client writes the queue.
Sync(q) ==
  /\ outside < MaxOutside
  /\ outside' = outside + 1
  /\ DrainCall(q, loop, streaming, drain, dispatch, FALSE)
  /\ UNCHANGED <<loop, dispatch, turns, streaming, review, waits, auto, spare>>

\* The drained message is accepted: it replies like any other, and does not look
\* at the stream slot.
DrainSends ==
  /\ drain = "sending" /\ turns["drain"] = NoTurn
  /\ Reply
  /\ turns' = [turns EXCEPT !["drain"] = Snapshot(loop')]
  /\ streaming' = TRUE
  /\ drain' = "turn"
  /\ UNCHANGED <<queue, dispatch, review, waits, outside>>

\* It is refused and put back, or the request throws and it is gone.
DrainFails(back) ==
  /\ drain = "sending"
  /\ drain' = "off"
  /\ queue' = IF back THEN "ready" ELSE queue
  /\ timer' = Woken(TRUE, loop, dispatch)
  /\ UNCHANGED <<loop, dispatch, turns, streaming, review, waits, outside, auto, spare>>

\* Its turn has answered: the drain's loop goes on.
DrainResumes ==
  /\ drain = "answered"
  /\ IF streaming
     THEN drain' = "off" /\ timer' = Woken(TRUE, loop, dispatch) /\ UNCHANGED queue
     ELSE DrainCall(queue, loop, FALSE, "off", dispatch, FALSE)
  /\ UNCHANGED <<loop, dispatch, turns, streaming, review, waits, outside, auto, spare>>

\* A turn belongs to the loop if the loop was running when it began or has
\* changed since.
IsGoalLoopTurn(s) == s.running \/ loop.rev # s.rev

\* The turn ends: slot released, the loop's turn counted, the queue drained.  (Of
\* another turn the drain may come later, after the text of a notification.)
TurnEnds(t, how) ==
  LET goalTurn == Exists /\ IsGoalLoopTurn(turns[t])
      dr == IF t = "drain" THEN "answered" ELSE drain
      d == IF t = "loop" THEN [dispatch EXCEPT !.pc = "answered"] ELSE dispatch
  IN /\ turns[t] # NoTurn
     /\ turns' = [turns EXCEPT ![t] = NoTurn]
     /\ streaming' = FALSE
     /\ dispatch' = d
     /\ goalTurn => CanSave
     /\ loop' = IF goalTurn THEN Finished(loop, how) ELSE loop
     /\ DrainCall(queue, loop', FALSE, dr, d, goalTurn)
     /\ UNCHANGED <<review, waits, outside, auto, spare>>

------------------------------------------------------------------------------
\* dispatchLoop

\* The timer fires: nothing is done while something else is going on.
TimerFires ==
  /\ timer
  /\ timer' = FALSE
  /\ dispatch' =
       IF \/ streaming \/ drain # "off" \/ dispatch.pc # "off"
          \/ loop.status # "running" \/ waits \/ queue \in {"ready", "ghost"}
       THEN dispatch
       ELSE [pc |-> "signing", goal |-> loop.goal, rev |-> loop.rev]
  /\ UNCHANGED <<loop, queue, turns, streaming, drain, review, waits, outside, auto, spare>>

\* Every way out of a dispatch wakes a running loop.
DispatchOver(l) == dispatch' = NoDispatch /\ timer' = Woken(TRUE, l, NoDispatch)

\* The token is signed: a loop that was written meanwhile is read again later.
Signed ==
  /\ dispatch.pc = "signing"
  /\ IF loop.rev # dispatch.rev
     THEN DispatchOver(loop)
     ELSE dispatch' = [dispatch EXCEPT !.pc = "posting"] /\ UNCHANGED timer
  /\ UNCHANGED <<loop, queue, turns, streaming, drain, review, waits, outside, auto, spare>>

\* Mutant: the handler of the hidden turn trusts the dispatch.
LoopPostsBlindly ==
  /\ dispatch.pc = "posting"
  /\ UNCHANGED loop
  /\ IF streaming
     THEN DispatchOver(loop) /\ UNCHANGED <<turns, streaming, auto>>
     ELSE /\ dispatch' = [dispatch EXCEPT !.pc = "turn"]
          /\ turns' = [turns EXCEPT !["loop"] = Snapshot(loop)]
          /\ streaming' = TRUE
          /\ auto' = auto + 1
          /\ UNCHANGED timer
  /\ UNCHANGED <<queue, drain, review, waits, outside, spare>>

\* The hidden turn's handler skips it if the loop has changed or stopped, or if a
\* turn is streaming.
LoopPosts ==
  /\ dispatch.pc = "posting"
  /\ UNCHANGED loop
  /\ IF loop.status # "running" \/ loop.rev # dispatch.rev \/ streaming
     THEN DispatchOver(loop) /\ UNCHANGED <<turns, streaming, auto>>
     ELSE /\ dispatch' = [dispatch EXCEPT !.pc = "turn"]
          /\ turns' = [turns EXCEPT !["loop"] = Snapshot(loop)]
          /\ streaming' = TRUE
          /\ auto' = auto + 1
          /\ UNCHANGED timer
  /\ UNCHANGED <<queue, drain, review, waits, outside, spare>>

\* Signing throws or the request is refused: the loop, as it is by now, stops
\* with an error.
DispatchFails ==
  /\ dispatch.pc \in {"signing", "posting"}
  /\ CanSave
  /\ loop' = Finished(loop, "error")
  /\ DispatchOver(loop')
  /\ UNCHANGED <<queue, turns, streaming, drain, review, waits, outside, auto, spare>>

\* The response of the hidden turn is there.
Answered ==
  /\ dispatch.pc = "answered"
  /\ UNCHANGED loop
  /\ DispatchOver(loop)
  /\ UNCHANGED <<queue, turns, streaming, drain, review, waits, outside, auto, spare>>

------------------------------------------------------------------------------
\* Restart

\* The process dies and starts again: onReady wakes a running loop, the startup
\* drains the queue.
Crash ==
  /\ outside < MaxOutside
  /\ outside' = outside + 1
  /\ spare' = spare + 1
  /\ dispatch' = NoDispatch
  /\ turns' = [t \in Turns |-> NoTurn] /\ streaming' = FALSE
  /\ review' = NoReview /\ waits' = FALSE
  /\ timer' = (loop.status = "running")
  /\ IF queue = "ready"
     THEN drain' = "sending" /\ queue' \in {"idle", "ready"}
     ELSE drain' = "off" /\ UNCHANGED queue
  /\ UNCHANGED <<loop, auto>>

Next ==
  \/ SetGoal \/ Pause \/ Resume \/ CheckWaiting
  \/ \E complete, repeated \in BOOLEAN : CheckUnmonitored(complete, repeated)
  \/ StartReview
  \/ \E complete, stalls \in BOOLEAN, m \in {"accepted", "rejected", "unavailable"} :
       ReviewReturns(complete, m, stalls)
  \/ WaitRaised
  \/ \E submitted \in BOOLEAN : WaitCleared(submitted)
  \/ UserPost \/ BackgroundPost
  \/ \E chosen \in BOOLEAN : Cancel(chosen)
  \/ \E q \in Heads : Sync(q)
  \/ DrainSends \/ DrainResumes
  \/ \E back \in BOOLEAN : DrainFails(back)
  \/ \E t \in Turns, how \in {"ok", "cancelled", "error"} : TurnEnds(t, how)
  \/ TimerFires \/ Signed \/ LoopPosts \/ DispatchFails \/ Answered
  \/ Crash

Spec == Init /\ [][Next]_vars

------------------------------------------------------------------------------
\* Properties

\* Every variable keeps its type; a hidden turn runs exactly while its dispatch
\* awaits it, and a drained one while the drain does.
TypeOK ==
  /\ loop \in [goal : Nat, status : Statuses, rev : 0..MaxRevision, used : Nat,
               checked : BOOLEAN, stalled : Nat, unchecked : Nat]
  /\ queue \in Heads
  /\ timer \in BOOLEAN /\ streaming \in BOOLEAN
  /\ waits \in BOOLEAN
  /\ dispatch.pc \in {"off", "signing", "posting", "turn", "answered"}
  /\ drain \in {"off", "sending", "turn", "answered"}
  /\ dispatch.pc = "turn" <=> turns["loop"] # NoTurn
  /\ drain = "turn" <=> turns["drain"] # NoTurn
  /\ (loop.goal = 0) <=> (loop.status = "none")

\* A running loop is never forgotten: a timer is set, or a turn, a dispatch, a
\* drain or a wait is in progress whose end wakes it.  A queued message that was
\* refused, or a consumed copy before a held one, keeps it until the queue is
\* written again.
NotStranded ==
  loop.status = "running" =>
    \/ timer \/ dispatch.pc # "off" \/ Busy \/ drain # "off" \/ waits
    \/ queue \in {"ready", "ghost"}

\* At most MaxLoopTurns hidden turns begin before the loop stops of itself, however
\* the turns end; only a new goal, a resume or a reply renews the budget, and only
\* a crash in a turn or an answered question adds a turn to it.
BudgetHolds == auto <= MaxLoopTurns + spare

\* A hidden turn works on the goal its instructions were built from: a pause, an
\* edit or a new goal while the dispatch signs and posts is seen by the handler.
StaleDispatchDies ==
  [][turns["loop"] = NoTurn /\ turns'["loop"] # NoTurn =>
       /\ loop.status = "running"
       /\ dispatch.goal = loop.goal /\ dispatch.rev = loop.rev]_vars

\* A review never decides about another goal than the one it has read, not even if
\* the goal was replaced and the loop resumed while the model was thinking.
StaleReviewDies ==
  [][review # NoReview /\ review' = NoReview /\ loop' # loop /\ outside' = outside =>
       review.goal = loop.goal /\ loop'.goal = loop.goal]_vars

\* A loop that was paused, failed or completed runs again only after a resume or
\* with a new goal: no check, message, answer, notice or restart continues it.
StoppedStaysStopped ==
  [][loop.status \in {"paused", "error", "completed"} /\ loop'.status = "running" =>
       SetGoal \/ Resume]_vars
==============================================================================
