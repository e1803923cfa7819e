--------------------------- MODULE ChatLoopsProofs ---------------------------
(***************************************************************************)
(* Proofs about the goal loop of a chat, for any limits on turns, stalls   *)
(* and unchecked turns and any number of goals, revisions and crashes.     *)
(***************************************************************************)
EXTENDS ChatLoops, TLAPS

Loops == [goal : Nat, status : Statuses, rev : Nat, used : Nat, checked : BOOLEAN,
          stalled : Nat, unchecked : Nat]
Snapshots == [on : BOOLEAN, running : BOOLEAN, rev : Nat]
Dispatches == [pc : {"off", "signing", "posting", "turn", "answered"}, goal : Nat, rev : Nat]

\* The types of what TypeOK leaves open.
Types ==
  /\ turns \in [Turns -> Snapshots]
  /\ dispatch \in Dispatches
  /\ review \in [goal : Nat, rev : Nat]
  /\ outside \in Nat /\ auto \in Nat /\ spare \in Nat

\* A dispatch is always one of a loop, its turn is one of the loop's, and whoever
\* holds the stream slot is a turn.
Slots ==
  /\ dispatch.pc # "off" => loop.goal # 0
  /\ turns["loop"] # NoTurn => turns["loop"].running
  /\ streaming => Busy

\* A revision stands for one goal: what a dispatch or a review has read is of the
\* loop's goal, or of an older revision.
Revisions ==
  /\ dispatch.pc \in {"signing", "posting"} =>
       /\ dispatch.rev <= loop.rev
       /\ dispatch.rev = loop.rev => dispatch.goal = loop.goal
  /\ review # NoReview =>
       /\ review.rev <= loop.rev
       /\ review.rev = loop.rev => review.goal = loop.goal

\* Every hidden turn that began is counted in "used", is the one in progress, or
\* was paid for by a crash; a running loop between two of them has one left.
Budget ==
  /\ auto <= MaxLoopTurns + spare
  /\ auto <= loop.used + spare + 1
  /\ turns["loop"] = NoTurn =>
       /\ auto <= loop.used + spare
       /\ loop.status = "running" => auto < MaxLoopTurns + spare

IInv == TypeOK /\ Types /\ Slots /\ NotStranded /\ Revisions /\ Budget

\* The steps the action properties are about.
DispatchStep ==
  turns["loop"] = NoTurn /\ turns'["loop"] # NoTurn =>
    /\ loop.status = "running"
    /\ dispatch.goal = loop.goal /\ dispatch.rev = loop.rev
ReviewStep ==
  review # NoReview /\ review' = NoReview /\ loop' # loop /\ outside' = outside =>
    review.goal = loop.goal /\ loop'.goal = loop.goal
StopStep ==
  loop.status \in {"paused", "error", "completed"} /\ loop'.status = "running" => SetGoal \/ Resume
Steps == DispatchStep /\ ReviewStep /\ StopStep

------------------------------------------------------------------------------
\* What the writes of the row do

\* m is l after a write that leaves the goal, with this status and this count.
Written(l, m, status, used) ==
  m \in Loops /\ m.goal = l.goal /\ m.status = status /\ m.rev = l.rev + 1 /\ m.used = used

LEMMA LoopsTyped ==
  ASSUME TypeOK
  PROVE  loop \in Loops /\ loop.rev <= MaxRevision
BY LoopsAssumption DEF TypeOK, Loops

LEMMA SavedWrites ==
  ASSUME NEW l \in Loops, NEW m \in Loops, m.goal = l.goal, m.rev = l.rev
  PROVE  Written(l, Saved(m), m.status, m.used)
<1>1. m.rev + 1 \in Nat
  BY DEF Loops
<1> QED BY <1>1 DEF Written, Saved, Loops

LEMMA PausedWrites ==
  ASSUME NEW l \in Loops
  PROVE  Written(l, Paused(l), "paused", l.used)
<1> DEFINE m == [l EXCEPT !.status = "paused", !.checked = FALSE]
<1>1. m \in Loops /\ m.goal = l.goal /\ m.rev = l.rev /\ m.status = "paused" /\ m.used = l.used
  BY DEF Loops, Statuses
<1>2. Paused(l) = Saved(m)
  BY DEF Paused
<1> HIDE DEF m
<1>3. Written(l, Saved(m), m.status, m.used)
  BY <1>1, SavedWrites
<1> QED BY <1>1, <1>2, <1>3

LEMMA ResumedWrites ==
  ASSUME NEW l \in Loops
  PROVE  Written(l, Resumed(l), "running", 0)
<1> DEFINE m == [l EXCEPT !.status = "running", !.checked = FALSE,
                          !.used = 0, !.stalled = 0, !.unchecked = 0]
<1>1. m \in Loops /\ m.goal = l.goal /\ m.rev = l.rev /\ m.status = "running" /\ m.used = 0
  BY DEF Loops, Statuses
<1>2. Resumed(l) = Saved(m)
  BY DEF Resumed
<1> HIDE DEF m
<1>3. Written(l, Saved(m), m.status, m.used)
  BY <1>1, SavedWrites
<1> QED BY <1>1, <1>2, <1>3

LEMMA NewGoalWrites ==
  ASSUME loop \in Loops, NEW g \in Nat \ {0}
  PROVE  /\ NewGoal(g) \in Loops /\ NewGoal(g).goal = g /\ NewGoal(g).status = "running"
         /\ NewGoal(g).rev = loop.rev + 1 /\ NewGoal(g).used = 0
<1> DEFINE m == [NoLoop EXCEPT !.goal = g, !.status = "running", !.rev = loop.rev]
<1>1. m \in Loops /\ m.goal = g /\ m.rev = loop.rev /\ m.status = "running" /\ m.used = 0
  BY DEF NoLoop, Loops, Statuses
<1>2. NewGoal(g) = Saved(m)
  BY DEF NewGoal
<1> HIDE DEF m
<1>3. Written(m, Saved(m), m.status, m.used)
  BY <1>1, SavedWrites
<1> QED BY <1>1, <1>2, <1>3 DEF Written

LEMMA WaitingWrites ==
  ASSUME NEW l \in Loops
  PROVE  Written(l, Saved([l EXCEPT !.status = "waiting", !.checked = TRUE]), "waiting", l.used)
<1> DEFINE m == [l EXCEPT !.status = "waiting", !.checked = TRUE]
<1>1. m \in Loops /\ m.goal = l.goal /\ m.rev = l.rev /\ m.status = "waiting" /\ m.used = l.used
  BY DEF Loops, Statuses
<1> HIDE DEF m
<1>2. Written(l, Saved(m), m.status, m.used)
  BY <1>1, SavedWrites
<1> QED BY <1>1, <1>2 DEF m

LEMMA AnsweredWrites ==
  ASSUME NEW l \in Loops
  PROVE  Written(l, Saved([l EXCEPT !.status = "running", !.checked = FALSE]), "running", l.used)
<1> DEFINE m == [l EXCEPT !.status = "running", !.checked = FALSE]
<1>1. m \in Loops /\ m.goal = l.goal /\ m.rev = l.rev /\ m.status = "running" /\ m.used = l.used
  BY DEF Loops, Statuses
<1> HIDE DEF m
<1>2. Written(l, Saved(m), m.status, m.used)
  BY <1>1, SavedWrites
<1> QED BY <1>1, <1>2 DEF m

LEMMA CheckedWrites ==
  ASSUME loop \in Loops, NEW complete \in BOOLEAN, NEW monitor, NEW stalls \in BOOLEAN
  PROVE  \E status \in {"running", "paused", "completed"} :
           Written(loop, Checked(complete, monitor, stalls), status, loop.used)
<1> DEFINE stalled == IF stalls THEN loop.stalled + 1 ELSE 0
           accepted == complete /\ monitor \in {"accepted", "disabled"}
           stopped == monitor = "unavailable" \/ (~accepted /\ stalled >= MaxStalled)
           status == IF stopped THEN "paused"
                     ELSE IF complete /\ monitor # "rejected" THEN "completed" ELSE "running"
           m == [loop EXCEPT !.status = status, !.checked = TRUE, !.stalled = stalled]
<1>1. Checked(complete, monitor, stalls) = Saved(m)
  BY DEF Checked
<1>2. stalled \in Nat
  BY DEF Loops
<1>3. status \in {"running", "paused", "completed"}
  OBVIOUS
<1> HIDE DEF stalled, status
<1>4. m \in Loops /\ m.goal = loop.goal /\ m.rev = loop.rev /\ m.status = status /\ m.used = loop.used
  BY <1>2, <1>3 DEF Loops, Statuses
<1> HIDE DEF m
<1>5. Written(loop, Saved(m), m.status, m.used)
  BY <1>4, SavedWrites
<1> QED BY <1>1, <1>3, <1>4, <1>5

\* The end of a turn counts it, and leaves a loop running only within the limits.
LEMMA FinishedWrites ==
  ASSUME NEW l \in Loops, NEW how \in {"ok", "cancelled", "error"}
  PROVE  \E status \in Statuses :
           /\ Written(l, Finished(l, how), status, l.used + 1)
           /\ status = "running" => l.status = "running" /\ l.used + 1 < MaxLoopTurns
           /\ status = "none" => l.status = "none"
           /\ how = "error" => status = "error"
<1> DEFINE unchecked == IF l.checked THEN 0 ELSE l.unchecked + 1
           exhausted == l.status = "running" /\ (l.used + 1 >= MaxLoopTurns \/ unchecked >= MaxUnchecked)
           status == CASE how = "error" -> "error"
                       [] how = "cancelled" -> "paused"
                       [] how = "ok" /\ exhausted -> "paused"
                       [] OTHER -> l.status
           m == [l EXCEPT !.status = status, !.checked = FALSE,
                          !.used = l.used + 1, !.unchecked = unchecked]
<1>1. Finished(l, how) = Saved(m)
  BY DEF Finished
<1>2. unchecked \in Nat /\ l.used \in Nat /\ l.used + 1 \in Nat /\ l.status \in Statuses
  BY DEF Loops
<1>3. /\ status \in Statuses
      /\ status = "running" => l.status = "running" /\ ~(l.used + 1 >= MaxLoopTurns)
      /\ status = "none" => l.status = "none"
      /\ how = "error" => status = "error"
  BY <1>2 DEF Statuses
<1>4. ~(l.used + 1 >= MaxLoopTurns) => l.used + 1 < MaxLoopTurns
  BY <1>2, LoopsAssumption
<1> HIDE DEF unchecked, status
<1>5. m \in Loops /\ m.goal = l.goal /\ m.rev = l.rev /\ m.status = status /\ m.used = l.used + 1
  BY <1>2, <1>3 DEF Loops
<1> HIDE DEF m
<1>6. Written(l, Saved(m), m.status, m.used)
  BY <1>5, SavedWrites
<1> QED BY <1>1, <1>3, <1>4, <1>5, <1>6

------------------------------------------------------------------------------
\* Steps by their shape

\* The loop is left alone, or written once with a new revision.
Rewritten ==
  \/ loop' = loop
  \/ /\ loop' \in Loops /\ loop'.goal # 0 /\ loop'.status # "none"
     /\ loop'.rev = loop.rev + 1 /\ loop.rev < MaxRevision

LEMMA RewrittenTypes ==
  ASSUME TypeOK, Rewritten
  PROVE  /\ loop' \in [goal : Nat, status : Statuses, rev : 0..MaxRevision, used : Nat,
                       checked : BOOLEAN, stalled : Nat, unchecked : Nat]
         /\ loop' \in Loops
         /\ loop'.goal = 0 <=> loop'.status = "none"
         /\ loop.goal # 0 => loop'.goal # 0
         /\ loop'.rev >= loop.rev
         /\ loop' # loop => loop'.rev > loop.rev
         /\ loop.rev \in Nat /\ loop'.rev \in Nat /\ loop.used \in Nat /\ loop'.used \in Nat
<1>1. loop \in Loops /\ loop.rev <= MaxRevision /\ loop.rev \in Nat
  BY LoopsTyped DEF Loops
<1>2. CASE loop' = loop
  BY <1>1, <1>2 DEF TypeOK, Loops
<1>3. CASE /\ loop' \in Loops /\ loop'.goal # 0 /\ loop'.status # "none"
           /\ loop'.rev = loop.rev + 1 /\ loop.rev < MaxRevision
  <2>1. loop'.rev \in 0..MaxRevision
    BY <1>1, <1>3, LoopsAssumption
  <2>2. loop' \in [goal : Nat, status : Statuses, rev : 0..MaxRevision, used : Nat,
                   checked : BOOLEAN, stalled : Nat, unchecked : Nat]
    BY <1>3, <2>1 DEF Loops
  <2> QED BY <1>1, <1>3, <2>2 DEF Loops
<1> QED BY <1>2, <1>3 DEF Rewritten

\* What was read stays of the goal, or becomes old.
LEMMA RevisionsKept ==
  ASSUME IInv, Rewritten,
         dispatch'.pc \in {"signing", "posting"} =>
           \/ /\ dispatch.pc \in {"signing", "posting"}
              /\ dispatch'.goal = dispatch.goal /\ dispatch'.rev = dispatch.rev
           \/ dispatch'.goal = loop.goal /\ dispatch'.rev = loop.rev,
         review' # NoReview =>
           \/ review' = review
           \/ review'.goal = loop.goal /\ review'.rev = loop.rev
  PROVE  Revisions'
<1>1. /\ loop'.rev >= loop.rev /\ (loop' # loop => loop'.rev > loop.rev)
      /\ loop.rev \in Nat /\ loop'.rev \in Nat
  BY RewrittenTypes DEF IInv
<1>2. dispatch.rev \in Nat /\ review.rev \in Nat
  BY DEF IInv, Types, Dispatches
<1>3. ASSUME dispatch'.pc \in {"signing", "posting"}
      PROVE  dispatch'.rev <= loop'.rev /\ (dispatch'.rev = loop'.rev => dispatch'.goal = loop'.goal)
  <2>1. dispatch'.rev <= loop.rev /\ (dispatch'.rev = loop.rev => dispatch'.goal = loop.goal)
    BY <1>1, <1>3 DEF IInv, Revisions
  <2>2. dispatch'.rev \in Nat
    BY <1>1, <1>2, <1>3
  <2> QED BY <1>1, <2>1, <2>2
<1>4. ASSUME review' # NoReview
      PROVE  review'.rev <= loop'.rev /\ (review'.rev = loop'.rev => review'.goal = loop'.goal)
  <2>1. review'.rev <= loop.rev /\ (review'.rev = loop.rev => review'.goal = loop.goal)
    BY <1>1, <1>4 DEF IInv, Revisions
  <2>2. review'.rev \in Nat
    BY <1>1, <1>2, <1>4
  <2> QED BY <1>1, <2>1, <2>2
<1> QED BY <1>3, <1>4 DEF Revisions

\* A step that begins no hidden turn and, if it ends one, counts it.
BudgetKeptStep ==
  /\ auto' \in Nat /\ spare' \in Nat
  /\ \/ auto' = 0 /\ spare' = 0
     \/ /\ auto' = auto /\ spare' >= spare /\ loop'.used >= loop.used
        /\ \/ turns'["loop"] = turns["loop"]
           \/ turns["loop"] # NoTurn /\ turns'["loop"] = NoTurn /\ spare' > spare
           \/ turns["loop"] # NoTurn /\ turns'["loop"] = NoTurn /\ loop'.used > loop.used
              /\ (loop'.status = "running" => loop'.used < MaxLoopTurns)
        /\ loop'.status = "running" => loop.status = "running" \/ spare' > spare

LEMMA BudgetKept ==
  ASSUME IInv, Rewritten, BudgetKeptStep
  PROVE  Budget'
<1>1. /\ loop.used \in Nat /\ loop'.used \in Nat
      /\ auto \in Nat /\ auto' \in Nat /\ spare \in Nat /\ spare' \in Nat
      /\ MaxLoopTurns \in Nat /\ MaxLoopTurns # 0
  BY RewrittenTypes, LoopsAssumption DEF IInv, Types, BudgetKeptStep
<1>2. CASE auto' = 0 /\ spare' = 0
  BY <1>1, <1>2 DEF Budget
<1>3. CASE ~(auto' = 0 /\ spare' = 0)
  BY <1>1, <1>3 DEF IInv, Budget, BudgetKeptStep
<1> QED BY <1>2, <1>3

\* The loop is written and perhaps woken, or a wait, a review or the queue changes,
\* while turns, dispatch and drain go on.
LEMMA LoopStep ==
  ASSUME IInv, Rewritten, UNCHANGED <<dispatch, turns, streaming, drain, outside>>,
         timer' \in BOOLEAN, queue' \in Heads, waits' \in BOOLEAN, review' \in [goal : Nat, rev : Nat],
         timer => timer',
         loop'.status = "running" =>
           \/ timer' \/ dispatch.pc # "off"
           \/ /\ loop.status = "running" /\ (waits => waits')
              /\ (queue \in {"ready", "ghost"} => queue' \in {"ready", "ghost"}),
         \/ review' = review \/ review' = NoReview
         \/ review'.goal = loop.goal /\ review'.rev = loop.rev,
         \/ auto' = 0 /\ spare' = 0
         \/ /\ auto' = auto /\ spare' \in Nat /\ spare' >= spare /\ loop'.used = loop.used
            /\ loop'.status = "running" => loop.status = "running" \/ spare' > spare
  PROVE  IInv' /\ DispatchStep
<1>1. TypeOK'
  BY RewrittenTypes DEF IInv, TypeOK
<1>2. auto' \in Nat /\ spare' \in Nat
  BY DEF IInv, Types
<1>3. Types'
  BY <1>2 DEF IInv, Types
<1>4. Slots'
  BY RewrittenTypes DEF IInv, Slots, Busy
<1>5. NotStranded'
  BY DEF IInv, NotStranded, Busy
<1>6. Revisions'
  BY RevisionsKept DEF IInv
<1>7. loop'.used = loop.used => loop'.used >= loop.used
  BY RewrittenTypes DEF IInv
<1>8. Budget'
  BY <1>2, <1>7, BudgetKept DEF BudgetKeptStep
<1>9. DispatchStep
  BY DEF DispatchStep
<1> QED BY <1>1, <1>3, <1>4, <1>5, <1>6, <1>8, <1>9 DEF IInv

\* wakeLoop keeps a timer, and leaves no running loop without one but for a dispatch.
LEMMA WokenWakes ==
  ASSUME NEW asked \in BOOLEAN, NEW l, NEW d
  PROVE  /\ Woken(asked, l, d) \in BOOLEAN
         /\ timer => Woken(asked, l, d)
         /\ asked /\ l.status = "running" => Woken(asked, l, d) \/ d.pc # "off"
BY DEF Woken

------------------------------------------------------------------------------
\* The agent of a turn, and its user

LEMMA SetGoalStep ==
  ASSUME IInv, SetGoal
  PROVE  IInv' /\ Steps
<1>1. loop \in Loops /\ loop.goal + 1 \in Nat \ {0}
  BY LoopsTyped DEF IInv, Loops
<1>2. /\ loop' \in Loops /\ loop'.goal = loop.goal + 1 /\ loop'.status = "running"
      /\ loop'.rev = loop.rev + 1 /\ loop'.used = 0
  BY <1>1, NewGoalWrites DEF SetGoal
<1>3. Rewritten
  BY <1>1, <1>2 DEF Rewritten, SetGoal, CanSave
<1>4. timer' \in BOOLEAN /\ (timer => timer') /\ (timer' \/ dispatch.pc # "off")
  BY <1>2, WokenWakes DEF SetGoal
<1>5. IInv' /\ DispatchStep
  BY <1>3, <1>4, LoopStep DEF IInv, TypeOK, Types, SetGoal, Renew
<1> QED BY <1>5 DEF Steps, ReviewStep, StopStep, SetGoal

LEMMA PauseStep ==
  ASSUME IInv, Pause
  PROVE  IInv' /\ Steps
<1>1. Written(loop, loop', "paused", loop.used)
  BY LoopsTyped, PausedWrites DEF Pause, IInv
<1>2. Rewritten
  BY <1>1 DEF Rewritten, Pause, CanSave, Exists, Written
<1>3. spare \in Nat /\ spare >= spare /\ loop'.used = loop.used /\ loop'.status = "paused"
  BY <1>1 DEF IInv, Types, Written
<1>4. IInv' /\ DispatchStep
  BY <1>2, <1>3, LoopStep DEF IInv, TypeOK, Types, Pause
<1> QED BY <1>3, <1>4 DEF Steps, ReviewStep, StopStep, Pause

LEMMA ResumeStep ==
  ASSUME IInv, Resume
  PROVE  IInv' /\ Steps
<1>1. Written(loop, loop', "running", 0)
  BY LoopsTyped, ResumedWrites DEF Resume, IInv
<1>2. Rewritten
  BY <1>1 DEF Rewritten, Resume, CanSave, Exists, Written
<1>3. timer' \in BOOLEAN /\ (timer => timer') /\ (timer' \/ dispatch.pc # "off")
  BY <1>1, WokenWakes DEF Resume, Written
<1>4. IInv' /\ DispatchStep
  BY <1>2, <1>3, LoopStep DEF IInv, TypeOK, Types, Resume, Renew
<1> QED BY <1>4 DEF Steps, ReviewStep, StopStep, Resume

LEMMA CheckWaitingStep ==
  ASSUME IInv, CheckWaiting
  PROVE  IInv' /\ Steps
<1>1. Written(loop, loop', "waiting", loop.used)
  BY LoopsTyped, WaitingWrites DEF CheckWaiting, IInv
<1>2. Rewritten
  BY <1>1 DEF Rewritten, CheckWaiting, CanSave, Written, IInv, TypeOK
<1>3. spare \in Nat /\ spare >= spare /\ loop'.used = loop.used /\ loop'.status = "waiting"
  BY <1>1 DEF IInv, Types, Written
<1>4. IInv' /\ DispatchStep
  BY <1>2, <1>3, LoopStep DEF IInv, TypeOK, Types, CheckWaiting
<1> QED BY <1>3, <1>4 DEF Steps, ReviewStep, StopStep, CheckWaiting

\* A check of the running loop.
LEMMA CheckedStep ==
  ASSUME IInv, NEW complete \in BOOLEAN, NEW monitor, NEW stalls \in BOOLEAN,
         loop.status = "running", CanSave,
         loop' = Checked(complete, monitor, stalls), timer' = Woken(TRUE, loop', dispatch),
         review' = review \/ review' = NoReview,
         UNCHANGED <<queue, dispatch, turns, streaming, drain, waits, outside, auto, spare>>
  PROVE  IInv' /\ DispatchStep /\ loop'.goal = loop.goal
<1>1. PICK status \in {"running", "paused", "completed"} : Written(loop, loop', status, loop.used)
  BY LoopsTyped, CheckedWrites DEF IInv
<1>2. Rewritten
  BY <1>1 DEF Rewritten, CanSave, Written, IInv, TypeOK
<1>3. timer' \in BOOLEAN /\ (timer => timer') /\ (loop'.status = "running" => timer' \/ dispatch.pc # "off")
  BY WokenWakes
<1>4. spare \in Nat /\ spare >= spare /\ loop'.used = loop.used /\ loop'.goal = loop.goal
  BY <1>1 DEF IInv, Types, Written
<1>5. review' \in [goal : Nat, rev : Nat]
  BY DEF IInv, Types, NoReview
<1> QED BY <1>2, <1>3, <1>4, <1>5, LoopStep DEF IInv, TypeOK, Types

LEMMA CheckUnmonitoredStep ==
  ASSUME IInv, NEW complete \in BOOLEAN, NEW repeated \in BOOLEAN, CheckUnmonitored(complete, repeated)
  PROVE  IInv' /\ Steps
<1>1. IInv' /\ DispatchStep
  BY CheckedStep DEF CheckUnmonitored
<1> QED BY <1>1 DEF Steps, ReviewStep, StopStep, CheckUnmonitored

LEMMA StartReviewStep ==
  ASSUME IInv, StartReview
  PROVE  IInv' /\ Steps
<1>1. review' \in [goal : Nat, rev : Nat] /\ review'.goal = loop.goal /\ review'.rev = loop.rev
  BY LoopsTyped DEF StartReview, IInv, Loops
<1>2. Rewritten /\ loop' = loop
  BY DEF Rewritten, StartReview
<1>3. spare \in Nat /\ spare >= spare
  BY DEF IInv, Types
<1>4. IInv' /\ DispatchStep
  BY <1>1, <1>2, <1>3, LoopStep DEF IInv, TypeOK, Types, StartReview
<1> QED BY <1>2, <1>4 DEF Steps, ReviewStep, StopStep

LEMMA ReviewReturnsStep ==
  ASSUME IInv, NEW complete \in BOOLEAN, NEW stalls \in BOOLEAN, NEW m,
         ReviewReturns(complete, m, stalls)
  PROVE  IInv' /\ Steps
<1>1. CASE loop.status = "running" /\ loop.rev = review.rev
  <2>1. IInv' /\ DispatchStep /\ loop'.goal = loop.goal
    BY <1>1, CheckedStep DEF ReviewReturns
  <2>2. review.goal = loop.goal
    BY <1>1 DEF ReviewReturns, IInv, Revisions
  <2> QED BY <1>1, <2>1, <2>2 DEF Steps, ReviewStep, StopStep
<1>2. CASE ~(loop.status = "running" /\ loop.rev = review.rev)
  <2>1. Rewritten /\ loop' = loop /\ timer' = timer
    BY <1>2 DEF Rewritten, ReviewReturns
  <2>2. review' \in [goal : Nat, rev : Nat] /\ review' = NoReview
    BY DEF ReviewReturns, NoReview
  <2>3. spare \in Nat /\ spare >= spare
    BY DEF IInv, Types
  <2>4. IInv' /\ DispatchStep
    BY <2>1, <2>2, <2>3, LoopStep DEF IInv, TypeOK, Types, ReviewReturns
  <2> QED BY <2>1, <2>4 DEF Steps, ReviewStep, StopStep
<1> QED BY <1>1, <1>2

LEMMA WaitRaisedStep ==
  ASSUME IInv, WaitRaised
  PROVE  IInv' /\ Steps
<1>1. Rewritten /\ loop' = loop
  BY DEF Rewritten, WaitRaised
<1>2. spare \in Nat /\ spare >= spare
  BY DEF IInv, Types
<1>3. IInv' /\ DispatchStep
  BY <1>1, <1>2, LoopStep DEF IInv, TypeOK, Types, WaitRaised
<1> QED BY <1>1, <1>3 DEF Steps, ReviewStep, StopStep

LEMMA WaitClearedStep ==
  ASSUME IInv, NEW submitted \in BOOLEAN, WaitCleared(submitted)
  PROVE  IInv' /\ Steps
<1>1. timer' \in BOOLEAN /\ (timer => timer') /\ (loop'.status = "running" => timer' \/ dispatch.pc # "off")
  BY WokenWakes DEF WaitCleared
<1>2. spare \in Nat /\ spare + 1 \in Nat /\ spare >= spare /\ spare + 1 >= spare /\ spare + 1 > spare
  BY DEF IInv, Types
<1>3. CASE submitted /\ loop.status = "waiting"
  <2>1. Written(loop, loop', "running", loop.used)
    BY <1>3, LoopsTyped, AnsweredWrites DEF WaitCleared, IInv
  <2>2. Rewritten
    BY <1>3, <2>1 DEF Rewritten, WaitCleared, CanSave, Written, IInv, TypeOK
  <2>3. loop'.used = loop.used /\ spare' = spare + 1 /\ auto' = auto
    BY <1>3, <2>1 DEF Written, WaitCleared
  <2>4. IInv' /\ DispatchStep
    BY <1>1, <1>2, <2>2, <2>3, LoopStep DEF IInv, TypeOK, Types, WaitCleared
  <2> QED BY <1>3, <2>4 DEF Steps, ReviewStep, StopStep, WaitCleared
<1>4. CASE ~(submitted /\ loop.status = "waiting")
  <2>1. Rewritten /\ loop' = loop /\ spare' = spare /\ auto' = auto
    BY <1>4 DEF Rewritten, WaitCleared
  <2>2. IInv' /\ DispatchStep
    BY <1>1, <1>2, <2>1, LoopStep DEF IInv, TypeOK, Types, WaitCleared
  <2> QED BY <2>1, <2>2 DEF Steps, ReviewStep, StopStep
<1> QED BY <1>3, <1>4

LEMMA CancelStep ==
  ASSUME IInv, NEW chosen \in BOOLEAN, Cancel(chosen)
  PROVE  IInv' /\ Steps
<1>1. spare \in Nat /\ spare >= spare
  BY DEF IInv, Types
<1>2. queue' \in Heads /\ (queue \in {"ready", "ghost"} => queue' \in {"ready", "ghost"})
  BY DEF Cancel, IInv, TypeOK, Heads
<1>3. CASE loop.status = "running"
  <2>1. Written(loop, loop', "paused", loop.used)
    BY <1>3, LoopsTyped, PausedWrites DEF Cancel, IInv
  <2>2. Rewritten
    BY <1>3, <2>1 DEF Rewritten, Cancel, CanSave, Written, IInv, TypeOK
  <2>3. loop'.used = loop.used /\ loop'.status = "paused"
    BY <2>1 DEF Written
  <2>4. IInv' /\ DispatchStep
    BY <1>1, <1>2, <2>2, <2>3, LoopStep DEF IInv, TypeOK, Types, Cancel
  <2> QED BY <2>3, <2>4 DEF Steps, ReviewStep, StopStep, Cancel
<1>4. CASE loop.status # "running"
  <2>1. Rewritten /\ loop' = loop
    BY <1>4 DEF Rewritten, Cancel
  <2>2. IInv' /\ DispatchStep
    BY <1>1, <1>2, <2>1, LoopStep DEF IInv, TypeOK, Types, Cancel
  <2> QED BY <2>1, <2>2 DEF Steps, ReviewStep, StopStep
<1> QED BY <1>3, <1>4

------------------------------------------------------------------------------
\* Turns that begin

LEMMA SnapshotTyped ==
  ASSUME NEW l \in Loops
  PROVE  Snapshot(l) \in Snapshots /\ Snapshot(l) # NoTurn /\ (l.status = "running" => Snapshot(l).running)
<1>1. Snapshot(l).on = TRUE /\ NoTurn.on = FALSE
  BY DEF Snapshot, NoTurn
<1>2. (l.status = "running") \in BOOLEAN /\ l.rev \in Nat
  BY DEF Loops
<1>3. Snapshot(l) \in Snapshots
  BY <1>2 DEF Snapshot, Snapshots
<1>4. l.status = "running" => Snapshot(l).running
  BY DEF Snapshot
<1> QED BY <1>1, <1>3, <1>4

\* A message continues a loop that waits, and no other.
LEMMA ReplyWrites ==
  ASSUME IInv, Reply
  PROVE  /\ Rewritten
         /\ timer' \in BOOLEAN /\ (timer => timer')
         /\ loop'.status = "running" => timer' \/ dispatch.pc # "off" \/ loop.status = "running"
         /\ \/ auto' = 0 /\ spare' = 0
            \/ auto' = auto /\ spare' = spare /\ loop' = loop
         /\ StopStep
<1>1. timer' \in BOOLEAN /\ (timer => timer')
  BY WokenWakes DEF Reply
<1>2. CASE loop.status = "waiting"
  <2>1. Written(loop, loop', "running", 0)
    BY <1>2, LoopsTyped, ResumedWrites DEF Reply, Replied, IInv
  <2>2. Rewritten
    BY <1>2, <2>1 DEF Rewritten, Reply, CanSave, Written, IInv, TypeOK
  <2>3. timer' \/ dispatch.pc # "off"
    BY <1>2, <2>1, WokenWakes DEF Reply, Written
  <2> QED BY <1>1, <1>2, <2>2, <2>3 DEF Reply, Renew, StopStep
<1>3. CASE loop.status # "waiting"
  <2>1. loop' = loop /\ auto' = auto /\ spare' = spare
    BY <1>3 DEF Reply, Replied
  <2> QED BY <1>1, <2>1 DEF Rewritten, StopStep
<1> QED BY <1>2, <1>3

\* A turn of the user's or of the drain's begins.
LEMMA TurnBeginsStep ==
  ASSUME IInv, Rewritten, NEW t \in {"user", "drain"}, turns[t] = NoTurn,
         turns' = [turns EXCEPT ![t] = Snapshot(loop')], streaming' = TRUE,
         \/ t = "user" /\ drain' = drain
         \/ t = "drain" /\ drain = "sending" /\ drain' = "turn",
         UNCHANGED <<dispatch, queue, review, waits, outside>>,
         timer' \in BOOLEAN,
         \/ auto' = 0 /\ spare' = 0
         \/ auto' = auto /\ spare' = spare /\ loop' = loop
  PROVE  IInv' /\ DispatchStep
<1>1. loop' \in Loops
  BY RewrittenTypes DEF IInv
<1>2. Snapshot(loop') \in Snapshots /\ Snapshot(loop') # NoTurn
  BY <1>1, SnapshotTyped
<1>3. /\ turns' \in [Turns -> Snapshots] /\ t \in Turns
      /\ turns'[t] # NoTurn
      /\ \A u \in Turns : u # t => turns'[u] = turns[u]
  BY <1>2 DEF IInv, Types, Turns
<1>4. turns'["loop"] = turns["loop"] /\ (t = "user" => turns'["drain"] = turns["drain"])
  BY <1>3 DEF Turns
<1>5. Busy'
  BY <1>3 DEF Busy
<1>6. TypeOK'
  BY RewrittenTypes, <1>3, <1>4 DEF IInv, TypeOK
<1>7. auto' \in Nat /\ spare' \in Nat
  BY DEF IInv, Types
<1>8. Types'
  BY <1>3, <1>7 DEF IInv, Types
<1>9. Slots' /\ NotStranded'
  BY RewrittenTypes, <1>4, <1>5 DEF IInv, Slots, NotStranded
<1>10. Revisions'
  BY RevisionsKept DEF IInv
<1>11. spare >= spare /\ loop.used >= loop.used
  BY RewrittenTypes DEF IInv, Types
<1>12. Budget'
  BY <1>4, <1>7, <1>11, BudgetKept DEF BudgetKeptStep
<1> QED BY <1>4, <1>6, <1>8, <1>9, <1>10, <1>12 DEF IInv, DispatchStep

LEMMA UserPostStep ==
  ASSUME IInv, UserPost
  PROVE  IInv' /\ Steps
<1>1. /\ Rewritten
      /\ timer' \in BOOLEAN /\ (timer => timer')
      /\ loop'.status = "running" => timer' \/ dispatch.pc # "off" \/ loop.status = "running"
      /\ \/ auto' = 0 /\ spare' = 0
         \/ auto' = auto /\ spare' = spare /\ loop' = loop
      /\ StopStep
  BY ReplyWrites DEF UserPost
<1>2. CASE streaming
  <2>1. queue' \in Heads /\ (queue \in {"ready", "ghost"} => queue' \in {"ready", "ghost"})
    BY <1>2 DEF UserPost, IInv, TypeOK, Heads
  <2>2. spare \in Nat /\ spare >= spare
    BY DEF IInv, Types
  <2>3. IInv' /\ DispatchStep
    BY <1>1, <1>2, <2>1, <2>2, LoopStep DEF IInv, TypeOK, Types, UserPost
  <2> QED BY <1>1, <2>3 DEF Steps, ReviewStep, UserPost
<1>3. CASE ~streaming
  <2>1. IInv' /\ DispatchStep
    BY <1>1, <1>3, TurnBeginsStep DEF UserPost
  <2> QED BY <1>1, <2>1 DEF Steps, ReviewStep, UserPost
<1> QED BY <1>2, <1>3

LEMMA BackgroundPostStep ==
  ASSUME IInv, BackgroundPost
  PROVE  IInv' /\ Steps
<1>1. Rewritten /\ loop' = loop
  BY DEF Rewritten, BackgroundPost
<1>2. IInv' /\ DispatchStep
  BY <1>1, TurnBeginsStep DEF BackgroundPost, IInv, TypeOK
<1> QED BY <1>1, <1>2 DEF Steps, ReviewStep, StopStep

LEMMA DrainSendsStep ==
  ASSUME IInv, DrainSends
  PROVE  IInv' /\ Steps
<1>1. /\ Rewritten
      /\ timer' \in BOOLEAN
      /\ \/ auto' = 0 /\ spare' = 0
         \/ auto' = auto /\ spare' = spare /\ loop' = loop
      /\ StopStep
  BY ReplyWrites DEF DrainSends
<1>2. IInv' /\ DispatchStep
  BY <1>1, TurnBeginsStep DEF DrainSends
<1> QED BY <1>1, <1>2 DEF Steps, ReviewStep, DrainSends

------------------------------------------------------------------------------
\* The drain, and turns that end

DrainStates == {"off", "sending", "turn", "answered"}

\* A drain that ends leaves no running loop without a timer, unless someone else
\* will wake it.
LEMMA DrainCallWakes ==
  ASSUME NEW q \in Heads, NEW l, NEW s \in BOOLEAN, NEW dr \in DrainStates, NEW d,
         NEW saved \in BOOLEAN, DrainCall(q, l, s, dr, d, saved)
  PROVE  /\ timer' \in BOOLEAN /\ queue' \in Heads /\ drain' \in DrainStates
         /\ drain' = "turn" <=> dr = "turn"
         /\ l.status = "running" => timer' \/ d.pc # "off" \/ drain' # "off" \/ s
<1>1. /\ Woken(saved, l, d) \in BOOLEAN /\ Woken(TRUE, l, d) \in BOOLEAN
      /\ l.status = "running" => Woken(TRUE, l, d) \/ d.pc # "off"
  BY WokenWakes
<1>2. CASE dr # "off" \/ s
  BY <1>1, <1>2 DEF DrainCall, DrainStates, Heads
<1>3. CASE ~(dr # "off" \/ s) /\ q = "ready"
  BY <1>1, <1>3 DEF DrainCall, DrainStates, Heads
<1>4. CASE ~(dr # "off" \/ s) /\ q # "ready"
  BY <1>1, <1>4 DEF DrainCall, DrainStates, Heads
<1> QED BY <1>2, <1>3, <1>4

\* The drain moves on while the loop, the dispatch and the turns stay as they are.
LEMMA DrainStep ==
  ASSUME IInv, UNCHANGED <<loop, dispatch, turns, streaming, review, waits, auto, spare>>,
         timer' \in BOOLEAN, queue' \in Heads, drain' \in DrainStates, outside' \in Nat,
         drain' = "turn" <=> drain = "turn",
         loop.status = "running" => timer' \/ dispatch.pc # "off" \/ drain' # "off" \/ streaming
  PROVE  IInv' /\ Steps
<1>1. TypeOK' /\ Types' /\ Slots' /\ Revisions' /\ Budget'
  BY DEF IInv, TypeOK, Types, Slots, Revisions, Budget, Busy, DrainStates
<1>2. NotStranded'
  BY DEF IInv, NotStranded, Slots, Busy
<1>3. Steps
  BY DEF Steps, DispatchStep, ReviewStep, StopStep
<1> QED BY <1>1, <1>2, <1>3 DEF IInv

LEMMA SyncStep ==
  ASSUME IInv, NEW q \in Heads, Sync(q)
  PROVE  IInv' /\ Steps
<1>1. drain \in DrainStates /\ streaming \in BOOLEAN /\ outside' \in Nat
  BY DEF IInv, TypeOK, Types, DrainStates, Sync
<1>2. /\ timer' \in BOOLEAN /\ queue' \in Heads /\ drain' \in DrainStates
      /\ drain' = "turn" <=> drain = "turn"
      /\ loop.status = "running" => timer' \/ dispatch.pc # "off" \/ drain' # "off" \/ streaming
  BY <1>1, DrainCallWakes DEF Sync
<1> QED BY <1>1, <1>2, DrainStep DEF Sync

LEMMA DrainFailsStep ==
  ASSUME IInv, NEW back \in BOOLEAN, DrainFails(back)
  PROVE  IInv' /\ Steps
<1>1. timer' \in BOOLEAN /\ (loop.status = "running" => timer' \/ dispatch.pc # "off")
  BY WokenWakes DEF DrainFails
<1>2. queue' \in Heads /\ outside' \in Nat
  BY DEF DrainFails, IInv, TypeOK, Types, Heads
<1> QED BY <1>1, <1>2, DrainStep DEF DrainFails, DrainStates

LEMMA DrainResumesStep ==
  ASSUME IInv, DrainResumes
  PROVE  IInv' /\ Steps
<1>1. streaming \in BOOLEAN /\ queue \in Heads /\ outside' \in Nat
  BY DEF DrainResumes, IInv, TypeOK, Types
<1>2. CASE streaming
  <2>1. timer' \in BOOLEAN /\ (loop.status = "running" => timer' \/ dispatch.pc # "off")
    BY <1>2, WokenWakes DEF DrainResumes
  <2> QED BY <1>1, <1>2, <2>1, DrainStep DEF DrainResumes, DrainStates
<1>3. CASE ~streaming
  <2>1. DrainCall(queue, loop, FALSE, "off", dispatch, FALSE)
    BY <1>3 DEF DrainResumes
  <2>2. /\ timer' \in BOOLEAN /\ queue' \in Heads /\ drain' \in DrainStates
        /\ drain' # "turn"
        /\ loop.status = "running" => timer' \/ dispatch.pc # "off" \/ drain' # "off"
    BY <1>1, <2>1, DrainCallWakes DEF DrainStates
  <2> QED BY <1>1, <2>2, DrainStep DEF DrainResumes
<1> QED BY <1>2, <1>3

LEMMA TurnEndsStep ==
  ASSUME IInv, NEW t \in Turns, NEW how \in {"ok", "cancelled", "error"}, TurnEnds(t, how)
  PROVE  IInv' /\ Steps
<1> DEFINE goalTurn == Exists /\ IsGoalLoopTurn(turns[t])
           dr == IF t = "drain" THEN "answered" ELSE drain
           d == IF t = "loop" THEN [dispatch EXCEPT !.pc = "answered"] ELSE dispatch
<1>1. /\ turns[t] # NoTurn
      /\ turns' = [turns EXCEPT ![t] = NoTurn]
      /\ streaming' = FALSE
      /\ dispatch' = d
      /\ goalTurn => CanSave
      /\ loop' = IF goalTurn THEN Finished(loop, how) ELSE loop
      /\ DrainCall(queue, loop', FALSE, dr, d, goalTurn)
      /\ UNCHANGED <<review, waits, outside, auto, spare>>
  BY DEF TurnEnds
<1>2. goalTurn \in BOOLEAN
  BY DEF Exists
<1>3. t = "loop" => goalTurn
  BY <1>1 DEF Exists, IsGoalLoopTurn, IInv, TypeOK, Slots
<1>4. dr \in DrainStates /\ queue \in Heads /\ (dr = "turn" <=> t # "drain" /\ drain = "turn")
  BY DEF IInv, TypeOK, DrainStates
<1>5. /\ d \in Dispatches
      /\ t = "loop" => d.pc = "answered" /\ d.goal = dispatch.goal /\ d.rev = dispatch.rev
      /\ t # "loop" => d = dispatch
  BY DEF IInv, Types, Dispatches
<1> HIDE DEF goalTurn, dr, d
<1>6. loop \in Loops /\ loop.used \in Nat /\ loop.rev \in Nat
  BY LoopsTyped DEF IInv, Loops
<1>7. /\ Rewritten
      /\ goalTurn => loop'.used = loop.used + 1
      /\ goalTurn /\ loop'.status = "running" => loop'.used < MaxLoopTurns
      /\ ~goalTurn => loop' = loop
      /\ loop'.status = "running" => loop.status = "running"
  <2>1. CASE goalTurn
    <3>1. PICK status \in Statuses :
            /\ Written(loop, loop', status, loop.used + 1)
            /\ status = "running" => loop.status = "running" /\ loop.used + 1 < MaxLoopTurns
            /\ status = "none" => loop.status = "none"
      BY <1>1, <1>6, <2>1, FinishedWrites
    <3>2. loop.goal # 0 /\ loop.status # "none"
      BY <2>1 DEF goalTurn, Exists, IInv, TypeOK
    <3> QED BY <1>1, <2>1, <3>1, <3>2 DEF Written, Rewritten, CanSave
  <2>2. CASE ~goalTurn
    BY <1>1, <2>2 DEF Rewritten
  <2> QED BY <2>1, <2>2
<1>8. /\ timer' \in BOOLEAN /\ queue' \in Heads /\ drain' \in DrainStates
      /\ drain' = "turn" <=> t # "drain" /\ drain = "turn"
      /\ loop'.status = "running" => timer' \/ d.pc # "off" \/ drain' # "off"
  <2>1. DrainCall(queue, loop', FALSE, dr, d, goalTurn)
    BY <1>1
  <2>2. /\ timer' \in BOOLEAN /\ queue' \in Heads /\ drain' \in DrainStates
        /\ drain' = "turn" <=> dr = "turn"
        /\ loop'.status = "running" => timer' \/ d.pc # "off" \/ drain' # "off" \/ FALSE
    BY <1>2, <1>4, <2>1, DrainCallWakes
  <2> QED BY <1>4, <2>2
<1>9. /\ turns' \in [Turns -> Snapshots]
      /\ turns'[t] = NoTurn
      /\ \A u \in Turns : u # t => turns'[u] = turns[u]
  <2>1. NoTurn \in Snapshots
    BY DEF NoTurn, Snapshots
  <2> QED BY <1>1, <2>1 DEF IInv, Types
<1>10. /\ dispatch'.pc = "turn" <=> turns'["loop"] # NoTurn
       /\ drain' = "turn" <=> turns'["drain"] # NoTurn
  BY <1>1, <1>5, <1>8, <1>9 DEF IInv, TypeOK, Turns
<1>11. TypeOK'
  BY RewrittenTypes, <1>1, <1>5, <1>7, <1>8, <1>10 DEF IInv, TypeOK, DrainStates, Dispatches
<1>12. Types'
  BY <1>1, <1>5, <1>9 DEF IInv, Types
<1>13. turns'["loop"] # NoTurn => turns'["loop"] = turns["loop"]
  BY <1>9 DEF Turns
<1>14. Slots'
  <2>1. dispatch'.pc # "off" => loop'.goal # 0
    BY RewrittenTypes, <1>1, <1>3, <1>5, <1>7 DEF IInv, Slots, goalTurn, Exists
  <2> QED BY <1>1, <1>13, <2>1 DEF IInv, Slots
<1>15. NotStranded'
  BY <1>1, <1>8 DEF NotStranded
<1>16. Revisions'
  BY <1>1, <1>5, <1>7, RevisionsKept DEF IInv
<1>17. Budget'
  <2>1. auto' = auto /\ auto' \in Nat /\ spare' = spare /\ spare' \in Nat /\ spare >= spare
    BY <1>1 DEF IInv, Types
  <2>2. loop'.used >= loop.used /\ (goalTurn => loop'.used > loop.used)
    BY <1>6, <1>7
  <2>3. CASE t = "loop"
    BY <1>1, <1>3, <1>7, <1>9, <2>1, <2>2, <2>3, BudgetKept DEF BudgetKeptStep
  <2>4. CASE t # "loop"
    <3>1. turns'["loop"] = turns["loop"]
      BY <1>9, <2>4 DEF Turns
    <3> QED BY <1>7, <2>1, <2>2, <3>1, BudgetKept DEF BudgetKeptStep
  <2> QED BY <2>3, <2>4
<1>18. Steps
  BY <1>1, <1>7, <1>13 DEF Steps, DispatchStep, ReviewStep, StopStep
<1> QED BY <1>11, <1>12, <1>14, <1>15, <1>16, <1>17, <1>18 DEF IInv

------------------------------------------------------------------------------
\* The dispatch

\* A dispatch moves on or ends without a turn.
LEMMA DispatchMoves ==
  ASSUME IInv, Rewritten, UNCHANGED <<queue, turns, streaming, drain, review, waits, outside, auto, spare>>,
         timer' \in BOOLEAN, dispatch' \in Dispatches, dispatch'.pc # "turn", dispatch.pc # "turn",
         dispatch'.pc # "off" => loop'.goal # 0,
         dispatch'.pc \in {"signing", "posting"} =>
           \/ /\ dispatch.pc \in {"signing", "posting"}
              /\ dispatch'.goal = dispatch.goal /\ dispatch'.rev = dispatch.rev
           \/ dispatch'.goal = loop.goal /\ dispatch'.rev = loop.rev,
         loop'.status = "running" =>
           timer' \/ dispatch'.pc # "off" \/ Busy \/ drain # "off" \/ waits \/ queue \in {"ready", "ghost"},
         loop'.used >= loop.used, loop'.status = "running" => loop.status = "running"
  PROVE  IInv' /\ Steps
<1>1. TypeOK' /\ Types'
  BY RewrittenTypes DEF IInv, TypeOK, Types, Dispatches
<1>2. Slots' /\ NotStranded'
  BY DEF IInv, Slots, NotStranded, Busy
<1>3. Revisions'
  BY RevisionsKept DEF IInv
<1>4. auto' \in Nat /\ spare' \in Nat /\ spare >= spare
  BY DEF IInv, Types
<1>5. Budget'
  BY <1>4, BudgetKept DEF BudgetKeptStep
<1>6. Steps
  BY DEF Steps, DispatchStep, ReviewStep, StopStep
<1> QED BY <1>1, <1>2, <1>3, <1>5, <1>6 DEF IInv

LEMMA DispatchOverWakes ==
  ASSUME NEW l, DispatchOver(l)
  PROVE  /\ dispatch' \in Dispatches /\ dispatch'.pc = "off"
         /\ timer' \in BOOLEAN /\ (l.status = "running" => timer')
<1>1. dispatch' = NoDispatch /\ timer' = Woken(TRUE, l, NoDispatch)
  BY DEF DispatchOver
<1>2. NoDispatch \in Dispatches /\ NoDispatch.pc = "off"
  BY DEF NoDispatch, Dispatches
<1> QED BY <1>1, <1>2, WokenWakes

LEMMA TimerFiresStep ==
  ASSUME IInv, TimerFires
  PROVE  IInv' /\ Steps
<1> DEFINE blocked == \/ streaming \/ drain # "off" \/ dispatch.pc # "off"
                      \/ loop.status # "running" \/ waits \/ queue \in {"ready", "ghost"}
<1>1. /\ Rewritten /\ loop' = loop /\ timer' = FALSE
      /\ dispatch' = IF blocked THEN dispatch ELSE [pc |-> "signing", goal |-> loop.goal, rev |-> loop.rev]
      /\ UNCHANGED <<queue, turns, streaming, drain, review, waits, outside, auto, spare>>
  BY DEF TimerFires, Rewritten
<1>2. loop \in Loops /\ loop.goal \in Nat /\ loop.rev \in Nat /\ loop.used >= loop.used
  BY LoopsTyped DEF IInv, Loops
<1>3. CASE blocked
  <2> UNCHANGED <<loop, dispatch, queue, turns, streaming, drain, review, waits, outside, auto, spare>>
    BY <1>1, <1>3
  <2>1. /\ TypeOK' /\ Types' /\ Slots' /\ Revisions' /\ Budget'
    <3>1. TypeOK'
      BY <1>1 DEF IInv, TypeOK
    <3>2. Types' /\ Slots'
      BY DEF IInv, Types, Slots, Busy
    <3>3. Revisions' /\ Budget'
      BY DEF IInv, Revisions, Budget
    <3> QED BY <3>1, <3>2, <3>3
  <2>2. NotStranded'
    BY <1>1, <1>3 DEF IInv, Slots, NotStranded, Busy
  <2> QED BY <1>1, <2>1, <2>2 DEF IInv, Steps, DispatchStep, ReviewStep, StopStep
<1>4. CASE ~blocked
  <2>1. dispatch' = [pc |-> "signing", goal |-> loop.goal, rev |-> loop.rev]
    BY <1>1, <1>4
  <2>2. dispatch' \in Dispatches /\ dispatch'.pc = "signing" /\ dispatch'.goal = loop.goal /\ dispatch'.rev = loop.rev
    BY <1>2, <2>1 DEF Dispatches
  <2>3. loop.goal # 0 /\ dispatch.pc = "off"
    BY <1>4 DEF IInv, TypeOK
  <2> QED BY <1>1, <1>2, <2>2, <2>3, DispatchMoves
<1> QED BY <1>3, <1>4

LEMMA SignedStep ==
  ASSUME IInv, Signed
  PROVE  IInv' /\ Steps
<1>1. /\ Rewritten /\ loop' = loop /\ dispatch.pc = "signing"
      /\ UNCHANGED <<queue, turns, streaming, drain, review, waits, outside, auto, spare>>
  BY DEF Signed, Rewritten
<1>2. loop.used >= loop.used /\ loop.goal # 0
  BY <1>1, LoopsTyped DEF IInv, Loops, Slots
<1>3. CASE loop.rev # dispatch.rev
  BY <1>1, <1>2, <1>3, DispatchOverWakes, DispatchMoves DEF Signed
<1>4. CASE loop.rev = dispatch.rev
  <2>1. dispatch' = [dispatch EXCEPT !.pc = "posting"] /\ timer' = timer
    BY <1>4 DEF Signed
  <2>2. /\ dispatch' \in Dispatches /\ dispatch'.pc = "posting"
        /\ dispatch'.goal = dispatch.goal /\ dispatch'.rev = dispatch.rev
    BY <2>1 DEF IInv, Types, Dispatches
  <2>3. timer' \in BOOLEAN
    BY <2>1 DEF IInv, TypeOK
  <2> QED BY <1>1, <1>2, <2>2, <2>3, DispatchMoves
<1> QED BY <1>3, <1>4

LEMMA DispatchFailsStep ==
  ASSUME IInv, DispatchFails
  PROVE  IInv' /\ Steps
<1>1. loop \in Loops /\ loop.used \in Nat /\ loop.goal # 0
  BY LoopsTyped DEF IInv, Loops, Slots, DispatchFails
<1>2. PICK status \in Statuses :
        Written(loop, loop', status, loop.used + 1) /\ status = "error"
  BY <1>1, FinishedWrites DEF DispatchFails
<1>3. Rewritten /\ loop'.status = "error" /\ loop'.used >= loop.used
  BY <1>1, <1>2 DEF Rewritten, Written, DispatchFails, CanSave
<1>4. dispatch' \in Dispatches /\ dispatch'.pc = "off" /\ timer' \in BOOLEAN
  BY DispatchOverWakes DEF DispatchFails
<1> QED BY <1>3, <1>4, DispatchMoves DEF DispatchFails

LEMMA AnsweredStep ==
  ASSUME IInv, Answered
  PROVE  IInv' /\ Steps
<1>1. Rewritten /\ loop.used >= loop.used
  BY LoopsTyped DEF Answered, Rewritten, IInv, Loops
<1>2. /\ dispatch' \in Dispatches /\ dispatch'.pc = "off"
      /\ timer' \in BOOLEAN /\ (loop.status = "running" => timer')
  BY DispatchOverWakes DEF Answered
<1> QED BY <1>1, <1>2, DispatchMoves DEF Answered

LEMMA LoopPostsStep ==
  ASSUME IInv, LoopPosts
  PROVE  IInv' /\ Steps
<1>1. /\ Rewritten /\ loop' = loop /\ dispatch.pc = "posting"
      /\ UNCHANGED <<queue, drain, review, waits, outside, spare>>
  BY DEF LoopPosts, Rewritten
<1>2. loop \in Loops /\ loop.used \in Nat /\ loop.used >= loop.used
  BY LoopsTyped DEF IInv, Loops
<1>3. CASE loop.status # "running" \/ loop.rev # dispatch.rev \/ streaming
  <2>1. /\ dispatch' \in Dispatches /\ dispatch'.pc = "off"
        /\ timer' \in BOOLEAN /\ (loop.status = "running" => timer')
    BY <1>3, DispatchOverWakes DEF LoopPosts
  <2> QED BY <1>1, <1>2, <1>3, <2>1, DispatchMoves DEF LoopPosts
<1>4. CASE ~(loop.status # "running" \/ loop.rev # dispatch.rev \/ streaming)
  <2>1. /\ dispatch' = [dispatch EXCEPT !.pc = "turn"]
        /\ turns' = [turns EXCEPT !["loop"] = Snapshot(loop)]
        /\ streaming' = TRUE /\ auto' = auto + 1 /\ timer' = timer
        /\ loop.status = "running" /\ loop.rev = dispatch.rev
    BY <1>4 DEF LoopPosts
  <2>2. /\ Snapshot(loop) \in Snapshots /\ Snapshot(loop) # NoTurn /\ Snapshot(loop).running
    BY <1>2, <2>1, SnapshotTyped
  <2>3. dispatch' \in Dispatches /\ dispatch'.pc = "turn"
    BY <2>1 DEF IInv, Types, Dispatches
  <2>4. /\ turns' \in [Turns -> Snapshots]
        /\ turns'["loop"] # NoTurn /\ turns'["loop"].running
        /\ turns'["drain"] = turns["drain"]
        /\ Busy'
    BY <2>1, <2>2 DEF IInv, Types, Turns, Busy
  <2>5. turns["loop"] = NoTurn
    BY <1>1 DEF IInv, TypeOK
  <2>6. TypeOK'
    BY <1>1, <2>1, <2>3, <2>4 DEF IInv, TypeOK
  <2>7. auto' \in Nat
    BY <2>1 DEF IInv, Types
  <2>8. Types'
    BY <1>1, <2>3, <2>4, <2>7 DEF IInv, Types
  <2>9. Slots' /\ NotStranded'
    BY <1>1, <2>3, <2>4 DEF IInv, Slots, NotStranded
  <2>10. Revisions'
    BY <1>1, <2>3, RevisionsKept DEF IInv
  <2>11. Budget'
    <3>1. auto \in Nat /\ spare \in Nat /\ MaxLoopTurns \in Nat
      BY LoopsAssumption DEF IInv, Types
    <3>2. auto <= loop.used + spare /\ auto < MaxLoopTurns + spare
      BY <2>1, <2>5 DEF IInv, Budget
    <3> QED BY <1>1, <1>2, <2>1, <2>4, <3>1, <3>2 DEF Budget
  <2>12. dispatch.goal = loop.goal
    BY <1>1, <2>1 DEF IInv, Revisions
  <2>13. Steps
    BY <1>1, <2>1, <2>12 DEF Steps, DispatchStep, ReviewStep, StopStep
  <2> QED BY <2>6, <2>8, <2>9, <2>10, <2>11, <2>13 DEF IInv
<1> QED BY <1>3, <1>4

LEMMA CrashStep ==
  ASSUME IInv, Crash
  PROVE  IInv' /\ Steps
<1>1. /\ Rewritten /\ loop' = loop
      /\ outside' = outside + 1 /\ spare' = spare + 1 /\ auto' = auto
      /\ dispatch' = NoDispatch
      /\ turns' = [t \in Turns |-> NoTurn] /\ streaming' = FALSE
      /\ review' = NoReview /\ waits' = FALSE
      /\ timer' = (loop.status = "running")
  BY DEF Crash, Rewritten
<1>2. /\ outside' \in Nat /\ spare \in Nat /\ spare' \in Nat /\ auto \in Nat /\ outside' # outside
      /\ spare' > spare
  BY <1>1 DEF IInv, Types
<1>3. queue' \in Heads /\ drain' \in {"off", "sending"}
  BY DEF Crash, IInv, TypeOK, Heads
<1>4. NoDispatch \in Dispatches /\ NoDispatch.pc = "off" /\ NoReview \in [goal : Nat, rev : Nat]
  BY DEF NoDispatch, Dispatches, NoReview
<1>5. turns' \in [Turns -> Snapshots] /\ turns'["loop"] = NoTurn /\ turns'["drain"] = NoTurn
  <2>1. NoTurn \in Snapshots
    BY DEF NoTurn, Snapshots
  <2> QED BY <1>1, <2>1 DEF Turns
<1>6. timer' \in BOOLEAN
  BY <1>1
<1>7. TypeOK'
  BY <1>1, <1>3, <1>4, <1>5, <1>6 DEF IInv, TypeOK
<1>8. Types'
  BY <1>1, <1>2, <1>4, <1>5 DEF IInv, Types
<1>9. Slots' /\ NotStranded'
  BY <1>1, <1>4, <1>5 DEF Slots, NotStranded
<1>10. Revisions'
  BY <1>1, <1>4 DEF Revisions
<1>11. loop.used >= loop.used
  BY LoopsTyped DEF IInv, Loops
<1>12. Budget'
  BY <1>1, <1>2, <1>5, <1>11, BudgetKept DEF BudgetKeptStep
<1>13. Steps
  BY <1>1, <1>2, <1>5 DEF Steps, DispatchStep, ReviewStep, StopStep
<1> QED BY <1>7, <1>8, <1>9, <1>10, <1>12, <1>13 DEF IInv

------------------------------------------------------------------------------
\* The theorems

LEMMA InitIInv == Init => IInv
<1> SUFFICES ASSUME Init PROVE IInv
  OBVIOUS
<1>1. TypeOK
  <2>1. NoLoop \in [goal : Nat, status : Statuses, rev : 0..MaxRevision, used : Nat,
                    checked : BOOLEAN, stalled : Nat, unchecked : Nat]
    BY LoopsAssumption DEF NoLoop, Statuses
  <2>2. NoLoop.goal = 0 /\ NoLoop.status = "none" /\ NoDispatch.pc = "off"
    BY DEF NoLoop, NoDispatch
  <2>3. turns["loop"] = NoTurn /\ turns["drain"] = NoTurn
    BY DEF Init, Turns
  <2> QED BY <2>1, <2>2, <2>3 DEF Init, TypeOK, Heads
<1>2. Types
  BY DEF Init, Types, NoTurn, Snapshots, NoDispatch, Dispatches, NoReview
<1>3. Slots /\ NotStranded /\ Revisions
  BY DEF Init, Slots, NotStranded, Revisions, NoLoop, NoDispatch, Turns
<1>4. Budget
  BY LoopsAssumption DEF Init, Budget, NoLoop
<1> QED BY <1>1, <1>2, <1>3, <1>4 DEF IInv

LEMMA NextStep == IInv /\ [Next]_vars => IInv' /\ [Steps]_vars
<1> SUFFICES ASSUME IInv, [Next]_vars PROVE IInv' /\ [Steps]_vars
  OBVIOUS
<1>1. CASE UNCHANGED vars
  BY <1>1 DEF vars, IInv, TypeOK, Types, Slots, NotStranded, Revisions, Budget, Busy
<1>2. CASE Next
  <2>1. CASE SetGoal \/ Pause \/ Resume \/ CheckWaiting \/ StartReview \/ WaitRaised
    BY <2>1, SetGoalStep, PauseStep, ResumeStep, CheckWaitingStep, StartReviewStep, WaitRaisedStep
  <2>2. CASE UserPost \/ BackgroundPost \/ DrainSends \/ DrainResumes
    BY <2>2, UserPostStep, BackgroundPostStep, DrainSendsStep, DrainResumesStep
  <2>3. CASE TimerFires \/ Signed \/ LoopPosts \/ DispatchFails \/ Answered \/ Crash
    BY <2>3, TimerFiresStep, SignedStep, LoopPostsStep, DispatchFailsStep, AnsweredStep, CrashStep
  <2> QED BY <1>2, <2>1, <2>2, <2>3, CheckUnmonitoredStep, ReviewReturnsStep, WaitClearedStep,
             CancelStep, SyncStep, DrainFailsStep, TurnEndsStep DEF Next
<1> QED BY <1>1, <1>2

LEMMA IInvAlways == Spec => []IInv
<1> QED BY InitIInv, NextStep, PTL DEF Spec

\* However turns, drains, dispatches, waits and restarts interleave, a running loop
\* has a timer or something in progress whose end wakes it.
THEOREM LoopsAreNotStranded == Spec => [](TypeOK /\ NotStranded)
<1>1. IInv => TypeOK /\ NotStranded
  BY DEF IInv
<1> QED BY <1>1, IInvAlways, PTL

\* The loop starts no more hidden turns by itself than its budget and the crashes and
\* answers since it was renewed allow.
THEOREM LoopsKeepTheirBudget == Spec => []BudgetHolds
<1>1. IInv => BudgetHolds
  BY DEF IInv, Budget, BudgetHolds
<1> QED BY <1>1, IInvAlways, PTL

\* A hidden turn begins only for the goal and the revision its dispatch has read.
THEOREM StaleDispatchesDie == Spec => StaleDispatchDies
<1>1. IInv /\ [Next]_vars => [DispatchStep]_vars
  BY NextStep DEF Steps
<1> QED BY <1>1, IInvAlways, PTL DEF Spec, StaleDispatchDies, DispatchStep

\* A review writes only the goal it was asked about.
THEOREM StaleReviewsDie == Spec => StaleReviewDies
<1>1. IInv /\ [Next]_vars => [ReviewStep]_vars
  BY NextStep DEF Steps
<1> QED BY <1>1, IInvAlways, PTL DEF Spec, StaleReviewDies, ReviewStep

\* Only a resume or a new goal starts a loop that has stopped.
THEOREM StoppedLoopsStayStopped == Spec => StoppedStaysStopped
<1>1. IInv /\ [Next]_vars => [StopStep]_vars
  BY NextStep DEF Steps
<1> QED BY <1>1, IInvAlways, PTL DEF Spec, StoppedStaysStopped, StopStep

==============================================================================
