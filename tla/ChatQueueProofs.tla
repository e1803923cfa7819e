--------------------------- MODULE ChatQueueProofs ---------------------------
(***************************************************************************)
(* Proofs about the turns of a chat, its drain and its recovery, for any   *)
(* number of messages, clients' snapshots, concurrent turns and restarts.  *)
(* Which entries a pass of the drain skips does not matter here.           *)
(***************************************************************************)
EXTENDS ChatQueue, TLAPS

\* The types these proofs need; whoever holds the stream slot is a turn.
Types ==
  /\ marker \in Nat \cup {NoMarker}
  /\ recovery \in [pc : {"idle", "listed", "signing"}, attempts : Nat]
  /\ autoRuns \in Nat
  /\ crowded \subseteq turns
  /\ "pc" \in DOMAIN drain
  /\ streaming => turns # {}

\* A turn that never ran beside another one is alone, holds the stream slot and
\* is marked.
Alone ==
  /\ \A t, u \in turns : t # u => t \in crowded
  /\ \A t \in turns \ crowded : streaming /\ marker # NoMarker

\* The marker, and what recovery has read of it, count the continuations.
Counted ==
  /\ autoRuns <= MaxRecovery
  /\ marker # NoMarker => autoRuns <= marker
  /\ recovery.pc = "listed" => autoRuns <= recovery.attempts
  /\ recovery.pc = "signing" => autoRuns < recovery.attempts /\ recovery.attempts <= MaxRecovery

IInv == Types /\ Alone /\ Counted /\ NothingStranded

------------------------------------------------------------------------------
\* The drain

\* A call of the drain leaves nothing to send, unless it sends or someone will call
\* it again.
LEMMA StartDrainServes ==
  ASSUME NEW q, NEW ids, NEW s, NEW dr, "pc" \in DOMAIN dr, StartDrain(q, ids, s, dr)
  PROVE  "pc" \in DOMAIN drain' /\ (Sendable' => drain'.pc # "off" \/ s)
<1>1. CASE dr.pc # "off" \/ s
  BY <1>1 DEF StartDrain
<1>2. CASE ~(dr.pc # "off" \/ s)
  <2>1. DrainPass(q, ids)
    BY <1>2 DEF StartDrain
  <2>2. CASE Fresh(q, ids) = <<>>
    BY <2>1, <2>2 DEF DrainPass, Off, Sendable
  <2>3. CASE Fresh(q, ids) # <<>> /\ Head(Fresh(q, ids)).held
    BY <2>1, <2>3 DEF DrainPass, Off, Sendable
  <2>4. CASE Fresh(q, ids) # <<>> /\ ~Head(Fresh(q, ids)).held
    <3>1. drain' = [pc |-> "sending", next |-> Head(Fresh(q, ids)).id, rest |-> Tail(Fresh(q, ids))]
      BY <2>1, <2>4 DEF DrainPass
    <3> QED BY <3>1
  <2> QED BY <2>2, <2>3, <2>4
<1> QED BY <1>1, <1>2

\* A step of the drain, of a client or of the start-up: turns and recovery go on.
LEMMA DrainStep ==
  ASSUME IInv, UNCHANGED <<marker, streaming, turns, crowded, recovery, autoRuns>>,
         "pc" \in DOMAIN drain',
         Sendable' /\ turns = {} /\ drain'.pc = "off" /\ ~finishing' /\ ~starting' => refused'
  PROVE  IInv'
<1>1. Types' /\ Alone' /\ Counted'
  BY DEF IInv, Types, Alone, Counted
<1>2. NothingStranded'
  BY DEF NothingStranded
<1> QED BY <1>1, <1>2 DEF IInv

LEMMA DrainCallStep ==
  ASSUME IInv,
         \/ DrainResumes \/ Finishes \/ StartupDrain
         \/ \E q \in Snapshots : Sync(q)
  PROVE  IInv'
<1>1. "pc" \in DOMAIN Off /\ "pc" \in DOMAIN drain
  BY DEF Off, IInv, Types
<1>2. ASSUME NEW q, NEW dr, "pc" \in DOMAIN dr, StartDrain(q, tracked, streaming, dr),
             UNCHANGED <<marker, streaming, turns, crowded, recovery, autoRuns>>
      PROVE  IInv'
  <2>1. "pc" \in DOMAIN drain' /\ (Sendable' => drain'.pc # "off" \/ streaming)
    BY <1>2, StartDrainServes
  <2> QED BY <1>2, <2>1, DrainStep DEF IInv, Types
<1>3. CASE DrainResumes
  BY <1>1, <1>2, <1>3 DEF DrainResumes
<1>4. CASE Finishes
  BY <1>1, <1>2, <1>4 DEF Finishes
<1>5. CASE StartupDrain
  BY <1>1, <1>2, <1>5 DEF StartupDrain
<1>6. ASSUME NEW q \in Snapshots, Sync(q) PROVE IInv'
  BY <1>1, <1>2, <1>6 DEF Sync
<1> QED BY <1>3, <1>4, <1>5, <1>6

LEMMA DrainEndsStep ==
  ASSUME IInv, DrainRefused \/ DrainThrows
  PROVE  IInv'
<1>1. drain' = Off /\ refused' = TRUE /\ UNCHANGED <<marker, streaming, turns, crowded, recovery, autoRuns>>
  BY DEF DrainRefused, DrainThrows, durable
<1>2. "pc" \in DOMAIN Off
  BY DEF Off
<1> QED BY <1>1, <1>2, DrainStep

\* The queue is written while a turn holds the stream slot.
LEMMA BusyStep ==
  ASSUME IInv, NEW m, PostBusy(m) \/ CancelFor(m)
  PROVE  IInv'
<1>1. streaming /\ drain' = drain /\ UNCHANGED <<marker, streaming, turns, crowded, recovery, autoRuns>>
  BY DEF PostBusy, CancelFor, history
<1> QED BY <1>1, DrainStep DEF IInv, Types

------------------------------------------------------------------------------
\* Turns

LEMMA StartTurnStep ==
  ASSUME IInv, NEW t, NEW attempts \in Nat, StartTurn(t, attempts),
         autoRuns' \in Nat, autoRuns' <= MaxRecovery, autoRuns' <= attempts,
         recovery' = NoRecovery \/ (recovery' = recovery /\ autoRuns' <= autoRuns),
         "pc" \in DOMAIN drain'
  PROVE  IInv'
<1>1. /\ t \in turns' /\ turns' = turns \cup {t} /\ t \notin turns
      /\ crowded' = IF turns = {} THEN crowded ELSE turns \cup {t}
      /\ streaming' = TRUE /\ marker' = attempts
  BY DEF StartTurn
<1>2. attempts # NoMarker
  BY ChatQueueAssumption
<1>3. recovery' \in [pc : {"idle", "listed", "signing"}, attempts : Nat]
  BY DEF IInv, Types, NoRecovery
<1>4. Types'
  BY <1>1, <1>3 DEF IInv, Types
<1>5. Alone'
  BY <1>1, <1>2 DEF IInv, Types, Alone
<1>6. Counted'
  <2>1. CASE recovery' = NoRecovery
    BY <1>1, <2>1 DEF Counted, NoRecovery
  <2>2. CASE recovery' = recovery /\ autoRuns' <= autoRuns
    <3>1. autoRuns \in Nat /\ recovery.attempts \in Nat
      BY DEF IInv, Types
    <3> QED BY <1>1, <2>2, <3>1 DEF IInv, Counted
  <2> QED BY <2>1, <2>2
<1>7. NothingStranded'
  BY <1>1 DEF NothingStranded
<1> QED BY <1>4, <1>5, <1>6, <1>7 DEF IInv

\* A turn that a person, the drain or the background asked for.
LEMMA NewTurnStep ==
  ASSUME IInv,
         \/ \E m \in Messages, t \in Others : PostDirect(m, t)
         \/ \E t \in Others : BackgroundTurn(t)
         \/ DrainSends
  PROVE  IInv'
<1>1. 0 \in Nat /\ 0 <= MaxRecovery /\ autoRuns \in Nat /\ 0 <= autoRuns /\ "pc" \in DOMAIN drain
  BY ChatQueueAssumption DEF IInv, Types
<1>2. PICK t : StartTurn(t, 0)
  BY DEF PostDirect, BackgroundTurn, DrainSends
<1>3. autoRuns' = 0 /\ recovery' = recovery
  BY DEF PostDirect, BackgroundTurn, DrainSends
<1>4. "pc" \in DOMAIN drain'
  <2>1. drain' = drain \/ drain' = [drain EXCEPT !.pc = "turn"]
    BY DEF PostDirect, BackgroundTurn, DrainSends
  <2> QED BY <1>1, <2>1
<1> QED BY <1>1, <1>2, <1>3, <1>4, StartTurnStep

LEMMA TurnEndsStep ==
  ASSUME IInv, NEW t \in Turns, NEW notify \in BOOLEAN, TurnEnds(t, notify)
  PROVE  IInv'
<1> DEFINE dr == IF t = "drain" THEN [drain EXCEPT !.pc = "answered"] ELSE drain
<1>1. "pc" \in DOMAIN dr
  BY DEF IInv, Types
<1>2. /\ t \in turns /\ turns' = turns \ {t} /\ crowded' = crowded \ {t}
      /\ streaming' = FALSE /\ marker' = NoMarker
      /\ UNCHANGED <<recovery, autoRuns>>
  BY DEF TurnEnds
<1>3. "pc" \in DOMAIN drain' /\ (Sendable' /\ ~finishing' => drain'.pc # "off")
  <2>1. CASE notify
    <3>1. finishing' = TRUE /\ drain' = dr
      BY <2>1 DEF TurnEnds
    <3> QED BY <1>1, <3>1
  <2>2. CASE ~notify
    <3>1. StartDrain(queue, tracked, FALSE, dr)
      BY <2>2 DEF TurnEnds
    <3> HIDE DEF dr
    <3> QED BY <1>1, <3>1, StartDrainServes
  <2> QED BY <2>1, <2>2
<1>4. Types'
  BY <1>2, <1>3 DEF IInv, Types
<1>5. Alone'
  BY <1>2 DEF IInv, Alone
<1>6. Counted'
  BY <1>2 DEF IInv, Counted
<1>7. NothingStranded'
  BY <1>3 DEF NothingStranded
<1> QED BY <1>4, <1>5, <1>6, <1>7 DEF IInv

------------------------------------------------------------------------------
\* Restart and recovery

LEMMA CrashStep ==
  ASSUME IInv, Crash
  PROVE  IInv'
<1>1. /\ streaming' = FALSE /\ turns' = {} /\ crowded' = {} /\ drain' = Off /\ starting' = TRUE
      /\ recovery' = IF marker = NoMarker THEN NoRecovery ELSE [pc |-> "listed", attempts |-> marker]
      /\ UNCHANGED <<marker, autoRuns>>
  BY DEF Crash, durable, history
<1>2. CASE marker = NoMarker
  BY <1>1, <1>2 DEF IInv, Types, Alone, Counted, NothingStranded, NoRecovery, Off
<1>3. CASE marker # NoMarker
  BY <1>1, <1>3 DEF IInv, Types, Alone, Counted, NothingStranded, Off
<1> QED BY <1>2, <1>3

\* Recovery writes the marker only while nobody holds the stream slot.
LEMMA RecoverBeginsStep ==
  ASSUME IInv, RecoverBegins
  PROVE  IInv'
<1>1. /\ recovery.pc = "listed"
      /\ UNCHANGED <<queue, tracked, streaming, turns, crowded, finishing, drain, starting, autoRuns, refused>>
  BY DEF RecoverBegins, history
<1>2. /\ recovery.attempts \in Nat /\ autoRuns \in Nat /\ autoRuns <= recovery.attempts /\ MaxRecovery \in Nat
      /\ autoRuns <= MaxRecovery /\ (marker # NoMarker => autoRuns <= marker)
  BY <1>1, ChatQueueAssumption DEF IInv, Types, Counted
<1>3. NothingStranded'
  BY <1>1 DEF IInv, NothingStranded, Sendable
<1>4. CASE streaming
  <2>1. recovery' = NoRecovery /\ marker' = marker
    BY <1>4 DEF RecoverBegins
  <2> QED BY <1>1, <1>3, <2>1 DEF IInv, Types, Alone, Counted, NoRecovery
<1>5. CASE ~streaming /\ recovery.attempts >= MaxRecovery
  <2>1. recovery' = NoRecovery /\ marker' = NoMarker
    BY <1>5 DEF RecoverBegins
  <2> QED BY <1>1, <1>3, <1>5, <2>1 DEF IInv, Types, Alone, Counted, NoRecovery
<1>6. CASE ~streaming /\ ~(recovery.attempts >= MaxRecovery)
  <2>1. /\ marker' = recovery.attempts + 1
        /\ recovery' = [pc |-> "signing", attempts |-> recovery.attempts + 1]
    BY <1>6 DEF RecoverBegins
  <2>2. marker' \in Nat /\ marker' # NoMarker /\ autoRuns < marker' /\ marker' <= MaxRecovery
    BY <1>2, <1>6, <2>1, ChatQueueAssumption
  <2>3. Types' /\ Alone'
    BY <1>1, <1>6, <2>1, <2>2 DEF IInv, Types, Alone
  <2>4. Counted'
    BY <1>1, <1>2, <2>1, <2>2 DEF Counted
  <2> QED BY <1>3, <2>3, <2>4 DEF IInv
<1> QED BY <1>4, <1>5, <1>6

LEMMA RecoverSendsStep ==
  ASSUME IInv, NEW t \in Others, RecoverSends(t)
  PROVE  IInv'
<1>1. /\ recovery.pc = "signing" /\ recovery' = NoRecovery /\ StartTurn(t, recovery.attempts)
      /\ autoRuns' = autoRuns + 1 /\ drain' = drain
  BY DEF RecoverSends
<1>2. /\ recovery.attempts \in Nat /\ autoRuns \in Nat /\ MaxRecovery \in Nat
      /\ autoRuns < recovery.attempts /\ recovery.attempts <= MaxRecovery
  BY <1>1, ChatQueueAssumption DEF IInv, Types, Counted
<1>3. autoRuns' \in Nat /\ autoRuns' <= recovery.attempts /\ autoRuns' <= MaxRecovery
  BY <1>1, <1>2
<1> QED BY <1>1, <1>2, <1>3, StartTurnStep DEF IInv, Types

LEMMA RecoverGivesUpStep ==
  ASSUME IInv, RecoverGivesUp
  PROVE  IInv'
<1>1. /\ recovery' = NoRecovery
      /\ UNCHANGED <<queue, tracked, marker, streaming, turns, crowded, finishing, drain, starting,
                     autoRuns, refused>>
  BY DEF RecoverGivesUp, durable, history
<1> QED BY <1>1 DEF IInv, Types, Alone, Counted, NothingStranded, Sendable, NoRecovery

------------------------------------------------------------------------------
\* The theorems

LEMMA InitIInv == Init => IInv
BY ChatQueueAssumption DEF Init, IInv, Types, Alone, Counted, NothingStranded, Sendable, NoRecovery, Off

LEMMA NextStep == IInv /\ [Next]_vars => IInv'
<1> SUFFICES ASSUME IInv, [Next]_vars PROVE IInv'
  OBVIOUS
<1>1. CASE UNCHANGED vars
  BY <1>1 DEF vars, durable, history, IInv, Types, Alone, Counted, NothingStranded, Sendable
<1>2. CASE Next
  <2>1. CASE \/ \E m \in Messages, t \in Others : PostDirect(m, t)
             \/ \E t \in Others : BackgroundTurn(t)
             \/ DrainSends
    BY <2>1, NewTurnStep
  <2>2. CASE \/ DrainResumes \/ Finishes \/ StartupDrain
             \/ \E q \in Snapshots : Sync(q)
    BY <2>2, DrainCallStep
  <2>3. CASE DrainRefused \/ DrainThrows \/ \E m \in Messages : PostBusy(m) \/ CancelFor(m)
    BY <2>3, DrainEndsStep, BusyStep
  <2> QED BY <1>2, <2>1, <2>2, <2>3, TurnEndsStep, CrashStep, RecoverBeginsStep, RecoverSendsStep,
             RecoverGivesUpStep DEF Next
<1> QED BY <1>1, <1>2

LEMMA IInvAlways == Spec => []IInv
<1> QED BY InitIInv, NextStep, PTL DEF Spec

\* No interleaving of turns, drains, snapshots, cancellations and restarts leaves a
\* queue with something to send and nobody to send it, but for a refused drain.
THEOREM QueueIsNotStranded == Spec => []NothingStranded
<1>1. IInv => NothingStranded
  BY DEF IInv
<1> QED BY <1>1, IInvAlways, PTL

\* However often the gateway dies, and wherever, it continues an interrupted turn at
\* most MaxRecovery times in a row.
THEOREM RecoveryIsBounded == Spec => []RecoveryBounded
<1>1. IInv => RecoveryBounded
  BY DEF IInv, Counted, RecoveryBounded
<1> QED BY <1>1, IInvAlways, PTL

\* A turn that has had the session to itself is marked for recovery while it runs.
THEOREM RunningTurnsAreMarked == Spec => []RunningTurnIsMarked
<1>1. IInv => RunningTurnIsMarked
  BY DEF IInv, Alone, RunningTurnIsMarked
<1> QED BY <1>1, IInvAlways, PTL

==============================================================================
