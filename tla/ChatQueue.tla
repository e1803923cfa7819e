------------------------------ MODULE ChatQueue ------------------------------
(***************************************************************************)
(* The turns of one chat session and its durable message queue             *)
(* (routes/chat.ts).                                                       *)
(*                                                                         *)
(* A message arrives by POST /api/chat: it starts a turn, or is queued     *)
(* while one is streaming.  Clients also write the whole queue as a        *)
(* snapshot.  drainQueuedChatMessages takes the head of the queue, claims  *)
(* its id, shortens the queue, and only then (after an await) sends the    *)
(* message to POST /api/chat, where it starts a turn without a look at     *)
(* the stream slot.  The ids of consumed messages are remembered, up to a  *)
(* cap, so that a stale snapshot cannot send a message again.  A durable   *)
(* marker lets the next process continue a turn this one died in.          *)
(*                                                                         *)
(* The body of POST /api/chat runs without an await from its checks to     *)
(* activeStreams.add, so it is one action.  A message is its own queue id. *)
(* Snapshots are as parseQueuedChatMessages returns them: no id twice.     *)
(***************************************************************************)
EXTENDS Integers, Sequences, FiniteSets

CONSTANTS
  Messages,      \* what users write, in any client
  Content,       \* the trimmed text and uploads of a message
  Holdable,      \* messages a user may lock in the queue
  Others,        \* slots for the turns not started by the drain
  MaxTracked,    \* MAX_TRACKED_CONSUMED_IDS
  MaxRecovery,   \* MAX_AUTOMATIC_RECOVERY_ATTEMPTS
  MaxSyncs,      \* bound on snapshots written by clients
  MaxCrashes,    \* bound on restarts
  NoMessage, NoMarker

ASSUME ChatQueueAssumption ==
  /\ MaxTracked \in Nat \ {0}
  /\ {MaxRecovery, MaxSyncs, MaxCrashes} \subseteq Nat
  /\ DOMAIN Content = Messages
  /\ Holdable \subseteq Messages
  /\ "drain" \notin Others
  /\ NoMessage \notin Messages
  /\ NoMarker \notin Nat

VARIABLES
  queue,         \* session state queued_messages (durable)
  saved,         \* session state chat.consumedQueueIds (durable)
  marker,        \* session state chat.activeTurn (durable): its recoveryAttempts
  tracked,       \* consumedQueuedMessageIds, oldest first
  streaming,     \* activeStreams.has(session)
  cancellable,   \* an abort controller is registered and not aborted
  turns,         \* the turns really running
  crowded,       \* history: those that have run beside another one
  finishing,     \* an ended turn waits for its notification text
  drain,         \* drainQueuedChatMessages
  recovery,      \* recoverInterruptedTurn
  starting,      \* the new process has not reached its start-up drain
  known,         \* history: messages that have been queue entries
  sent,          \* history: how often a message was recorded as a user turn, up to 2
  since,         \* history: the ids claimed after the claim of a sent message
  autoRuns,      \* history: automatic continuations in a row
  refused,       \* history: the last drain was refused or failed
  syncs, crashes

durable == <<queue, saved, marker>>
history == <<known, sent, since, autoRuns, refused>>
vars == <<durable, tracked, streaming, cancellable, turns, crowded, finishing,
          drain, recovery, starting, history, syncs, crashes>>

Entry(m, held) == [id |-> m, held |-> held]
Entries == [id : Messages, held : BOOLEAN]
Ids(q) == {q[i].id : i \in 1..Len(q)}
Elems(s) == {s[i] : i \in 1..Len(s)}
Turns == Others \cup {"drain"}
Off == [pc |-> "off", next |-> NoMessage, rest |-> <<>>]
NoRecovery == [pc |-> "idle", attempts |-> 0]

Init ==
  /\ queue = <<>> /\ saved = <<>> /\ marker = NoMarker
  /\ tracked = <<>>
  /\ streaming = FALSE /\ cancellable = FALSE
  /\ turns = {} /\ crowded = {} /\ finishing = FALSE
  /\ drain = Off /\ recovery = NoRecovery /\ starting = FALSE
  /\ known = {} /\ sent = [m \in Messages |-> 0]
  /\ since = [m \in Messages |-> {}]
  /\ autoRuns = 0 /\ refused = FALSE
  /\ syncs = 0 /\ crashes = 0

------------------------------------------------------------------------------
\* Receipts

\* persistConsumedQueueIds keeps the latest MaxTracked ids.
Trim(s) == IF Len(s) > MaxTracked THEN SubSeq(s, Len(s) - MaxTracked + 1, Len(s)) ELSE s

\* Set.add of every id of s2, in order.
AddIds(s1, s2) == s1 \o SelectSeq(s2, LAMBDA m : m \notin Elems(s1))

InFlight(m) == drain.pc = "sending" /\ drain.next = m

\* The ids in C are claimed: the count of a message begins with the claim under
\* which it is sent.
Claim(C) ==
  since' = [m \in Messages |-> IF m \in C /\ sent[m] = 0 /\ ~InFlight(m)
                              THEN C \ {m} ELSE since[m] \cup (C \ {m})]

------------------------------------------------------------------------------
\* drainQueuedChatMessages

\* The entries whose ids have no receipt.
Fresh(q, ids) == SelectSeq(q, LAMBDA e : e.id \notin Elems(ids))

\* One pass of the loop: drop what was consumed already, stop at a held head,
\* else claim the head's id and shorten the queue.
DrainPass(q, ids) ==
  LET fresh == Fresh(q, ids) IN
  /\ refused' = FALSE
  /\ IF fresh = <<>> THEN
       queue' = <<>> /\ tracked' = ids /\ drain' = Off /\ UNCHANGED since
     ELSE IF Head(fresh).held THEN
       queue' = q /\ tracked' = ids /\ drain' = Off /\ UNCHANGED since
     ELSE
       /\ queue' = Tail(fresh)
       /\ tracked' = Trim(AddIds(ids, <<Head(fresh).id>>))
       /\ drain' = [pc |-> "sending", next |-> Head(fresh).id, rest |-> Tail(fresh)]
       /\ Claim({Head(fresh).id})

\* A call of drainQueuedChatMessages while its state is dr: it returns at once
\* if the session is draining or streaming.
StartDrain(q, ids, isStreaming, dr) ==
  IF dr.pc # "off" \/ isStreaming
  THEN queue' = q /\ tracked' = ids /\ drain' = dr /\ UNCHANGED <<since, refused>>
  ELSE DrainPass(q, ids)

Sent(m) == [sent EXCEPT ![m] = IF @ < 2 THEN @ + 1 ELSE 2]

\* A turn begins in slot t: the marker is written, the abort controller and the
\* stream slot are registered.
StartTurn(t, attempts) ==
  /\ t \in Turns \ turns
  /\ turns' = turns \cup {t}
  /\ crowded' = IF turns = {} THEN crowded ELSE turns \cup {t}
  /\ streaming' = TRUE
  /\ cancellable' = TRUE
  /\ marker' = attempts

\* Mutant: the receipt is not saved with the user turn.
DrainSendsUnsaved ==
  /\ drain.pc = "sending"
  /\ StartTurn("drain", 0)
  /\ sent' = Sent(drain.next)
  /\ drain' = [drain EXCEPT !.pc = "turn"]
  /\ autoRuns' = 0
  /\ UNCHANGED <<queue, saved, tracked, finishing, recovery, starting, known, since, refused, syncs, crashes>>

\* The injected request is accepted: its handler neither looks at the stream
\* slot nor touches the queue.
DrainSends ==
  /\ drain.pc = "sending"
  /\ StartTurn("drain", 0)
  /\ sent' = Sent(drain.next)
  /\ tracked' = Trim(tracked)
  /\ saved' = Trim(tracked)
  /\ drain' = [drain EXCEPT !.pc = "turn"]
  /\ autoRuns' = 0
  /\ UNCHANGED <<queue, finishing, recovery, starting, known, since, refused, syncs, crashes>>

\* Mutant: only the rest of the queue is put back.
DrainRefusedDropsHead ==
  /\ drain.pc = "sending"
  /\ tracked' = SelectSeq(tracked, LAMBDA m : m # drain.next)
  /\ queue' = drain.rest
  /\ drain' = Off
  /\ refused' = TRUE
  /\ UNCHANGED <<saved, marker, streaming, cancellable, turns, crowded, finishing,
                 recovery, starting, known, sent, since, autoRuns, syncs, crashes>>

\* The injected request is answered with an error status: the id is forgotten
\* and the queue restored from the list read before the await.
DrainRefused ==
  /\ drain.pc = "sending"
  /\ tracked' = SelectSeq(tracked, LAMBDA m : m # drain.next)
  /\ queue' = <<Entry(drain.next, FALSE)>> \o drain.rest
  /\ drain' = Off
  /\ refused' = TRUE
  /\ UNCHANGED <<saved, marker, streaming, cancellable, turns, crowded, finishing,
                 recovery, starting, known, sent, since, autoRuns, syncs, crashes>>

\* Signing or injecting throws: the failure is logged, the message stays out of
\* the queue.
DrainThrows ==
  /\ drain.pc = "sending"
  /\ drain' = Off
  /\ refused' = TRUE
  /\ UNCHANGED <<durable, tracked, streaming, cancellable, turns, crowded, finishing,
                 recovery, starting, known, sent, since, autoRuns, syncs, crashes>>

\* The response of the drained turn is there: the loop goes on unless another
\* turn took the stream slot meanwhile.
DrainResumes ==
  /\ drain.pc = "answered"
  /\ StartDrain(queue, tracked, streaming, Off)
  /\ UNCHANGED <<saved, marker, streaming, cancellable, turns, crowded, finishing,
                 recovery, starting, known, sent, autoRuns, syncs, crashes>>

------------------------------------------------------------------------------
\* POST /api/chat and the clients' snapshots

SameContent(q, m) == SelectSeq(q, LAMBDA e : Content[e.id] = Content[m])

\* A message no client has queued, or an entry a client sends now: refused as
\* consumed if its id has a receipt.
Postable(m) ==
  /\ ~starting
  /\ IF m \in known THEN m \notin Elems(tracked) ELSE sent[m] = 0

\* The session is idle: the queued copies of the message leave the queue, their
\* ids and the message's own are claimed, and the turn starts.
PostDirect(m, t) ==
  LET own == IF m \in known THEN <<m>> ELSE <<>>
      copies == SameContent(queue, m)
      ids == AddIds(AddIds(tracked, own), [i \in 1..Len(copies) |-> copies[i].id])
  IN /\ Postable(m)
     /\ ~streaming
     /\ StartTurn(t, 0)
     /\ queue' = SelectSeq(queue, LAMBDA e : Content[e.id] # Content[m])
     /\ tracked' = Trim(ids)
     /\ saved' = IF ids = <<>> THEN saved ELSE Trim(ids)
     /\ Claim(Elems(ids) \ Elems(tracked))
     /\ sent' = Sent(m)
     /\ autoRuns' = 0
     /\ UNCHANGED <<finishing, drain, recovery, starting, known, refused, syncs, crashes>>

\* The session is streaming: the message joins the queue unless an equal one is
\* there already.
PostBusy(m) ==
  /\ Postable(m)
  /\ streaming
  /\ SameContent(queue, m) = <<>>
  /\ queue' = Append(queue, Entry(m, FALSE))
  /\ known' = known \cup {m}
  /\ UNCHANGED <<saved, marker, tracked, streaming, cancellable, turns, crowded, finishing,
                 drain, recovery, starting, sent, since, autoRuns, refused, syncs, crashes>>

Snapshots ==
  {q \in UNION {[1..n -> Entries] : n \in 0..Cardinality(Messages)} :
     /\ \A i, j \in 1..Len(q) : q[i].id = q[j].id => i = j
     /\ \A i \in 1..Len(q) : q[i].held => q[i].id \in Holdable}

\* A client writes its view of the queue, over WebSocket or HTTP: possibly stale,
\* reordered, with entries added, removed, locked or unlocked.
Sync(q) ==
  /\ syncs < MaxSyncs
  /\ ~starting
  /\ \A m \in Ids(q) : m \in known \/ sent[m] = 0
  /\ StartDrain(q, tracked, streaming, drain)
  /\ known' = known \cup Ids(q)
  /\ syncs' = syncs + 1
  /\ UNCHANGED <<saved, marker, streaming, cancellable, turns, crowded, finishing,
                 recovery, starting, sent, autoRuns, crashes>>

\* POST .../cancel with a queued message: it moves to the head, unlocked, and
\* the turn is aborted.
CancelFor(m) ==
  /\ streaming /\ cancellable
  /\ m \in Ids(queue) /\ m \notin Elems(tracked)
  /\ queue' = <<Entry(m, FALSE)>> \o SelectSeq(queue, LAMBDA e : e.id # m)
  /\ cancellable' = FALSE
  /\ UNCHANGED <<saved, marker, tracked, streaming, turns, crowded, finishing,
                 drain, recovery, starting, history, syncs, crashes>>

\* A finished background command, an answered question or a goal loop starts a
\* hidden turn, unless one is streaming.
BackgroundTurn(t) ==
  /\ ~starting
  /\ ~streaming
  /\ StartTurn(t, 0)
  /\ autoRuns' = 0
  /\ UNCHANGED <<queue, saved, tracked, finishing, drain, recovery, starting,
                 known, sent, since, refused, syncs, crashes>>

------------------------------------------------------------------------------
\* The end of a turn

\* Mutant: a turn that ends does not drain the queue.
TurnEndsNoDrain(t, notify) ==
  /\ t \in turns
  /\ turns' = turns \ {t}
  /\ crowded' = crowded \ {t}
  /\ streaming' = FALSE
  /\ cancellable' = FALSE
  /\ marker' = NoMarker
  /\ drain' = IF t = "drain" THEN [drain EXCEPT !.pc = "answered"] ELSE drain
  /\ UNCHANGED <<queue, saved, tracked, finishing, recovery, starting, known, sent, since,
                 autoRuns, refused, syncs, crashes>>

\* Whatever ends it, the turn clears the marker, releases the stream slot (also
\* if another turn holds it too) and calls the drain; with an empty queue it may
\* first wait for a notification text.
TurnEnds(t, notify) ==
  LET dr == IF t = "drain" THEN [drain EXCEPT !.pc = "answered"] ELSE drain IN
  /\ t \in turns
  /\ turns' = turns \ {t}
  /\ crowded' = crowded \ {t}
  /\ streaming' = FALSE
  /\ cancellable' = FALSE
  /\ marker' = NoMarker
  /\ IF notify
     THEN /\ queue = <<>> /\ ~finishing
          /\ finishing' = TRUE
          /\ drain' = dr
          /\ UNCHANGED <<queue, tracked, since, refused>>
     ELSE StartDrain(queue, tracked, FALSE, dr) /\ UNCHANGED finishing
  /\ UNCHANGED <<saved, recovery, starting, known, sent, autoRuns, syncs, crashes>>

Finishes ==
  /\ finishing
  /\ finishing' = FALSE
  /\ StartDrain(queue, tracked, streaming, drain)
  /\ UNCHANGED <<saved, marker, streaming, cancellable, turns, crowded,
                 recovery, starting, known, sent, autoRuns, syncs, crashes>>

------------------------------------------------------------------------------
\* Restart and recovery

\* The process dies and a new one starts: it lists the marker it finds.
Crash ==
  /\ crashes < MaxCrashes
  /\ crashes' = crashes + 1
  /\ tracked' = saved
  /\ streaming' = FALSE /\ cancellable' = FALSE
  /\ turns' = {} /\ crowded' = {} /\ finishing' = FALSE
  /\ drain' = Off
  /\ recovery' = IF marker = NoMarker THEN NoRecovery
                 ELSE [pc |-> "listed", attempts |-> marker]
  /\ starting' = TRUE
  /\ UNCHANGED <<durable, history, syncs>>

\* The start-up loop over the active sessions, before the server listens.
StartupDrain ==
  /\ starting
  /\ starting' = FALSE
  /\ StartDrain(queue, tracked, streaming, drain)
  /\ UNCHANGED <<saved, marker, streaming, cancellable, turns, crowded, finishing,
                 recovery, known, sent, autoRuns, syncs, crashes>>

\* Mutant: recovery does not look at the stream slot.
RecoverBeginsBlindly ==
  /\ recovery.pc = "listed"
  /\ IF recovery.attempts >= MaxRecovery
     THEN marker' = NoMarker /\ recovery' = NoRecovery
     ELSE /\ marker' = recovery.attempts + 1
          /\ recovery' = [pc |-> "signing", attempts |-> recovery.attempts + 1]
  /\ UNCHANGED <<queue, saved, tracked, streaming, cancellable, turns, crowded, finishing,
                 drain, starting, history, syncs, crashes>>

\* recoverInterruptedTurn up to its await, with the marker as it was listed.
RecoverBegins ==
  /\ recovery.pc = "listed"
  /\ IF streaming
     THEN recovery' = NoRecovery /\ UNCHANGED marker
     ELSE IF recovery.attempts >= MaxRecovery
     THEN marker' = NoMarker /\ recovery' = NoRecovery
     ELSE /\ marker' = recovery.attempts + 1
          /\ recovery' = [pc |-> "signing", attempts |-> recovery.attempts + 1]
  /\ UNCHANGED <<queue, saved, tracked, streaming, cancellable, turns, crowded, finishing,
                 drain, starting, history, syncs, crashes>>

\* Mutant: the continued turn forgets which attempt it is.
RecoverSendsUncounted(t) ==
  /\ recovery.pc = "signing"
  /\ ~streaming
  /\ recovery' = NoRecovery
  /\ StartTurn(t, 0)
  /\ autoRuns' = autoRuns + 1
  /\ UNCHANGED <<queue, saved, tracked, finishing, drain, starting, known, sent, since,
                 refused, syncs, crashes>>

\* The continuation is accepted: a hidden turn that carries the attempt count.
RecoverSends(t) ==
  /\ recovery.pc = "signing"
  /\ ~streaming
  /\ recovery' = NoRecovery
  /\ StartTurn(t, recovery.attempts)
  /\ autoRuns' = autoRuns + 1
  /\ UNCHANGED <<queue, saved, tracked, finishing, drain, starting, known, sent, since,
                 refused, syncs, crashes>>

\* The continuation is skipped because a turn is streaming, refused, or fails:
\* the marker stays as it is.
RecoverGivesUp ==
  /\ recovery.pc = "signing"
  /\ recovery' = NoRecovery
  /\ UNCHANGED <<durable, tracked, streaming, cancellable, turns, crowded, finishing,
                 drain, starting, history, syncs, crashes>>

Next ==
  \/ \E m \in Messages, t \in Others : PostDirect(m, t)
  \/ \E m \in Messages : PostBusy(m)
  \/ \E q \in Snapshots : Sync(q)
  \/ \E m \in Messages : CancelFor(m)
  \/ \E t \in Others : BackgroundTurn(t)
  \/ DrainSends \/ DrainRefused \/ DrainThrows \/ DrainResumes
  \/ \E t \in Turns, notify \in BOOLEAN : TurnEnds(t, notify)
  \/ Finishes
  \/ Crash \/ StartupDrain
  \/ RecoverBegins \/ RecoverGivesUp
  \/ \E t \in Others : RecoverSends(t)

Spec == Init /\ [][Next]_vars

------------------------------------------------------------------------------
\* Properties

\* Every variable keeps its type: whatever is put back into the queue is an entry.
TypeOK ==
  /\ queue \in Seq(Entries)
  /\ saved \in Seq(Messages) /\ tracked \in Seq(Messages)
  /\ marker \in Nat \cup {NoMarker}
  /\ {streaming, cancellable, finishing, starting, refused} \subseteq BOOLEAN
  /\ turns \subseteq Turns /\ crowded \subseteq turns
  /\ drain.pc \in {"off", "sending", "turn", "answered"}
  /\ drain.next \in Messages \cup {NoMessage} /\ drain.rest \in Seq(Entries)
  /\ recovery \in [pc : {"idle", "listed", "signing"}, attempts : Nat]
  /\ known \subseteq Messages
  /\ sent \in [Messages -> Nat]
  /\ since \in [Messages -> SUBSET Messages]
  /\ {autoRuns, syncs, crashes} \subseteq Nat

\* "The id-based guarantee that the same queued message is never sent twice",
\* with the cap it is subject to: a queued message is sent a second time only
\* after at least MaxTracked other ids were claimed since its claim, whatever
\* snapshots clients write, however direct sends, drains, refusals and restarts
\* interleave.
NoEarlyResend ==
  [][\A m \in known : sent[m] > 0 /\ sent'[m] > sent[m]
                      => Cardinality(since[m]) >= MaxTracked]_vars

Sendable == LET fresh == Fresh(queue, tracked) IN queue # <<>> /\ fresh # <<>> /\ ~Head(fresh).held

\* No wake-up is lost: a queue with something to send, in a session where no
\* turn runs and no drain is on its way, exists only after a drain was refused
\* or failed.
NothingStranded ==
  /\ Sendable
  /\ turns = {} /\ drain.pc = "off" /\ ~finishing /\ ~starting
  => refused

Kept(m) ==
  \/ m \in Ids(queue)
  \/ InFlight(m)
  \/ \E x \in Messages : Content[x] = Content[m] /\ sent[x] > 0

\* A message that was queued, sent or in flight is lost only where the code
\* gives it up: a client's snapshot without it; a crash or a failure while the
\* drain holds it; a refusal, which restores an older list; or a receipt that an
\* attempt left behind without having sent the message.  In particular no
\* direct send, turn end, cancellation or recovery loses one.
LostOnlyWhereKnown ==
  [][\A m \in known : Kept(m) /\ ~Kept(m)'
       => \/ syncs' # syncs
          \/ m = drain.next /\ (crashes' # crashes \/ tracked' = tracked)
          \/ m # drain.next /\ queue' = <<Entry(drain.next, FALSE)>> \o drain.rest
          \/ m \in Ids(queue) \cap Elems(tracked)]_vars

\* The gateway continues an interrupted turn by itself at most MaxRecovery times
\* in a row, however often it dies, and whether it dies before or after the
\* continuation is accepted.
RecoveryBounded == autoRuns <= MaxRecovery

\* "Startup can distinguish an interrupted run from a normally completed chat":
\* a turn that has had its session to itself is marked as long as it runs.
RunningTurnIsMarked == turns \ crowded # {} => marker # NoMarker

\* docs/gateway-rust-architecture.md: "Concurrent sends to A follow the existing
\* busy/queue contract and never start two turns".
NeverTwoTurns == Cardinality(turns) <= 1

==============================================================================
