------------------------- MODULE InterventionsProofs -------------------------
(***************************************************************************)
(* Proofs about questions, hand-overs and secrets, for any set of requests *)
(* and of wait calls: they implement PendingRequest, and an answer is      *)
(* collected, kept or announced.                                           *)
(***************************************************************************)
EXTENDS Interventions, TLAPS

\* What is received of a request that is open or unasked is nothing, and so it is of
\* a settled one as long as its entry is kept.  A pending request that can be asked
\* for again has its entry, and if no call is attached to it one has yielded.  A
\* notice is about an answer that is kept or has been collected.
ReceiptInv ==
  \A r \in Requests :
    /\ status[r] \in {"unasked", "pending"} => got[r] = "none"
    /\ r \in kept => got[r] = "none"
    /\ Resumable(r) /\ status[r] = "pending" => r \in kept
    /\ Resumable(r) /\ status[r] = "pending" /\ Waiters(r) = {} => r \in yielded
    /\ notice[r] # "none" => status[r] \in Outcomes /\ (r \in kept \/ got[r] = status[r])

IInv == TypeOK /\ ReceiptInv /\ NobodyWaitsInVain

\* The steps the three action properties are about.
AnnouncedStep ==
  \A r \in Requests :
    /\ Resumable(r) /\ status[r] = "pending" /\ status'[r] # "pending" /\ Waiters(r) = {} =>
         r \in kept' /\ notice'[r] \in {"posting", "delivered"}
    /\ r \in kept /\ status[r] \in Outcomes /\ r \notin kept' => got'[r] = status[r]
    /\ notice[r] = "posting" /\ notice'[r] # "posting" /\ notice'[r] # "delivered" =>
         turn # "none" /\ (r \in kept' \/ got'[r] = status[r])

LostStep ==
  \A r \in Requests :
    Resumable(r) /\ status[r] = "pending" /\ status'[r] # "pending" =>
      \/ got'[r] = status'[r]
      \/ r \in kept'
      \/ Waiters(r) # {} /\ Waiters(r) \cap listening = {}

WokenStep ==
  \A r \in Requests :
    notice[r] = "none" /\ notice'[r] # "none" => r \in kept' /\ got'[r] = "none"

\* The outcome PendingRequest sees.
OutcomeOf == [r \in Requests |-> IF status[r] = "pending" THEN "open" ELSE status[r]]

Facts == IInv' /\ AnnouncedStep /\ LostStep /\ WokenStep /\ [Promise!RequestNext]_<<OutcomeOf, got>>

\* A step that settles nothing and hands out nothing.
LEMMA QuietStep ==
  ASSUME IInv, IInv', UNCHANGED <<status, kept, got>>,
         \A r \in Requests : notice[r] = "none" => notice'[r] = "none",
         \A r \in Requests : notice[r] = "posting" /\ notice'[r] \notin {"posting", "delivered"} =>
                               turn # "none"
  PROVE  Facts
<1>1. LostStep /\ WokenStep
  BY DEF LostStep, WokenStep
<1>3. AnnouncedStep
  BY DEF AnnouncedStep, IInv, ReceiptInv, Outcomes
<1>2. UNCHANGED <<OutcomeOf, got>>
  BY DEF OutcomeOf
<1> QED BY <1>1, <1>2, <1>3 DEF Facts

------------------------------------------------------------------------------
\* The turn, and the calls

LEMMA TurnStep ==
  ASSUME IInv, TurnStarts \/ TurnPrepared
  PROVE  Facts
<1>1. IInv'
  BY DEF IInv, TypeOK, ReceiptInv, NobodyWaitsInVain, TurnStarts, TurnPrepared, Resumable, Waiters
<1> QED BY <1>1, QuietStep DEF TurnStarts, TurnPrepared

\* Asking opens the request.
LEMMA AskStep ==
  ASSUME IInv, NEW r \in Requests, NEW c \in Calls, Ask(r, c)
  PROVE  Facts
<1>1. /\ status' = [status EXCEPT ![r] = "pending"] /\ status[r] = "unasked" /\ call[c] = Free
      /\ kept' = IF Resumable(r) THEN kept \cup {r} ELSE kept
      /\ call' = [call EXCEPT ![c] = r] /\ listening' = listening \cup {c}
      /\ UNCHANGED <<turn, yielded, notice, got>>
  BY DEF Ask
<1>2. TypeOK'
  BY <1>1, InterventionsAssumption DEF IInv, TypeOK, Resumable
<1>3. ReceiptInv'
  <2>1. \A q \in Requests : Waiters(q)' = {} => Waiters(q) = {} /\ q # r
    BY <1>1, InterventionsAssumption DEF Waiters, IInv, TypeOK
  <2> QED BY <1>1, <2>1 DEF IInv, TypeOK, ReceiptInv, Resumable, Outcomes
<1>4. NobodyWaitsInVain'
  BY <1>1 DEF IInv, TypeOK, NobodyWaitsInVain
<1>5. AnnouncedStep
  BY <1>1 DEF IInv, TypeOK, AnnouncedStep, Outcomes
<1>6. LostStep /\ WokenStep
  BY <1>1 DEF LostStep, WokenStep, IInv, TypeOK
<1>7. Promise!Open(r)
  BY <1>1 DEF Promise!Open, IInv, TypeOK
<1> QED BY <1>2, <1>3, <1>4, <1>5, <1>6, <1>7 DEF IInv, Facts, Promise!RequestNext

\* A call that yields leaves a pending request behind.
LEMMA YieldStep ==
  ASSUME IInv, NEW c \in Calls, Yield(c)
  PROVE  Facts
<1>1. /\ call[c] # Free /\ Kind[call[c]] = "mcp" /\ call[c] \in Requests
      /\ status[call[c]] = "pending"
      /\ yielded' = yielded \cup {call[c]}
      /\ call' = [call EXCEPT ![c] = Free] /\ listening' = listening \ {c}
      /\ UNCHANGED <<turn, status, kept, notice, got>>
  BY DEF Yield, IInv, TypeOK, NobodyWaitsInVain
<1>2. TypeOK'
  BY <1>1 DEF IInv, TypeOK, Resumable
<1>3. NobodyWaitsInVain'
  BY <1>1 DEF IInv, TypeOK, NobodyWaitsInVain
<1>4. \A q \in Requests : Waiters(q)' = {} => Waiters(q) = {} \/ q \in yielded'
  BY <1>1 DEF Waiters, IInv, TypeOK
<1>5. ReceiptInv'
  BY <1>1, <1>4 DEF IInv, TypeOK, ReceiptInv, Resumable
<1> QED BY <1>1, <1>2, <1>3, <1>5, QuietStep DEF IInv

LEMMA ClientGoneStep ==
  ASSUME IInv, NEW c \in Calls, ClientGone(c)
  PROVE  Facts
<1>1. IInv'
  BY DEF ClientGone, IInv, TypeOK, ReceiptInv, NobodyWaitsInVain, Resumable, Waiters
<1> QED BY <1>1, QuietStep DEF ClientGone

\* A repeated call attaches to a pending request, or receives the outcome that was
\* kept for it.
LEMMA WaitAgainStep ==
  ASSUME IInv, NEW r \in Requests, NEW c \in Calls, WaitAgain(r, c)
  PROVE  Facts
<1>1. CASE status[r] = "pending"
  <2>1. /\ call' = [call EXCEPT ![c] = r] /\ listening' = listening \cup {c}
        /\ UNCHANGED <<kept, got, turn, status, yielded, notice>>
    BY <1>1 DEF WaitAgain
  <2>2. TypeOK'
    BY <2>1, InterventionsAssumption DEF IInv, TypeOK, Resumable
  <2>3. NobodyWaitsInVain'
    BY <1>1, <2>1 DEF IInv, TypeOK, NobodyWaitsInVain
  <2>4. call[c] = Free
    BY DEF WaitAgain
  <2>5. \A q \in Requests : Waiters(q)' = {} => Waiters(q) = {}
    BY <2>1, <2>4, InterventionsAssumption DEF Waiters, IInv, TypeOK
  <2>6. ReceiptInv'
    BY <2>1, <2>5 DEF IInv, TypeOK, ReceiptInv, Resumable
  <2> QED BY <2>1, <2>2, <2>3, <2>6, QuietStep DEF IInv
<1>2. CASE status[r] # "pending"
  <2>1. /\ kept' = kept \ {r} /\ got' = [got EXCEPT ![r] = status[r]] /\ r \in kept
        /\ UNCHANGED <<call, listening, turn, status, yielded, notice>>
    BY <1>2 DEF WaitAgain
  <2>2. status[r] \in Outcomes /\ got[r] = "none"
    BY <1>2, <2>1 DEF IInv, TypeOK, ReceiptInv
  <2>3. TypeOK'
    BY <2>1, <2>2 DEF IInv, TypeOK, Resumable
  <2>4. ReceiptInv'
    BY <2>1, <2>2 DEF IInv, TypeOK, ReceiptInv, Resumable, Outcomes, Waiters
  <2>5. NobodyWaitsInVain'
    BY <2>1 DEF IInv, NobodyWaitsInVain
  <2>6. LostStep /\ WokenStep
    BY <2>1 DEF LostStep, WokenStep
  <2>8. AnnouncedStep
    BY <2>1, <2>2 DEF AnnouncedStep, IInv, TypeOK
  <2>7. Promise!Receive(r)
    BY <1>2, <2>1, <2>2 DEF Promise!Receive, IInv, TypeOK
  <2> QED BY <2>3, <2>4, <2>5, <2>6, <2>7, <2>8 DEF IInv, Facts, Promise!RequestNext
<1> QED BY <1>1, <1>2

------------------------------------------------------------------------------
\* Resolution

\* Requests R that are pending are settled with o, each handed to the calls that
\* listen to it; an entry stays if no call was attached.
LEMMA SettleStep ==
  ASSUME IInv, NEW R \in SUBSET Requests, NEW A \in SUBSET R, NEW o \in Outcomes,
         \A r \in R : status[r] = "pending",
         status' = [r \in Requests |-> IF r \in R THEN o ELSE status[r]],
         got' = [r \in Requests |-> IF r \in A THEN o ELSE got[r]],
         kept' = kept \ {r \in R : Waiters(r) # {}},
         call' = [c \in Calls |-> IF call[c] \in R THEN Free ELSE call[c]],
         listening' \subseteq {c \in listening : call[c] \notin R},
         turn' \in {"none", "preparing", "running"}, UNCHANGED yielded,
         notice' \in [Requests -> {"none", "posting", "delivered", "dropped"}],
         \A r \in Requests : IF r \in R \cap kept \cap yielded /\ Waiters(r) = {}
                             THEN notice'[r] \in {"posting", "delivered"}
                             ELSE notice'[r] = notice[r],
         \A r \in A : Waiters(r) # {},
         \A r \in R \ A : Waiters(r) \cap listening = {}
  PROVE  Facts
<1>1. TypeOK'
  BY DEF IInv, TypeOK, Resumable, Outcomes
<1>2. ReceiptInv'
  <2>1. \A r \in Requests \ R : Waiters(r)' = {} => Waiters(r) = {}
    BY InterventionsAssumption DEF Waiters, IInv, TypeOK
  <2>2. ASSUME NEW r \in Requests, notice'[r] # "none"
        PROVE  status'[r] \in Outcomes /\ (r \in kept' \/ got'[r] = status'[r])
    BY <2>2 DEF IInv, TypeOK, ReceiptInv, Outcomes
  <2> QED BY <2>1, <2>2 DEF IInv, TypeOK, ReceiptInv, Resumable, Outcomes
<1>3. NobodyWaitsInVain'
  BY InterventionsAssumption DEF IInv, TypeOK, NobodyWaitsInVain
<1>4. AnnouncedStep
  BY DEF IInv, TypeOK, ReceiptInv, AnnouncedStep, Outcomes
<1>5. LostStep /\ WokenStep
  BY DEF LostStep, WokenStep, IInv, ReceiptInv
<1>6. Promise!Settle(R, o)
  BY DEF Promise!Settle, IInv, TypeOK, Outcomes
<1> QED BY <1>1, <1>2, <1>3, <1>4, <1>5, <1>6 DEF IInv, Facts, Promise!RequestNext

\* An answer, or the timer of a secret.
LEMMA ResolveStep ==
  ASSUME IInv, NEW r \in Requests, NEW o \in Outcomes, Resolve({r}, o)
  PROVE  Facts
<1> DEFINE R == {r}
           A == {q \in R : Waiters(q) \cap listening # {}}
<1>1. A \in SUBSET R /\ R \in SUBSET Requests
  OBVIOUS
<1>2. /\ \A q \in R : status[q] = "pending"
      /\ status' = [q \in Requests |-> IF q \in R THEN o ELSE status[q]]
      /\ got' = [q \in Requests |-> IF q \in A THEN o ELSE got[q]]
      /\ kept' = kept \ {q \in R : Waiters(q) # {}}
      /\ call' = [c \in Calls |-> IF call[c] \in R THEN Free ELSE call[c]]
      /\ listening' = {c \in listening : call[c] \notin R}
      /\ UNCHANGED <<turn, yielded>>
  BY DEF Resolve, OpenAll, Collected
<1>3. notice' = [q \in Requests |-> IF q \in Wakes(R)
                                    THEN IF turn = "running" THEN "delivered" ELSE "posting"
                                    ELSE notice[q]]
  BY DEF Resolve
<1>4. /\ notice' \in [Requests -> {"none", "posting", "delivered", "dropped"}]
      /\ \A q \in Requests : IF q \in R \cap kept \cap yielded /\ Waiters(q) = {}
                             THEN notice'[q] \in {"posting", "delivered"}
                             ELSE notice'[q] = notice[q]
  BY <1>3 DEF IInv, TypeOK, Wakes
<1>5. /\ \A q \in A : Waiters(q) # {}
      /\ \A q \in R \ A : Waiters(q) \cap listening = {}
  OBVIOUS
<1>6. turn' \in {"none", "preparing", "running"}
  BY <1>2 DEF IInv, TypeOK
<1> HIDE DEF A, R
<1> QED BY <1>1, <1>2, <1>4, <1>5, <1>6, SettleStep

\* The end of a turn cancels the hand-overs its calls wait for.  Their calls have
\* returned the outcome, and no notice is due.
LEMMA TurnEndsStep ==
  ASSUME IInv, TurnEnds
  PROVE  Facts
<1> DEFINE R == {r \in Requests : /\ Kind[r] = "handoff" /\ status[r] = "pending"
                                  /\ Waiters(r) # {}}
<1>1. R \in SUBSET Requests /\ R \in SUBSET R /\ "cancelled" \in Outcomes
  BY DEF Outcomes
<1>2. /\ \A r \in R : status[r] = "pending"
      /\ status' = [r \in Requests |-> IF r \in R THEN "cancelled" ELSE status[r]]
      /\ got' = [r \in Requests |-> IF r \in R THEN "cancelled" ELSE got[r]]
      /\ call' = [c \in Calls |-> IF call[c] \in R THEN Free ELSE call[c]]
      /\ listening' = {} /\ turn' = "none"
      /\ UNCHANGED <<yielded, notice>>
  BY DEF TurnEnds
<1>3. kept' = kept \ {r \in R : Waiters(r) # {}}
  BY DEF TurnEnds
<1>4. \A r \in Requests : ~(r \in R \cap kept \cap yielded /\ Waiters(r) = {})
  OBVIOUS
<1>5. notice' \in [Requests -> {"none", "posting", "delivered", "dropped"}]
  BY <1>2 DEF IInv, TypeOK
<1>6. \A r \in R : Waiters(r) # {}
  OBVIOUS
<1> HIDE DEF R
<1> QED BY <1>1, <1>2, <1>3, <1>4, <1>5, <1>6, SettleStep

LEMMA NoticeStep ==
  ASSUME IInv, NEW r \in Requests, NoticePosted(r)
  PROVE  Facts
<1>1. /\ notice[r] = "posting" /\ turn' \in {"none", "preparing", "running"}
      /\ \E n \in {"delivered", "dropped"} : /\ notice' = [notice EXCEPT ![r] = n]
                                             /\ n = "dropped" => turn # "none"
      /\ UNCHANGED <<status, kept, yielded, call, listening, got>>
  BY DEF NoticePosted, IInv, TypeOK
<1>2. IInv'
  BY <1>1 DEF IInv, TypeOK, ReceiptInv, NobodyWaitsInVain, Resumable, Waiters
<1> QED BY <1>1, <1>2, QuietStep DEF IInv, TypeOK

------------------------------------------------------------------------------
\* The theorems

\* Nothing has been asked.
LEMMA InitIInv == Init => IInv
  BY DEF Init, IInv, TypeOK, ReceiptInv, NobodyWaitsInVain, Outcomes

\* One step, of whichever action.
LEMMA NextStep == IInv /\ [Next]_vars => Facts
<1> SUFFICES ASSUME IInv, [Next]_vars PROVE Facts
  OBVIOUS
<1>1. CASE UNCHANGED vars
  <2>1. IInv'
    BY <1>1 DEF vars, IInv, TypeOK, ReceiptInv, NobodyWaitsInVain, Resumable, Waiters
  <2> QED BY <1>1, <2>1, QuietStep DEF vars
<1>2. ASSUME NEW r \in Requests, NEW o \in Outcomes, Answer(r, o) PROVE Facts
  BY <1>2, ResolveStep DEF Answer
<1>3. ASSUME NEW r \in Requests, SecretTimeout(r) PROVE Facts
  BY <1>3, ResolveStep DEF SecretTimeout, Outcomes
<1> QED BY <1>1, <1>2, <1>3, TurnStep, TurnEndsStep, AskStep, WaitAgainStep, YieldStep,
           ClientGoneStep, NoticeStep DEF Next

\* The inductive invariant holds throughout.
LEMMA IInvAlways == Spec => []IInv
<1>1. IInv /\ [Next]_vars => IInv'
  BY NextStep DEF Facts
<1> QED BY <1>1, InitIInv, PTL DEF Spec

\* Every variable keeps its type, and no call waits on a settled request.
THEOREM NobodyIsLeftWaiting == Spec => [](TypeOK /\ NobodyWaitsInVain)
<1>1. IInv => TypeOK /\ NobodyWaitsInVain
  BY DEF IInv
<1> QED BY <1>1, IInvAlways, PTL

\* An answer that arrives between two wait calls is kept until a call returns it,
\* and the session is told of it unless another turn comes in between.
THEOREM AnswersAreAnnounced == Spec => AnswerAnnounced
<1>1. IInv /\ [Next]_vars => [AnnouncedStep]_vars
  BY NextStep DEF Facts
<1> QED BY <1>1, IInvAlways, PTL DEF Spec, AnswerAnnounced, AnnouncedStep

\* An answer that can be asked for again is lost only to a client that has gone.
THEOREM AnswersLostOnlyToTheDeparted == Spec => LostOnlyToTheDeparted
<1>1. IInv /\ [Next]_vars => [LostStep]_vars
  BY NextStep DEF Facts
<1> QED BY <1>1, IInvAlways, PTL DEF Spec, LostOnlyToTheDeparted, LostStep

\* The session is not woken for an answer that a call has returned.
THEOREM SessionsNotWokenTwice == Spec => NotWokenTwice
<1>1. IInv /\ [Next]_vars => [WokenStep]_vars
  BY NextStep DEF Facts
<1> QED BY <1>1, IInvAlways, PTL DEF Spec, NotWokenTwice, WokenStep

\* Questions, hand-overs and secrets implement PendingRequest: every request is
\* settled once and its outcome received at most once.
THEOREM InterventionsImplementPendingRequest == Spec => KeepsPromise
<1>1. Init => Promise!RequestInit
  BY DEF Init, Promise!RequestInit
<1>2. IInv /\ [Next]_vars => [Promise!RequestNext]_(Promise!requestVars)
  BY NextStep DEF Facts, Promise!requestVars, OutcomeOf
<1> QED BY <1>1, <1>2, IInvAlways, PTL DEF Spec, KeepsPromise, Promise!RequestSpec
==============================================================================
