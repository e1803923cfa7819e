---------------------------- MODULE Interventions ----------------------------
(***************************************************************************)
(* What a chat session asks its user: questions (services/user-questions,  *)
(* tools/user-question-tools), the hand-over of the browser                *)
(* (tools/browser-handoff) and secrets (services/secret-input), together   *)
(* with the turn that asks and the notice that wakes the session when an   *)
(* answer finds nobody waiting (routes/chat.ts,                            *)
(* services/intervention-run-resume.ts).                                   *)
(*                                                                         *)
(* A question asked by an MCP client is collected by calls that give up    *)
(* after a minute and are repeated with the request's id.  A call may also *)
(* lose its client: the service does not notice and keeps waiting.         *)
(* The text of questions and answers is left out: an outcome is how a      *)
(* request was resolved.                                                   *)
(***************************************************************************)
EXTENDS FiniteSets

CONSTANTS
  Requests,
  Kind,      \* "ask" (in-process tool), "mcp", "handoff" or "secret"
  Calls,     \* wait calls that can be in progress at once
  Free

Kinds == {"ask", "mcp", "handoff", "secret"}
Outcomes == {"submitted", "cancelled", "timeout"}

ASSUME InterventionsAssumption ==
  /\ Kind \in [Requests -> Kinds]
  /\ Free \notin Requests

VARIABLES
  turn,       \* "none", "preparing" (streaming, no resume handler yet), "running"
  status,     \* of a request: "unasked", "pending", or its outcome
  kept,       \* requests with an entry in UserQuestionService.resumable
  yielded,    \* entries of which a wait has given up
  call,       \* wait calls in progress: call -> request
  listening,  \* calls whose client still waits for the result
  notice,     \* onDetachedResolved: "none", "posting", "delivered" or "dropped"
  got         \* history: the outcome a listening call returned

vars == <<turn, status, kept, yielded, call, listening, notice, got>>

Waiters(r) == {c \in Calls : call[c] = r}
Resumable(r) == Kind[r] \in {"mcp", "handoff"}

Init ==
  /\ turn = "none"
  /\ status = [r \in Requests |-> "unasked"]
  /\ kept = {} /\ yielded = {}
  /\ call = [c \in Calls |-> Free]
  /\ listening = {}
  /\ notice = [r \in Requests |-> "none"]
  /\ got = [r \in Requests |-> "none"]

------------------------------------------------------------------------------
\* The turn of the session

\* A turn takes the stream slot; it registers its resume handler only after the
\* awaited preparation.
TurnStarts ==
  /\ turn = "none"
  /\ turn' = "preparing"
  /\ UNCHANGED <<status, kept, yielded, call, listening, notice, got>>

TurnPrepared ==
  /\ turn = "preparing"
  /\ turn' = "running"
  /\ UNCHANGED <<status, kept, yielded, call, listening, notice, got>>

------------------------------------------------------------------------------
\* Asking and waiting

\* createRequest or requestSecret, and the first wait with it.
Ask(r, c) ==
  /\ turn = "running"
  /\ status[r] = "unasked"
  /\ call[c] = Free
  /\ status' = [status EXCEPT ![r] = "pending"]
  /\ kept' = IF Resumable(r) THEN kept \cup {r} ELSE kept
  /\ call' = [call EXCEPT ![c] = r]
  /\ listening' = listening \cup {c}
  /\ UNCHANGED <<turn, yielded, notice, got>>

\* The sixty seconds are over before an answer: the call tells its client to ask
\* again.
Yield(c) ==
  /\ call[c] # Free
  /\ Kind[call[c]] = "mcp"
  /\ yielded' = yielded \cup {call[c]}
  /\ call' = [call EXCEPT ![c] = Free]
  /\ listening' = listening \ {c}
  /\ UNCHANGED <<turn, status, kept, notice, got>>

\* Mutant: a repeated call waits for the next resolution, not for the result.
WaitAgainForEvent(r, c) ==
  /\ turn = "running"
  /\ call[c] = Free
  /\ r \in kept
  /\ call' = [call EXCEPT ![c] = r]
  /\ listening' = listening \cup {c}
  /\ UNCHANGED <<turn, status, kept, yielded, notice, got>>

\* user.ask or browser.handoff with a request id: an entry that is answered is
\* handed out and deleted, a pending one is waited for.  Without an entry the
\* call returns "missing".
WaitAgain(r, c) ==
  /\ turn = "running"
  /\ call[c] = Free
  /\ r \in kept
  /\ IF status[r] = "pending"
     THEN /\ call' = [call EXCEPT ![c] = r]
          /\ listening' = listening \cup {c}
          /\ UNCHANGED <<kept, got>>
     ELSE /\ kept' = kept \ {r}
          /\ got' = [got EXCEPT ![r] = status[r]]
          /\ UNCHANGED <<call, listening>>
  /\ UNCHANGED <<turn, status, yielded, notice>>

\* The client of a call is gone; the call goes on.
ClientGone(c) ==
  /\ call[c] # Free
  /\ c \in listening
  /\ Kind[call[c]] = "mcp"
  /\ listening' = listening \ {c}
  /\ UNCHANGED <<turn, status, kept, yielded, call, notice, got>>

------------------------------------------------------------------------------
\* Resolution

\* Mutant: the wait that gave up is not asked about.
WakesNever(R) == {}

\* Mutant: the session is woken whenever a wait has yielded, attached or not.
WakesAlways(R) == R \cap kept \cap yielded

\* The session is told when a wait has yielded and none is attached.
Wakes(R) == {r \in R \cap kept \cap yielded : Waiters(r) = {}}

\* Mutant: the entry goes with the answer, collected or not.
CollectedAll(R) == R

\* The calls attached to a request delete its entry as they return.
Collected(R) == {r \in R : Waiters(r) # {}}

\* Mutant: a second answer, from another tab, replaces the first.
OpenAlways(R) == \A r \in R : status[r] # "unasked"

\* pending.get(requestId): a request that is no longer pending is not resolved.
OpenAll(R) == \A r \in R : status[r] = "pending"

\* resolveRequest for the requests in R: every attached call returns the outcome;
\* the session is told by its running turn or by a request to start one.
Resolve(R, o) ==
  /\ OpenAll(R)
  /\ status' = [r \in Requests |-> IF r \in R THEN o ELSE status[r]]
  /\ got' = [r \in Requests |-> IF r \in R /\ Waiters(r) \cap listening # {} THEN o ELSE got[r]]
  /\ kept' = kept \ Collected(R)
  /\ call' = [c \in Calls |-> IF call[c] \in R THEN Free ELSE call[c]]
  /\ listening' = {c \in listening : call[c] \notin R}
  /\ notice' = [r \in Requests |->
       IF r \in Wakes(R)
       THEN IF turn = "running" THEN "delivered" ELSE "posting"
       ELSE notice[r]]
  /\ UNCHANGED <<turn, yielded>>

\* submit or cancel, by a person
Answer(r, o) ==
  /\ o \in {"submitted", "cancelled"}
  /\ Resolve({r}, o)

\* The timer of a secret request.
SecretTimeout(r) ==
  /\ Kind[r] = "secret"
  /\ Resolve({r}, "timeout")

\* A turn ends or is cancelled.  Its signal cancels the hand-overs it waits for;
\* its other calls go on without a listener.
TurnEnds ==
  LET aborted == {r \in Requests : /\ Kind[r] = "handoff" /\ status[r] = "pending"
                                   /\ Waiters(r) # {}} IN
  /\ turn # "none"
  /\ turn' = "none"
  /\ status' = [r \in Requests |-> IF r \in aborted THEN "cancelled" ELSE status[r]]
  /\ got' = [r \in Requests |-> IF r \in aborted THEN "cancelled" ELSE got[r]]
  /\ kept' = kept \ aborted
  /\ call' = [c \in Calls |-> IF call[c] \in aborted THEN Free ELSE call[c]]
  /\ listening' = {}
  /\ UNCHANGED <<yielded, notice>>

\* The notice is posted to POST /api/chat, which skips it if a turn is streaming
\* and starts a hidden turn otherwise.
NoticePosted(r) ==
  /\ notice[r] = "posting"
  /\ IF turn = "none"
     THEN turn' = "preparing" /\ notice' = [notice EXCEPT ![r] = "delivered"]
     ELSE UNCHANGED turn /\ notice' = [notice EXCEPT ![r] = "dropped"]
  /\ UNCHANGED <<status, kept, yielded, call, listening, got>>

Next ==
  \/ TurnStarts \/ TurnPrepared \/ TurnEnds
  \/ \E r \in Requests, c \in Calls : Ask(r, c) \/ WaitAgain(r, c)
  \/ \E c \in Calls : Yield(c) \/ ClientGone(c)
  \/ \E r \in Requests, o \in Outcomes : Answer(r, o)
  \/ \E r \in Requests : SecretTimeout(r) \/ NoticePosted(r)

Spec == Init /\ [][Next]_vars

------------------------------------------------------------------------------
\* Properties

\* Every variable keeps its type; only questions that can be asked for again
\* have an entry, an unasked request has none, and a call is listened to only
\* while it is in progress.
TypeOK ==
  /\ turn \in {"none", "preparing", "running"}
  /\ status \in [Requests -> {"unasked", "pending"} \cup Outcomes]
  /\ kept \subseteq {r \in Requests : Resumable(r) /\ status[r] # "unasked"}
  /\ yielded \subseteq {r \in Requests : Kind[r] = "mcp"}
  /\ call \in [Calls -> Requests \cup {Free}]
  /\ listening \subseteq {c \in Calls : call[c] # Free}
  /\ notice \in [Requests -> {"none", "posting", "delivered", "dropped"}]
  /\ got \in [Requests -> {"none"} \cup Outcomes]

\* Questions, hand-overs and secrets keep the promise of PendingRequest: however
\* a person's answer, a second tab's answer, the timer of a secret and the end of
\* the turn interleave, a request is settled once, and whichever call collects
\* the outcome, the first or a repeated one, gets that outcome and only once.
Promise == INSTANCE PendingRequest WITH
  outcome <- [r \in Requests |-> IF status[r] = "pending" THEN "open" ELSE status[r]],
  received <- got
KeepsPromise == Promise!RequestSpec

\* No call waits on a settled request: whoever settles it releases every call
\* that is attached, also one that attached after another gave up.
NobodyWaitsInVain ==
  \A c \in Calls : call[c] # Free => status[call[c]] = "pending"

\* An answer that comes between two wait calls is neither lost nor passed over in
\* silence: it is kept, the running turn is told or a request to start one is on
\* its way, and only a call that returns the answer takes it from where it is kept.
\* The request to start a turn is not repeated: where it meets another turn under
\* way the session is not told, and the answer stays for the call that asks again.
AnswerAnnounced ==
  [][\A r \in Requests :
       /\ Resumable(r) /\ status[r] = "pending" /\ status'[r] # "pending" /\ Waiters(r) = {} =>
            r \in kept' /\ notice'[r] \in {"posting", "delivered"}
       /\ r \in kept /\ status[r] \in Outcomes /\ r \notin kept' => got'[r] = status[r]
       /\ notice[r] = "posting" /\ notice'[r] # "posting" /\ notice'[r] # "delivered" =>
            turn # "none" /\ (r \in kept' \/ got'[r] = status[r])]_vars

\* The answer of a request that can be asked for again is given to a listening
\* call or kept for the next one.  It is lost only when the one call attached to
\* it had lost its client.
LostOnlyToTheDeparted ==
  [][\A r \in Requests :
       Resumable(r) /\ status[r] = "pending" /\ status'[r] # "pending" =>
         \/ got'[r] = status'[r]
         \/ r \in kept'
         \/ Waiters(r) # {} /\ Waiters(r) \cap listening = {}]_vars

\* The session is never woken for an answer that an attached call has returned:
\* the model would act on it twice.
NotWokenTwice ==
  [][\A r \in Requests :
       notice[r] = "none" /\ notice'[r] # "none" => r \in kept' /\ got'[r] = "none"]_vars
==============================================================================
