------------------------------- MODULE Consent -------------------------------
(***************************************************************************)
(* The consent pipeline of the gateway:                                    *)
(*   security/consent-executor.ts  ConsentAwareExecutor.execute            *)
(*   security/consent-manager.ts   ConsentManager                          *)
(*   security/trust-engine.ts      TrustEngine (module TrustEngine)        *)
(*   routes/consent.ts             approve, reject, approve-all            *)
(*   index.ts                      toolExecutor and the onRequest and      *)
(*                                 onDecision wiring                       *)
(*                                                                         *)
(* A call is one toolExecutor(...) invocation.  A call makes at most one   *)
(* consent request, so the request is named by its call.  JavaScript runs  *)
(* one handler at a time: an action is the code from one await to the      *)
(* next.  The awaits that matter are the wait for the decision and the     *)
(* tool itself; between them people, the timeout timer, the turn's abort   *)
(* signal, shutdown and other calls interleave freely.                     *)
(***************************************************************************)
EXTENDS ToolPermissions, TrustEngine, Sequences, FiniteSets

CONSTANTS
  Calls,            \* tool invocations
  Sessions,         \* chat sessions
  ConsentLevelOf,   \* tool -> consent level in the active profile
  CommandTools,     \* tools that run a shell command (COMMAND_TOOL_NAMES)
  Contexts,         \* the call contexts considered
  WriteOutcomes,    \* {TRUE}: database writes succeed; BOOLEAN: each may fail
  NoContext         \* the context of a call that has not been made

ASSUME ConsentAssumption ==
  /\ ConsentLevelOf \in [ActionTypes -> ConsentLevels]
  /\ CommandTools \subseteq ActionTypes
  /\ WriteOutcomes \subseteq BOOLEAN
  /\ IsFiniteSet(Calls)

VARIABLES
  pc,               \* where each execute() stands
  ctx,              \* its arguments
  pending,          \* ConsentManager.pending
  decision,         \* what the awaited promise resolved with
  notified,         \* how often onDecision ran for the request
  consentLog,       \* consent_log rows of the request
  waits,            \* requests raised as attention items and session waits
  aborted,          \* calls whose turn was cancelled (context.signal.aborted)
  effects,          \* history: calls whose tool has started
  approveAll,       \* ConsentManager.approveAllSessions
  approveAllDb,     \* consent_session_approvals rows
  approveAllUnsaved,\* history: sessions whose last row write failed
  everApproveAll,   \* history: sessions that were ever in approve-all mode
  sessionApprovals  \* sessionApprovalsBySession: session -> approved tools

consentVars == <<pending, decision, notified, consentLog, waits>>
approveAllVars == <<approveAll, approveAllDb, approveAllUnsaved, everApproveAll>>
vars == <<pc, ctx, aborted, effects, sessionApprovals, consentVars, approveAllVars, trustVars>>

\* The sets of requests whose audit rows can be written in one step.
LogOutcomes == {L \in SUBSET Calls : FALSE \in WriteOutcomes \/ L = Calls}

ConsentStatuses == {"approved", "rejected", "timeout"}

Context ==
  [session : Sessions, tool : ActionTypes,
   irreversible : BOOLEAN,      \* classifyIrreversibleCommand(command)
   blocked : BOOLEAN,           \* ~isCommandAllowed(command)
   fullAccess : BOOLEAN,        \* context.runtimeMode = "full-access"
   requiresApproval : BOOLEAN,  \* the calling persona agent's profile flag
   scheduler : BOOLEAN]         \* context.requestedBy = "scheduler"

ASSUME NoContextAssumption == NoContext \notin Context

\* Only the command tools look at a command.
ASSUME ContextsAssumption ==
  /\ Contexts \subseteq Context
  /\ \A x \in Contexts : x.irreversible \/ x.blocked => x.tool \in CommandTools

\* toolExecutor: a persona agent that requires approval is forced into
\* supervised mode whatever mode its turn asked for.
FullAccess(x) == x.fullAccess /\ ~x.requiresApproval

\* needsConsent in execute(): the policy, or an irreversible command.
NeedsConsent(x) ==
  \/ RequiresConsent(ConsentLevelOf[x.tool], Level(x.tool),
                     x.tool \in sessionApprovals[x.session])
  \/ x.irreversible

\* Mutant: approve-all mode and the scheduler also cover irreversible commands.
AutoExecutesIrreversible(x) ==
  \/ FullAccess(x)
  \/ ~NeedsConsent(x)
  \/ x.session \in approveAll
  \/ x.scheduler

\* execute() runs the tool without asking.
AutoExecutes(x) ==
  \/ FullAccess(x)
  \/ ~NeedsConsent(x)
  \/ ~x.irreversible /\ (x.session \in approveAll \/ x.scheduler)

Init ==
  /\ TrustInit
  /\ pc = [c \in Calls |-> "idle"]
  /\ ctx = [c \in Calls |-> NoContext]
  /\ pending = {}
  /\ decision = [c \in Calls |-> "none"]
  /\ notified = [c \in Calls |-> 0]
  /\ consentLog = [c \in Calls |-> <<>>]
  /\ waits = {}
  /\ aborted = {}
  /\ effects = {}
  /\ approveAll = {}
  /\ approveAllDb = {}
  /\ approveAllUnsaved = {}
  /\ everApproveAll = {}
  /\ sessionApprovals = [s \in Sessions |-> {}]

------------------------------------------------------------------------------
\* ConsentAwareExecutor

\* The call returns at once.  The trust level is read (and cached) only when the
\* turn is live and the agent's profile allows the tool: a dry run, which any
\* call may be, or a denied command.
ExecuteReturnsEarly(c, x) ==
  /\ pc[c] = "idle"
  /\ pc' = [pc EXCEPT ![c] = "done"]
  /\ ctx' = [ctx EXCEPT ![c] = x]
  /\ \/ UNCHANGED trustVars
     \/ c \notin aborted /\ GetState(x.tool)
  /\ UNCHANGED <<aborted, effects, sessionApprovals, consentVars, approveAllVars>>

\* execute() finds no consent to ask for and enters the tool in the same step.
ExecuteAuto(c, x) ==
  /\ pc[c] = "idle"
  /\ c \notin aborted
  /\ ~x.blocked
  /\ AutoExecutes(x)
  /\ pc' = [pc EXCEPT ![c] = "running"]
  /\ ctx' = [ctx EXCEPT ![c] = x]
  /\ effects' = effects \cup {c}
  /\ GetState(x.tool)
  /\ UNCHANGED <<aborted, sessionApprovals, consentVars, approveAllVars>>

\* requestConsent: the request is registered with its timer, and onRequest raises
\* the attention item and the session wait.
RequestConsent(c) ==
  /\ pending' = pending \cup {c}
  /\ waits' = waits \cup {c}
  /\ UNCHANGED <<decision, notified, consentLog>>

\* execute() asks and waits.
ExecuteAsks(c, x) ==
  /\ pc[c] = "idle"
  /\ c \notin aborted
  /\ ~x.blocked
  /\ ~AutoExecutes(x)
  /\ pc' = [pc EXCEPT ![c] = "waiting"]
  /\ ctx' = [ctx EXCEPT ![c] = x]
  /\ RequestConsent(c)
  /\ GetState(x.tool)
  /\ UNCHANGED <<aborted, effects, sessionApprovals, approveAllVars>>

\* Mutant: the abort signal is not looked at again after the wait.
ResumeIgnoringAbort(c) ==
  /\ pc[c] = "waiting"
  /\ decision[c] # "none"
  /\ IF decision[c] = "approved"
     THEN /\ pc' = [pc EXCEPT ![c] = "running"]
          /\ effects' = effects \cup {c}
     ELSE /\ pc' = [pc EXCEPT ![c] = "done"]
          /\ UNCHANGED effects
  /\ UNCHANGED <<ctx, aborted, sessionApprovals, consentVars, approveAllVars, trustVars>>

\* The continuation after the awaited decision.  runTool looks at the abort
\* signal again before the effect.
Resume(c) ==
  /\ pc[c] = "waiting"
  /\ decision[c] # "none"
  /\ IF decision[c] = "approved" /\ c \notin aborted
     THEN /\ pc' = [pc EXCEPT ![c] = "running"]
          /\ effects' = effects \cup {c}
     ELSE /\ pc' = [pc EXCEPT ![c] = "done"]
          /\ UNCHANGED effects
  /\ UNCHANGED <<ctx, aborted, sessionApprovals, consentVars, approveAllVars, trustVars>>

\* Mutant: every success is remembered for the session, asked or not.
FinishToolRemembersAll(c, ok, saved) ==
  /\ pc[c] = "running"
  /\ pc' = [pc EXCEPT ![c] = "done"]
  /\ IF ok
     THEN /\ RecordApproval(ctx[c].tool, saved)
          /\ sessionApprovals' = [sessionApprovals EXCEPT ![ctx[c].session] = @ \cup {ctx[c].tool}]
     ELSE UNCHANGED <<trustVars, sessionApprovals>>
  /\ UNCHANGED <<ctx, aborted, effects, consentVars, approveAllVars>>

\* Mutant: a success is recorded twice.
FinishToolCountsTwice(c, ok, saved) ==
  /\ pc[c] = "running"
  /\ ok
  /\ pc' = [pc EXCEPT ![c] = "done"]
  /\ Persist(ctx[c].tool, AfterApproval(AfterApproval(StateOf(ctx[c].tool))), saved)
  /\ UNCHANGED <<ctx, aborted, effects, sessionApprovals, consentVars, approveAllVars>>

\* The tool returns.  Success counts towards trust; if the call was approved by
\* a person and the tool is an ask-once tool, the session remembers it.
FinishTool(c, ok, saved) ==
  /\ pc[c] = "running"
  /\ pc' = [pc EXCEPT ![c] = "done"]
  /\ IF ok
     THEN /\ RecordApproval(ctx[c].tool, saved)
          /\ sessionApprovals' =
               IF decision[c] = "approved" /\ ConsentLevelOf[ctx[c].tool] = "once"
               THEN [sessionApprovals EXCEPT ![ctx[c].session] = @ \cup {ctx[c].tool}]
               ELSE sessionApprovals
     ELSE UNCHANGED <<trustVars, sessionApprovals>>
  /\ UNCHANGED <<ctx, aborted, effects, consentVars, approveAllVars>>

\* Mutant: cancelling the turn drops the open request without answering it.
AbortDropsRequest(c) ==
  /\ c \notin aborted
  /\ pc[c] # "done"
  /\ aborted' = aborted \cup {c}
  /\ pending' = pending \ {c}
  /\ waits' = waits \ {c}
  /\ UNCHANGED <<pc, ctx, effects, sessionApprovals, decision, notified, consentLog,
                 approveAllVars, trustVars>>

\* The turn that made the call is cancelled.  Nothing else happens to the call:
\* an open request stays open.
Abort(c) ==
  /\ c \notin aborted
  /\ pc[c] # "done"
  /\ aborted' = aborted \cup {c}
  /\ UNCHANGED <<pc, ctx, effects, sessionApprovals, consentVars, approveAllVars, trustVars>>

------------------------------------------------------------------------------
\* ConsentManager

\* Mutant: a decided request is found by a later answer and decided again.
DecideWithoutLookup(D, outcome, logged) ==
  LET known == pending \cup {c \in Calls : decision[c] # "none"} IN
  /\ pending' = pending \ D
  /\ decision' = [c \in Calls |-> IF c \in D \cap known THEN outcome ELSE decision[c]]
  /\ notified' = [c \in Calls |-> IF c \in D \cap known THEN notified[c] + 1 ELSE notified[c]]
  /\ consentLog' = [c \in Calls |-> IF c \in D \cap known \cap logged
                                    THEN Append(consentLog[c], outcome) ELSE consentLog[c]]
  /\ waits' = waits \ D

\* decide() and handleTimeout() for every request in D: log the decision (a
\* failed insert is swallowed; logged holds the requests whose insert succeeds),
\* drop the request, notify, resolve the promise.  A request that is not
\* pending is left alone.
Decide(D, outcome, logged) ==
  /\ pending' = pending \ D
  /\ decision' = [c \in Calls |-> IF c \in D \cap pending THEN outcome ELSE decision[c]]
  /\ notified' = [c \in Calls |-> IF c \in D \cap pending THEN notified[c] + 1 ELSE notified[c]]
  /\ consentLog' = [c \in Calls |-> IF c \in D \cap pending \cap logged
                                    THEN Append(consentLog[c], outcome) ELSE consentLog[c]]
  /\ waits' = waits \ (D \cap pending)

SessionRequests(s) == {c \in pending : ctx[c].session = s}

\* POST /api/consent/:id/approve and /reject, a voice command, a channel reply.
\* The operator may answer a card whose request is already gone.
Answer(c, outcome, logged) ==
  /\ ctx[c] # NoContext
  /\ outcome \in {"approved", "rejected"}
  /\ Decide({c}, outcome, logged)
  /\ UNCHANGED <<pc, ctx, aborted, effects, sessionApprovals, approveAllVars, trustVars>>

\* POST /api/consent/:id/approve-all: the requests pending in this chat now.
ApproveChat(c, logged) ==
  /\ c \in pending
  /\ Decide(SessionRequests(ctx[c].session), "approved", logged)
  /\ UNCHANGED <<pc, ctx, aborted, effects, sessionApprovals, approveAllVars, trustVars>>

PersistApproveAll(s, enabled, saved) ==
  /\ approveAllDb' = IF saved
                     THEN (IF enabled THEN approveAllDb \cup {s} ELSE approveAllDb \ {s})
                     ELSE approveAllDb
  /\ approveAllUnsaved' = IF saved THEN approveAllUnsaved \ {s} ELSE approveAllUnsaved \cup {s}

\* POST /api/consent/pending/:sessionId/approve-all: the mode is switched on
\* and everything pending in the session is approved.
EnableApproveAll(s, saved, logged) ==
  /\ approveAll' = approveAll \cup {s}
  /\ everApproveAll' = everApproveAll \cup {s}
  /\ PersistApproveAll(s, TRUE, saved)
  /\ Decide(SessionRequests(s), "approved", logged)
  /\ UNCHANGED <<pc, ctx, aborted, effects, sessionApprovals, trustVars>>

\* Mutant: the switch is cleared in memory only.
DisableApproveAllInMemory(s, saved) ==
  /\ saved \in BOOLEAN
  /\ approveAll' = approveAll \ {s}
  /\ UNCHANGED <<pc, ctx, aborted, effects, sessionApprovals, consentVars, approveAllDb,
                 approveAllUnsaved, everApproveAll, trustVars>>

\* DELETE /api/consent/pending/:sessionId/approve-all
DisableApproveAll(s, saved) ==
  /\ approveAll' = approveAll \ {s}
  /\ PersistApproveAll(s, FALSE, saved)
  /\ UNCHANGED <<pc, ctx, aborted, effects, sessionApprovals, consentVars, everApproveAll, trustVars>>

\* The timer of a request that is still pending fires.
Timeout(c, logged) ==
  /\ c \in pending
  /\ Decide({c}, "timeout", logged)
  /\ UNCHANGED <<pc, ctx, aborted, effects, sessionApprovals, approveAllVars, trustVars>>

\* Mutant: shutdown forgets the requests without resolving them.
CancelAllClears(logged) ==
  /\ logged \subseteq Calls
  /\ pending' = {}
  /\ waits' = {}
  /\ UNCHANGED <<pc, ctx, aborted, effects, sessionApprovals, decision, notified, consentLog,
                 approveAllVars, trustVars>>

\* cancelAll("shutdown")
CancelAll(logged) ==
  /\ pending # {}
  /\ Decide(pending, "rejected", logged)
  /\ UNCHANGED <<pc, ctx, aborted, effects, sessionApprovals, approveAllVars, trustVars>>

\* The process ends (a crash, or the exit after a shutdown) and a new one
\* starts: calls in flight are gone, the maps are empty, approve-all mode is
\* hydrated from its table.
Restart ==
  /\ RestartTrust
  /\ pc' = [c \in Calls |-> IF pc[c] = "idle" THEN "idle" ELSE "done"]
  /\ pending' = {}
  /\ waits' = {}
  /\ approveAll' = approveAllDb
  /\ approveAllUnsaved' = {}
  /\ sessionApprovals' = [s \in Sessions |-> {}]
  /\ UNCHANGED <<ctx, aborted, effects, decision, notified, consentLog, approveAllDb, everApproveAll>>

\* POST /api/trust/levels/:actionType/reset
ResetToolTrust(a, saved) ==
  /\ ResetTrust(a, saved)
  /\ UNCHANGED <<pc, ctx, aborted, effects, sessionApprovals, consentVars, approveAllVars>>

Next ==
  \/ \E c \in Calls, x \in Contexts :
       ExecuteReturnsEarly(c, x) \/ ExecuteAuto(c, x) \/ ExecuteAsks(c, x)
  \/ \E c \in Calls : Resume(c)
  \/ \E c \in Calls, ok \in BOOLEAN, saved \in WriteOutcomes : FinishTool(c, ok, saved)
  \/ \E c \in Calls : Abort(c)
  \/ \E c \in Calls, outcome \in ConsentStatuses, logged \in LogOutcomes : Answer(c, outcome, logged)
  \/ \E c \in Calls, logged \in LogOutcomes : ApproveChat(c, logged)
  \/ \E c \in Calls, logged \in LogOutcomes : Timeout(c, logged)
  \/ \E s \in Sessions, saved \in WriteOutcomes, logged \in LogOutcomes : EnableApproveAll(s, saved, logged)
  \/ \E s \in Sessions, saved \in WriteOutcomes : DisableApproveAll(s, saved)
  \/ \E logged \in LogOutcomes : CancelAll(logged)
  \/ \E a \in ActionTypes, saved \in WriteOutcomes : ResetToolTrust(a, saved)
  \/ Restart

Spec == Init /\ [][Next]_vars

\* The timer of every request fires if nothing else settles it, and a resolved
\* promise's continuation runs.
Fairness ==
  \A c \in Calls :
    /\ WF_vars(\E logged \in LogOutcomes : Timeout(c, logged))
    /\ WF_vars(Resume(c))

FairSpec == Spec /\ Fairness

------------------------------------------------------------------------------
\* Properties

\* Every variable keeps its type: a trust level never leaves its range, and a call
\* is in one of its stages.
TypeOK ==
  /\ TrustTypeOK
  /\ pc \in [Calls -> {"idle", "waiting", "running", "done"}]
  /\ ctx \in [Calls -> Contexts \cup {NoContext}]
  /\ pending \subseteq Calls
  /\ decision \in [Calls -> ConsentStatuses \cup {"none"}]
  /\ notified \in [Calls -> Nat]
  /\ consentLog \in [Calls -> Seq(ConsentStatuses)]
  /\ waits \subseteq Calls
  /\ aborted \subseteq Calls
  /\ effects \subseteq Calls
  /\ approveAll \subseteq Sessions
  /\ approveAllDb \subseteq Sessions
  /\ approveAllUnsaved \subseteq Sessions
  /\ everApproveAll \subseteq Sessions
  /\ sessionApprovals \in [Sessions -> SUBSET ActionTypes]

\* However an answer, a bulk approval, the timer, shutdown and a restart race,
\* a request is decided and announced at most once, the audit row (if its write
\* succeeded) says what was decided, and a late answer changes nothing.
DecidedOnce ==
  \A c \in Calls :
    /\ decision[c] = "none" => notified[c] = 0 /\ consentLog[c] = <<>>
    /\ decision[c] # "none" => notified[c] = 1 /\ consentLog[c] \in {<<>>, <<decision[c]>>}
    /\ c \in pending => decision[c] = "none"

\* A caller that waits has either a request somebody can still answer or an
\* answer it has not picked up; and the open attention items are exactly the
\* open requests, so no card outlives its request and no request is invisible.
NoStrandedPrompt ==
  /\ \A c \in Calls : pc[c] = "waiting" => (c \in pending <=> decision[c] = "none")
  /\ \A c \in pending : pc[c] = "waiting"
  /\ waits = pending

\* The calls of a tool that have run to their end.
Completed(a) == {d \in effects : pc[d] = "done" /\ ctx[d].tool = a}

\* The authority a call c of the tool named by x needs.
Authorised(c, x) ==
  /\ ~x.blocked
  /\ decision[c] \in {"none", "approved"}
  /\ \/ FullAccess(x)
     \/ decision[c] = "approved"
     \/ /\ ~x.irreversible
        /\ \/ x.scheduler
           \/ x.session \in approveAll
           \/ ConsentLevelOf[x.tool] = "none"
           \/ /\ ConsentLevelOf[x.tool] = "always"
              /\ Cardinality(Completed(x.tool)) >= Threshold3
           \/ /\ ConsentLevelOf[x.tool] = "once"
              /\ \/ Cardinality(Completed(x.tool)) >= Threshold2
                 \/ \E d \in effects : /\ decision[d] = "approved"
                                      /\ ctx[d].session = x.session
                                      /\ ctx[d].tool = x.tool

\* What a tool needs at the moment it starts, whatever the calls before it were
\* granted and however prompts, resets, failed writes and restarts fell in between.
\* A denied command never runs, nor one that was refused or that expired.  Outside
\* full-access mode (which an agent that requires approval never has) an irreversible
\* command starts only on the approval of its own request.  Any other tool starts on
\* that, in a session that is in approve-all mode, or for the scheduler; and without
\* one of them a dangerous tool never starts, an always-ask tool only after Threshold3
\* calls of it have run, and an ask-once tool only after Threshold2 of them or after
\* one that a person approved in the same session.
EffectsAuthorised == [][\A c \in effects' \ effects : Authorised(c, ctx'[c])]_vars

\* "A cancelled turn must not enqueue another approval or begin a tool call",
\* even when the approval arrives after the cancellation.
AbortStopsCalls ==
  [][\A c \in aborted : c \notin effects' \ effects /\ c \notin pending' \ pending]_vars

\* A session remembers an ask-once tool only if a person approved a call of
\* that tool in that session and the tool then ran.
OnceApprovalsFromPeople ==
  \A s \in Sessions : \A t \in sessionApprovals[s] :
    /\ ConsentLevelOf[t] = "once"
    /\ \E c \in effects : /\ ctx[c].session = s
                          /\ ctx[c].tool = t
                          /\ decision[c] = "approved"

\* Unless the last write failed, the approve-all switch a restart reads back is
\* the one in memory; and nobody is in the mode who was never put in it.
ApproveAllWrittenThrough ==
  /\ \A s \in Sessions \ approveAllUnsaved : s \in approveAll <=> s \in approveAllDb
  /\ approveAll \cup approveAllDb \subseteq everApproveAll

\* Neither of the two tables drifts from memory: what a restart reads back of the
\* trust states and of the approve-all switches is what the process last held,
\* except where the write itself failed.
RestartReadsBack == CacheWrittenThrough /\ ApproveAllWrittenThrough

\* A call that asked does not wait for ever.
WaitersResume == \A c \in Calls : pc[c] = "waiting" ~> pc[c] # "waiting"

==============================================================================
