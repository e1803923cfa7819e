---------------------------- MODULE ConsentProofs ----------------------------
(***************************************************************************)
(* Safety of the consent pipeline, for any number of calls, sessions and   *)
(* tools, any policy and any mix of failing writes.                        *)
(*                                                                         *)
(* DecidedOnce and NoStrandedPrompt are not inductive on their own: that a *)
(* late answer cannot touch a call whose tool already started follows only *)
(* from where every call stands.  CallPhases says where.  What a trusted   *)
(* tool needs to start follows from TrustPaid: nobody counts an approval   *)
(* that no completed call has earned.                                      *)
(***************************************************************************)
EXTENDS Consent, TrustEngineProofs, FiniteSetTheorems

CallPhases ==
  \A c \in Calls :
    /\ pc[c] = "idle" => /\ decision[c] = "none"
                         /\ c \notin effects /\ c \notin pending
    /\ pc[c] = "waiting" => /\ ctx[c] \in Contexts /\ ~ctx[c].blocked
                            /\ c \notin effects
    /\ pc[c] = "running" => c \in effects
    /\ c \in effects => ctx[c] \in Contexts

\* Every approval a cached or stored state counts is a call that has run.
Paid(st, a) == st # NoState => st.approvedCount <= Cardinality(Completed(a))

TrustPaid == \A a \in ActionTypes : Paid(trustCache[a], a) /\ Paid(trustDb[a], a)

IInv ==
  /\ TypeOK
  /\ LevelEarned
  /\ CallPhases
  /\ DecidedOnce
  /\ NoStrandedPrompt
  /\ TrustPaid
  /\ OnceApprovalsFromPeople
  /\ ApproveAllWrittenThrough

\* The step EffectsAuthorised is about.
EffectStep == \A c \in effects' \ effects : Authorised(c, ctx'[c])

------------------------------------------------------------------------------

\* What has run stays run, whatever comes after it.
LEMMA CompletedGrows ==
  ASSUME effects \subseteq effects', effects' \subseteq Calls,
         \A d \in effects : ctx'[d] = ctx[d] /\ (pc[d] = "done" => pc'[d] = "done"),
         NEW a
  PROVE  /\ Completed(a) \subseteq Completed(a)'
         /\ IsFiniteSet(Completed(a)) /\ IsFiniteSet(Completed(a)')
         /\ Cardinality(Completed(a)) \in Nat /\ Cardinality(Completed(a)') \in Nat
         /\ Cardinality(Completed(a)) <= Cardinality(Completed(a)')
<1>1. Completed(a) \subseteq Completed(a)'
  BY DEF Completed
<1>2. Completed(a)' \in SUBSET Calls
  BY DEF Completed
<1>3. IsFiniteSet(Calls)
  BY ConsentAssumption
<1>4. IsFiniteSet(Completed(a)')
  BY <1>2, <1>3, FS_Subset
<1>5. IsFiniteSet(Completed(a)) /\ Cardinality(Completed(a)) <= Cardinality(Completed(a)')
  BY <1>1, <1>4, FS_Subset
<1> QED BY <1>1, <1>4, <1>5, FS_CardinalityType

\* A step that counts no approval leaves all of them paid for.
LEMMA PaidKept ==
  ASSUME TypeOK, TrustPaid, effects \subseteq effects', effects' \subseteq Calls,
         \A d \in effects : ctx'[d] = ctx[d] /\ (pc[d] = "done" => pc'[d] = "done"),
         \/ UNCHANGED trustVars
         \/ RestartTrust
         \/ \E b \in ActionTypes : GetState(b)
         \/ \E b \in ActionTypes : \E saved \in BOOLEAN : ResetTrust(b, saved)
  PROVE  TrustPaid'
<1>1. SUFFICES ASSUME NEW a \in ActionTypes
               PROVE  Paid(trustCache[a], a)' /\ Paid(trustDb[a], a)'
  BY DEF TrustPaid
<1>2. /\ Cardinality(Completed(a)) \in Nat /\ Cardinality(Completed(a)') \in Nat
      /\ Cardinality(Completed(a)) <= Cardinality(Completed(a)')
  BY CompletedGrows
<1>3. /\ trustCache'[a] \in {trustCache[a], StateOf(a), DefaultState, NoState}
      /\ trustDb'[a] \in {trustDb[a], DefaultState}
  BY DEF TypeOK, TrustTypeOK, trustVars, RestartTrust, GetState, ResetTrust, Persist
<1>4. ASSUME NEW st \in {trustCache[a], trustDb[a], StateOf(a), DefaultState, NoState}
      PROVE  st # NoState => st \in TrustState /\ st.approvedCount <= Cardinality(Completed(a))
  <2>1. Paid(trustCache[a], a) /\ Paid(trustDb[a], a)
    BY DEF TrustPaid
  <2>2. DefaultState \in TrustState /\ DefaultState.approvedCount = 0
    BY DEF DefaultState, TrustState
  <2>3. StateOf(a) \in {trustCache[a], trustDb[a], DefaultState}
    BY DEF StateOf
  <2> QED BY <1>2, <2>1, <2>2, <2>3 DEF Paid, TypeOK, TrustTypeOK
<1>5. ASSUME NEW st \in {trustCache[a], trustDb[a], StateOf(a), DefaultState, NoState}
      PROVE  st # NoState => st.approvedCount <= Cardinality(Completed(a)')
  BY <1>2, <1>4, <1>5 DEF TrustState
<1> QED BY <1>3, <1>5 DEF Paid

------------------------------------------------------------------------------

\* Deciding any set of requests keeps the consent bookkeeping well-formed.
LEMMA DecideType ==
  ASSUME TypeOK, NEW D, NEW outcome \in ConsentStatuses, NEW logged, Decide(D, outcome, logged)
  PROVE  /\ pending' \subseteq Calls /\ waits' \subseteq Calls
         /\ decision' \in [Calls -> ConsentStatuses \cup {"none"}]
         /\ notified' \in [Calls -> Nat]
         /\ consentLog' \in [Calls -> Seq(ConsentStatuses)]
<1>1. pending' \subseteq Calls /\ waits' \subseteq Calls
  BY DEF TypeOK, Decide
<1>2. decision' \in [Calls -> ConsentStatuses \cup {"none"}]
  BY DEF TypeOK, Decide
<1>3. notified' \in [Calls -> Nat]
  BY DEF TypeOK, Decide
<1>4. consentLog' \in [Calls -> Seq(ConsentStatuses)]
  <2>1. ASSUME NEW c \in Calls PROVE Append(consentLog[c], outcome) \in Seq(ConsentStatuses)
    BY DEF TypeOK
  <2> QED BY <2>1 DEF TypeOK, Decide
<1> QED BY <1>1, <1>2, <1>3, <1>4

\* Deciding requests, with every caller left where it stands, keeps the
\* invariant: only pending requests change, each from "none" to the outcome.
LEMMA DecideKeeps ==
  ASSUME IInv, NEW D, NEW outcome \in ConsentStatuses, NEW logged, Decide(D, outcome, logged),
         UNCHANGED <<pc, ctx, effects, sessionApprovals>>
  PROVE  CallPhases' /\ DecidedOnce' /\ NoStrandedPrompt' /\ OnceApprovalsFromPeople'
<1> USE DEF IInv
<1>1. \A c \in Calls : /\ c \notin D \cap pending => /\ decision'[c] = decision[c]
                                                    /\ notified'[c] = notified[c]
                                                    /\ consentLog'[c] = consentLog[c]
                       /\ c \in D \cap pending => /\ decision[c] = "none"
                                                  /\ decision'[c] = outcome
                                                  /\ notified'[c] = 1
                                                  /\ consentLog'[c] \in {<<>>, <<outcome>>}
                                                  /\ pc[c] = "waiting"
  <2>1. SUFFICES ASSUME NEW c \in Calls, c \in D \cap pending
                 PROVE  /\ decision[c] = "none" /\ decision'[c] = outcome
                        /\ notified'[c] = 1
                        /\ consentLog'[c] \in {<<>>, <<outcome>>}
                        /\ pc[c] = "waiting"
    BY DEF Decide
  <2>2. decision[c] = "none" /\ notified[c] = 0 /\ consentLog[c] = <<>> /\ pc[c] = "waiting"
    BY <2>1 DEF DecidedOnce, NoStrandedPrompt
  <2>3. Append(consentLog[c], outcome) = <<outcome>>
    BY <2>2
  <2>4. consentLog'[c] \in {<<>>, <<outcome>>}
    BY <2>1, <2>2, <2>3 DEF Decide
  <2> QED BY <2>1, <2>2, <2>4 DEF Decide
<1>2. outcome # "none"
  BY DEF ConsentStatuses
<1>3. CallPhases'
  BY <1>1 DEF CallPhases, Decide
<1>4. DecidedOnce'
  BY <1>1, <1>2 DEF DecidedOnce, Decide
<1>5. NoStrandedPrompt'
  BY <1>1, <1>2 DEF NoStrandedPrompt, Decide
<1>6. OnceApprovalsFromPeople'
  <2>1. \A c \in effects : decision'[c] = decision[c]
    BY <1>1 DEF CallPhases, TypeOK
  <2> QED BY <2>1 DEF OnceApprovalsFromPeople
<1> QED BY <1>3, <1>4, <1>5, <1>6

------------------------------------------------------------------------------

\* The pipeline starts empty.
LEMMA InitIInv == Init => IInv
<1> SUFFICES ASSUME Init PROVE IInv
  OBVIOUS
<1> USE DEF Init
<1>1. TypeOK /\ LevelEarned
  BY DEF TypeOK, TrustInit, TrustTypeOK, LevelEarned, Earned
<1>2. CallPhases /\ DecidedOnce /\ NoStrandedPrompt
  BY DEF CallPhases, DecidedOnce, NoStrandedPrompt
<1>3. TrustPaid /\ OnceApprovalsFromPeople /\ ApproveAllWrittenThrough
  BY DEF TrustInit, TrustPaid, Paid, OnceApprovalsFromPeople, ApproveAllWrittenThrough
<1> QED BY <1>1, <1>2, <1>3 DEF IInv

\* execute(), up to its first await.
LEMMA ExecuteKeeps ==
  ASSUME IInv, NEW c \in Calls, NEW x \in Contexts,
         ExecuteReturnsEarly(c, x) \/ ExecuteAuto(c, x) \/ ExecuteAsks(c, x)
  PROVE  IInv'
<1> USE DEF IInv
<1>1. x \in Context /\ x.tool \in ActionTypes
  BY ContextsAssumption DEF Context
<1>2. TrustTypeOK' /\ LevelEarned'
  <2>1. GetState(x.tool) \/ UNCHANGED trustVars
    BY DEF ExecuteReturnsEarly, ExecuteAuto, ExecuteAsks
  <2> QED BY <1>1, <2>1, OperationsKeep DEF TypeOK
<1>a. OnceApprovalsFromPeople' /\ ApproveAllWrittenThrough'
  <2>1. /\ UNCHANGED <<sessionApprovals, approveAllVars, decision>>
        /\ effects \subseteq effects'
        /\ \A d \in effects : ctx'[d] = ctx[d]
    BY DEF ExecuteReturnsEarly, ExecuteAuto, ExecuteAsks, RequestConsent, consentVars,
           CallPhases, TypeOK
  <2>2. OnceApprovalsFromPeople'
    BY <2>1 DEF OnceApprovalsFromPeople
  <2>3. ApproveAllWrittenThrough'
    BY <2>1 DEF ApproveAllWrittenThrough, approveAllVars
  <2> QED BY <2>2, <2>3
<1>b. TrustPaid'
  <2>1. /\ effects \subseteq effects' /\ effects' \subseteq Calls
        /\ \A d \in effects : ctx'[d] = ctx[d] /\ (pc[d] = "done" => pc'[d] = "done")
    BY DEF ExecuteReturnsEarly, ExecuteAuto, ExecuteAsks, CallPhases, TypeOK
  <2>2. GetState(x.tool) \/ UNCHANGED trustVars
    BY DEF ExecuteReturnsEarly, ExecuteAuto, ExecuteAsks
  <2> QED BY <1>1, <2>1, <2>2, PaidKept
<1>3. CASE ExecuteReturnsEarly(c, x)
  <2>1. TypeOK'
    BY <1>2, <1>3 DEF TypeOK, ExecuteReturnsEarly, consentVars, approveAllVars
  <2>2. CallPhases' /\ DecidedOnce' /\ NoStrandedPrompt'
    BY <1>3 DEF TypeOK, ExecuteReturnsEarly, consentVars, CallPhases, DecidedOnce, NoStrandedPrompt
  <2> QED BY <1>2, <1>a, <1>b, <2>1, <2>2
<1>4. CASE ExecuteAuto(c, x)
  <2>1. TypeOK'
    BY <1>2, <1>4 DEF TypeOK, ExecuteAuto, consentVars, approveAllVars
  <2>2. CallPhases' /\ DecidedOnce' /\ NoStrandedPrompt'
    BY <1>4 DEF TypeOK, ExecuteAuto, consentVars, CallPhases, DecidedOnce, NoStrandedPrompt
  <2> QED BY <1>2, <1>a, <1>b, <2>1, <2>2
<1>5. CASE ExecuteAsks(c, x)
  <2>1. TypeOK'
    BY <1>2, <1>5 DEF TypeOK, ExecuteAsks, RequestConsent, approveAllVars
  <2>2. CallPhases' /\ DecidedOnce' /\ NoStrandedPrompt'
    BY <1>5 DEF TypeOK, ExecuteAsks, RequestConsent, CallPhases, DecidedOnce, NoStrandedPrompt
  <2> QED BY <1>2, <1>a, <1>b, <2>1, <2>2
<1> QED BY <1>3, <1>4, <1>5

\* The continuation after the decision, and the tool's return.
LEMMA ResumeKeeps == ASSUME IInv, NEW c \in Calls, Resume(c) PROVE IInv'
<1> USE DEF IInv, Resume, consentVars, approveAllVars
<1>1. TrustTypeOK' /\ LevelEarned'
  BY OperationsKeep DEF TypeOK
<1>2. TypeOK'
  BY <1>1 DEF TypeOK
<1>3. CallPhases' /\ DecidedOnce' /\ NoStrandedPrompt'
  BY DEF TypeOK, CallPhases, DecidedOnce, NoStrandedPrompt
<1>4. TrustPaid'
  BY PaidKept DEF TypeOK, CallPhases
<1>5. OnceApprovalsFromPeople' /\ ApproveAllWrittenThrough'
  BY DEF OnceApprovalsFromPeople, ApproveAllWrittenThrough
<1> QED BY <1>1, <1>2, <1>3, <1>4, <1>5

LEMMA FinishToolKeeps ==
  ASSUME IInv, NEW c \in Calls, NEW ok \in BOOLEAN, NEW saved \in WriteOutcomes,
         FinishTool(c, ok, saved)
  PROVE  IInv'
<1> USE DEF IInv
<1>1. c \in effects /\ ctx[c] \in Contexts /\ ctx[c] \in Context
  BY ContextsAssumption DEF FinishTool, CallPhases
<1>2. ctx[c].tool \in ActionTypes /\ ctx[c].session \in Sessions /\ saved \in BOOLEAN
  BY <1>1, ConsentAssumption DEF Context
<1>3. TrustTypeOK' /\ LevelEarned'
  BY <1>2, OperationsKeep DEF TypeOK, FinishTool
<1> DEFINE remembered == [sessionApprovals EXCEPT ![ctx[c].session] = @ \cup {ctx[c].tool}]
<1>a. \/ sessionApprovals' = sessionApprovals
      \/ /\ sessionApprovals' = remembered
         /\ decision[c] = "approved" /\ ConsentLevelOf[ctx[c].tool] = "once"
  BY DEF FinishTool
<1>b. remembered \in [Sessions -> SUBSET ActionTypes]
  BY <1>2 DEF TypeOK
<1>c. \A s \in Sessions : remembered[s] =
        IF s = ctx[c].session THEN sessionApprovals[s] \cup {ctx[c].tool} ELSE sessionApprovals[s]
  BY <1>2 DEF TypeOK
<1> HIDE DEF remembered
<1>4. sessionApprovals' \in [Sessions -> SUBSET ActionTypes]
  BY <1>a, <1>b DEF TypeOK
<1>5. TypeOK'
  BY <1>3, <1>4 DEF TypeOK, FinishTool, consentVars, approveAllVars
<1>6. CallPhases' /\ DecidedOnce' /\ NoStrandedPrompt'
  BY DEF TypeOK, FinishTool, consentVars, CallPhases, DecidedOnce, NoStrandedPrompt
<1>7. ApproveAllWrittenThrough'
  BY DEF FinishTool, approveAllVars, ApproveAllWrittenThrough
<1>d. TrustPaid'
  <2>1. /\ UNCHANGED <<ctx, effects>> /\ effects \subseteq Calls
        /\ pc[c] = "running" /\ pc' = [pc EXCEPT ![c] = "done"]
        /\ \A d \in effects : pc[d] = "done" => pc'[d] = "done"
    BY DEF FinishTool, TypeOK
  <2>2. CASE ~ok
    BY <2>1, <2>2, PaidKept DEF FinishTool
  <2>3. CASE ok
    <3> DEFINE b == ctx[c].tool
    <3>1. Persist(b, AfterApproval(StateOf(b)), saved)
      BY <2>3 DEF FinishTool, RecordApproval
    <3>2. SUFFICES ASSUME NEW a \in ActionTypes
                   PROVE  Paid(trustCache[a], a)' /\ Paid(trustDb[a], a)'
      BY DEF TrustPaid
    <3>3. /\ IsFiniteSet(Completed(a)) /\ IsFiniteSet(Completed(a)')
          /\ Cardinality(Completed(a)) \in Nat /\ Cardinality(Completed(a)') \in Nat
          /\ Cardinality(Completed(a)) <= Cardinality(Completed(a)')
      BY <2>1, CompletedGrows
    <3>4. /\ Paid(trustCache[a], a) /\ Paid(trustDb[a], a)
          /\ trustCache[a] # NoState => trustCache[a].approvedCount \in Nat
          /\ trustDb[a] # NoState => trustDb[a].approvedCount \in Nat
      BY DEF TrustPaid, TypeOK, TrustTypeOK, TrustState
    <3>5. CASE a # b
      <4>1. trustCache'[a] = trustCache[a] /\ trustDb'[a] = trustDb[a]
        BY <1>2, <3>1, <3>5 DEF Persist, TypeOK, TrustTypeOK
      <4> QED BY <3>3, <3>4, <4>1 DEF Paid
    <3>6. CASE a = b
      <4>1. Completed(a)' = Completed(a) \cup {c} /\ c \notin Completed(a)
        BY <1>1, <2>1, <3>6 DEF Completed, TypeOK
      <4>2. Cardinality(Completed(a)') = Cardinality(Completed(a)) + 1
        BY <3>3, <4>1, FS_AddElement
      <4>3. /\ StateOf(a).approvedCount \in Nat
            /\ StateOf(a).approvedCount <= Cardinality(Completed(a))
        <5>1. DefaultState.approvedCount = 0
          BY DEF DefaultState
        <5> QED BY <3>3, <3>4, <5>1 DEF StateOf, Paid
      <4>4. AfterApproval(StateOf(a)).approvedCount = StateOf(a).approvedCount + 1
        BY DEF AfterApproval
      <4>5. /\ trustCache'[a] = AfterApproval(StateOf(a))
            /\ trustDb'[a] \in {trustDb[a], AfterApproval(StateOf(a))}
        BY <1>2, <3>1, <3>6 DEF Persist, TypeOK, TrustTypeOK
      <4> HIDE DEF b
      <4> QED BY <3>3, <3>4, <4>2, <4>3, <4>4, <4>5 DEF Paid
    <3> QED BY <3>5, <3>6
  <2> QED BY <2>2, <2>3
<1>8. OnceApprovalsFromPeople'
  <2>1. SUFFICES ASSUME NEW s \in Sessions, NEW t \in sessionApprovals'[s]
                 PROVE  /\ ConsentLevelOf[t] = "once"
                        /\ \E d \in effects : /\ ctx[d].session = s
                                              /\ ctx[d].tool = t
                                              /\ decision[d] = "approved"
    BY DEF OnceApprovalsFromPeople, FinishTool, consentVars
  <2>2. CASE t \in sessionApprovals[s]
    BY <2>2 DEF OnceApprovalsFromPeople
  <2>3. CASE t \notin sessionApprovals[s]
    <3>1. /\ decision[c] = "approved" /\ ConsentLevelOf[ctx[c].tool] = "once"
          /\ s = ctx[c].session /\ t = ctx[c].tool
      BY <1>a, <1>c, <2>1, <2>3
    <3> QED BY <1>1, <3>1
  <2> QED BY <2>2, <2>3
<1> QED BY <1>3, <1>5, <1>6, <1>7, <1>8, <1>d

LEMMA AbortKeeps == ASSUME IInv, NEW c \in Calls, Abort(c) PROVE IInv'
<1> USE DEF IInv, Abort, consentVars, approveAllVars
<1>1. TrustTypeOK' /\ LevelEarned'
  BY OperationsKeep DEF TypeOK
<1>2. TypeOK'
  BY <1>1 DEF TypeOK
<1>3. CallPhases' /\ DecidedOnce' /\ NoStrandedPrompt'
  BY DEF CallPhases, DecidedOnce, NoStrandedPrompt
<1>4. OnceApprovalsFromPeople' /\ ApproveAllWrittenThrough'
  BY DEF OnceApprovalsFromPeople, ApproveAllWrittenThrough
<1>5. TrustPaid'
  BY PaidKept DEF TypeOK
<1> QED BY <1>1, <1>2, <1>3, <1>4, <1>5

\* A person answers one request, or all that are pending in a chat; the timer
\* fires; shutdown cancels everything.
LEMMA AnswerKeeps ==
  ASSUME IInv, NEW c \in Calls, NEW outcome \in ConsentStatuses, NEW logged \in LogOutcomes,
         \/ Answer(c, outcome, logged) \/ ApproveChat(c, logged)
         \/ Timeout(c, logged) \/ CancelAll(logged)
  PROVE  IInv'
<1> USE DEF IInv
<1>1. PICK D \in SUBSET Calls, v \in ConsentStatuses : Decide(D, v, logged)
  <2>1. SessionRequests(ctx[c].session) \in SUBSET Calls /\ pending \in SUBSET Calls
    BY DEF SessionRequests, TypeOK
  <2> QED BY <2>1 DEF Answer, ApproveChat, Timeout, CancelAll, ConsentStatuses
<1>2. UNCHANGED <<pc, ctx, aborted, effects, sessionApprovals, approveAllVars, trustVars>>
  BY DEF Answer, ApproveChat, Timeout, CancelAll
<1>3. TrustTypeOK' /\ LevelEarned'
  BY <1>2, OperationsKeep DEF TypeOK
<1>4. TypeOK'
  BY <1>1, <1>2, <1>3, DecideType DEF TypeOK, approveAllVars
<1>5. CallPhases' /\ DecidedOnce' /\ NoStrandedPrompt' /\ OnceApprovalsFromPeople'
  BY <1>1, <1>2, DecideKeeps
<1>6. ApproveAllWrittenThrough'
  BY <1>2 DEF ApproveAllWrittenThrough, approveAllVars
<1>7. TrustPaid'
  BY <1>2, PaidKept DEF TypeOK
<1> QED BY <1>3, <1>4, <1>5, <1>6, <1>7

\* Approve-all mode is switched on (which also answers what is pending) or off.
LEMMA ApproveAllKeeps ==
  ASSUME IInv, NEW s \in Sessions, NEW saved \in WriteOutcomes, NEW logged \in LogOutcomes,
         EnableApproveAll(s, saved, logged) \/ DisableApproveAll(s, saved)
  PROVE  IInv'
<1> USE DEF IInv
<1>1. UNCHANGED <<pc, ctx, aborted, effects, sessionApprovals, trustVars>>
  BY DEF EnableApproveAll, DisableApproveAll
<1>2. TrustTypeOK' /\ LevelEarned'
  BY <1>1, OperationsKeep DEF TypeOK
<1>a. TrustPaid'
  BY <1>1, PaidKept DEF TypeOK
<1>3. CASE EnableApproveAll(s, saved, logged)
  <2>1. Decide(SessionRequests(s), "approved", logged) /\ "approved" \in ConsentStatuses
    BY <1>3 DEF EnableApproveAll, ConsentStatuses
  <2>2. TypeOK'
    BY <1>1, <1>2, <1>3, <2>1, DecideType DEF TypeOK, EnableApproveAll, PersistApproveAll
  <2>3. CallPhases' /\ DecidedOnce' /\ NoStrandedPrompt' /\ OnceApprovalsFromPeople'
    BY <1>1, <2>1, DecideKeeps
  <2>4. ApproveAllWrittenThrough'
    BY <1>3 DEF ApproveAllWrittenThrough, EnableApproveAll, PersistApproveAll
  <2> QED BY <1>2, <1>a, <2>2, <2>3, <2>4
<1>4. CASE DisableApproveAll(s, saved)
  <2> USE <1>4 DEF DisableApproveAll, consentVars
  <2>1. TypeOK'
    BY <1>1, <1>2 DEF TypeOK, PersistApproveAll
  <2>2. CallPhases' /\ DecidedOnce' /\ NoStrandedPrompt'
    BY DEF CallPhases, DecidedOnce, NoStrandedPrompt
  <2>3. OnceApprovalsFromPeople'
    BY DEF OnceApprovalsFromPeople
  <2>4. ApproveAllWrittenThrough'
    BY DEF ApproveAllWrittenThrough, PersistApproveAll
  <2> QED BY <1>2, <1>a, <2>1, <2>2, <2>3, <2>4
<1> QED BY <1>3, <1>4

\* The process restarts, or an operator resets a tool's trust.
LEMMA RestartKeeps == ASSUME IInv, Restart PROVE IInv'
<1> USE DEF IInv, Restart
<1>1. TrustTypeOK' /\ LevelEarned'
  BY OperationsKeep DEF TypeOK
<1>2. TypeOK'
  BY <1>1 DEF TypeOK
<1>3. CallPhases' /\ DecidedOnce' /\ NoStrandedPrompt'
  BY DEF TypeOK, CallPhases, DecidedOnce, NoStrandedPrompt
<1>4. TrustPaid'
  BY PaidKept DEF TypeOK
<1>5. OnceApprovalsFromPeople' /\ ApproveAllWrittenThrough'
  BY DEF OnceApprovalsFromPeople, ApproveAllWrittenThrough
<1> QED BY <1>1, <1>2, <1>3, <1>4, <1>5

LEMMA ResetToolTrustKeeps ==
  ASSUME IInv, NEW a \in ActionTypes, NEW saved \in WriteOutcomes, ResetToolTrust(a, saved)
  PROVE  IInv'
<1> USE DEF IInv, ResetToolTrust, consentVars, approveAllVars
<1>1. TrustTypeOK' /\ LevelEarned'
  <2>1. saved \in BOOLEAN
    BY ConsentAssumption
  <2> QED BY <2>1, OperationsKeep DEF TypeOK
<1>2. TypeOK'
  BY <1>1 DEF TypeOK
<1>3. CallPhases' /\ DecidedOnce' /\ NoStrandedPrompt'
  BY DEF CallPhases, DecidedOnce, NoStrandedPrompt
<1>4. OnceApprovalsFromPeople' /\ ApproveAllWrittenThrough'
  BY DEF OnceApprovalsFromPeople, ApproveAllWrittenThrough
<1>5. TrustPaid'
  <2>1. saved \in BOOLEAN
    BY ConsentAssumption
  <2> QED BY <2>1, PaidKept DEF TypeOK
<1> QED BY <1>1, <1>2, <1>3, <1>4, <1>5

\* Every step of the pipeline keeps the invariant.
LEMMA NextKeeps == IInv /\ [Next]_vars => IInv'
<1> SUFFICES ASSUME IInv, [Next]_vars PROVE IInv'
  OBVIOUS
<1>1. ASSUME NEW c \in Calls, NEW x \in Contexts,
             ExecuteReturnsEarly(c, x) \/ ExecuteAuto(c, x) \/ ExecuteAsks(c, x)
      PROVE  IInv'
  BY <1>1, ExecuteKeeps
<1>2. ASSUME NEW c \in Calls, Resume(c) PROVE IInv'
  BY <1>2, ResumeKeeps
<1>3. ASSUME NEW c \in Calls, NEW ok \in BOOLEAN, NEW saved \in WriteOutcomes,
             FinishTool(c, ok, saved)
      PROVE  IInv'
  BY <1>3, FinishToolKeeps
<1>4. ASSUME NEW c \in Calls, Abort(c) PROVE IInv'
  BY <1>4, AbortKeeps
<1>5. ASSUME NEW c \in Calls, NEW outcome \in ConsentStatuses, NEW logged \in LogOutcomes,
             Answer(c, outcome, logged)
      PROVE  IInv'
  BY <1>5, AnswerKeeps
<1>6. ASSUME NEW c \in Calls, NEW logged \in LogOutcomes, ApproveChat(c, logged) PROVE IInv'
  BY <1>6, AnswerKeeps DEF ConsentStatuses
<1>7. ASSUME NEW c \in Calls, NEW logged \in LogOutcomes, Timeout(c, logged) PROVE IInv'
  BY <1>7, AnswerKeeps DEF ConsentStatuses
<1>8. ASSUME NEW s \in Sessions, NEW saved \in WriteOutcomes, NEW logged \in LogOutcomes,
             EnableApproveAll(s, saved, logged)
      PROVE  IInv'
  BY <1>8, ApproveAllKeeps
<1>9. ASSUME NEW s \in Sessions, NEW saved \in WriteOutcomes, DisableApproveAll(s, saved)
      PROVE  IInv'
  <2>1. Calls \in LogOutcomes
    BY DEF LogOutcomes
  <2> QED BY <1>9, <2>1, ApproveAllKeeps
<1>10. ASSUME NEW logged \in LogOutcomes, CancelAll(logged) PROVE IInv'
  <2>1. PICK c \in Calls : TRUE
    BY <1>10 DEF CancelAll, IInv, TypeOK
  <2> QED BY <1>10, <2>1, AnswerKeeps DEF ConsentStatuses
<1>11. ASSUME NEW a \in ActionTypes, NEW saved \in WriteOutcomes, ResetToolTrust(a, saved)
       PROVE  IInv'
  BY <1>11, ResetToolTrustKeeps
<1>12. CASE Restart
  BY <1>12, RestartKeeps
<1>13. CASE UNCHANGED vars
  <2> USE <1>13 DEF vars, consentVars, approveAllVars, IInv
  <2>1. TrustTypeOK' /\ LevelEarned'
    BY OperationsKeep DEF TypeOK
  <2>2. TypeOK' /\ CallPhases' /\ DecidedOnce' /\ NoStrandedPrompt'
    BY <2>1 DEF TypeOK, CallPhases, DecidedOnce, NoStrandedPrompt
  <2>3. OnceApprovalsFromPeople' /\ ApproveAllWrittenThrough'
    BY DEF OnceApprovalsFromPeople, ApproveAllWrittenThrough
  <2>4. TrustPaid'
    BY PaidKept DEF TypeOK
  <2> QED BY <2>1, <2>2, <2>3, <2>4
<1> QED BY <1>1, <1>2, <1>3, <1>4, <1>5, <1>6, <1>7, <1>8, <1>9, <1>10, <1>11, <1>12, <1>13
        DEF Next

\* The inductive invariant holds throughout.
LEMMA Invariance == Spec => []IInv
  BY InitIInv, NextKeeps, PTL DEF Spec

\* The state of the pipeline is well-formed.
THEOREM ConsentTypes == Spec => []TypeOK
  BY Invariance, PTL DEF IInv

\* However answers, timeouts, bulk approvals, shutdown and restarts race, a
\* request is decided at most once.
THEOREM RequestsDecidedOnce == Spec => []DecidedOnce
  BY Invariance, PTL DEF IInv

\* ... and nobody waits for a request that is gone, nor does its card outlive it.
THEOREM NobodyIsStranded == Spec => []NoStrandedPrompt
  BY Invariance, PTL DEF IInv

\* A level above 0 is worth as many completed calls as its threshold.
LEMMA TrustIsEarned ==
  ASSUME IInv, NEW a \in ActionTypes
  PROVE  /\ Level(a) \in 0..3
         /\ Level(a) >= 2 => Cardinality(Completed(a)) >= Threshold2
         /\ Level(a) >= 3 => Cardinality(Completed(a)) >= Threshold3
<1> DEFINE st == StateOf(a)
<1>1. st \in TrustState /\ st.currentLevel <= ComputeLevel(st.approvedCount)
  BY StateOfType, StateOfEarned, NoStateAssumption DEF IInv, TypeOK, Earned
<1>2. Cardinality(Completed(a)) \in Nat
  <2>1. Completed(a) \in SUBSET Calls
    BY DEF Completed, IInv, TypeOK
  <2>2. IsFiniteSet(Completed(a))
    BY <2>1, ConsentAssumption, FS_Subset
  <2> QED BY <2>2, FS_CardinalityType
<1>3. st.approvedCount <= Cardinality(Completed(a))
  <2>1. DefaultState.approvedCount = 0
    BY DEF DefaultState
  <2> QED BY <1>2, <2>1 DEF IInv, TrustPaid, Paid, StateOf
<1>4. st.approvedCount \in Nat /\ st.currentLevel \in 0..3
  BY <1>1 DEF TrustState
<1>5. Level(a) = st.currentLevel
  BY DEF Level
<1> HIDE DEF st
<1> QED BY <1>1, <1>2, <1>3, <1>4, <1>5, ThresholdAssumption DEF ComputeLevel

\* No tool starts without the authority it needs at that moment.
THEOREM NoUnauthorisedEffect == Spec => EffectsAuthorised
<1>1. IInv /\ [Next]_vars => [EffectStep]_vars
  <2> SUFFICES ASSUME IInv, Next, NEW c \in effects' \ effects
               PROVE  Authorised(c, ctx'[c])
    BY DEF EffectStep
  <2>1. c \in Calls /\ ((\E x \in Contexts : ExecuteAuto(c, x)) \/ Resume(c))
    <3>1. /\ \A d \in Calls, x \in Contexts :
               ExecuteReturnsEarly(d, x) \/ ExecuteAsks(d, x) => UNCHANGED effects
          /\ \A d \in Calls, ok \in BOOLEAN, saved \in WriteOutcomes :
               FinishTool(d, ok, saved) => UNCHANGED effects
          /\ \A d \in Calls : Abort(d) => UNCHANGED effects
      BY DEF ExecuteReturnsEarly, ExecuteAsks, FinishTool, Abort
    <3>2. /\ \A d \in Calls, outcome \in ConsentStatuses, logged \in LogOutcomes :
               Answer(d, outcome, logged) => UNCHANGED effects
          /\ \A d \in Calls, logged \in LogOutcomes :
               ApproveChat(d, logged) \/ Timeout(d, logged) => UNCHANGED effects
          /\ \A logged \in LogOutcomes : CancelAll(logged) => UNCHANGED effects
      BY DEF Answer, ApproveChat, Timeout, CancelAll
    <3>3. /\ \A s \in Sessions, saved \in WriteOutcomes, logged \in LogOutcomes :
               EnableApproveAll(s, saved, logged) => UNCHANGED effects
          /\ \A s \in Sessions, saved \in WriteOutcomes :
               DisableApproveAll(s, saved) => UNCHANGED effects
          /\ \A a \in ActionTypes, saved \in WriteOutcomes :
               ResetToolTrust(a, saved) => UNCHANGED effects
          /\ Restart => UNCHANGED effects
      BY DEF EnableApproveAll, DisableApproveAll, ResetToolTrust, Restart
    <3>4. ~UNCHANGED effects
      OBVIOUS
    <3>5. \/ \E d \in Calls, x \in Contexts : ExecuteAuto(d, x)
          \/ \E d \in Calls : Resume(d)
      BY <3>1, <3>2, <3>3, <3>4, Zenon DEF Next
    <3>6. PICK d \in Calls : (\E x \in Contexts : ExecuteAuto(d, x)) \/ Resume(d)
      BY <3>5
    <3>7. effects' \subseteq effects \cup {d}
      BY <3>6 DEF ExecuteAuto, Resume
    <3> QED BY <3>6, <3>7
  <2>2. c \in Calls
    BY <2>1
  <2>3. ASSUME NEW x \in Contexts, ExecuteAuto(c, x) PROVE Authorised(c, ctx'[c])
    <3>1. ctx'[c] = x /\ ~x.blocked /\ decision[c] = "none"
      BY <2>2, <2>3 DEF ExecuteAuto, IInv, TypeOK, CallPhases
    <3>2. /\ x \in Context /\ x.tool \in ActionTypes /\ x.session \in Sessions
          /\ ConsentLevelOf[x.tool] \in {"none", "once", "always", "dangerous"}
      BY ContextsAssumption, ConsentAssumption DEF Context, ConsentLevels
    <3>3. \/ FullAccess(x)
          \/ ~NeedsConsent(x)
          \/ ~x.irreversible /\ (x.session \in approveAll \/ x.scheduler)
      BY <2>3 DEF ExecuteAuto, AutoExecutes
    <3>4. CASE FullAccess(x) \/ (~x.irreversible /\ (x.session \in approveAll \/ x.scheduler))
      BY <3>1, <3>4 DEF Authorised
    <3>5. CASE ~NeedsConsent(x)
      <4>1. /\ Level(x.tool) \in 0..3
            /\ Level(x.tool) >= 2 => Cardinality(Completed(x.tool)) >= Threshold2
            /\ Level(x.tool) >= 3 => Cardinality(Completed(x.tool)) >= Threshold3
        BY <3>2, TrustIsEarned
      <4>2. /\ ~x.irreversible
            /\ ConsentLevelOf[x.tool] = "once" =>
                 x.tool \in sessionApprovals[x.session] \/ Level(x.tool) >= 2
            /\ ConsentLevelOf[x.tool] = "always" => Level(x.tool) >= 3
            /\ ConsentLevelOf[x.tool] # "dangerous"
        BY <3>5, <4>1 DEF NeedsConsent, RequiresConsent
      <4>3. x.tool \in sessionApprovals[x.session] =>
              \E d \in effects : /\ decision[d] = "approved"
                                 /\ ctx[d].session = x.session
                                 /\ ctx[d].tool = x.tool
        BY <3>2 DEF IInv, OnceApprovalsFromPeople
      <4> QED BY <3>1, <3>2, <4>1, <4>2, <4>3, Zenon DEF Authorised
    <3> QED BY <3>3, <3>4, <3>5
  <2>4. CASE Resume(c)
    BY <2>2, <2>4 DEF Resume, Authorised, IInv, CallPhases
  <2> QED BY <2>1, <2>3, <2>4
<1>2. Spec => [][EffectStep]_vars
  BY <1>1, Invariance, PTL DEF Spec
<1> QED BY <1>2 DEF EffectsAuthorised, EffectStep

\* A chat remembers an ask-once tool only from a person's approval of it in that chat.
THEOREM PeopleApproveOnce == Spec => []OnceApprovalsFromPeople
  BY Invariance, PTL DEF IInv

\* A cancelled call starts no tool and raises no prompt.
THEOREM AbortIsFinal == Spec => AbortStopsCalls
<1>1. IInv /\ [Next]_vars =>
        [\A c \in aborted : c \notin effects' \ effects /\ c \notin pending' \ pending]_vars
  <2> SUFFICES ASSUME IInv, Next, NEW c \in aborted
               PROVE  c \notin effects' \ effects /\ c \notin pending' \ pending
    OBVIOUS
  <2> QED BY DEF Next, ExecuteReturnsEarly, ExecuteAuto, ExecuteAsks, RequestConsent, Resume,
       FinishTool, Abort, Answer, ApproveChat, Timeout, EnableApproveAll, DisableApproveAll,
       CancelAll, ResetToolTrust, Restart, Decide, consentVars
<1> QED BY <1>1, Invariance, PTL DEF Spec, AbortStopsCalls

\* Reading a level fills the cache or changes nothing: a step of the engine.
LEMMA ReadIsTrustStep ==
  ASSUME TrustTypeOK, NEW a \in ActionTypes, GetState(a)
  PROVE  [TrustNext]_trustVars
<1>1. CASE trustCache[a] = NoState
  BY <1>1 DEF TrustNext
<1>2. CASE trustCache[a] # NoState
  BY <1>2 DEF GetState, StateOf, TrustTypeOK, trustVars
<1> QED BY <1>1, <1>2

\* The pipeline changes trust only by operations of the trust engine: every
\* behaviour of the pipeline is, on the trust variables, one of the engine's.
THEOREM ConsentImplementsTrust == Spec => TrustSpec
<1>1. Init => TrustInit
  BY DEF Init
<1>2. IInv /\ [Next]_vars => [TrustNext]_trustVars
  <2> SUFFICES ASSUME IInv, [Next]_vars PROVE [TrustNext]_trustVars
    OBVIOUS
  <2>1. ASSUME NEW c \in Calls, NEW x \in Contexts,
               ExecuteReturnsEarly(c, x) \/ ExecuteAuto(c, x) \/ ExecuteAsks(c, x)
        PROVE  [TrustNext]_trustVars
    <3>1. x.tool \in ActionTypes
      BY ContextsAssumption DEF Context
    <3>2. GetState(x.tool) \/ UNCHANGED trustVars
      BY <2>1 DEF ExecuteReturnsEarly, ExecuteAuto, ExecuteAsks
    <3> QED BY <3>1, <3>2, ReadIsTrustStep DEF IInv, TypeOK
  <2>2. ASSUME NEW c \in Calls, NEW ok \in BOOLEAN, NEW saved \in WriteOutcomes,
               FinishTool(c, ok, saved)
        PROVE  [TrustNext]_trustVars
    <3>1. ctx[c].tool \in ActionTypes /\ saved \in BOOLEAN
      BY <2>2, ContextsAssumption, ConsentAssumption DEF FinishTool, IInv, CallPhases, Context
    <3>2. RecordApproval(ctx[c].tool, saved) \/ UNCHANGED trustVars
      BY <2>2 DEF FinishTool
    <3> QED BY <3>1, <3>2 DEF TrustNext
  <2>3. ASSUME NEW a \in ActionTypes, NEW saved \in WriteOutcomes, ResetToolTrust(a, saved)
        PROVE  [TrustNext]_trustVars
    BY <2>3, ConsentAssumption DEF ResetToolTrust, TrustNext
  <2>4. CASE Restart
    BY <2>4 DEF Restart, TrustNext
  <2>5. ASSUME \/ \E c \in Calls : Resume(c) \/ Abort(c)
               \/ \E c \in Calls, outcome \in ConsentStatuses, logged \in LogOutcomes :
                    Answer(c, outcome, logged)
               \/ \E c \in Calls, logged \in LogOutcomes :
                    ApproveChat(c, logged) \/ Timeout(c, logged)
               \/ \E s \in Sessions, saved \in WriteOutcomes, logged \in LogOutcomes :
                    EnableApproveAll(s, saved, logged)
               \/ \E s \in Sessions, saved \in WriteOutcomes : DisableApproveAll(s, saved)
               \/ \E logged \in LogOutcomes : CancelAll(logged)
               \/ UNCHANGED vars
        PROVE  [TrustNext]_trustVars
    BY <2>5 DEF Resume, Abort, Answer, ApproveChat, Timeout, EnableApproveAll,
                DisableApproveAll, CancelAll, vars
  <2> QED BY <2>1, <2>2, <2>3, <2>4, <2>5 DEF Next
<1> QED BY <1>1, <1>2, Invariance, PTL DEF Spec, TrustSpec

\* What a restart reads back of both tables is what the process last held, except
\* where a write failed.  The trust table follows from the engine's own theorem.
THEOREM TablesReadBack == Spec => []RestartReadsBack
<1>1. IInv => ApproveAllWrittenThrough
  BY DEF IInv
<1>2. CacheWrittenThrough /\ ApproveAllWrittenThrough => RestartReadsBack
  BY DEF RestartReadsBack
<1> QED BY <1>1, <1>2, Invariance, ConsentImplementsTrust, TrustWrittenThrough, PTL
==============================================================================
