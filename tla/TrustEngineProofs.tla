-------------------------- MODULE TrustEngineProofs --------------------------
(***************************************************************************)
(* Proofs about the trust engine, for every set of action types and every  *)
(* choice of thresholds.                                                   *)
(***************************************************************************)
EXTENDS TrustEngine, TLAPS

\* What getState returns is always a well-formed state.
LEMMA StateOfType ==
  ASSUME TrustTypeOK, NEW a \in ActionTypes
  PROVE  StateOf(a) \in TrustState
  BY DEF TrustTypeOK, StateOf, DefaultState, TrustState

\* ... and stands at a level it has earned.
LEMMA StateOfEarned ==
  ASSUME LevelEarned, NEW a \in ActionTypes
  PROVE  Earned(StateOf(a))
  BY ThresholdAssumption DEF LevelEarned, Earned, StateOf, DefaultState, ComputeLevel

\* recordApproval and recordRevert map well-formed states to well-formed ones.
LEMMA UpdateType ==
  ASSUME NEW st \in TrustState
  PROVE  /\ AfterApproval(st) \in TrustState
         /\ AfterRevert(st) \in TrustState
         /\ DefaultState \in TrustState
<1>1. ComputeLevel(st.approvedCount + 1) \in 0..3
  BY DEF ComputeLevel
<1>2. AfterApproval(st) \in TrustState
  BY <1>1 DEF TrustState, AfterApproval
<1>3. AfterRevert(st) \in TrustState
  BY DEF TrustState, AfterRevert
<1>4. DefaultState \in TrustState
  BY DEF TrustState, DefaultState
<1> QED BY <1>2, <1>3, <1>4

\* They also keep the level paid for: one more approval never lowers
\* computeLevel, and a revert leaves the approvals alone.
LEMMA UpdateEarned ==
  ASSUME NEW st \in TrustState, Earned(st)
  PROVE  /\ Earned(AfterApproval(st))
         /\ Earned(AfterRevert(st))
         /\ Earned(DefaultState)
<1> USE ThresholdAssumption, NoStateAssumption
<1>1. st.currentLevel <= ComputeLevel(st.approvedCount)
  BY DEF Earned
<1>2. Earned(AfterApproval(st))
  <2>1. ComputeLevel(st.approvedCount) <= ComputeLevel(st.approvedCount + 1)
    BY DEF TrustState, ComputeLevel
  <2>2. ComputeLevel(st.approvedCount) \in 0..3 /\ ComputeLevel(st.approvedCount + 1) \in 0..3
    BY DEF ComputeLevel
  <2> QED BY <1>1, <2>1, <2>2 DEF TrustState, AfterApproval, Earned
<1>3. Earned(AfterRevert(st))
  <2>1. ComputeLevel(st.approvedCount) \in 0..3
    BY DEF ComputeLevel
  <2> QED BY <1>1, <2>1 DEF TrustState, AfterRevert, Earned
<1>4. Earned(DefaultState)
  BY DEF DefaultState, Earned, ComputeLevel
<1> QED BY <1>2, <1>3, <1>4

\* Writing a good state through keeps both parts of the invariant.
LEMMA PersistKeeps ==
  ASSUME TrustTypeOK, LevelEarned,
         NEW a \in ActionTypes, NEW st \in TrustState, Earned(st), NEW saved \in BOOLEAN,
         Persist(a, st, saved)
  PROVE  TrustTypeOK' /\ LevelEarned'
<1>1. TrustTypeOK'
  BY DEF TrustTypeOK, Persist
<1>2. LevelEarned'
  <2>1. ASSUME NEW b \in ActionTypes PROVE Earned(trustCache'[b]) /\ Earned(trustDb'[b])
    BY <2>1 DEF TrustTypeOK, LevelEarned, Persist
  <2> QED BY <2>1 DEF LevelEarned, Earned
<1> QED BY <1>1, <1>2

\* Every operation of the engine keeps the invariant.  The consent pipeline,
\* which performs these operations inside its own actions, cites these facts.
LEMMA OperationsKeep ==
  ASSUME TrustTypeOK, LevelEarned
  PROVE  /\ \A a \in ActionTypes : GetState(a) => TrustTypeOK' /\ LevelEarned'
         /\ \A a \in ActionTypes, saved \in BOOLEAN :
              RecordApproval(a, saved) \/ RecordRevert(a, saved) \/ ResetTrust(a, saved) =>
                TrustTypeOK' /\ LevelEarned'
         /\ RestartTrust => TrustTypeOK' /\ LevelEarned'
         /\ UNCHANGED trustVars => TrustTypeOK' /\ LevelEarned'
<1>1. ASSUME NEW a \in ActionTypes, GetState(a) PROVE TrustTypeOK' /\ LevelEarned'
  <2>1. StateOf(a) \in TrustState /\ Earned(StateOf(a))
    BY StateOfType, StateOfEarned
  <2>2. TrustTypeOK'
    BY <1>1, <2>1 DEF GetState, TrustTypeOK
  <2>3. ASSUME NEW b \in ActionTypes PROVE Earned(trustCache'[b]) /\ Earned(trustDb'[b])
    BY <1>1, <2>1 DEF GetState, TrustTypeOK, LevelEarned
  <2> QED BY <2>2, <2>3 DEF LevelEarned, Earned
<1>2. ASSUME NEW a \in ActionTypes, NEW saved \in BOOLEAN,
             RecordApproval(a, saved) \/ RecordRevert(a, saved) \/ ResetTrust(a, saved)
      PROVE  TrustTypeOK' /\ LevelEarned'
  <2> DEFINE st == StateOf(a)
  <2>1. st \in TrustState /\ Earned(st)
    BY StateOfType, StateOfEarned
  <2>2. /\ AfterApproval(st) \in TrustState /\ Earned(AfterApproval(st))
        /\ AfterRevert(st) \in TrustState /\ Earned(AfterRevert(st))
        /\ DefaultState \in TrustState /\ Earned(DefaultState)
    BY <2>1, UpdateType, UpdateEarned
  <2> HIDE DEF st
  <2>3. CASE RecordApproval(a, saved)
    BY <2>2, <2>3, PersistKeeps DEF RecordApproval, st
  <2>4. CASE RecordRevert(a, saved)
    BY <2>2, <2>4, PersistKeeps DEF RecordRevert, st
  <2>5. CASE ResetTrust(a, saved)
    BY <2>2, <2>5, PersistKeeps DEF ResetTrust
  <2> QED BY <1>2, <2>3, <2>4, <2>5
<1>3. ASSUME RestartTrust PROVE TrustTypeOK' /\ LevelEarned'
  BY <1>3 DEF RestartTrust, TrustTypeOK, LevelEarned, Earned
<1>4. ASSUME UNCHANGED trustVars PROVE TrustTypeOK' /\ LevelEarned'
  BY <1>4 DEF trustVars, TrustTypeOK, LevelEarned, Earned
<1> QED BY <1>1, <1>2, <1>3, <1>4

\* For every set of tools and all thresholds, states stay well-formed and no
\* level is ever held that the approvals have not paid for.
THEOREM TrustSafety == TrustSpec => [](TrustTypeOK /\ LevelEarned)
<1>1. TrustInit => TrustTypeOK /\ LevelEarned
  BY DEF TrustInit, TrustTypeOK, LevelEarned, Earned
<1>2. TrustTypeOK /\ LevelEarned /\ [TrustNext]_trustVars => (TrustTypeOK /\ LevelEarned)'
  <2> SUFFICES ASSUME TrustTypeOK, LevelEarned, [TrustNext]_trustVars
               PROVE  TrustTypeOK' /\ LevelEarned'
    OBVIOUS
  <2>1. ASSUME NEW a \in ActionTypes, trustCache[a] = NoState /\ GetState(a)
        PROVE  TrustTypeOK' /\ LevelEarned'
    BY <2>1, OperationsKeep
  <2>2. ASSUME NEW a \in ActionTypes, NEW saved \in BOOLEAN,
               RecordApproval(a, saved) \/ RecordRevert(a, saved) \/ ResetTrust(a, saved)
        PROVE  TrustTypeOK' /\ LevelEarned'
    BY <2>2, OperationsKeep
  <2>3. CASE RestartTrust
    BY <2>3, OperationsKeep
  <2>4. CASE UNCHANGED trustVars
    BY <2>4, OperationsKeep
  <2> QED BY <2>1, <2>2, <2>3, <2>4 DEF TrustNext
<1> QED BY <1>1, <1>2, PTL DEF TrustSpec

\* Unless its last write failed, a cached state is the one the next process would
\* read back: no order of reads, updates, failed writes and restarts separates them.
THEOREM TrustWrittenThrough == TrustSpec => []CacheWrittenThrough
<1>1. TrustInit => CacheWrittenThrough
  BY DEF TrustInit, CacheWrittenThrough
<1>2. TrustTypeOK /\ CacheWrittenThrough /\ [TrustNext]_trustVars => CacheWrittenThrough'
  <2> SUFFICES ASSUME TrustTypeOK, CacheWrittenThrough, [TrustNext]_trustVars
               PROVE  CacheWrittenThrough'
    OBVIOUS
  <2>1. ASSUME NEW a \in ActionTypes, trustCache[a] = NoState /\ GetState(a)
        PROVE  CacheWrittenThrough'
    BY <2>1 DEF GetState, StateOf, CacheWrittenThrough, TrustTypeOK
  <2>2. ASSUME NEW a \in ActionTypes, NEW saved \in BOOLEAN, NEW st \in TrustState,
               Persist(a, st, saved)
        PROVE  CacheWrittenThrough'
    <3>1. st # NoState
      BY NoStateAssumption
    <3> QED BY <2>2, <3>1 DEF Persist, CacheWrittenThrough, TrustTypeOK
  <2>3. ASSUME NEW a \in ActionTypes, NEW saved \in BOOLEAN,
               RecordApproval(a, saved) \/ RecordRevert(a, saved) \/ ResetTrust(a, saved)
        PROVE  CacheWrittenThrough'
    <3>1. StateOf(a) \in TrustState
      BY StateOfType
    <3>2. /\ AfterApproval(StateOf(a)) \in TrustState
          /\ AfterRevert(StateOf(a)) \in TrustState
          /\ DefaultState \in TrustState
      BY <3>1, UpdateType
    <3> QED BY <2>2, <2>3, <3>2 DEF RecordApproval, RecordRevert, ResetTrust
  <2>4. CASE RestartTrust
    BY <2>4 DEF RestartTrust, CacheWrittenThrough
  <2>5. CASE UNCHANGED trustVars
    BY <2>5 DEF trustVars, CacheWrittenThrough
  <2> QED BY <2>1, <2>3, <2>4, <2>5 DEF TrustNext
<1> QED BY <1>1, <1>2, TrustSafety, PTL DEF TrustSpec
==============================================================================
