----------------------------- MODULE TrustEngine -----------------------------
(***************************************************************************)
(* The trust level engine (security/trust-engine.ts).                      *)
(*                                                                         *)
(* For every action type the engine keeps a TrustState in an in-memory     *)
(* cache, filled on first use from the trust_levels table and written      *)
(* through on every change.  A failed write is swallowed: the cache is the *)
(* source of truth while the process lives, the table is what the next     *)
(* process starts from.                                                    *)
(***************************************************************************)
EXTENDS Integers

CONSTANTS
  ActionTypes,      \* tool names the engine keeps a state for
  Threshold1,       \* approvals needed for level 1 (3 in the code)
  Threshold2,       \* ... for level 2 (10)
  Threshold3,       \* ... for level 3 (25)
  NoState           \* "no cache entry" and "no row"

ASSUME ThresholdAssumption ==
  /\ Threshold1 \in Nat /\ Threshold2 \in Nat /\ Threshold3 \in Nat
  /\ 0 < Threshold1 /\ Threshold1 <= Threshold2 /\ Threshold2 <= Threshold3

VARIABLES
  trustCache,       \* TrustEngine.cache: action type -> state or NoState
  trustDb,          \* trust_levels rows:  action type -> state or NoState
  trustUnsaved      \* history: action types whose last write to the table failed

trustVars == <<trustCache, trustDb, trustUnsaved>>

TrustState == [approvedCount : Nat, revertedCount : Nat, currentLevel : 0..3]

ASSUME NoStateAssumption == NoState \notin TrustState

DefaultState == [approvedCount |-> 0, revertedCount |-> 0, currentLevel |-> 0]

\* Mutant: the level is read one entry too far in LEVEL_THRESHOLDS.
ComputeLevelOffByOne(n) ==
  IF n >= Threshold3 THEN 4
  ELSE IF n >= Threshold2 THEN 3
  ELSE IF n >= Threshold1 THEN 2
  ELSE 0

\* computeLevel(approvedCount)
ComputeLevel(n) ==
  IF n >= Threshold3 THEN 3
  ELSE IF n >= Threshold2 THEN 2
  ELSE IF n >= Threshold1 THEN 1
  ELSE 0

\* What getState returns: the cached state, else the row, else level 0.
StateOf(a) ==
  IF trustCache[a] # NoState THEN trustCache[a]
  ELSE IF trustDb[a] # NoState THEN trustDb[a]
  ELSE DefaultState

Level(a) == StateOf(a).currentLevel

\* Mutant: every approval is a promotion.
AfterApprovalPromotes(st) ==
  [approvedCount |-> st.approvedCount + 1, revertedCount |-> st.revertedCount,
   currentLevel |-> IF st.currentLevel < 3 THEN st.currentLevel + 1 ELSE 3]

AfterApproval(st) ==
  LET n == st.approvedCount + 1
      l == ComputeLevel(n)
  IN [approvedCount |-> n, revertedCount |-> st.revertedCount,
      currentLevel |-> IF l > st.currentLevel THEN l ELSE st.currentLevel]

AfterRevert(st) ==
  [approvedCount |-> st.approvedCount, revertedCount |-> st.revertedCount + 1,
   currentLevel |-> IF st.currentLevel > 0 THEN st.currentLevel - 1 ELSE 0]

------------------------------------------------------------------------------

TrustInit ==
  /\ trustCache = [a \in ActionTypes |-> NoState]
  /\ trustDb = [a \in ActionTypes |-> NoState]
  /\ trustUnsaved = {}

\* persist(state): the cache always takes the new state, the row only when the
\* database accepts the write.
Persist(a, st, saved) ==
  /\ trustCache' = [trustCache EXCEPT ![a] = st]
  /\ trustDb' = IF saved THEN [trustDb EXCEPT ![a] = st] ELSE trustDb
  /\ trustUnsaved' = IF saved THEN trustUnsaved \ {a} ELSE trustUnsaved \cup {a}

\* getState / getLevel: fills the cache.
GetState(a) ==
  /\ trustCache' = [trustCache EXCEPT ![a] = StateOf(a)]
  /\ UNCHANGED <<trustDb, trustUnsaved>>

RecordApproval(a, saved) == Persist(a, AfterApproval(StateOf(a)), saved)

RecordRevert(a, saved) == Persist(a, AfterRevert(StateOf(a)), saved)

\* reset(actionType), reached from the trust route
ResetTrust(a, saved) == Persist(a, DefaultState, saved)

\* A new gateway process: the cache is empty and nothing remembers a failed
\* write, so the row is now the truth.
RestartTrust ==
  /\ trustCache' = [a \in ActionTypes |-> NoState]
  /\ trustUnsaved' = {}
  /\ UNCHANGED trustDb

TrustNext ==
  \/ \E a \in ActionTypes : trustCache[a] = NoState /\ GetState(a)
  \/ \E a \in ActionTypes, saved \in BOOLEAN : RecordApproval(a, saved)
  \/ \E a \in ActionTypes, saved \in BOOLEAN : RecordRevert(a, saved)
  \/ \E a \in ActionTypes, saved \in BOOLEAN : ResetTrust(a, saved)
  \/ RestartTrust

TrustSpec == TrustInit /\ [][TrustNext]_trustVars

------------------------------------------------------------------------------
\* Properties

\* Every cached or stored state is a well-formed TrustState.
TrustTypeOK ==
  /\ trustCache \in [ActionTypes -> TrustState \cup {NoState}]
  /\ trustDb \in [ActionTypes -> TrustState \cup {NoState}]
  /\ trustUnsaved \subseteq ActionTypes

Earned(st) == st # NoState => st.currentLevel <= ComputeLevel(st.approvedCount)

\* No state, in memory or in the table, stands at a level its approvals have
\* not paid for: reverts, resets, failed writes and restarts in any order only
\* ever leave the level at or below computeLevel(approvedCount).
LevelEarned == \A a \in ActionTypes : Earned(trustCache[a]) /\ Earned(trustDb[a])

\* Unless the last write failed, a cached state is what a restart would read
\* back ("in-memory cache is source of truth during session").
CacheWrittenThrough ==
  \A a \in ActionTypes :
    trustCache[a] # NoState /\ a \notin trustUnsaved =>
      trustCache[a] = IF trustDb[a] # NoState THEN trustDb[a] ELSE DefaultState
==============================================================================
