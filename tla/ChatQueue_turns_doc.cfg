SPECIFICATION Spec
CONSTANTS
  m1 = m1
  m2 = m2
  o1 = o1
  o2 = o2
  NoMessage = NoMessage
  NoMarker = NoMarker
  Messages = {m1, m2}
  Content <- const_Content
  Holdable = {m1}
  Others = {o1, o2}
  MaxTracked = 1
  MaxRecovery = 1
  MaxSyncs = 1
  MaxCrashes = 0
CHECK_DEADLOCK FALSE
INVARIANT NeverTwoTurns
