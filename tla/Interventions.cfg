SPECIFICATION Spec
CONSTANTS
  ask = ask
  mcp = mcp
  handoff = handoff
  secret = secret
  Requests = {ask, mcp, handoff, secret}
  Kind <- MCKind
  Calls = {c1, c2, c3}
  Free = Free
INVARIANTS NobodyWaitsInVain
PROPERTIES KeepsPromise AnswerAnnounced LostOnlyToTheDeparted NotWokenTwice
