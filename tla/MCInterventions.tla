-------------------------- MODULE MCInterventions ---------------------------
EXTENDS Interventions

CONSTANTS ask, mcp, handoff, secret

\* One request of every kind.
MCKind == [r \in Requests |->
  CASE r = ask -> "ask" [] r = mcp -> "mcp"
    [] r = handoff -> "handoff" [] OTHER -> "secret"]
==============================================================================
