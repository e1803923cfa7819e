--------------------------- MODULE MCAgentThreads ---------------------------
(* Small instances of the agent threads.                                    *)
EXTENDS AgentThreads, TLC

CONSTANTS t1, t2, c1

AllEvents == Events
==============================================================================
