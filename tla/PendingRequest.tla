--------------------------- MODULE PendingRequest ----------------------------
(***************************************************************************)
(* What the gateway promises about anything it asks a person (a question,  *)
(* a secret, an approval): a request is opened once, settled once, and     *)
(* whoever collects the outcome gets the one it was settled with.          *)
(***************************************************************************)
CONSTANTS Requests, Outcomes

VARIABLES
  outcome,    \* "unasked", "open", or how the request was settled
  received    \* the outcome its asker has received, "none" before

requestVars == <<outcome, received>>

RequestInit ==
  /\ outcome = [r \in Requests |-> "unasked"]
  /\ received = [r \in Requests |-> "none"]

Open(r) ==
  /\ outcome[r] = "unasked"
  /\ outcome' = [outcome EXCEPT ![r] = "open"]
  /\ UNCHANGED received

\* Requests that are open together may be settled together, and the askers that
\* are attached receive the outcome in the same step.
Settle(R, o) ==
  /\ \A r \in R : outcome[r] = "open"
  /\ outcome' = [r \in Requests |-> IF r \in R THEN o ELSE outcome[r]]
  /\ \E A \in SUBSET R :
       received' = [r \in Requests |-> IF r \in A THEN o ELSE received[r]]

Receive(r) ==
  /\ outcome[r] \in Outcomes
  /\ received[r] = "none"
  /\ received' = [received EXCEPT ![r] = outcome[r]]
  /\ UNCHANGED outcome

RequestNext ==
  \/ \E r \in Requests : Open(r) \/ Receive(r)
  \/ \E R \in SUBSET Requests, o \in Outcomes : Settle(R, o)

RequestSpec == RequestInit /\ [][RequestNext]_requestVars
==============================================================================
