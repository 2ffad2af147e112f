--------------------------- MODULE DeployContract ---------------------------
(***************************************************************************)
(* What a deployment promises to the user who pressed Deploy, with nothing *)
(* of how it is done: the provider runs the job at most once and settles   *)
(* on one outcome; the user is told once; and whoever is told an outcome   *)
(* is told the provider's own, after the provider has finished with it.    *)
(***************************************************************************)
CONSTANT Request

VARIABLES
  job,      \* job[r]: what the provider is doing about r
  outcome,  \* outcome[r]: what the provider settled on
  told      \* told[r]: what the user was told

vars == <<job, outcome, told>>

Outcome == {"success", "failed"}

Init ==
  /\ job = [r \in Request |-> "none"]
  /\ outcome = [r \in Request |-> "none"]
  /\ told = [r \in Request |-> "none"]

Accept(r) ==
  /\ job[r] = "none"
  /\ job' = [job EXCEPT ![r] = "active"]
  /\ UNCHANGED <<outcome, told>>

Settle(r) ==
  /\ job[r] = "active"
  /\ outcome[r] = "none"
  /\ \E result \in Outcome : outcome' = [outcome EXCEPT ![r] = result]
  /\ UNCHANGED <<job, told>>

\* Everything the provider does for r is over.
Close(r) ==
  /\ job[r] = "active"
  /\ outcome[r] # "none"
  /\ job' = [job EXCEPT ![r] = "closed"]
  /\ UNCHANGED <<outcome, told>>

\* The provider stops and forgets what it was doing for these requests.
Lose(lost) ==
  /\ \A r \in lost : job[r] = "active"
  /\ job' = [r \in Request |-> IF r \in lost THEN "lost" ELSE job[r]]
  /\ UNCHANGED <<outcome, told>>

TellOutcome(r) ==
  /\ told[r] = "none"
  /\ job[r] = "closed"
  /\ told' = [told EXCEPT ![r] = outcome[r]]
  /\ UNCHANGED <<job, outcome>>

\* An error says nothing of what the provider did, does or will do.
TellError(r) ==
  /\ told[r] = "none"
  /\ told' = [told EXCEPT ![r] = "error"]
  /\ UNCHANGED <<job, outcome>>

Next ==
  \/ \E r \in Request : Accept(r) \/ Settle(r) \/ Close(r) \/ TellOutcome(r) \/ TellError(r)
  \/ \E lost \in SUBSET Request : Lose(lost)

Spec == Init /\ [][Next]_vars
=============================================================================
