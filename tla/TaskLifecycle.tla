---------------------------- MODULE TaskLifecycle ----------------------------
(***************************************************************************)
(* What the pipeline promises of each task, without queue rows, locks and  *)
(* worker stages: requests to process the task are answered at least once, *)
(* or given up; each answer is a proposal the user can decide.             *)
(***************************************************************************)
EXTENDS Naturals

CONSTANT Tasks

VARIABLES
  requests,   \* requests of each task that are still to be answered
  proposals   \* proposals of each task that the user can still decide

vars == <<requests, proposals>>

Init ==
  /\ requests  = [t \in Tasks |-> 0]
  /\ proposals = [t \in Tasks |-> 0]

\* A sync cycle asks for every task it found new, changed or moved.
Ask(found) ==
  /\ requests' = [t \in Tasks |-> IF t \in found THEN requests[t] + 1 ELSE requests[t]]
  /\ UNCHANGED proposals

\* Requests give way to others of the same task, never to nothing.
Supersede ==
  /\ \A t \in Tasks : /\ requests'[t] <= requests[t]
                      /\ requests[t] > 0 => requests'[t] > 0
  /\ UNCHANGED proposals

\* One request is answered by one proposal, in one step.
Answer(t) ==
  /\ requests[t] > 0
  /\ requests'  = [requests  EXCEPT ![t] = @ - 1]
  /\ proposals' = [proposals EXCEPT ![t] = @ + 1]

GiveUp(t) ==
  /\ requests[t] > 0
  /\ requests' = [requests EXCEPT ![t] = @ - 1]
  /\ UNCHANGED proposals

\* An answered request is asked again: the run failed after its commit.
Redo(t) ==
  /\ requests' = [requests EXCEPT ![t] = @ + 1]
  /\ UNCHANGED proposals

Decide(t) ==
  /\ proposals[t] > 0
  /\ proposals' = [proposals EXCEPT ![t] = @ - 1]
  /\ UNCHANGED requests

Next ==
  \/ \E found \in SUBSET Tasks : Ask(found)
  \/ Supersede
  \/ \E t \in Tasks : Answer(t) \/ GiveUp(t) \/ Redo(t) \/ Decide(t)

Spec == Init /\ [][Next]_vars

==============================================================================
