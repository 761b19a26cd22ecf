--------------------- MODULE ProcessingWorkerRefinement ----------------------
(***************************************************************************)
(* One worker implements TaskLifecycle.  A request is a row that carries a *)
(* stable_id and still asks for work, whether it waits, is locked, is      *)
(* being processed or is left behind by a crash.                           *)
(***************************************************************************)
EXTENDS ProcessingWorker

RequestsOf(t) == {r \in identified : TaskOf(r) = t /\ Live(r)}

Lifecycle == INSTANCE TaskLifecycle
  WITH requests  <- [t \in Tasks |-> Cardinality(RequestsOf(t))],
       proposals <- openReviews

\* Whatever crashes, rate limits, retries and superseded rows do, a request
\* goes only with a proposal in the same commit, to another request of the
\* same task, or when it has failed for good (claim_next, fail, complete and
\* the transactions of _process_entry).  The manual reprocess breaks it, and
\* so does a second record of one source task, whose requests supersede those
\* of the first.
ImplementsLifecycle == Lifecycle!Spec

==============================================================================
