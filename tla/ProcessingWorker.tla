-------------------------- MODULE ProcessingWorker ---------------------------
(***************************************************************************)
(* The background pipeline: run_processing of                              *)
(* apps/api/workers/processing_worker.py over the processing queue, the    *)
(* workflow status (task_records.processing_status) it drives, and the     *)
(* code that feeds and drains them: the sync transaction that inserts      *)
(* rows, the admin endpoints, and the user's decisions.                    *)
(*                                                                         *)
(* One worker is the APScheduler job task_processing (max_instances = 1)   *)
(* of one process; several workers are several processes on one database   *)
(* (a rolling restart, a second replica).  A step is what happens between  *)
(* two points where another actor can interleave: a statement that takes a *)
(* row lock, or a commit.  Writes of an open transaction are not visible   *)
(* to others, so a transaction that is rolled back leaves no trace but the *)
(* locks it held while open.                                               *)
(***************************************************************************)
EXTENDS ProcessingQueue

CONSTANTS
  Workers,        \* processes that run the task_processing job
  NoRow,          \* held[w] of a worker that has no row
  BufferSize,     \* review_ready_buffer_size
  AdminActions,   \* the admin endpoints in use
  MaxCrashes,     \* bound: abandoned runs
  MaxRateLimits,  \* bound: RateLimitError raised by the LLM client
  MaxSkips,       \* bound: proposals the user skips
  MaxOverruns     \* bound: runs that outlast the stale-lock timeout

ASSUME NoRowAssumption == NoRow \notin Rows

ASSUME FiniteAssumption == IsFiniteSet(Tasks) /\ IsFiniteSet(Workers)

ASSUME AdminAssumption == AdminActions \subseteq 
  {"retry", "reclassify", "reprocess", "import"}

ASSUME BudgetAssumption ==
  /\ BufferSize \in Nat \ {0}
  /\ MaxCrashes \in Nat /\ MaxRateLimits \in Nat
  /\ MaxSkips \in Nat /\ MaxOverruns \in Nat

VARIABLES
  pc,           \* where each worker is in run_processing
  held,         \* the row a worker selected or claimed
  marked,       \* rows a worker's open claim transaction has set to SKIPPED
  workflow,     \* processing_status of each task record; "none" before it exists
  openReviews,  \* review sessions of the task that the user can still decide
  now,          \* last created_at handed out
  syncStamp,    \* start of the open sync transaction, 0 when none is open
  used          \* consumed bounds

workerVars == <<pc, held, marked>>
reviewVars == <<workflow, openReviews>>
feedVars   == <<now, syncStamp>>
vars == <<tableVars, workerVars, reviewVars, feedVars, used>>

WorkflowStatus ==
  {"pending", "processing", "awaiting_review", "applied", "failed", "discarded"}

Stage == {"idle", "select", "check", "claimed", "classifying", "sending",
          "rate_limited", "requeued", "failing"}

TypeOK ==
  /\ TableTypeOK
  /\ pc          \in [Workers -> Stage]
  /\ held        \in [Workers -> Rows \cup {NoRow}]
  /\ marked      \in [Workers -> SUBSET Rows]
  /\ workflow    \in [Tasks -> WorkflowStatus \cup {"none"}]
  /\ openReviews \in [Tasks -> Nat]
  /\ now         \in 0 .. MaxStamp
  /\ syncStamp   \in 0 .. MaxStamp
  /\ used        \in [crashes : Nat, rateLimits : Nat, skips : Nat, overruns : Nat]

Init ==
  /\ TableInit
  /\ pc          = [w \in Workers |-> "idle"]
  /\ held        = [w \in Workers |-> NoRow]
  /\ marked      = [w \in Workers |-> {}]
  /\ workflow    = [t \in Tasks |-> "none"]
  /\ openReviews = [t \in Tasks |-> 0]
  /\ now         = 0
  /\ syncStamp   = 0
  /\ used        = [crashes |-> 0, rateLimits |-> 0, skips |-> 0, overruns |-> 0]

------------------------------------------------------------------------------
(* Row locks held by open transactions.                                    *)

\* The queue rows v has locked: the row under FOR UPDATE and the rows marked
\* SKIPPED while it claims, the row it marked PROCESSING until it commits.
LockedBy(v) ==
  marked[v] \cup (IF pc[v] \in {"check", "classifying"} THEN {held[v]} ELSE {})

\* Rows that w cannot see with SKIP LOCKED, or must wait for with UPDATE.
LockedByOthers(w) == UNION {LockedBy(v) : v \in Workers \ {w}}

\* The task record is locked from update_processing_status(PROCESSING) on.
RecordLocked(t) ==
  \E v \in Workers : pc[v] = "classifying" /\ TaskOf(held[v]) = t

Goto(w, stage) == pc' = [pc EXCEPT ![w] = stage]

\* End of the run: the session is closed and the row forgotten.
Finish(w) ==
  /\ Goto(w, "idle")
  /\ held'   = [held   EXCEPT ![w] = NoRow]
  /\ marked' = [marked EXCEPT ![w] = {}]

Awaiting == {t \in Tasks : workflow[t] = "awaiting_review"}

SetWorkflow(t, s) == workflow' = [workflow EXCEPT ![t] = s]

------------------------------------------------------------------------------
(* Claiming (run_processing up to its first commit, claim_next).           *)

\* Mutant: off by one.
BufferOverfull == Cardinality(Awaiting) > BufferSize

BufferFull == Cardinality(Awaiting) >= BufferSize

BeginRun(w) ==
  /\ pc[w] = "idle"
  /\ ~BufferFull
  /\ Goto(w, "select")
  /\ UNCHANGED <<tableVars, held, marked, reviewVars, feedVars, used>>

SelectOldest(w) ==
  /\ pc[w] = "select"
  /\ \E r \in OldestClaimable(LockedByOthers(w) \cup marked[w]) :
       held' = [held EXCEPT ![w] = r]
  /\ Goto(w, "check")
  /\ UNCHANGED <<tableVars, marked, reviewVars, feedVars, used>>

\* claim_next returns None: run_processing returns without commit, and the
\* rows it had marked SKIPPED are PENDING again.
SelectNothing(w) ==
  /\ pc[w] = "select"
  /\ OldestClaimable(LockedByOthers(w) \cup marked[w]) = {}
  /\ Finish(w)
  /\ UNCHANGED <<tableVars, reviewVars, feedVars, used>>

PassOverOlder(w) ==
  /\ pc[w] = "check"
  /\ HasNewer(held[w], marked[w])
  /\ marked' = [marked EXCEPT ![w] = @ \cup {held[w]}]
  /\ held'   = [held EXCEPT ![w] = NoRow]
  /\ Goto(w, "select")
  /\ UNCHANGED <<tableVars, reviewVars, feedVars, used>>

LockRow(w) ==
  /\ pc[w] = "check"
  /\ ~HasNewer(held[w], marked[w])
  /\ CommitClaim(marked[w], held[w])
  /\ marked' = [marked EXCEPT ![w] = {}]
  /\ Goto(w, "claimed")
  /\ UNCHANGED <<held, reviewVars, feedVars, used>>

------------------------------------------------------------------------------
(* Processing (_process_entry).                                            *)

\* A row without stable_id is completed, and nothing else happens.
CompleteUnidentified(w) ==
  /\ pc[w] = "claimed"
  /\ held[w] \notin identified
  /\ held[w] \notin LockedByOthers(w)
  /\ Complete(held[w])
  /\ Finish(w)
  /\ UNCHANGED <<reviewVars, feedVars, used>>

\* Adoption, record and row set to PROCESSING: flushed, not yet committed.
StartProcessing(w) ==
  /\ pc[w] = "claimed"
  /\ held[w] \in identified
  /\ held[w] \notin LockedByOthers(w)
  /\ ~RecordLocked(TaskOf(held[w]))
  /\ Goto(w, "classifying")
  /\ UNCHANGED <<tableVars, held, marked, reviewVars, feedVars, used>>

GoogleTaskGone(w) ==
  /\ pc[w] = "classifying"
  /\ SetWorkflow(TaskOf(held[w]), "failed")
  /\ Fail(held[w])
  /\ Finish(w)
  /\ UNCHANGED <<openReviews, feedVars, used>>

\* The notes could not be patched: the failed revision is committed, and
\* with it the PROCESSING status of row and record; then the error is raised.
PatchFails(w) ==
  /\ pc[w] = "classifying"
  /\ SetWorkflow(TaskOf(held[w]), "processing")
  /\ MarkProcessing(held[w])
  /\ Goto(w, "failing")
  /\ UNCHANGED <<held, marked, openReviews, feedVars, used>>

\* Review session created, record AWAITING_REVIEW, row COMPLETED: one commit.
Propose(w) ==
  /\ pc[w] = "classifying"
  /\ SetWorkflow(TaskOf(held[w]), "awaiting_review")
  /\ openReviews' = [openReviews EXCEPT ![TaskOf(held[w])] = @ + 1]
  /\ Complete(held[w])
  /\ Goto(w, "sending")
  /\ UNCHANGED <<held, marked, feedVars, used>>

\* send_next never fails the entry: its errors are caught (module ReviewQueue).
SendReturns(w) ==
  /\ pc[w] = "sending"
  /\ Finish(w)
  /\ UNCHANGED <<tableVars, reviewVars, feedVars, used>>

\* Any other exception leaves _process_entry.  Before the commit it rolls
\* back; after it (the buffer count that follows) the row is COMPLETED.
ProcessingError(w) ==
  /\ pc[w] \in {"claimed", "classifying", "sending"}
  /\ Goto(w, "failing")
  /\ UNCHANGED <<tableVars, held, marked, reviewVars, feedVars, used>>

RateLimited(w) ==
  /\ pc[w] = "classifying"
  /\ used.rateLimits < MaxRateLimits
  /\ used' = [used EXCEPT !.rateLimits = @ + 1]
  /\ Goto(w, "rate_limited")
  /\ UNCHANGED <<tableVars, held, marked, reviewVars, feedVars>>

------------------------------------------------------------------------------
(* The exception handlers of run_processing.                               *)

Requeue(w) ==
  /\ pc[w] = "rate_limited"
  /\ held[w] \notin LockedByOthers(w)
  /\ RequeueWithDelay(held[w])
  /\ Goto(w, "requeued")
  /\ UNCHANGED <<held, marked, reviewVars, feedVars, used>>

\* The best-effort transaction after a requeue: it succeeds ..
ResetRecord(w) ==
  /\ pc[w] = "requeued"
  /\ ~RecordLocked(TaskOf(held[w]))
  /\ SetWorkflow(TaskOf(held[w]), "pending")
  /\ Finish(w)
  /\ UNCHANGED <<tableVars, openReviews, feedVars, used>>

\* .. or its error is logged and swallowed.
ResetRecordFails(w) ==
  /\ pc[w] = "requeued"
  /\ Finish(w)
  /\ UNCHANGED <<tableVars, reviewVars, feedVars, used>>

HandleFailure(w) ==
  /\ pc[w] = "failing"
  /\ held[w] \notin LockedByOthers(w)
  /\ Fail(held[w])
  /\ IF held[w] \in identified
       THEN ~RecordLocked(TaskOf(held[w])) /\ SetWorkflow(TaskOf(held[w]), "failed")
       ELSE UNCHANGED workflow
  /\ Finish(w)
  /\ UNCHANGED <<openReviews, feedVars, used>>

\* The process dies, or a handler itself raises: the open transaction is
\* rolled back and nobody remembers the row.
Abandon(w) ==
  /\ pc[w] # "idle"
  /\ used.crashes < MaxCrashes
  /\ used' = [used EXCEPT !.crashes = @ + 1]
  /\ Finish(w)
  /\ UNCHANGED <<tableVars, reviewVars, feedVars>>

------------------------------------------------------------------------------
(* The passing of time.                                                    *)

RetryDelayElapses(r) ==
  /\ DelayElapses(r)
  /\ UNCHANGED <<workerVars, reviewVars, feedVars, used>>

HeldByWorker(r) == \E w \in Workers : held[w] = r

\* The lock of a row nobody works on any more becomes reclaimable ..
OrphanLockExpires(r) ==
  /\ ~HeldByWorker(r)
  /\ LockExpires(r)
  /\ UNCHANGED <<workerVars, reviewVars, feedVars, used>>

\* .. and so does the lock of a row whose run is still going on.
RunOverruns(r) ==
  /\ HeldByWorker(r)
  /\ used.overruns < MaxOverruns
  /\ used' = [used EXCEPT !.overruns = @ + 1]
  /\ LockExpires(r)
  /\ UNCHANGED <<workerVars, reviewVars, feedVars>>

------------------------------------------------------------------------------
(* What feeds the queue.                                                   *)

\* The first statement of a sync transaction fixes created_at of its rows.
SyncBegin ==
  /\ syncStamp = 0
  /\ now < MaxStamp
  /\ now' = now + 1
  /\ syncStamp' = now + 1
  /\ UNCHANGED <<tableVars, workerVars, reviewVars, used>>

\* sync_all commits: a row for every new, changed or moved task, and a
\* PENDING record for the new ones.  It waits for records locked by a worker.
SyncCommit(found) ==
  /\ syncStamp # 0
  /\ \A t \in found : ~RecordLocked(t)
  /\ EnqueueByStableId({<<t, syncStamp>> : t \in found})
  /\ workflow' = [t \in Tasks |-> IF t \in found /\ workflow[t] = "none"
                                    THEN "pending" ELSE workflow[t]]
  /\ syncStamp' = 0
  /\ UNCHANGED <<workerVars, openReviews, now, used>>

\* An exception in sync_all rolls the whole cycle back.
SyncAborts ==
  /\ syncStamp # 0
  /\ syncStamp' = 0
  /\ UNCHANGED <<tableVars, workerVars, reviewVars, now, used>>

\* POST /tasks/processing/reprocess/{source_task_id}
AdminReprocess(t) ==
  /\ "reprocess" \in AdminActions
  /\ workflow[t] # "none"
  /\ now < MaxStamp
  /\ now' = now + 1
  /\ Enqueue(<<t, now + 1>>)
  /\ UNCHANGED <<workerVars, reviewVars, syncStamp, used>>

\* POST /tasks/{stable_id}/retry
AdminRetry(t) ==
  /\ "retry" \in AdminActions
  /\ workflow[t] = "failed"
  /\ ~RecordLocked(t)
  /\ SetWorkflow(t, "pending")
  /\ UNCHANGED <<tableVars, workerVars, openReviews, feedVars, used>>

\* POST /tasks/{stable_id}/reclassify
AdminReclassify(t) ==
  /\ "reclassify" \in AdminActions
  /\ workflow[t] # "none"
  /\ ~RecordLocked(t)
  /\ SetWorkflow(t, "pending")
  /\ UNCHANGED <<tableVars, workerVars, openReviews, feedVars, used>>

\* POST /tasks/import-from-google: a record, and no row
AdminImport(t) ==
  /\ "import" \in AdminActions
  /\ workflow[t] = "none"
  /\ SetWorkflow(t, "pending")
  /\ UNCHANGED <<tableVars, workerVars, openReviews, feedVars, used>>

------------------------------------------------------------------------------
(* What drains the buffer.  The handlers do not look at workflow.          *)

Decide(t) ==
  /\ openReviews[t] > 0
  /\ ~RecordLocked(t)
  /\ openReviews' = [openReviews EXCEPT ![t] = @ - 1]
  /\ \E s \in {"applied", "discarded"} : SetWorkflow(t, s)
  /\ UNCHANGED <<tableVars, workerVars, feedVars, used>>

SkipProposal(t) ==
  /\ openReviews[t] > 0
  /\ used.skips < MaxSkips
  /\ used' = [used EXCEPT !.skips = @ + 1]
  /\ openReviews' = [openReviews EXCEPT ![t] = @ - 1]
  /\ UNCHANGED <<tableVars, workerVars, workflow, feedVars>>

------------------------------------------------------------------------------

WorkerStep(w) ==
  \/ BeginRun(w) \/ SelectOldest(w) \/ SelectNothing(w)
  \/ PassOverOlder(w) \/ LockRow(w)
  \/ CompleteUnidentified(w) \/ StartProcessing(w) \/ GoogleTaskGone(w)
  \/ PatchFails(w) \/ Propose(w) \/ SendReturns(w)
  \/ ProcessingError(w) \/ RateLimited(w)
  \/ Requeue(w) \/ ResetRecord(w) \/ ResetRecordFails(w) \/ HandleFailure(w)

TimePasses ==
  \E r \in Rows : RetryDelayElapses(r) \/ OrphanLockExpires(r) \/ RunOverruns(r)

FeedStep ==
  \/ SyncBegin
  \/ \E found \in SUBSET Tasks : SyncCommit(found)
  \/ SyncAborts
  \/ \E t \in Tasks :
       AdminReprocess(t) \/ AdminRetry(t) \/ AdminReclassify(t) \/ AdminImport(t)

UserStep == \E t \in Tasks : Decide(t) \/ SkipProposal(t)

Next ==
  \/ \E w \in Workers : WorkerStep(w)
  \/ \E w \in Workers : Abandon(w)
  \/ TimePasses
  \/ FeedStep
  \/ UserStep

Spec == Init /\ [][Next]_vars

\* The scheduler runs the job again and again, clocks advance, and the user
\* keeps deciding proposals.  Nothing forces a sync, an admin or a skip.
Fairness ==
  /\ \A w \in Workers : WF_vars(WorkerStep(w))
  /\ \A r \in Rows : WF_vars(RetryDelayElapses(r)) /\ WF_vars(OrphanLockExpires(r))
  /\ \A t \in Tasks : WF_vars(Decide(t))

FairSpec == Spec /\ Fairness

------------------------------------------------------------------------------
(* Properties.                                                             *)

\* A row superseded by a newer one is superseded by a row that survives: the
\* newest request for a source task is never passed over, however claims of several
\* workers, their rollbacks and the sync's commits interleave (claim_next).
SupersededBySurvivor ==
  \A r \in Rows : status[r] = "skipped" =>
    \E q \in Rows : /\ SameSource(q, r)
                    /\ CreatedAt(q) > CreatedAt(r)
                    /\ status[q] \notin {"absent", "skipped"}

\* A row is FAILED exactly when its retries are used up, across retries,
\* crashes and stale reclaims (fail, claim_next).  Holds for one worker.
FailedIffExhausted ==
  \A r \in Rows : /\ retries[r] <= MaxRetries
                  /\ status[r] = "failed" <=> retries[r] = MaxRetries

\* The review buffer is exceeded by no more than the runs that passed the
\* check concurrently (run_processing checks before it claims).
BufferBound == Cardinality(Awaiting) < BufferSize + Cardinality(Workers)

\* No other record exists for the source task of record t.
OnlyRecord(t) ==
  \A u \in Tasks : u # t /\ Source[u] = Source[t] => workflow[u] = "none"

\* A record that waits for processing, and is the only one of its source task,
\* has a row that will get it processed: neither crashes, retries, rate limits
\* nor superseded rows lose it (claim_next, fail, complete, requeue_with_delay
\* and the commits of _process_entry).  It holds with one worker and without
\* admin requests: reprocess supersedes by a row that processes nothing, retry
\* and reclassify write no row, import-from-google makes a record without one.
\* Where a source task has two records, the row of the newer one supersedes the
\* row of the older, which then waits for nothing.
NoTaskStranded ==
  \A t \in Tasks : OnlyRecord(t) /\ workflow[t] \in {"pending", "processing"} =>
    \E r \in identified : TaskOf(r) = t /\ Live(r)

\* FAILED and SKIPPED rows are never touched again.  Holds for one worker.
DeadRowsStayDead ==
  [][\A r \in Rows : status[r] \in {"failed", "skipped"} => status'[r] = status[r]]_vars

\* Once the user has dealt with every proposal, the worker refills the buffer
\* again (send_next's closing comment; config.review_ready_buffer_size).
BufferRefills == (BufferFull /\ \A t \in Tasks : openReviews[t] = 0) ~> ~BufferFull

\* Every request is eventually settled, whatever crashes, rate limits and
\* failures hit it on the way.
EveryRowSettles == \A r \in Rows : status[r] = "pending" ~> Settled(r)

==============================================================================
