--------------------------- MODULE ProcessingQueue ---------------------------
(***************************************************************************)
(* The table task_processing_queue and the operations of                   *)
(* db/repositories/processing_queue_repo.py on it.  A row is a request to  *)
(* (re)process one source task.  Every operator below with a primed        *)
(* variable is one repository method as its committed effect on the table; *)
(* which transaction it belongs to, and who else holds a row lock, is the  *)
(* business of the module that calls it (ProcessingWorker).                *)
(*                                                                         *)
(* A row carries the stable_id of a task record and the id of its source   *)
(* task.  Several records can stand for one source task: a task dragged to *)
(* another list before it is adopted is not recognised there, and gets a   *)
(* second record.  Rows are superseded by source task, not by record.      *)
(*                                                                         *)
(* A row is named by its record and by its created_at.  created_at is      *)
(* now(), the start of the inserting transaction, so the rows one sync     *)
(* inserts share it.  Two rows of one record in one sync (the task changed *)
(* in one list and was then met again in the next) are one row here; they  *)
(* are asked for together, and neither supersedes the other.               *)
(*                                                                         *)
(* Time is abstract: not_before and locked_at are never compared with each *)
(* other, only with "now", so a row is either delayed or not, and a lock   *)
(* either older than STALE_LOCK_TIMEOUT_SECONDS or not.                    *)
(***************************************************************************)
EXTENDS Naturals, FiniteSets

CONSTANTS
  Tasks,       \* task records, those to come included
  Source,      \* the source task each record stands for
  MaxStamp,    \* bound: number of distinct created_at values
  MaxRetries   \* max_retries column, 3 in the code

ASSUME SourceAssumption == Source = [t \in Tasks |-> Source[t]]

ASSUME MaxStampAssumption   == MaxStamp \in Nat
ASSUME MaxRetriesAssumption == MaxRetries \in Nat \ {0}

VARIABLES
  status,      \* processing_status of each row; "absent" before its insert
  identified,  \* rows whose stable_id column is not NULL
  retries,     \* retry_count
  delayed,     \* rows whose not_before lies in the future
  expired      \* rows whose locked_at is older than the stale-lock timeout

tableVars == <<status, identified, retries, delayed, expired>>

Rows == Tasks \X (1 .. MaxStamp)

TaskOf(r)    == r[1]
CreatedAt(r) == r[2]

\* The two rows carry the same source_task_id.
SameSource(q, r) == Source[TaskOf(q)] = Source[TaskOf(r)]

ProcessingStatus ==
  {"pending", "locked", "processing", "completed", "failed", "skipped"}

TableTypeOK ==
  /\ status     \in [Rows -> ProcessingStatus \cup {"absent"}]
  /\ identified \subseteq Rows
  /\ retries    \in [Rows -> Nat]
  /\ delayed    \subseteq Rows
  /\ expired    \subseteq Rows

TableInit ==
  /\ status     = [r \in Rows |-> "absent"]
  /\ identified = {}
  /\ retries    = [r \in Rows |-> 0]
  /\ delayed    = {}
  /\ expired    = {}

\* Rows that still ask for work.
Live(r)    == status[r] \in {"pending", "locked", "processing"}
Settled(r) == status[r] \in {"completed", "failed", "skipped"}

------------------------------------------------------------------------------
(* Claiming: the two queries of claim_next.                                *)

\* Mutant: a lock is never given up.
ClaimableNoReclaim(r) == status[r] = "pending" /\ r \notin delayed

\* Mutant: retry_count decides, not the status.
ClaimableFailed(r) ==
  \/ status[r] \in {"pending", "failed"} /\ r \notin delayed
  \/ status[r] \in {"locked", "processing"} /\ r \in expired

Claimable(r) ==
  \/ status[r] = "pending" /\ r \notin delayed
  \/ status[r] \in {"locked", "processing"} /\ r \in expired

\* The rows SELECT .. ORDER BY created_at LIMIT 1 FOR UPDATE SKIP LOCKED may
\* return when the rows in hidden are locked by others or already marked
\* SKIPPED by the asking transaction.  Equal created_at is a tie.
OldestClaimable(hidden) ==
  LET open == {r \in Rows \ hidden : Claimable(r)}
  IN  {r \in open : \A q \in open : CreatedAt(r) <= CreatedAt(q)}

\* Mutant: created_at is not compared.
HasOther(r, mine) ==
  \E q \in Rows \ mine : q # r /\ SameSource(q, r) /\ status[q] = "pending"

\* Mutant: source_task_id is not compared.
HasNewerOfAnyTask(r, mine) ==
  \E q \in Rows \ mine : status[q] = "pending" /\ CreatedAt(q) > CreatedAt(r)

\* has_newer: only rows that are PENDING count, delayed or not; mine are the
\* rows this transaction has marked SKIPPED.
HasNewer(r, mine) ==
  \E q \in Rows \ mine : /\ SameSource(q, r)
                         /\ status[q] = "pending"
                         /\ CreatedAt(q) > CreatedAt(r)

------------------------------------------------------------------------------
(* Writing.                                                                *)

SetStatus(r, s) == status' = [status EXCEPT ![r] = s]

\* enqueue_by_stable_id, for the rows of one transaction
EnqueueByStableId(rows) ==
  /\ status'     = [r \in Rows |-> IF r \in rows THEN "pending" ELSE status[r]]
  /\ identified' = identified \cup rows
  /\ UNCHANGED <<retries, delayed, expired>>

\* enqueue: the row carries no stable_id
Enqueue(r) ==
  /\ SetStatus(r, "pending")
  /\ UNCHANGED <<identified, retries, delayed, expired>>

\* The commit of a claim: the older rows it passed over and the row it locks.
CommitClaim(skipped, r) ==
  /\ status' = [q \in Rows |-> IF q = r THEN "locked"
                               ELSE IF q \in skipped THEN "skipped"
                               ELSE status[q]]
  /\ expired' = expired \ (skipped \cup {r})
  /\ UNCHANGED <<identified, retries, delayed>>

\* mark_processing does not refresh locked_at
MarkProcessing(r) ==
  /\ SetStatus(r, "processing")
  /\ UNCHANGED <<identified, retries, delayed, expired>>

\* Mutant: a WorkflowStatus value in the processing_status column.
CompleteAsApplied(r) ==
  /\ SetStatus(r, "applied")
  /\ expired' = expired \ {r}
  /\ UNCHANGED <<identified, retries, delayed>>

\* complete: whatever the row's status was
Complete(r) ==
  /\ SetStatus(r, "completed")
  /\ expired' = expired \ {r}
  /\ UNCHANGED <<identified, retries, delayed>>

\* Mutant: one retry too many.
FailOneTooMany(r) ==
  /\ retries' = [retries EXCEPT ![r] = @ + 1]
  /\ SetStatus(r, IF retries[r] + 1 > MaxRetries THEN "failed" ELSE "pending")
  /\ delayed' = delayed \ {r}
  /\ expired' = expired \ {r}
  /\ UNCHANGED identified

\* fail: whatever the row's status was; the worker never passes not_before
Fail(r) ==
  /\ retries' = [retries EXCEPT ![r] = @ + 1]
  /\ SetStatus(r, IF retries[r] + 1 >= MaxRetries THEN "failed" ELSE "pending")
  /\ delayed' = delayed \ {r}
  /\ expired' = expired \ {r}
  /\ UNCHANGED identified

\* requeue_with_delay leaves retry_count alone
RequeueWithDelay(r) ==
  /\ SetStatus(r, "pending")
  /\ delayed' = delayed \cup {r}
  /\ expired' = expired \ {r}
  /\ UNCHANGED <<identified, retries>>

------------------------------------------------------------------------------
(* The passing of time, as the queries see it.                             *)

DelayElapses(r) ==
  /\ r \in delayed
  /\ delayed' = delayed \ {r}
  /\ UNCHANGED <<status, identified, retries, expired>>

LockExpires(r) ==
  /\ status[r] \in {"locked", "processing"}
  /\ r \notin expired
  /\ expired' = expired \cup {r}
  /\ UNCHANGED <<status, identified, retries, delayed>>

==============================================================================
