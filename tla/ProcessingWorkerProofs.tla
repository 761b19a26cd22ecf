----------------------- MODULE ProcessingWorkerProofs ------------------------
(* Theorems about ProcessingWorker, for every value of its constants.      *)
EXTENDS ProcessingWorkerRefinement, FiniteSetTheorems, TLAPS

------------------------------------------------------------------------------
(* Type correctness.  A worker past its SELECT holds a row; this is what   *)
(* makes the table updates of the handlers well typed.                     *)

HoldsRow == \A w \in Workers : pc[w] \notin {"idle", "select"} => held[w] \in Rows

TypeInv == TypeOK /\ HoldsRow

LEMMA TypeInvInit == Init => TypeInv
BY MaxStampAssumption
   DEF Init, TableInit, TypeInv, TypeOK, TableTypeOK, HoldsRow, Stage

\* The steps of the claim keep the types.
LEMMA TypeInvClaim ==
  ASSUME TypeInv, NEW w \in Workers,
         BeginRun(w) \/ SelectOldest(w) \/ SelectNothing(w)
           \/ PassOverOlder(w) \/ LockRow(w)
  PROVE  TypeInv'
<1> USE DEF TypeInv, TypeOK, HoldsRow, Stage, TableTypeOK,
            tableVars, reviewVars, feedVars
<1>1. CASE BeginRun(w)
  BY <1>1 DEF BeginRun, Goto
<1>2. CASE SelectOldest(w)
  BY <1>2 DEF SelectOldest, OldestClaimable, Goto
<1>3. CASE SelectNothing(w)
  BY <1>3 DEF SelectNothing, Finish, Goto
<1>4. CASE PassOverOlder(w)
  BY <1>4 DEF PassOverOlder, Goto
<1>5. CASE LockRow(w)
  BY <1>5 DEF LockRow, CommitClaim, ProcessingStatus, Goto
<1>6. QED
  BY <1>1, <1>2, <1>3, <1>4, <1>5

\* So do the steps that process a claimed row.
LEMMA TypeInvProcess ==
  ASSUME TypeInv, NEW w \in Workers,
         CompleteUnidentified(w) \/ StartProcessing(w) \/ GoogleTaskGone(w)
           \/ PatchFails(w) \/ Propose(w) \/ SendReturns(w)
  PROVE  TypeInv'
<1> USE DEF TypeInv, TypeOK, HoldsRow, Stage, TableTypeOK,
            tableVars, reviewVars, feedVars, ProcessingStatus, WorkflowStatus
<1>1. CASE CompleteUnidentified(w)
  BY <1>1 DEF CompleteUnidentified, Complete, SetStatus, Finish, Goto
<1>2. CASE StartProcessing(w)
  BY <1>2 DEF StartProcessing, Goto
<1>3. CASE GoogleTaskGone(w)
  <2>1. TableTypeOK'
    BY <1>3 DEF GoogleTaskGone, Fail, SetStatus
  <2>2. /\ workflow' \in [Tasks -> WorkflowStatus \cup {"none"}]
        /\ UNCHANGED <<openReviews, now, syncStamp, used>>
    BY <1>3 DEF GoogleTaskGone, SetWorkflow
  <2>3. /\ pc' \in [Workers -> Stage] /\ held' \in [Workers -> Rows \cup {NoRow}]
        /\ marked' \in [Workers -> SUBSET Rows] /\ HoldsRow'
    BY <1>3 DEF GoogleTaskGone, Finish, Goto
  <2>4. QED
    BY <2>1, <2>2, <2>3
<1>4. CASE PatchFails(w)
  BY <1>4 DEF PatchFails, SetWorkflow, MarkProcessing, SetStatus, Goto
<1>5. CASE Propose(w)
  <2>1. TableTypeOK'
    BY <1>5 DEF Propose, Complete, SetStatus
  <2>2. /\ workflow' \in [Tasks -> WorkflowStatus \cup {"none"}]
        /\ UNCHANGED <<now, syncStamp, used>>
    BY <1>5 DEF Propose, SetWorkflow
  <2>3. openReviews' \in [Tasks -> Nat]
    <3>1. openReviews' = [openReviews EXCEPT ![TaskOf(held[w])] = @ + 1]
      BY <1>5 DEF Propose
    <3>2. openReviews \in [Tasks -> Nat] /\ TaskOf(held[w]) \in Tasks
      BY <1>5 DEF Propose, TaskOf, Rows
    <3>3. openReviews[TaskOf(held[w])] + 1 \in Nat
      BY <3>2
    <3>4. QED
      BY <3>1, <3>2, <3>3
  <2>4. /\ pc' \in [Workers -> Stage] /\ UNCHANGED <<held, marked>> /\ HoldsRow'
    BY <1>5 DEF Propose, Goto
  <2>5. QED
    BY <2>1, <2>2, <2>3, <2>4
<1>6. CASE SendReturns(w)
  BY <1>6 DEF SendReturns, Finish, Goto
<1>7. QED
  BY <1>1, <1>2, <1>3, <1>4, <1>5, <1>6

\* And the steps that handle an exception, or are cut off by one.
LEMMA TypeInvHandlers ==
  ASSUME TypeInv, NEW w \in Workers,
         ProcessingError(w) \/ RateLimited(w) \/ Requeue(w) \/ ResetRecord(w)
           \/ ResetRecordFails(w) \/ HandleFailure(w) \/ Abandon(w)
  PROVE  TypeInv'
<1> USE DEF TypeInv, TypeOK, HoldsRow, Stage, TableTypeOK,
            tableVars, reviewVars, feedVars, ProcessingStatus, WorkflowStatus
<1>1. CASE ProcessingError(w)
  BY <1>1 DEF ProcessingError, Goto
<1>2. CASE RateLimited(w)
  BY <1>2 DEF RateLimited, Goto
<1>3. CASE Requeue(w)
  BY <1>3 DEF Requeue, RequeueWithDelay, SetStatus, Goto
<1>4. CASE ResetRecord(w)
  BY <1>4 DEF ResetRecord, SetWorkflow, Finish, Goto
<1>5. CASE ResetRecordFails(w)
  BY <1>5 DEF ResetRecordFails, Finish, Goto
<1>6. CASE HandleFailure(w)
  BY <1>6 DEF HandleFailure, Fail, SetStatus, SetWorkflow, Finish, Goto
<1>7. CASE Abandon(w)
  BY <1>7 DEF Abandon, Finish, Goto
<1>8. QED
  BY <1>1, <1>2, <1>3, <1>4, <1>5, <1>6, <1>7

\* And the steps of time, sync, admin and user.
LEMMA TypeInvEnvironment ==
  ASSUME TypeInv, TimePasses \/ FeedStep \/ UserStep
  PROVE  TypeInv'
<1> USE MaxStampAssumption
    DEF TypeInv, TypeOK, HoldsRow, TableTypeOK,
        tableVars, workerVars, reviewVars, feedVars, ProcessingStatus, WorkflowStatus
<1>1. CASE TimePasses
  BY <1>1 DEF TimePasses, RetryDelayElapses, OrphanLockExpires, RunOverruns,
              DelayElapses, LockExpires
<1>2. CASE SyncBegin
  BY <1>2 DEF SyncBegin
<1>3. ASSUME NEW found \in SUBSET Tasks, SyncCommit(found)
      PROVE  TypeInv'
  <2>1. {<<t, syncStamp>> : t \in found} \subseteq Rows
    BY <1>3 DEF SyncCommit, Rows
  <2>2. QED
    BY <1>3, <2>1 DEF SyncCommit, EnqueueByStableId
<1>4. CASE SyncAborts
  BY <1>4 DEF SyncAborts
<1>5. ASSUME NEW t \in Tasks, AdminReprocess(t)
      PROVE  TypeInv'
  <2>1. TableTypeOK'
    BY <1>5 DEF AdminReprocess, Enqueue, SetStatus
  <2>2. /\ UNCHANGED <<pc, held, marked, workflow, openReviews, syncStamp, used>>
        /\ now' \in 0 .. MaxStamp
    BY <1>5 DEF AdminReprocess
  <2>3. QED
    BY <2>1, <2>2
<1>6. ASSUME NEW t \in Tasks, AdminRetry(t) \/ AdminReclassify(t) \/ AdminImport(t)
      PROVE  TypeInv'
  BY <1>6 DEF AdminRetry, AdminReclassify, AdminImport, SetWorkflow
<1>7. ASSUME NEW t \in Tasks, Decide(t) \/ SkipProposal(t)
      PROVE  TypeInv'
  BY <1>7 DEF Decide, SkipProposal, SetWorkflow
<1>8. QED
  BY <1>1, <1>2, <1>3, <1>4, <1>5, <1>6, <1>7 DEF FeedStep, UserStep

LEMMA TypeInvStep == TypeInv /\ [Next]_vars => TypeInv'
<1>1. TypeInv /\ UNCHANGED vars => TypeInv'
  BY DEF TypeInv, TypeOK, HoldsRow, TableTypeOK,
         vars, tableVars, workerVars, reviewVars, feedVars
<1>2. QED
  BY <1>1, TypeInvClaim, TypeInvProcess, TypeInvHandlers, TypeInvEnvironment
     DEF Next, WorkerStep

LEMMA AlwaysTypeInv == Spec => []TypeInv
BY TypeInvInit, TypeInvStep, PTL DEF Spec

\* Type correctness of the pipeline (TypeOK), whatever the number of tasks,
\* workers, retries and created_at values.
THEOREM TypeCorrect == Spec => []TypeOK
<1>1. TypeInv => TypeOK
  BY DEF TypeInv
<1>2. QED
  BY <1>1, AlwaysTypeInv, PTL

------------------------------------------------------------------------------
(* The newest request of a task is never passed over.                      *)
(*                                                                         *)
(* SupersededBySurvivor is not inductive: the newer PENDING row a claim    *)
(* relies on may itself be marked SKIPPED in the open transaction of       *)
(* another worker.  The strengthening counts such marks as skips already   *)
(* made and asks for a newer row that nobody has skipped or marked.        *)

PassedOver(r) == status[r] = "skipped" \/ \E w \in Workers : r \in marked[w]

Survives(r) == status[r] \notin {"absent", "skipped"}
               /\ \A w \in Workers : r \notin marked[w]

SurvivorInv ==
  \A r \in Rows : PassedOver(r) =>
    \E q \in Rows : /\ SameSource(q, r)
                    /\ CreatedAt(q) > CreatedAt(r)
                    /\ Survives(q)

\* A step that passes over no further row and kills no survivor is harmless.
LEMMA SurvivorsKept ==
  ASSUME SurvivorInv,
         \A r \in Rows : PassedOver(r)' => PassedOver(r),
         \A r \in Rows : Survives(r) => Survives(r)'
  PROVE  SurvivorInv'
BY DEF SurvivorInv, SameSource, TaskOf, CreatedAt

\* The one step that passes over a row: it has seen a newer PENDING row,
\* which survives or, marked by another worker, has a newer survivor.
LEMMA SurvivorPassOver ==
  ASSUME TypeInv, SurvivorInv, NEW w \in Workers, PassOverOlder(w)
  PROVE  SurvivorInv'
<1> DEFINE h == held[w]
<1>1. h \in Rows
  BY DEF TypeInv, HoldsRow, PassOverOlder
<1>2. PICK q \in Rows : /\ SameSource(q, h)
                       /\ CreatedAt(q) > CreatedAt(h)
                       /\ Survives(q)
  <2>1. PICK p \in Rows : /\ SameSource(p, h)
                         /\ CreatedAt(p) > CreatedAt(h)
                         /\ status[p] = "pending"
    BY DEF PassOverOlder, HasNewer
  <2>2. CASE PassedOver(p)
    <3>1. PICK q \in Rows : /\ SameSource(q, p)
                           /\ CreatedAt(q) > CreatedAt(p)
                           /\ Survives(q)
      BY <2>2 DEF SurvivorInv
    <3>2. CreatedAt(q) > CreatedAt(h)
      BY <1>1, <2>1, <3>1 DEF Rows, CreatedAt
    <3>3. QED
      BY <2>1, <3>1, <3>2 DEF SameSource
  <2>3. CASE ~PassedOver(p)
    BY <2>1, <2>3 DEF PassedOver, Survives
  <2>4. QED
    BY <2>2, <2>3
<1>3. /\ UNCHANGED status
      /\ \A v \in Workers, r \in Rows : r \in marked'[v] =>
            r \in marked[v] \/ r = h
  BY DEF PassOverOlder, tableVars, TypeInv, TypeOK
<1>4. \A r \in Rows : Survives(r) /\ r # h => Survives(r)'
  BY <1>3 DEF Survives
<1>5. q # h
  BY <1>1, <1>2 DEF Rows, CreatedAt
<1>6. SUFFICES ASSUME NEW r \in Rows, PassedOver(r)'
               PROVE  \E p \in Rows : /\ SameSource(p, r)
                                     /\ CreatedAt(p) > CreatedAt(r)
                                     /\ Survives(p)'
  BY DEF SurvivorInv, SameSource, TaskOf, CreatedAt
<1>7. CASE r = h
  BY <1>2, <1>4, <1>5, <1>7
<1>8. CASE r # h
  <2>1. PassedOver(r)
    BY <1>3, <1>6, <1>8 DEF PassedOver
  <2>2. PICK p \in Rows : /\ SameSource(p, r)
                         /\ CreatedAt(p) > CreatedAt(r)
                         /\ Survives(p)
    BY <2>1 DEF SurvivorInv
  <2>3. CASE p = h
    <3>1. CreatedAt(q) > CreatedAt(r)
      BY <1>1, <1>2, <2>2, <2>3 DEF Rows, CreatedAt
    <3>2. QED
      BY <1>2, <1>4, <1>5, <2>2, <2>3, <3>1 DEF SameSource
  <2>4. CASE p # h
    BY <1>4, <2>2, <2>4
  <2>5. QED
    BY <2>3, <2>4
<1>9. QED
  BY <1>7, <1>8

\* Committing a claim turns marks into skips and locks an unmarked row.
LEMMA SurvivorLock ==
  ASSUME TypeInv, SurvivorInv, NEW w \in Workers, LockRow(w)
  PROVE  SurvivorInv'
<1> USE DEF TypeInv, TypeOK, TableTypeOK
<1>1. \A r \in Rows : PassedOver(r)' => PassedOver(r)
  BY DEF LockRow, CommitClaim, PassedOver
<1>2. \A r \in Rows : Survives(r) => Survives(r)'
  BY DEF LockRow, CommitClaim, Survives
<1>3. QED
  BY <1>1, <1>2, SurvivorsKept

\* The other steps mark nothing and turn no row into a SKIPPED one.
LEMMA SurvivorWorker ==
  ASSUME TypeInv, SurvivorInv, NEW w \in Workers,
         BeginRun(w) \/ SelectOldest(w) \/ SelectNothing(w)
           \/ CompleteUnidentified(w) \/ StartProcessing(w) \/ GoogleTaskGone(w)
           \/ PatchFails(w) \/ Propose(w) \/ SendReturns(w)
           \/ ProcessingError(w) \/ RateLimited(w) \/ Requeue(w)
           \/ ResetRecord(w) \/ ResetRecordFails(w) \/ HandleFailure(w)
           \/ Abandon(w)
  PROVE  SurvivorInv'
<1> USE DEF TypeInv, TypeOK, TableTypeOK
<1>1. \A v \in Workers : marked'[v] \subseteq marked[v]
  BY DEF tableVars, reviewVars, feedVars, Finish,
         BeginRun, SelectOldest, SelectNothing, CompleteUnidentified,
         StartProcessing, GoogleTaskGone, PatchFails, Propose, SendReturns,
         ProcessingError, RateLimited, Requeue, ResetRecord,
         ResetRecordFails, HandleFailure, Abandon
<1>2. \A r \in Rows : \/ status'[r] = status[r]
                      \/ status'[r] \notin {"absent", "skipped"}
  BY DEF tableVars, SetStatus, Complete, Fail, MarkProcessing, RequeueWithDelay,
         BeginRun, SelectOldest, SelectNothing, CompleteUnidentified,
         StartProcessing, GoogleTaskGone, PatchFails, Propose, SendReturns,
         ProcessingError, RateLimited, Requeue, ResetRecord,
         ResetRecordFails, HandleFailure, Abandon
<1>3. \A r \in Rows : PassedOver(r)' => PassedOver(r)
  BY <1>1, <1>2 DEF PassedOver
<1>4. \A r \in Rows : Survives(r) => Survives(r)'
  BY <1>1, <1>2 DEF Survives
<1>5. QED
  BY <1>3, <1>4, SurvivorsKept

LEMMA SurvivorEnvironment ==
  ASSUME TypeInv, SurvivorInv, TimePasses \/ FeedStep \/ UserStep
  PROVE  SurvivorInv'
<1> USE DEF TypeInv, TypeOK, TableTypeOK
<1>1. /\ UNCHANGED marked
      /\ \A r \in Rows : \/ status'[r] = status[r]
                         \/ status'[r] \notin {"absent", "skipped"}
  <2>1. CASE TimePasses
    BY <2>1 DEF TimePasses, RetryDelayElapses, OrphanLockExpires, RunOverruns,
                DelayElapses, LockExpires, workerVars
  <2>2. CASE FeedStep
    BY <2>2 DEF FeedStep, SyncBegin, SyncCommit, SyncAborts, AdminReprocess,
                AdminRetry, AdminReclassify, AdminImport, EnqueueByStableId, Enqueue,
                SetStatus, tableVars, workerVars
  <2>3. CASE UserStep
    BY <2>3 DEF UserStep, Decide, SkipProposal, tableVars, workerVars
  <2>4. QED
    BY <2>1, <2>2, <2>3
<1>2. \A r \in Rows : PassedOver(r)' => PassedOver(r)
  BY <1>1 DEF PassedOver
<1>3. \A r \in Rows : Survives(r) => Survives(r)'
  BY <1>1 DEF Survives
<1>4. QED
  BY <1>2, <1>3, SurvivorsKept

LEMMA SurvivorStep == TypeInv /\ SurvivorInv /\ [Next]_vars => SurvivorInv'
<1>1. SurvivorInv /\ UNCHANGED vars => SurvivorInv'
  BY DEF SurvivorInv, Survives, PassedOver, vars, tableVars, workerVars
<1>2. QED
  BY <1>1, SurvivorPassOver, SurvivorLock, SurvivorWorker, SurvivorEnvironment
     DEF Next, WorkerStep

\* A superseded row always has a newer row of its source task that is not
\* superseded (SupersededBySurvivor): for any number of workers whose claim
\* transactions interleave, commit or roll back, and any number of records of
\* one source task, no source task loses its newest request.
THEOREM NewestRequestSurvives == Spec => []SupersededBySurvivor
<1>1. Init => SurvivorInv
  BY DEF Init, TableInit, SurvivorInv, PassedOver
<1>2. SurvivorInv => SupersededBySurvivor
  BY DEF SurvivorInv, SupersededBySurvivor, PassedOver, Survives
<1>3. QED
  BY <1>1, <1>2, SurvivorStep, AlwaysTypeInv, PTL DEF Spec

------------------------------------------------------------------------------
(* Retries, for a deployment with one worker process.                      *)
(*                                                                         *)
(* With one worker the row it holds, and the rows it has marked, cannot    *)
(* have been failed, skipped or inserted behind its back, so every failure *)
(* is counted on a row that still has a retry left.                        *)

OneWorkerOnly == \A v, w \in Workers : v = w

Workable(r) == status[r] \in {"pending", "locked", "processing", "completed"}

\* Rows of transactions to come, and of the open sync, do not exist yet.
FreshInv ==
  /\ syncStamp <= now
  /\ \A r \in Rows : CreatedAt(r) > now \/ CreatedAt(r) = syncStamp => status[r] = "absent"

AliveInv ==
  \A w \in Workers :
    /\ pc[w] \notin {"idle", "select"} => Workable(held[w])
    /\ \A r \in marked[w] : Workable(r)
    /\ pc[w] \notin {"select", "check"} => marked[w] = {}

\* What sync, admin, user and time may do to a row.
KeptOrNew(r) ==
  status'[r] = status[r] \/ (status[r] = "absent" /\ status'[r] = "pending")

RetryInv == FreshInv /\ AliveInv /\ FailedIffExhausted

\* Steps of a worker that leave the table alone.
LEMMA RetryQuiet ==
  ASSUME OneWorkerOnly, TypeInv, RetryInv, NEW w \in Workers,
         BeginRun(w) \/ SelectOldest(w) \/ SelectNothing(w) \/ PassOverOlder(w)
           \/ StartProcessing(w) \/ SendReturns(w) \/ ProcessingError(w)
           \/ RateLimited(w) \/ ResetRecord(w) \/ ResetRecordFails(w) \/ Abandon(w)
  PROVE  RetryInv' /\ UNCHANGED status
<1>1. UNCHANGED <<status, retries, now, syncStamp>>
  BY DEF tableVars, feedVars, BeginRun, SelectOldest, SelectNothing, PassOverOlder,
         StartProcessing, SendReturns, ProcessingError, RateLimited, ResetRecord,
         ResetRecordFails, Abandon
<1>2. FreshInv' /\ FailedIffExhausted'
  BY <1>1 DEF RetryInv, FreshInv, FailedIffExhausted, CreatedAt
<1>3. AliveInv'
  <2> USE <1>1 DEF TypeInv, TypeOK, RetryInv, AliveInv, OneWorkerOnly, Workable
  <2>1. CASE SelectOldest(w)
    BY <2>1 DEF SelectOldest, OldestClaimable, Claimable, Goto
  <2>2. CASE PassOverOlder(w)
    BY <2>2 DEF PassOverOlder, Goto
  <2>3. CASE BeginRun(w)
    BY <2>3 DEF BeginRun, Goto
  <2>4. CASE StartProcessing(w) \/ ProcessingError(w) \/ RateLimited(w)
    BY <2>4 DEF StartProcessing, ProcessingError, RateLimited, Goto
  <2>5. CASE SelectNothing(w) \/ SendReturns(w) \/ ResetRecord(w)
             \/ ResetRecordFails(w) \/ Abandon(w)
    BY <2>5 DEF SelectNothing, SendReturns, ResetRecord, ResetRecordFails,
                Abandon, Finish, Goto
  <2>6. QED
    BY <2>1, <2>2, <2>3, <2>4, <2>5
<1>4. QED
  BY <1>1, <1>2, <1>3 DEF RetryInv

\* Committing a claim skips and locks only rows that still were workable.
LEMMA RetryLock ==
  ASSUME OneWorkerOnly, TypeInv, RetryInv, NEW w \in Workers, LockRow(w)
  PROVE  RetryInv' /\ \A r \in Rows : status[r] \in {"failed", "skipped"}
                                       => status'[r] = status[r]
<1> USE DEF TypeInv, TypeOK, TableTypeOK, RetryInv, AliveInv, Workable
<1>1. \A r \in Rows : status'[r] # status[r] =>
        /\ status[r] \in {"pending", "locked", "processing", "completed"}
        /\ status'[r] \in {"locked", "skipped"}
  BY DEF LockRow, CommitClaim
<1>2. UNCHANGED <<retries, now, syncStamp>>
  BY DEF LockRow, CommitClaim, feedVars
<1>3. FreshInv' /\ FailedIffExhausted'
  BY <1>1, <1>2 DEF FreshInv, FailedIffExhausted, CreatedAt
<1>4. AliveInv'
  BY DEF LockRow, CommitClaim, Goto, HoldsRow, OneWorkerOnly
<1>5. QED
  BY <1>1, <1>3, <1>4

\* Steps that give the held row another status but count no failure.
LEMMA RetryMove ==
  ASSUME OneWorkerOnly, TypeInv, RetryInv, NEW w \in Workers,
         CompleteUnidentified(w) \/ PatchFails(w) \/ Propose(w) \/ Requeue(w)
  PROVE  RetryInv' /\ \A r \in Rows : status[r] \in {"failed", "skipped"}
                                       => status'[r] = status[r]
<1> USE DEF TypeInv, TypeOK, TableTypeOK, RetryInv
<1>1. Workable(held[w]) /\ held[w] \in Rows /\ marked[w] = {}
  BY DEF AliveInv, HoldsRow, CompleteUnidentified, PatchFails, Propose, Requeue
<1>2. /\ \E s \in {"completed", "processing", "pending"} :
            status' = [status EXCEPT ![held[w]] = s]
      /\ UNCHANGED <<retries, now, syncStamp>>
  BY DEF CompleteUnidentified, PatchFails, Propose, Requeue, Complete,
         MarkProcessing, RequeueWithDelay, SetStatus, feedVars
<1>3. FreshInv' /\ FailedIffExhausted'
  BY <1>1, <1>2 DEF FreshInv, FailedIffExhausted, CreatedAt, Workable
<1>4. /\ held'[w] = held[w] \/ pc'[w] = "idle"
      /\ marked'[w] = {}
  BY <1>1 DEF CompleteUnidentified, PatchFails, Propose, Requeue, Finish, Goto
<1>5. AliveInv'
  BY <1>1, <1>2, <1>4 DEF AliveInv, Workable, OneWorkerOnly
<1>6. QED
  BY <1>1, <1>2, <1>3, <1>5 DEF Workable

\* Steps that count a failure.
LEMMA RetryFail ==
  ASSUME OneWorkerOnly, TypeInv, RetryInv, NEW w \in Workers,
         GoogleTaskGone(w) \/ HandleFailure(w)
  PROVE  RetryInv' /\ \A r \in Rows : status[r] \in {"failed", "skipped"}
                                       => status'[r] = status[r]
<1> USE DEF TypeInv, TypeOK, TableTypeOK, RetryInv
<1>1. Workable(held[w]) /\ held[w] \in Rows /\ marked[w] = {}
  BY DEF AliveInv, HoldsRow, GoogleTaskGone, HandleFailure
<1>2. /\ retries' = [retries EXCEPT ![held[w]] = @ + 1]
      /\ status' = [status EXCEPT ![held[w]] =
                      IF retries[held[w]] + 1 >= MaxRetries THEN "failed" ELSE "pending"]
      /\ UNCHANGED <<now, syncStamp>>
  BY DEF GoogleTaskGone, HandleFailure, Fail, SetStatus, feedVars
<1>3. /\ retries[held[w]] \in Nat /\ retries[held[w]] < MaxRetries
      /\ MaxRetries \in Nat
  BY <1>1, MaxRetriesAssumption DEF FailedIffExhausted, Workable
<1>4. FreshInv'
  BY <1>1, <1>2 DEF FreshInv, CreatedAt, Workable
<1>5. FailedIffExhausted'
  BY <1>1, <1>2, <1>3 DEF FailedIffExhausted
<1>6. pc'[w] = "idle" /\ marked'[w] = {}
  BY <1>1 DEF GoogleTaskGone, HandleFailure, Finish, Goto
<1>7. AliveInv'
  BY <1>6 DEF AliveInv, OneWorkerOnly
<1>8. QED
  BY <1>1, <1>2, <1>4, <1>5, <1>7 DEF Workable

\* New rows come from nowhere: no worker holds them, and they have no retries.
LEMMA RetryEnvironment ==
  ASSUME OneWorkerOnly, TypeInv, RetryInv, TimePasses \/ FeedStep \/ UserStep
  PROVE  RetryInv' /\ \A r \in Rows : status[r] \in {"failed", "skipped"}
                                       => status'[r] = status[r]
<1> USE MaxStampAssumption DEF TypeInv, TypeOK, TableTypeOK, RetryInv
<1>1. UNCHANGED <<pc, held, marked, retries>>
  BY DEF TimePasses, RetryDelayElapses, OrphanLockExpires, RunOverruns,
         DelayElapses, LockExpires, FeedStep, SyncBegin, SyncCommit, SyncAborts,
         AdminReprocess, AdminRetry, AdminReclassify, AdminImport, EnqueueByStableId, Enqueue,
         UserStep, Decide, SkipProposal, tableVars, workerVars
<1>2. FreshInv' /\ \A r \in Rows : KeptOrNew(r)
  <2> USE DEF FreshInv, KeptOrNew
  <2>1. CASE TimePasses
    BY <2>1 DEF TimePasses, RetryDelayElapses, OrphanLockExpires, RunOverruns,
                DelayElapses, LockExpires, feedVars, CreatedAt
  <2>2. CASE SyncBegin
    BY <2>2 DEF SyncBegin, tableVars, CreatedAt, Rows
  <2>3. CASE \E found \in SUBSET Tasks : SyncCommit(found)
    BY <2>3 DEF SyncCommit, EnqueueByStableId, CreatedAt, Rows
  <2>4. CASE SyncAborts
    BY <2>4 DEF SyncAborts, tableVars, CreatedAt, Rows
  <2>5. ASSUME NEW t \in Tasks, AdminReprocess(t)
        PROVE  /\ FreshInv'
               /\ \A r \in Rows : KeptOrNew(r)
    <3>1. <<t, now + 1>> \in Rows /\ CreatedAt(<<t, now + 1>>) = now + 1
      BY <2>5 DEF AdminReprocess, Rows, CreatedAt
    <3>2. /\ status' = [status EXCEPT ![<<t, now + 1>>] = "pending"]
          /\ now' = now + 1 /\ syncStamp' = syncStamp
      BY <2>5 DEF AdminReprocess, Enqueue, SetStatus
    <3>3. QED
      BY <3>1, <3>2 DEF CreatedAt, Rows
  <2>6. CASE UserStep \/ \E t \in Tasks : AdminRetry(t) \/ AdminReclassify(t) \/ AdminImport(t)
    BY <2>6 DEF UserStep, Decide, SkipProposal, AdminRetry, AdminReclassify, AdminImport,
                tableVars, feedVars, CreatedAt
  <2>7. QED
    BY <2>1, <2>2, <2>3, <2>4, <2>5, <2>6 DEF FeedStep
<1>3. AliveInv'
  BY <1>1, <1>2 DEF AliveInv, Workable, HoldsRow, KeptOrNew
<1>4. FailedIffExhausted'
  BY <1>1, <1>2 DEF FailedIffExhausted, KeptOrNew
<1>5. QED
  BY <1>2, <1>3, <1>4 DEF KeptOrNew

LEMMA RetryStep ==
  ASSUME OneWorkerOnly
  PROVE  TypeInv /\ RetryInv /\ [Next]_vars =>
           /\ RetryInv'
           /\ \A r \in Rows : status[r] \in {"failed", "skipped"} => status'[r] = status[r]
<1>1. RetryInv /\ UNCHANGED vars => RetryInv' /\ UNCHANGED status
  BY DEF RetryInv, FreshInv, AliveInv, Workable, FailedIffExhausted, CreatedAt,
         vars, tableVars, workerVars, feedVars
<1>2. QED
  BY <1>1, RetryQuiet, RetryLock, RetryMove, RetryFail, RetryEnvironment
     DEF Next, WorkerStep

LEMMA RetryInit == Init => RetryInv
BY MaxRetriesAssumption
   DEF Init, TableInit, RetryInv, FreshInv, AliveInv, FailedIffExhausted

\* With one worker a row is FAILED exactly when its retries are used up
\* (FailedIffExhausted), for every bound on crashes, rate limits and retries.
THEOREM RetriesDecideFailure ==
  ASSUME OneWorkerOnly
  PROVE  Spec => []FailedIffExhausted
<1>1. RetryInv => FailedIffExhausted
  BY DEF RetryInv
<1>2. TypeInv /\ RetryInv /\ [Next]_vars => RetryInv'
  BY RetryStep
<1>3. QED
  BY <1>1, <1>2, RetryInit, AlwaysTypeInv, PTL DEF Spec

\* With one worker a FAILED or SKIPPED row is final (DeadRowsStayDead): no
\* late handler revives it.
THEOREM DeadRowsAreFinal ==
  ASSUME OneWorkerOnly
  PROVE  Spec => DeadRowsStayDead
<1>1. TypeInv /\ RetryInv /\ [Next]_vars => RetryInv'
  BY RetryStep
<1>2. TypeInv /\ RetryInv /\ [Next]_vars =>
        [\A r \in Rows : status[r] \in {"failed", "skipped"} => status'[r] = status[r]]_vars
  BY RetryStep
<1>3. QED
  BY <1>1, <1>2, RetryInit, AlwaysTypeInv, PTL DEF Spec, DeadRowsStayDead

------------------------------------------------------------------------------
(* No task is stranded, with one worker and without the admin endpoints.   *)
(*                                                                         *)
(* Three things must be remembered across steps.  While a claim is open,   *)
(* the rows it has marked are about to be skipped, and a pending row of    *)
(* the same source task must stay behind; that this row is one of the same *)
(* record follows, where the source task has no other, because a row is    *)
(* only written for a record that exists.  And between a requeue and the   *)
(* reset of the record to PENDING, the row must still be there.            *)

NoAdminActions == AdminActions = {}

Waiting(t) == workflow[t] \in {"pending", "processing"}

AllIdentified == \A r \in Rows : status[r] # "absent" => r \in identified

MarkedHaveHeir ==
  \A w \in Workers : \A r \in marked[w] :
    \E q \in Rows \ marked[w] : SameSource(q, r) /\ status[q] = "pending"

RowsHaveRecords == \A r \in Rows : status[r] # "absent" => workflow[TaskOf(r)] # "none"

RequeuedIsPending ==
  \A w \in Workers : pc[w] = "requeued" => status[held[w]] = "pending"

StrandInv ==
  /\ AllIdentified /\ RowsHaveRecords
  /\ MarkedHaveHeir /\ RequeuedIsPending
  /\ NoTaskStranded

\* Records are never taken back, so a record that is the only one was so before.
LEMMA OnlyRecordBefore ==
  ASSUME \A u \in Tasks : workflow'[u] = "none" => workflow[u] = "none"
  PROVE  \A t \in Tasks : OnlyRecord(t)' => OnlyRecord(t)
BY DEF OnlyRecord

\* The heir of an only record's row is a row of the same record.
LEMMA HeirOfOnlyRecord ==
  ASSUME RowsHaveRecords, NEW r \in Rows, NEW q \in Rows,
         OnlyRecord(TaskOf(r)), SameSource(q, r), status[q] # "absent"
  PROVE  TaskOf(q) = TaskOf(r)
BY DEF RowsHaveRecords, OnlyRecord, SameSource, TaskOf, Rows

\* Steps of a worker that write neither rows nor records.
LEMMA StrandQuiet ==
  ASSUME OneWorkerOnly, TypeInv, RetryInv, StrandInv, NEW w \in Workers,
         BeginRun(w) \/ SelectOldest(w) \/ SelectNothing(w) \/ StartProcessing(w)
           \/ SendReturns(w) \/ ProcessingError(w) \/ RateLimited(w)
           \/ ResetRecordFails(w) \/ Abandon(w)
  PROVE  StrandInv'
<1>1. UNCHANGED <<status, identified, workflow>>
  BY DEF tableVars, reviewVars, BeginRun, SelectOldest, SelectNothing, StartProcessing,
         SendReturns, ProcessingError, RateLimited, ResetRecordFails, Abandon
<1>2. pc'[w] # "requeued" /\ (marked'[w] = marked[w] \/ marked'[w] = {})
  BY DEF TypeInv, TypeOK, BeginRun, SelectOldest, SelectNothing, StartProcessing,
         SendReturns, ProcessingError, RateLimited, ResetRecordFails, Abandon, Finish, Goto
<1>3. AllIdentified' /\ RowsHaveRecords' /\ NoTaskStranded'
  BY <1>1 DEF StrandInv, AllIdentified, RowsHaveRecords, NoTaskStranded, OnlyRecord, Live, TaskOf
<1>4. MarkedHaveHeir' /\ RequeuedIsPending'
  BY <1>1, <1>2 DEF StrandInv, MarkedHaveHeir, RequeuedIsPending, OneWorkerOnly,
                    SameSource, TaskOf
<1>5. QED
  BY <1>3, <1>4 DEF StrandInv

\* A row is marked because a newer one is pending, which becomes the heir of
\* every row whose heir the marked row was.
LEMMA StrandPassOver ==
  ASSUME OneWorkerOnly, TypeInv, RetryInv, StrandInv, NEW w \in Workers, PassOverOlder(w)
  PROVE  StrandInv'
<1> DEFINE h == held[w]
<1>1. UNCHANGED <<status, identified, workflow>> /\ pc'[w] = "select"
  BY DEF PassOverOlder, tableVars, reviewVars, Goto, TypeInv, TypeOK
<1>2. h \in Rows /\ marked[w] \subseteq Rows /\ marked'[w] = marked[w] \cup {h}
  BY DEF PassOverOlder, TypeInv, TypeOK, HoldsRow
<1>3. PICK q \in Rows \ marked[w] : /\ SameSource(q, h) /\ status[q] = "pending"
                                    /\ CreatedAt(q) > CreatedAt(h)
  BY DEF PassOverOlder, HasNewer
<1>4. q # h
  <2>1. CreatedAt(h) \in Nat
    BY <1>2, MaxStampAssumption DEF Rows, CreatedAt
  <2>2. QED
    BY <1>3, <2>1
<1>5. MarkedHaveHeir'
  <2>1. ASSUME NEW r \in marked'[w]
        PROVE  \E p \in Rows \ marked'[w] : SameSource(p, r) /\ status[p] = "pending"
    <3>1. CASE r = h
      BY <1>2, <1>3, <1>4, <3>1
    <3>2. CASE r # h
      <4>1. PICK p \in Rows \ marked[w] : SameSource(p, r) /\ status[p] = "pending"
        BY <1>2, <2>1, <3>2 DEF StrandInv, MarkedHaveHeir
      <4>2. CASE p = h
        BY <1>2, <1>3, <1>4, <4>1, <4>2 DEF SameSource
      <4>3. CASE p # h
        BY <1>2, <4>1, <4>3
      <4>4. QED
        BY <4>2, <4>3
    <3>3. QED
      BY <3>1, <3>2
  <2>2. QED
    BY <1>1, <2>1 DEF MarkedHaveHeir, OneWorkerOnly, SameSource, TaskOf
<1>6. AllIdentified' /\ RowsHaveRecords' /\ NoTaskStranded' /\ RequeuedIsPending'
  BY <1>1 DEF StrandInv, AllIdentified, RowsHaveRecords, NoTaskStranded, OnlyRecord, Live,
              TaskOf, RequeuedIsPending, OneWorkerOnly
<1>7. QED
  BY <1>5, <1>6 DEF StrandInv

\* The commit of a claim kills rows only where their heir stays.
LEMMA StrandLock ==
  ASSUME OneWorkerOnly, TypeInv, RetryInv, StrandInv, NEW w \in Workers, LockRow(w)
  PROVE  StrandInv'
<1>1. /\ status' = [q \in Rows |-> IF q = held[w] THEN "locked"
                                   ELSE IF q \in marked[w] THEN "skipped" ELSE status[q]]
      /\ UNCHANGED <<identified, workflow>>
      /\ marked'[w] = {} /\ pc'[w] = "claimed"
      /\ held[w] \in Rows /\ Workable(held[w])
  BY DEF LockRow, CommitClaim, Goto, TypeInv, TypeOK, HoldsRow, RetryInv, AliveInv, reviewVars
<1>2. AllIdentified' /\ RowsHaveRecords'
  <2>1. \A r \in Rows : status'[r] # "absent" =>
          status[r] # "absent" \/ r \in marked[w]
    BY <1>1 DEF Workable
  <2>2. \A r \in marked[w] : status[r] # "absent"
    BY DEF RetryInv, AliveInv, Workable
  <2>3. QED
    BY <1>1, <2>1, <2>2 DEF StrandInv, AllIdentified, RowsHaveRecords, TaskOf
<1>3. NoTaskStranded'
  <2> SUFFICES ASSUME NEW t \in Tasks, OnlyRecord(t), Waiting(t)
               PROVE  \E r \in identified : TaskOf(r) = t /\ Live(r)'
    BY <1>1 DEF NoTaskStranded, Waiting, OnlyRecord, TaskOf
  <2>1. PICK r \in identified : TaskOf(r) = t /\ Live(r)
    BY DEF StrandInv, NoTaskStranded, Waiting
  <2>2. r \in Rows /\ identified \subseteq Rows
    BY <2>1 DEF TypeInv, TypeOK, TableTypeOK
  <2>3. CASE r \notin marked[w]
    BY <1>1, <2>1, <2>2, <2>3 DEF Live
  <2>4. CASE r \in marked[w]
    <3>0. PICK q \in Rows \ marked[w] : SameSource(q, r) /\ status[q] = "pending"
      BY <2>4 DEF StrandInv, MarkedHaveHeir
    <3>1. TaskOf(q) = t
      BY <2>1, <2>2, <3>0, HeirOfOnlyRecord DEF StrandInv
    <3>2. q \in identified
      BY <3>0 DEF StrandInv, AllIdentified
    <3>3. QED
      BY <1>1, <3>0, <3>1, <3>2 DEF Live
  <2>5. QED
    BY <2>3, <2>4
<1>4. MarkedHaveHeir' /\ RequeuedIsPending'
  BY <1>1 DEF MarkedHaveHeir, RequeuedIsPending, OneWorkerOnly
<1>5. QED
  BY <1>2, <1>3, <1>4 DEF StrandInv

\* The other steps of a worker write one row and its record: the row stays
\* alive, or the record no longer waits.
LEMMA StrandWrite ==
  ASSUME OneWorkerOnly, TypeInv, RetryInv, StrandInv, NEW w \in Workers,
         CompleteUnidentified(w) \/ GoogleTaskGone(w) \/ PatchFails(w) \/ Propose(w)
           \/ Requeue(w) \/ ResetRecord(w) \/ HandleFailure(w)
  PROVE  StrandInv'
<1> USE DEF TypeInv, TypeOK, TableTypeOK
<1> DEFINE h == held[w]
<1>1. /\ h \in Rows /\ Workable(h) /\ marked[w] = {} /\ TaskOf(h) \in Tasks
      /\ h \in identified
  <2>1. h \in Rows /\ Workable(h) /\ marked[w] = {}
    BY DEF HoldsRow, RetryInv, AliveInv, CompleteUnidentified, GoogleTaskGone,
           PatchFails, Propose, Requeue, ResetRecord, HandleFailure
  <2>2. QED
    BY <2>1 DEF Workable, StrandInv, AllIdentified, Rows, TaskOf
<1>2. UNCHANGED identified
  BY DEF CompleteUnidentified, GoogleTaskGone, PatchFails, Propose, Requeue,
         ResetRecord, HandleFailure, Complete, Fail, MarkProcessing,
         RequeueWithDelay, tableVars
<1>3. \E st \in {"pending", "processing", "completed", "failed"} :
        /\ status' = [status EXCEPT ![h] = st]
        /\ \/ st \in {"pending", "processing"} /\ UNCHANGED workflow
           \/ \E s \in {"failed", "awaiting_review"} :
                workflow' = [workflow EXCEPT ![TaskOf(h)] = s]
           \/ /\ st \in {"pending", "processing"}
              /\ \E s \in {"pending", "processing"} :
                   workflow' = [workflow EXCEPT ![TaskOf(h)] = s]
  <2>1. CASE CompleteUnidentified(w)
    BY <1>1, <2>1 DEF CompleteUnidentified
  <2>2. CASE GoogleTaskGone(w)
    BY <2>2 DEF GoogleTaskGone, Fail, SetStatus, SetWorkflow
  <2>3. CASE PatchFails(w)
    BY <2>3 DEF PatchFails, MarkProcessing, SetStatus, SetWorkflow
  <2>4. CASE Propose(w)
    BY <2>4 DEF Propose, Complete, SetStatus, SetWorkflow
  <2>5. CASE Requeue(w)
    BY <2>5 DEF Requeue, RequeueWithDelay, SetStatus, reviewVars
  <2>6. CASE ResetRecord(w)
    <3>1. status[h] = "pending" /\ UNCHANGED status
      BY <2>6 DEF ResetRecord, StrandInv, RequeuedIsPending, tableVars
    <3>2. status' = [status EXCEPT ![h] = "pending"]
      BY <1>1, <3>1
    <3>3. QED
      BY <2>6, <3>2 DEF ResetRecord, SetWorkflow
  <2>7. CASE HandleFailure(w)
    BY <1>1, <2>7 DEF HandleFailure, Fail, SetStatus, SetWorkflow
  <2>8. QED
    BY <2>1, <2>2, <2>3, <2>4, <2>5, <2>6, <2>7
<1>4. marked'[w] = {} /\ (pc'[w] = "requeued" => held'[w] = h /\ status'[h] = "pending")
  BY <1>1 DEF CompleteUnidentified, GoogleTaskGone, PatchFails, Propose, Requeue,
              ResetRecord, HandleFailure, RequeueWithDelay, SetStatus, Finish, Goto
<1>5. AllIdentified' /\ RowsHaveRecords'
  BY <1>1, <1>2, <1>3 DEF StrandInv, AllIdentified, RowsHaveRecords, Workable, TaskOf, Rows
<1>6. NoTaskStranded'
  <2>0. \A t \in Tasks : OnlyRecord(t)' => OnlyRecord(t)
    <3>1. \A u \in Tasks : workflow'[u] = "none" => workflow[u] = "none"
      BY <1>1, <1>3
    <3>2. QED
      BY <3>1, OnlyRecordBefore
  <2> SUFFICES ASSUME NEW t \in Tasks, OnlyRecord(t), workflow'[t] \in {"pending", "processing"}
               PROVE  \E r \in identified : TaskOf(r) = t /\ Live(r)'
    BY <1>2, <2>0 DEF NoTaskStranded, TaskOf
  <2>1. CASE t = TaskOf(h)
    <3>1. PICK q \in identified : q = h
      BY <1>1
    <3>2. status'[q] \in {"pending", "processing"}
      BY <1>1, <1>3, <2>1, <3>1
    <3>3. QED
      BY <2>1, <3>1, <3>2 DEF Live
  <2>2. CASE t # TaskOf(h)
    <3>1. workflow[t] \in {"pending", "processing"}
      BY <1>1, <1>3, <2>2
    <3>2. PICK r \in identified : TaskOf(r) = t /\ Live(r)
      BY <3>1 DEF StrandInv, NoTaskStranded
    <3>3. r \in Rows /\ r # h
      BY <2>2, <3>2
    <3>4. status'[r] = status[r]
      BY <1>1, <1>3, <3>3
    <3>5. QED
      BY <3>2, <3>4 DEF Live
  <2>3. QED
    BY <2>1, <2>2
<1>7. MarkedHaveHeir' /\ RequeuedIsPending'
  BY <1>4 DEF MarkedHaveHeir, RequeuedIsPending, OneWorkerOnly
<1>8. QED
  BY <1>5, <1>6, <1>7 DEF StrandInv

\* Without the admin endpoints the rest only adds pending rows with a
\* stable_id, and makes a record wait only together with such a row.
LEMMA StrandEnvironment ==
  ASSUME NoAdminActions, TypeInv, StrandInv, TimePasses \/ FeedStep \/ UserStep
  PROVE  StrandInv'
<1> USE DEF TypeInv, TypeOK, TableTypeOK
<1>1. UNCHANGED <<pc, held, marked>>
  BY DEF NoAdminActions, TimePasses, RetryDelayElapses, OrphanLockExpires, RunOverruns,
         FeedStep, SyncBegin, SyncCommit, SyncAborts, AdminReprocess, AdminRetry,
         AdminReclassify, AdminImport, UserStep, Decide, SkipProposal, workerVars
<1>2. \A r \in Rows : \/ status'[r] = status[r]
                      \/ status'[r] = "pending" /\ r \in identified'
  BY DEF NoAdminActions, TimePasses, RetryDelayElapses, OrphanLockExpires, RunOverruns,
         DelayElapses, LockExpires, FeedStep, SyncBegin, SyncCommit, SyncAborts,
         EnqueueByStableId, AdminReprocess, AdminRetry, AdminReclassify, AdminImport,
         UserStep, Decide, SkipProposal, tableVars
<1>3. identified \subseteq identified'
  BY DEF NoAdminActions, TimePasses, RetryDelayElapses, OrphanLockExpires, RunOverruns,
         DelayElapses, LockExpires, FeedStep, SyncBegin, SyncCommit, SyncAborts,
         EnqueueByStableId, AdminReprocess, AdminRetry, AdminReclassify, AdminImport,
         UserStep, Decide, SkipProposal, tableVars
<1>4. \A t \in Tasks : workflow'[t] \in {"pending", "processing"} =>
        \/ workflow[t] \in {"pending", "processing"}
        \/ \E r \in identified' : TaskOf(r) = t /\ status'[r] = "pending"
  <2>1. CASE TimePasses \/ SyncBegin \/ SyncAborts
    BY <2>1 DEF TimePasses, RetryDelayElapses, OrphanLockExpires, RunOverruns,
                SyncBegin, SyncAborts, reviewVars
  <2>2. ASSUME NEW found \in SUBSET Tasks, SyncCommit(found),
               NEW t \in Tasks, workflow'[t] # workflow[t]
        PROVE  \E r \in identified' : TaskOf(r) = t /\ status'[r] = "pending"
    <3>1. t \in found /\ syncStamp \in 1 .. MaxStamp
      BY <2>2, MaxStampAssumption DEF SyncCommit
    <3>2. <<t, syncStamp>> \in Rows /\ TaskOf(<<t, syncStamp>>) = t
      BY <3>1 DEF Rows, TaskOf
    <3>3. <<t, syncStamp>> \in {<<u, syncStamp>> : u \in found}
      BY <3>1
    <3>4. <<t, syncStamp>> \in identified' /\ status'[<<t, syncStamp>>] = "pending"
      BY <2>2, <3>2, <3>3 DEF SyncCommit, EnqueueByStableId
    <3>5. QED
      BY <3>2, <3>4
  <2>3. CASE UserStep
    BY <2>3 DEF UserStep, Decide, SkipProposal, SetWorkflow
  <2>4. ~ \E t \in Tasks :
       AdminReprocess(t) \/ AdminRetry(t) \/ AdminReclassify(t) \/ AdminImport(t)
    BY DEF NoAdminActions, AdminReprocess, AdminRetry, AdminReclassify, AdminImport
  <2>5. QED
    BY <2>1, <2>2, <2>3, <2>4 DEF FeedStep
<1>10. \A u \in Tasks : workflow'[u] = "none" => workflow[u] = "none"
  BY DEF NoAdminActions, TimePasses, RetryDelayElapses, OrphanLockExpires, RunOverruns,
         FeedStep, SyncBegin, SyncCommit, SyncAborts, AdminReprocess, AdminRetry,
         AdminReclassify, AdminImport, UserStep, Decide, SkipProposal, SetWorkflow, reviewVars
<1>5. AllIdentified' /\ RowsHaveRecords'
  <2>1. AllIdentified'
    BY <1>2, <1>3 DEF StrandInv, AllIdentified
  <2>2. \A r \in Rows : status'[r] # status[r] => workflow'[TaskOf(r)] # "none"
    <3>1. ASSUME NEW found \in SUBSET Tasks, SyncCommit(found)
          PROVE  \A r \in Rows : status'[r] # status[r] => workflow'[TaskOf(r)] # "none"
      <4>1. \A r \in Rows : status'[r] # status[r] => TaskOf(r) \in found
        BY <3>1 DEF SyncCommit, EnqueueByStableId, TaskOf
      <4>2. QED
        BY <3>1, <4>1 DEF SyncCommit
    <3>2. ASSUME ~ \E found \in SUBSET Tasks : SyncCommit(found)
          PROVE  UNCHANGED status
      BY <3>2 DEF NoAdminActions, TimePasses, RetryDelayElapses, OrphanLockExpires,
                  RunOverruns, DelayElapses, LockExpires, FeedStep, SyncBegin, SyncAborts,
                  AdminReprocess, AdminRetry, AdminReclassify, AdminImport,
                  UserStep, Decide, SkipProposal, tableVars
    <3>3. QED
      BY <3>1, <3>2
  <2>3. RowsHaveRecords'
    BY <1>10, <2>2 DEF StrandInv, RowsHaveRecords, TaskOf, Rows
  <2>4. QED
    BY <2>1, <2>3
<1>6. MarkedHaveHeir'
  BY <1>1, <1>2 DEF StrandInv, MarkedHaveHeir, SameSource, TaskOf
<1>7. RequeuedIsPending'
  BY <1>1, <1>2 DEF StrandInv, RequeuedIsPending, HoldsRow
<1>8. NoTaskStranded'
  <2> SUFFICES ASSUME NEW t \in Tasks, OnlyRecord(t), workflow'[t] \in {"pending", "processing"}
               PROVE  \E r \in identified' : TaskOf(r) = t /\ Live(r)'
    BY <1>10, OnlyRecordBefore DEF NoTaskStranded, TaskOf
  <2>1. CASE workflow[t] \in {"pending", "processing"}
    <3>1. PICK r \in identified : TaskOf(r) = t /\ Live(r)
      BY <2>1 DEF StrandInv, NoTaskStranded
    <3>2. QED
      BY <1>2, <1>3, <3>1 DEF Live
  <2>2. QED
    BY <1>4, <2>1 DEF Live
<1>9. QED
  BY <1>5, <1>6, <1>7, <1>8 DEF StrandInv

LEMMA StrandStep ==
  ASSUME OneWorkerOnly, NoAdminActions
  PROVE  TypeInv /\ RetryInv /\ StrandInv /\ [Next]_vars => StrandInv'
<1>1. StrandInv /\ UNCHANGED vars => StrandInv'
  BY DEF StrandInv, AllIdentified, RowsHaveRecords, MarkedHaveHeir, RequeuedIsPending,
         NoTaskStranded, OnlyRecord, SameSource, TaskOf, Live, vars, tableVars, workerVars, reviewVars
<1>2. QED
  BY <1>1, StrandQuiet, StrandPassOver, StrandLock, StrandWrite, StrandEnvironment
     DEF Next, WorkerStep

LEMMA StrandInit == Init => StrandInv
BY DEF Init, TableInit, StrandInv, AllIdentified, RowsHaveRecords, MarkedHaveHeir, RequeuedIsPending,
       NoTaskStranded

\* With one worker and no admin request (import-from-google is one), a record
\* that waits for processing and is the only one of its source task has a live
\* row (NoTaskStranded), whatever crashes, rate limits and failures.
THEOREM WaitingTasksHaveRows ==
  ASSUME OneWorkerOnly, NoAdminActions
  PROVE  Spec => []NoTaskStranded
<1>1. StrandInv => NoTaskStranded
  BY DEF StrandInv
<1>2. TypeInv /\ RetryInv /\ [Next]_vars => RetryInv'
  BY RetryStep
<1>3. TypeInv /\ RetryInv /\ StrandInv /\ [Next]_vars => StrandInv'
  BY StrandStep
<1>4. QED
  BY <1>1, <1>2, <1>3, StrandInit, RetryInit, AlwaysTypeInv, PTL DEF Spec

------------------------------------------------------------------------------
(* The review buffer.                                                      *)
(*                                                                         *)
(* BufferBound is not inductive: a run that has passed the check will add  *)
(* to the buffer whatever others have added meanwhile.  The strengthening  *)
(* counts such a run as if its proposal were there already.                *)

InFlight == {w \in Workers : pc[w] \in {"select", "check", "claimed", "classifying"}}

BufferInv ==
  Cardinality(Awaiting) + Cardinality(InFlight) < BufferSize + Cardinality(Workers)

LEMMA BufferFinite ==
  /\ IsFiniteSet(Awaiting) /\ Cardinality(Awaiting) \in Nat
  /\ IsFiniteSet(InFlight) /\ Cardinality(InFlight) \in Nat
  /\ Cardinality(InFlight) <= Cardinality(Workers)
  /\ Cardinality(Workers) \in Nat /\ BufferSize \in Nat \ {0}
<1>1. IsFiniteSet(Awaiting) /\ IsFiniteSet(InFlight)
      /\ Cardinality(InFlight) <= Cardinality(Workers)
  BY FiniteAssumption, FS_Subset DEF Awaiting, InFlight
<1>2. QED
  BY <1>1, FiniteAssumption, BudgetAssumption, FS_CardinalityType

\* What adds neither a proposal nor a run that is past the check is harmless.
LEMMA BufferShrinks ==
  ASSUME BufferInv, Awaiting' \subseteq Awaiting, InFlight' \subseteq InFlight
  PROVE  BufferInv'
<1>1. /\ Cardinality(Awaiting') <= Cardinality(Awaiting) /\ Cardinality(Awaiting') \in Nat
      /\ Cardinality(InFlight') <= Cardinality(InFlight) /\ Cardinality(InFlight') \in Nat
  BY BufferFinite, FS_Subset, FS_CardinalityType
<1>2. QED
  BY <1>1, BufferFinite DEF BufferInv

\* A run starts only below the size of the buffer.
LEMMA BufferBegin ==
  ASSUME TypeInv, BufferInv, NEW w \in Workers, BeginRun(w)
  PROVE  BufferInv'
<1>1. Awaiting' = Awaiting
  BY DEF BeginRun, Awaiting, reviewVars
<1>2. Cardinality(Awaiting) < BufferSize
  BY BufferFinite DEF BeginRun, BufferFull
<1>3. /\ Cardinality(InFlight') <= Cardinality(Workers)
      /\ Cardinality(InFlight') \in Nat
  BY FiniteAssumption, FS_Subset, FS_CardinalityType DEF InFlight
<1>4. QED
  BY <1>1, <1>2, <1>3, BufferFinite DEF BufferInv

\* A run that makes its proposal has one task more to wait for, and is over.
LEMMA BufferPropose ==
  ASSUME TypeInv, BufferInv, NEW w \in Workers, Propose(w)
  PROVE  BufferInv'
<1>1. Awaiting' \subseteq Awaiting \cup {TaskOf(held[w])}
  BY DEF Propose, SetWorkflow, Awaiting, TypeInv, TypeOK
<1>2. w \in InFlight /\ InFlight' \subseteq InFlight \ {w}
  BY DEF Propose, Goto, InFlight, TypeInv, TypeOK
<1>3. /\ Cardinality(Awaiting') <= Cardinality(Awaiting) + 1
      /\ Cardinality(Awaiting') \in Nat
  <2>1. /\ IsFiniteSet(Awaiting \cup {TaskOf(held[w])})
        /\ Cardinality(Awaiting \cup {TaskOf(held[w])}) <= Cardinality(Awaiting) + 1
    BY BufferFinite, FS_AddElement
  <2>2. Cardinality(Awaiting \cup {TaskOf(held[w])}) \in Nat
    BY <2>1, FS_CardinalityType
  <2>3. /\ IsFiniteSet(Awaiting')
        /\ Cardinality(Awaiting') <= Cardinality(Awaiting \cup {TaskOf(held[w])})
    BY <1>1, <2>1, FS_Subset
  <2>4. QED
    BY <2>1, <2>2, <2>3, BufferFinite, FS_CardinalityType
<1>4. /\ Cardinality(InFlight') <= Cardinality(InFlight) - 1
      /\ Cardinality(InFlight') \in Nat
  <2>1. /\ IsFiniteSet(InFlight \ {w})
        /\ Cardinality(InFlight \ {w}) = Cardinality(InFlight) - 1
    BY <1>2, BufferFinite, FS_RemoveElement
  <2>2. QED
    BY <1>2, <2>1, FS_Subset, FS_CardinalityType
<1>5. QED
  BY <1>3, <1>4, BufferFinite DEF BufferInv

LEMMA BufferWorker ==
  ASSUME TypeInv, BufferInv, NEW w \in Workers,
         SelectOldest(w) \/ SelectNothing(w) \/ PassOverOlder(w) \/ LockRow(w)
           \/ CompleteUnidentified(w) \/ StartProcessing(w) \/ GoogleTaskGone(w)
           \/ PatchFails(w) \/ SendReturns(w)
           \/ ProcessingError(w) \/ RateLimited(w) \/ Requeue(w)
           \/ ResetRecord(w) \/ ResetRecordFails(w) \/ HandleFailure(w)
           \/ Abandon(w)
  PROVE  BufferInv'
<1> USE DEF TypeInv, TypeOK
<1>1. UNCHANGED workflow
      \/ \E t \in Tasks, s \in {"failed", "processing", "pending"} : SetWorkflow(t, s)
  <2>1. pc[w] \notin {"idle", "select"} => TaskOf(held[w]) \in Tasks
    BY DEF HoldsRow, TaskOf, Rows
  <2>2. CASE GoogleTaskGone(w) \/ PatchFails(w) \/ ResetRecord(w) \/ HandleFailure(w)
    BY <2>1, <2>2 DEF GoogleTaskGone, PatchFails, ResetRecord, HandleFailure
  <2>3. QED
    BY <2>2 DEF SelectOldest, SelectNothing, PassOverOlder, LockRow, CompleteUnidentified,
       StartProcessing, SendReturns, ProcessingError, RateLimited, Requeue,
       ResetRecordFails, Abandon, reviewVars
<1>2. Awaiting' \subseteq Awaiting
  BY <1>1 DEF Awaiting, SetWorkflow
<1>3. \E stage \in Stage :
        /\ pc' = [pc EXCEPT ![w] = stage]
        /\ stage \in {"select", "check", "claimed", "classifying"} => w \in InFlight
  BY DEF SelectOldest, SelectNothing, PassOverOlder, LockRow, CompleteUnidentified,
         StartProcessing, GoogleTaskGone, PatchFails, SendReturns, ProcessingError,
         RateLimited, Requeue, ResetRecord, ResetRecordFails, HandleFailure, Abandon,
         Finish, Goto, InFlight, Stage
<1>4. InFlight' \subseteq InFlight
  BY <1>3 DEF InFlight
<1>5. QED
  BY <1>2, <1>4, BufferShrinks

LEMMA BufferEnvironment ==
  ASSUME TypeInv, BufferInv, TimePasses \/ FeedStep \/ UserStep
  PROVE  BufferInv'
<1> USE DEF TypeInv, TypeOK
<1>1. UNCHANGED pc
  BY DEF TimePasses, RetryDelayElapses, OrphanLockExpires, RunOverruns,
         FeedStep, SyncBegin, SyncCommit, SyncAborts, AdminReprocess, AdminRetry,
         AdminReclassify, AdminImport, UserStep, Decide, SkipProposal, workerVars
<1>2. Awaiting' \subseteq Awaiting
  BY DEF TimePasses, RetryDelayElapses, OrphanLockExpires, RunOverruns,
         FeedStep, SyncBegin, SyncCommit, SyncAborts, AdminReprocess, AdminRetry,
         AdminReclassify, AdminImport, UserStep, Decide, SkipProposal, reviewVars, SetWorkflow, Awaiting
<1>3. QED
  BY <1>1, <1>2, BufferShrinks DEF InFlight

LEMMA BufferStep == TypeInv /\ BufferInv /\ [Next]_vars => BufferInv'
<1>1. BufferInv /\ UNCHANGED vars => BufferInv'
  BY DEF BufferInv, Awaiting, InFlight, vars, workerVars, reviewVars
<1>2. QED
  BY <1>1, BufferBegin, BufferPropose, BufferWorker, BufferEnvironment
     DEF Next, WorkerStep

\* The review buffer is exceeded by fewer tasks than there are workers
\* (BufferBound), however the checks of several processes race: the check is
\* made before the claim and never repeated.
THEOREM BufferBounded == Spec => []BufferBound
<1>1. Init => BufferInv
  <2> SUFFICES ASSUME Init PROVE BufferInv
    OBVIOUS
  <2>1. Awaiting = {} /\ InFlight = {}
    BY DEF Init, Awaiting, InFlight
  <2>2. QED
    BY <2>1, FS_EmptySet, BufferFinite DEF BufferInv
<1>2. BufferInv => BufferBound
  BY BufferFinite DEF BufferInv, BufferBound
<1>3. QED
  BY <1>1, <1>2, BufferStep, AlwaysTypeInv, PTL DEF Spec

------------------------------------------------------------------------------
(* One worker without admin requests implements TaskLifecycle: every step  *)
(* of ProcessingWorker is a step of TaskLifecycle or changes neither the   *)
(* number of a task's requests nor its proposals.  A request that gives    *)
(* way must give way to one of the same record, hence the assumption.      *)

OneRecordEach == \A t, u \in Tasks : Source[t] = Source[u] => t = u

Requests == [t \in Tasks |-> Cardinality(RequestsOf(t))]

\* The row a worker has selected or works on still asks for work, until the
\* commit that answers it or an exception.
WorksOnLive ==
  \A w \in Workers :
    pc[w] \in {"check", "claimed", "classifying", "rate_limited"} => Live(held[w])

LEMMA WorksOnLiveStep ==
  ASSUME OneWorkerOnly
  PROVE  TypeInv /\ RetryInv /\ WorksOnLive /\ [Next]_vars => WorksOnLive'
<1> SUFFICES ASSUME TypeInv, RetryInv, WorksOnLive, [Next]_vars
             PROVE  WorksOnLive'
  OBVIOUS
<1> USE DEF TypeInv, TypeOK, TableTypeOK, WorksOnLive, Live
<1>1. ASSUME NEW w \in Workers,
             BeginRun(w) \/ SelectOldest(w) \/ SelectNothing(w) \/ PassOverOlder(w)
      PROVE  WorksOnLive'
  <2>1. UNCHANGED status
    BY <1>1 DEF BeginRun, SelectOldest, SelectNothing, PassOverOlder, tableVars
  <2>2. CASE BeginRun(w) \/ SelectNothing(w) \/ PassOverOlder(w)
    BY <2>1, <2>2 DEF BeginRun, SelectNothing, PassOverOlder, Finish, Goto, OneWorkerOnly
  <2>3. CASE SelectOldest(w)
    BY <2>1, <2>3 DEF SelectOldest, OldestClaimable, Claimable, Goto, OneWorkerOnly
  <2>4. QED
    BY <1>1, <2>2, <2>3
<1>2. ASSUME NEW w \in Workers, LockRow(w)
      PROVE  WorksOnLive'
  BY <1>2 DEF LockRow, CommitClaim, Goto, HoldsRow, OneWorkerOnly
<1>3. ASSUME NEW w \in Workers,
             CompleteUnidentified(w) \/ GoogleTaskGone(w) \/ PatchFails(w) \/ Propose(w)
               \/ SendReturns(w) \/ ProcessingError(w) \/ Requeue(w) \/ ResetRecord(w)
               \/ ResetRecordFails(w) \/ HandleFailure(w) \/ Abandon(w)
      PROVE  WorksOnLive'
  <2>1. pc'[w] \in {"idle", "failing", "sending", "requeued"}
    BY <1>3 DEF CompleteUnidentified, GoogleTaskGone, PatchFails, Propose, SendReturns,
                ProcessingError, Requeue, ResetRecord, ResetRecordFails, HandleFailure,
                Abandon, Finish, Goto
  <2>2. QED
    BY <2>1 DEF OneWorkerOnly
<1>4. ASSUME NEW w \in Workers, StartProcessing(w) \/ RateLimited(w)
      PROVE  WorksOnLive'
  BY <1>4 DEF StartProcessing, RateLimited, Goto, tableVars
<1>5. ASSUME TimePasses \/ FeedStep \/ UserStep
      PROVE  WorksOnLive'
  <2>1. UNCHANGED <<pc, held>>
    BY <1>5 DEF TimePasses, RetryDelayElapses, OrphanLockExpires, RunOverruns,
         FeedStep, SyncBegin, SyncCommit, SyncAborts, AdminReprocess, AdminRetry,
         AdminReclassify, AdminImport, UserStep, Decide, SkipProposal, workerVars
  <2>2. \A r \in Rows : status'[r] = status[r] \/ status'[r] = "pending"
    <3>1. CASE TimePasses
      BY <3>1 DEF TimePasses, RetryDelayElapses, OrphanLockExpires, RunOverruns,
                  DelayElapses, LockExpires
    <3>2. CASE SyncBegin \/ SyncAborts \/ \E found \in SUBSET Tasks : SyncCommit(found)
      BY <3>2 DEF SyncBegin, SyncAborts, SyncCommit, EnqueueByStableId, tableVars
    <3>3. CASE \E t \in Tasks :
                 AdminReprocess(t) \/ AdminRetry(t) \/ AdminReclassify(t) \/ AdminImport(t)
      BY <3>3 DEF AdminReprocess, AdminRetry, AdminReclassify, AdminImport, Enqueue, SetStatus, tableVars
    <3>4. CASE UserStep
      BY <3>4 DEF UserStep, Decide, SkipProposal, tableVars
    <3>5. QED
      BY <1>5, <3>1, <3>2, <3>3, <3>4 DEF FeedStep
  <2>3. ASSUME NEW w \in Workers, pc[w] \in {"check", "claimed", "classifying", "rate_limited"}
        PROVE  Live(held[w])'
    <3>1. held[w] \in Rows /\ Live(held[w])
      BY <2>3 DEF HoldsRow
    <3>2. QED
      BY <2>1, <2>2, <3>1
  <2>4. QED
    BY <2>1, <2>3
<1>6. CASE UNCHANGED vars
  BY <1>6 DEF vars, tableVars, workerVars
<1>7. QED
  BY <1>1, <1>2, <1>3, <1>4, <1>5, <1>6 DEF Next, WorkerStep

------------------------------------------------------------------------------
(* Counting requests.                                                      *)

LEMMA RequestsFinite ==
  ASSUME NEW t, NEW S, S \subseteq Rows, \A r \in S : TaskOf(r) = t
  PROVE  IsFiniteSet(S) /\ Cardinality(S) \in Nat
<1>1. S \subseteq {t} \X (1 .. MaxStamp)
  BY DEF Rows, TaskOf
<1>2. IsFiniteSet({t} \X (1 .. MaxStamp))
  <2>1. IsFiniteSet({t})
    BY FS_Singleton
  <2>2. IsFiniteSet(1 .. MaxStamp)
    <3>1. 1 \in Int /\ MaxStamp \in Int
      BY MaxStampAssumption
    <3>2. QED
      BY ONLY <3>1, FS_Interval
  <2>3. QED
    BY <2>1, <2>2, FS_Product
<1>3. QED
  BY <1>1, <1>2, FS_Subset, FS_CardinalityType

\* The number of requests of a task follows the set.
LEMMA RequestsCounted ==
  ASSUME TypeInv
  PROVE  /\ \A t : RequestsOf(t) \subseteq Rows
         /\ \A t : IsFiniteSet(RequestsOf(t)) /\ Cardinality(RequestsOf(t)) \in Nat
         /\ Requests \in [Tasks -> Nat]
<1>1. \A t : RequestsOf(t) \subseteq Rows /\ \A r \in RequestsOf(t) : TaskOf(r) = t
  BY DEF RequestsOf, TypeInv, TypeOK, TableTypeOK
<1>2. \A t : IsFiniteSet(RequestsOf(t)) /\ Cardinality(RequestsOf(t)) \in Nat
  BY <1>1, RequestsFinite
<1>3. QED
  BY <1>1, <1>2 DEF Requests

\* Nothing is asked or answered as long as the same rows are live.
LEMMA SameRequests ==
  ASSUME UNCHANGED identified, \A r \in identified : Live(r)' <=> Live(r)
  PROVE  UNCHANGED Requests
<1>1. \A t : RequestsOf(t)' = RequestsOf(t)
  BY DEF RequestsOf, TaskOf
<1>2. QED
  BY <1>1 DEF Requests

\* One request less, when one row stops asking.
LEMMA RequestSettled ==
  ASSUME TypeInv, NEW h \in identified, Live(h), ~Live(h)', UNCHANGED identified,
         \A r \in identified \ {h} : Live(r)' <=> Live(r)
  PROVE  /\ TaskOf(h) \in Tasks
         /\ Requests[TaskOf(h)] > 0
         /\ Requests' = [Requests EXCEPT ![TaskOf(h)] = @ - 1]
<1> DEFINE u == TaskOf(h)
<1>1. h \in Rows /\ u \in Tasks
  BY DEF TypeInv, TypeOK, TableTypeOK, Rows, TaskOf
<1>2. RequestsOf(u)' = RequestsOf(u) \ {h} /\ h \in RequestsOf(u)
  BY DEF RequestsOf, TaskOf
<1>3. \A t : t # u => RequestsOf(t)' = RequestsOf(t)
  BY DEF RequestsOf, TaskOf
<1>4. IsFiniteSet(RequestsOf(u)) /\ Cardinality(RequestsOf(u)) \in Nat
  BY RequestsCounted
<1>5. Cardinality(RequestsOf(u)') = Cardinality(RequestsOf(u)) - 1
  BY <1>2, <1>4, FS_RemoveElement
<1>6. Cardinality(RequestsOf(u)) # 0
  BY <1>2, <1>4, FS_EmptySet
<1>7. \A t \in Tasks : Requests[t] = Cardinality(RequestsOf(t))
  BY DEF Requests
<1>8. Requests' = [t \in Tasks |-> IF t = u THEN Requests[t] - 1 ELSE Requests[t]]
  <2>1. Requests' = [t \in Tasks |-> Cardinality(RequestsOf(t)')]
    BY DEF Requests
  <2>2. QED
    BY <1>1, <1>3, <1>5, <1>7, <2>1
<1>9. Requests[u] \in Nat /\ Requests[u] > 0
  BY <1>1, <1>4, <1>6, <1>7
<1>10. Requests' = [Requests EXCEPT ![u] = @ - 1]
  BY <1>8, RequestsCounted
<1>11. QED
  BY <1>1, <1>9, <1>10

\* One request more, when one row asks again.
LEMMA RequestRedone ==
  ASSUME TypeInv, NEW h \in identified, ~Live(h), Live(h)', UNCHANGED identified,
         \A r \in identified \ {h} : Live(r)' <=> Live(r)
  PROVE  /\ TaskOf(h) \in Tasks
         /\ Requests' = [Requests EXCEPT ![TaskOf(h)] = @ + 1]
<1> DEFINE u == TaskOf(h)
<1>1. h \in Rows /\ u \in Tasks
  BY DEF TypeInv, TypeOK, TableTypeOK, Rows, TaskOf
<1>2. RequestsOf(u)' = RequestsOf(u) \cup {h} /\ h \notin RequestsOf(u)
  BY DEF RequestsOf, TaskOf
<1>3. \A t : t # u => RequestsOf(t)' = RequestsOf(t)
  BY DEF RequestsOf, TaskOf
<1>4. IsFiniteSet(RequestsOf(u)) /\ Cardinality(RequestsOf(u)) \in Nat
  BY RequestsCounted
<1>5. Cardinality(RequestsOf(u)') = Cardinality(RequestsOf(u)) + 1
  BY <1>2, <1>4, FS_AddElement
<1>6. \A t \in Tasks : Requests[t] = Cardinality(RequestsOf(t))
  BY DEF Requests
<1>7. Requests' = [t \in Tasks |-> IF t = u THEN Requests[t] + 1 ELSE Requests[t]]
  <2>1. Requests' = [t \in Tasks |-> Cardinality(RequestsOf(t)')]
    BY DEF Requests
  <2>2. QED
    BY <1>1, <1>3, <1>5, <1>6, <2>1
<1>8. QED
  BY <1>1, <1>7, RequestsCounted

------------------------------------------------------------------------------
(* The steps.                                                              *)

LifecycleStep == [Lifecycle!Next]_(Lifecycle!vars)

LEMMA Stutters ==
  ASSUME UNCHANGED Requests, UNCHANGED openReviews
  PROVE  LifecycleStep
BY DEF LifecycleStep, Lifecycle!vars, Requests

\* A step that writes no row and no review is a stutter.
LEMMA RefineQuiet ==
  ASSUME UNCHANGED <<status, identified, openReviews>>
  PROVE  LifecycleStep
<1>1. \A r \in identified : Live(r)' <=> Live(r)
  BY DEF Live
<1>2. QED
  BY <1>1, SameRequests, Stutters

\* The commit of a claim supersedes: each task keeps the row that is locked,
\* or the heir of the rows that are skipped.
LEMMA RefineLock ==
  ASSUME OneWorkerOnly, OneRecordEach, TypeInv, StrandInv, WorksOnLive, NEW w \in Workers, LockRow(w)
  PROVE  LifecycleStep
<1> DEFINE h == held[w]
<1>1. /\ status' = [q \in Rows |-> IF q = h THEN "locked"
                                   ELSE IF q \in marked[w] THEN "skipped" ELSE status[q]]
      /\ UNCHANGED <<identified, openReviews>>
      /\ h \in Rows /\ Live(h)
  BY DEF LockRow, CommitClaim, TypeInv, TypeOK, HoldsRow, WorksOnLive, reviewVars
<1>2. identified \subseteq Rows
  BY DEF TypeInv, TypeOK, TableTypeOK
<1>3. \A r \in identified : Live(r)' => Live(r)
  BY <1>1, <1>2 DEF Live
<1>4. ASSUME NEW t \in Tasks
      PROVE  /\ Requests'[t] <= Requests[t]
             /\ Requests[t] > 0 => Requests'[t] > 0
  <2>1. RequestsOf(t)' \subseteq RequestsOf(t)
    BY <1>1, <1>3 DEF RequestsOf, TaskOf
  <2>2. IsFiniteSet(RequestsOf(t))
    BY RequestsCounted
  <2>3. /\ IsFiniteSet(RequestsOf(t)')
        /\ Cardinality(RequestsOf(t)') <= Cardinality(RequestsOf(t))
        /\ Cardinality(RequestsOf(t)') \in Nat /\ Cardinality(RequestsOf(t)) \in Nat
    BY <2>1, <2>2, FS_Subset, FS_CardinalityType
  <2>4. RequestsOf(t) # {} => RequestsOf(t)' # {}
    <3> SUFFICES ASSUME NEW r \in RequestsOf(t)
                 PROVE  \E q \in identified : TaskOf(q) = t /\ Live(q)'
      BY <1>1 DEF RequestsOf, TaskOf
    <3>1. r \in identified /\ r \in Rows /\ TaskOf(r) = t /\ Live(r)
      BY <1>2 DEF RequestsOf
    <3>2. CASE r \notin marked[w]
      BY <1>1, <3>1, <3>2 DEF Live
    <3>3. CASE r \in marked[w]
      <4>0. PICK q \in Rows \ marked[w] : SameSource(q, r) /\ status[q] = "pending"
        BY <3>3 DEF StrandInv, MarkedHaveHeir
      <4>1. TaskOf(q) = t /\ status[q] = "pending"
        BY <3>1, <4>0 DEF OneRecordEach, SameSource, Rows, TaskOf
      <4>2. q \in identified
        BY <4>1 DEF StrandInv, AllIdentified
      <4>3. QED
        BY <1>1, <4>1, <4>2 DEF Live
    <3>4. QED
      BY <3>2, <3>3
  <2>5. Cardinality(RequestsOf(t)) > 0 => Cardinality(RequestsOf(t)') > 0
    BY <2>2, <2>3, <2>4, FS_EmptySet
  <2>6. QED
    BY <2>3, <2>5 DEF Requests
<1>5. Lifecycle!Supersede
  BY <1>1, <1>4 DEF Lifecycle!Supersede, Requests
<1>6. QED
  BY <1>5 DEF LifecycleStep, Lifecycle!Next

\* The commits of a run write the row the worker holds.  The row of a proposal
\* is live, so that the proposal answers it.
LEMMA RefineWrite ==
  ASSUME OneWorkerOnly, TypeInv, RetryInv, StrandInv, WorksOnLive, NEW w \in Workers,
         CompleteUnidentified(w) \/ GoogleTaskGone(w) \/ PatchFails(w) \/ Propose(w)
           \/ Requeue(w) \/ HandleFailure(w)
  PROVE  LifecycleStep
<1>1. PICK h : h = held[w] /\ h \in Rows /\ h \in identified
  <2>1. held[w] \in Rows /\ Workable(held[w])
    BY DEF TypeInv, HoldsRow, RetryInv, AliveInv, CompleteUnidentified, GoogleTaskGone,
           PatchFails, Propose, Requeue, HandleFailure
  <2>2. QED
    BY <2>1 DEF Workable, StrandInv, AllIdentified
<1>2. UNCHANGED identified
  BY DEF CompleteUnidentified, GoogleTaskGone, PatchFails, Propose, Requeue,
         HandleFailure, Complete, Fail, MarkProcessing, RequeueWithDelay
<1>3. PICK st \in {"pending", "processing", "completed", "failed"} :
        /\ status' = [status EXCEPT ![h] = st]
        /\ \/ Propose(w) /\ Live(h) /\ st = "completed"
           \/ st # "completed" /\ UNCHANGED openReviews
  <2>1. ~CompleteUnidentified(w)
    BY <1>1 DEF CompleteUnidentified
  <2>2. CASE GoogleTaskGone(w)
    BY <1>1, <2>2 DEF GoogleTaskGone, Fail, SetStatus
  <2>3. CASE PatchFails(w)
    BY <1>1, <2>3 DEF PatchFails, MarkProcessing, SetStatus
  <2>4. CASE Propose(w)
    BY <1>1, <2>4 DEF Propose, Complete, SetStatus, WorksOnLive
  <2>5. CASE Requeue(w)
    BY <1>1, <2>5 DEF Requeue, RequeueWithDelay, SetStatus, reviewVars
  <2>6. CASE HandleFailure(w)
    BY <1>1, <2>6 DEF HandleFailure, Fail, SetStatus
  <2>7. QED
    BY <2>1, <2>2, <2>3, <2>4, <2>5, <2>6
<1>4. status'[h] = st /\ \A r \in Rows \ {h} : status'[r] = status[r]
  BY <1>1, <1>3 DEF TypeInv, TypeOK, TableTypeOK
<1>5. \A r \in identified \ {h} : Live(r)' <=> Live(r)
  BY <1>4 DEF Live, TypeInv, TypeOK, TableTypeOK
<1>6. Live(h)' <=> st \in {"pending", "processing"}
  BY <1>4 DEF Live
<1>7. CASE Propose(w) /\ Live(h) /\ st = "completed"
  <2>1. /\ TaskOf(h) \in Tasks
        /\ Requests[TaskOf(h)] > 0
        /\ Requests' = [Requests EXCEPT ![TaskOf(h)] = @ - 1]
    BY <1>1, <1>2, <1>5, <1>6, <1>7, RequestSettled
  <2>2. openReviews' = [openReviews EXCEPT ![TaskOf(h)] = @ + 1]
    BY <1>1, <1>7 DEF Propose
  <2>3. Lifecycle!Answer(TaskOf(h))
    BY <2>1, <2>2 DEF Lifecycle!Answer, Requests
  <2>4. QED
    BY <2>1, <2>3 DEF LifecycleStep, Lifecycle!Next
<1>8. CASE Live(h) /\ st = "failed" /\ UNCHANGED openReviews
  <2>1. /\ TaskOf(h) \in Tasks
        /\ Requests[TaskOf(h)] > 0
        /\ Requests' = [Requests EXCEPT ![TaskOf(h)] = @ - 1]
    BY <1>1, <1>2, <1>5, <1>6, <1>8, RequestSettled
  <2>2. Lifecycle!GiveUp(TaskOf(h))
    BY <1>8, <2>1 DEF Lifecycle!GiveUp, Requests
  <2>3. QED
    BY <2>1, <2>2 DEF LifecycleStep, Lifecycle!Next
<1>9. CASE ~Live(h) /\ st \in {"pending", "processing"} /\ UNCHANGED openReviews
  <2>1. /\ TaskOf(h) \in Tasks
        /\ Requests' = [Requests EXCEPT ![TaskOf(h)] = @ + 1]
    BY <1>1, <1>2, <1>5, <1>6, <1>9, RequestRedone
  <2>2. Lifecycle!Redo(TaskOf(h))
    BY <1>9, <2>1 DEF Lifecycle!Redo, Requests
  <2>3. QED
    BY <2>1, <2>2 DEF LifecycleStep, Lifecycle!Next
<1>10. CASE (Live(h) <=> st \in {"pending", "processing"}) /\ UNCHANGED openReviews
  <2>1. \A r \in identified : Live(r)' <=> Live(r)
    BY <1>5, <1>6, <1>10
  <2>2. QED
    BY <1>2, <1>10, <2>1, SameRequests, Stutters
<1>11. QED
  BY <1>3, <1>7, <1>8, <1>9, <1>10

\* The commit of a sync asks once for every task it found.
LEMMA RefineSync ==
  ASSUME TypeInv, RetryInv, NEW found \in SUBSET Tasks, SyncCommit(found)
  PROVE  LifecycleStep
<1> DEFINE new(t) == <<t, syncStamp>>
           rows   == {new(t) : t \in found}
<1>1. syncStamp \in 1 .. MaxStamp
  BY MaxStampAssumption DEF SyncCommit, TypeInv, TypeOK
<1>2. \A t \in Tasks : new(t) \in Rows /\ TaskOf(new(t)) = t /\ status[new(t)] = "absent"
  <2>1. \A t \in Tasks : new(t) \in Rows /\ TaskOf(new(t)) = t /\ CreatedAt(new(t)) = syncStamp
    BY <1>1 DEF Rows, TaskOf, CreatedAt
  <2>2. QED
    BY <2>1 DEF RetryInv, FreshInv
<1>3. /\ status' = [r \in Rows |-> IF r \in rows THEN "pending" ELSE status[r]]
      /\ identified' = identified \cup rows
      /\ UNCHANGED openReviews
  BY DEF SyncCommit, EnqueueByStableId
<1>4. identified \subseteq Rows
  BY DEF TypeInv, TypeOK, TableTypeOK
<1>5. \A t \in Tasks \ found : RequestsOf(t)' = RequestsOf(t)
  <2> SUFFICES ASSUME NEW t \in Tasks \ found, NEW r
               PROVE  r \in RequestsOf(t)' <=> r \in RequestsOf(t)
    OBVIOUS
  <2>1. TaskOf(r) = t => r \notin rows
    BY <1>2
  <2>2. QED
    BY <1>3, <1>4, <2>1 DEF RequestsOf, TaskOf, Live
<1>6. \A t \in found : /\ RequestsOf(t)' = RequestsOf(t) \cup {new(t)}
                       /\ new(t) \notin RequestsOf(t)
  <2> SUFFICES ASSUME NEW t \in found
               PROVE  /\ RequestsOf(t)' = RequestsOf(t) \cup {new(t)}
                      /\ new(t) \notin RequestsOf(t)
    OBVIOUS
  <2>1. new(t) \in rows /\ new(t) \in Rows /\ TaskOf(new(t)) = t
        /\ status[new(t)] = "absent"
    BY <1>2
  <2>2. \A r : TaskOf(r) = t /\ r \in rows => r = new(t)
    BY <1>2
  <2>3. new(t) \in RequestsOf(t)'
    BY <1>3, <2>1 DEF RequestsOf, TaskOf, Live
  <2>4. \A r : r # new(t) => (r \in RequestsOf(t)' <=> r \in RequestsOf(t))
    BY <1>3, <1>4, <2>2 DEF RequestsOf, TaskOf, Live
  <2>5. new(t) \notin RequestsOf(t)
    BY <2>1 DEF RequestsOf, Live
  <2>6. QED
    BY <2>3, <2>4, <2>5
<1>7. \A t \in found : Cardinality(RequestsOf(t)') = Cardinality(RequestsOf(t)) + 1
  <2> SUFFICES ASSUME NEW t \in found
               PROVE  Cardinality(RequestsOf(t)') = Cardinality(RequestsOf(t)) + 1
    OBVIOUS
  <2>1. IsFiniteSet(RequestsOf(t))
    BY RequestsCounted
  <2>2. PICK r : r \notin RequestsOf(t) /\ RequestsOf(t)' = RequestsOf(t) \cup {r}
    BY <1>6
  <2>3. QED
    BY <2>1, <2>2, FS_AddElement
<1>8. Requests' = [t \in Tasks |-> IF t \in found THEN Requests[t] + 1 ELSE Requests[t]]
  <2>1. Requests' = [t \in Tasks |-> Cardinality(RequestsOf(t)')]
    BY DEF Requests
  <2>2. \A t \in Tasks : Requests[t] = Cardinality(RequestsOf(t))
    BY DEF Requests
  <2>3. QED
    BY <1>5, <1>7, <2>1, <2>2
<1>9. Lifecycle!Ask(found)
  BY <1>3, <1>8 DEF Lifecycle!Ask, Requests
<1>10. QED
  BY <1>9 DEF LifecycleStep, Lifecycle!Next

LEMMA RefineEnvironment ==
  ASSUME NoAdminActions, TypeInv, RetryInv, TimePasses \/ FeedStep \/ UserStep
  PROVE  LifecycleStep
<1>1. CASE TimePasses \/ SyncBegin \/ SyncAborts
  <2>1. UNCHANGED <<identified, openReviews>> /\ UNCHANGED status
    BY <1>1 DEF TimePasses, RetryDelayElapses, OrphanLockExpires, RunOverruns,
                DelayElapses, LockExpires, SyncBegin, SyncAborts, tableVars, reviewVars
  <2>2. QED
    BY <2>1, RefineQuiet
<1>2. ASSUME NEW t \in Tasks, Decide(t) \/ SkipProposal(t)
      PROVE  LifecycleStep
  <2>1. /\ openReviews[t] > 0
        /\ openReviews' = [openReviews EXCEPT ![t] = @ - 1]
        /\ UNCHANGED <<status, identified>>
    BY <1>2 DEF Decide, SkipProposal, tableVars
  <2>2. UNCHANGED Requests
    BY <2>1, SameRequests DEF Live
  <2>3. Lifecycle!Decide(t)
    BY <2>1, <2>2 DEF Lifecycle!Decide, Requests
  <2>4. QED
    BY <2>3 DEF LifecycleStep, Lifecycle!Next
<1>3. ~ \E t \in Tasks :
       AdminReprocess(t) \/ AdminRetry(t) \/ AdminReclassify(t) \/ AdminImport(t)
  BY DEF NoAdminActions, AdminReprocess, AdminRetry, AdminReclassify, AdminImport
<1>4. QED
  BY <1>1, <1>2, <1>3, RefineSync DEF FeedStep, UserStep

LEMMA RefineStep ==
  ASSUME OneWorkerOnly, OneRecordEach, NoAdminActions
  PROVE  TypeInv /\ RetryInv /\ StrandInv /\ WorksOnLive /\ [Next]_vars => LifecycleStep
<1> SUFFICES ASSUME TypeInv, RetryInv, StrandInv, WorksOnLive, [Next]_vars
             PROVE  LifecycleStep
  OBVIOUS
<1>1. ASSUME NEW w \in Workers,
             BeginRun(w) \/ SelectOldest(w) \/ SelectNothing(w) \/ PassOverOlder(w)
               \/ StartProcessing(w) \/ SendReturns(w) \/ ProcessingError(w)
               \/ RateLimited(w) \/ ResetRecord(w) \/ ResetRecordFails(w) \/ Abandon(w)
      PROVE  LifecycleStep
  <2>1. UNCHANGED <<status, identified, openReviews>>
    BY <1>1 DEF tableVars, reviewVars, BeginRun, SelectOldest, SelectNothing, PassOverOlder,
                StartProcessing, SendReturns, ProcessingError, RateLimited, ResetRecord,
                ResetRecordFails, Abandon
  <2>2. QED
    BY <2>1, RefineQuiet
<1>2. CASE UNCHANGED vars
  <2>1. UNCHANGED <<status, identified, openReviews>>
    BY <1>2 DEF vars, tableVars, reviewVars
  <2>2. QED
    BY <2>1, RefineQuiet
<1>3. QED
  BY <1>1, <1>2, RefineLock, RefineWrite, RefineEnvironment DEF Next, WorkerStep

\* The pipeline of one worker, where every source task has one record and no
\* admin request is made, implements the abstract TaskLifecycle (ImplementsLifecycle): in every behaviour, whatever crashes,
\* retries and rate limits, a request disappears only with a proposal in the
\* same commit, for another request of its task, or by failing for good.
THEOREM WorkerImplementsLifecycle ==
  ASSUME OneWorkerOnly, OneRecordEach, NoAdminActions
  PROVE  Spec => ImplementsLifecycle
<1>1. Init => Lifecycle!Init
  <2> SUFFICES ASSUME Init PROVE Lifecycle!Init
    OBVIOUS
  <2>1. \A t : RequestsOf(t) = {}
    BY DEF Init, TableInit, RequestsOf
  <2>2. QED
    BY <2>1, FS_EmptySet DEF Init, Lifecycle!Init
<1>2. Init => StrandInv /\ WorksOnLive
  BY StrandInit DEF Init, WorksOnLive
<1>3. TypeInv /\ RetryInv /\ [Next]_vars => RetryInv'
  BY RetryStep
<1>4. TypeInv /\ RetryInv /\ StrandInv /\ [Next]_vars => StrandInv'
  BY StrandStep
<1>5. TypeInv /\ RetryInv /\ WorksOnLive /\ [Next]_vars => WorksOnLive'
  BY WorksOnLiveStep
<1>6. TypeInv /\ RetryInv /\ StrandInv /\ WorksOnLive /\ [Next]_vars
        => [Lifecycle!Next]_(Lifecycle!vars)
  BY RefineStep DEF LifecycleStep
<1>7. QED
  BY <1>1, <1>2, <1>3, <1>4, <1>5, <1>6, RetryInit, AlwaysTypeInv, PTL
     DEF Spec, ImplementsLifecycle, Lifecycle!Spec

==============================================================================
