# Chiefly: specifications, model checking and proofs

Chiefly watches a user's Google Tasks, has a language model propose a title, a
kind and a project for every task, and applies a proposal once the user confirms
it in Telegram or in the Mini App.  This directory holds TLA+ models of the
program, the TLC configurations that check them on small instances, and theorems
checked by TLAPS.  `PROJECT.json` maps each definition to the lines it models and
lists runs, mutants, findings, hazards and theorems.

    tlc -workers 2 -config MCReviewSafety.cfg MCReviewQueue.tla
    tlapm ReviewQueueProofs.tla

## 1. The system

### Processes and shared state

The public process (`apps/api/main.py`) is one asyncio loop.  APScheduler runs
four jobs in it, each with `max_instances=1` and `coalesce`: *task_sync* (60 s),
*task_processing* (10 s), *daily_review* and *project_sync*.  The same loop runs
aiogram, which starts one coroutine per Telegram update, and the FastAPI routes of
the Mini App.  The admin panel is a second process (`apps/admin/main.py`).  All share one PostgreSQL
database (READ COMMITTED, each coroutine with its own SQLAlchemy session).  A
second public process, for example during a rolling restart, is nowhere excluded.

Calls to Google are synchronous, so no other coroutine runs during one; calls to
Telegram, to the model and to the database are awaited, so others do.

### Inventory

| component | state | operations | what makes it correct | hard part | module |
|---|---|---|---|---|---|
| processing queue (`processing_queue_repo.py`) | `task_processing_queue`: status, retry_count, not_before, locked_at | enqueue, claim_next, mark_processing, complete, fail, requeue_with_delay | newest request wins, failure after `max_retries`, nothing lost | SKIP LOCKED, rollback of a claim, stale locks | ProcessingQueue |
| processing worker (`processing_worker.py`) | its open transactions; `task_records.processing_status` | run_processing, _process_entry, two exception handlers | every request settles; a waiting task has a row; buffer bounded | crash between commits, errors after the commit, rate limits | ProcessingWorker |
| review queue (`review_queue_service.py`, `review_session_repo.py`) | `telegram_review_sessions` | send_next | one proposal at a time, none lost, none shown after its decision | check and send are separate steps | ReviewQueue |
| Telegram callbacks, commands | none of their own | confirm, discard, skip, /next, queue:*, pause | a decision is applied once, to what the user saw | concurrent handlers, failing answers | ReviewQueue, TaskEdits |
| Mini App service | none of its own | confirm_task, discard_task, edits of a proposal | the same | races with Telegram | ReviewQueue, TaskEdits |
| task sync (`sync_service.py`) | `source_tasks`, `task_records`, `task_snapshots` | sync_all, missing detection | one record per task; moved, changed and deleted tasks recognised | moves between lists, partial cycles, identity collisions | TaskSync |
| Google client (`google_tasks_service.py`) | Google's lists | list, get, patch, move | no duplicate, no loss | move is insert then delete | TaskSync, TaskEdits |
| notes envelope (`notes_codec.py`) | none | parse, format, extract_user_notes | user text kept, identity found again | hand-edited notes | NotesCodec |
| rollback, locks, admin edits | `processing_locks`, `task_revisions` | rollback, rewrite_title, edit_task | every change on record, rollbacks one after the other | stale snapshots, lock dropped before the commit, identities that come back | TaskEdits, TaskSync |
| LLM pipeline (`llm_service.py`, `classification_service.py`, `project_routing_service.py`) | none | run_pipeline, route | an outcome for every input, confidence only when earned | partial pipelines, fallbacks | Classification |
| rate limiter (`rate_limiter.py`) | token buckets of a process | check, acquire, refill | never above the rate; the delay is long enough | the delay covers one token, a task needs several | RateLimiter |
| model settings | `app_settings` | save, reset, merge with the environment | the next attempt uses them | changed between attempts | Classification |
| project sync | `projects` | sync_from_google | a project per list, unique slugs | overlapping cycles, no unique index on the list's id, renames that swap slugs | ProjectSync |
| prompt versions | `project_prompt_versions` | create, activate, edit, draft | one active version | overlapping requests | PromptVersions |
| user settings, review pause | `app_settings`, a cached flag | toggles | no lost update, cache equals database | start-up order | the flag in ReviewQueue |
| change monitor, alerts, events; daily review; legacy state machine; admin pages; Mini App front end; migrations | | | | | not modelled, see section 11 |

How they interact: sync inserts queue rows and PENDING records in one transaction;
the worker claims a row in a first transaction and processes it in a second, which
adopts the task, asks the model under the rate limiter, patches the notes in Google,
and then creates the review session, sets the record to AWAITING_REVIEW and completes
the row in one commit; it then runs `send_next`.  Decisions change the task in Google,
write a revision, set session and record and run `send_next` again.  The number of
AWAITING_REVIEW records is the back pressure on the worker.  Project sync runs at the
beginning of every task sync; when it raises, no task is synced.

`PROJECT.json` lists the hazards, each at the line where it bites, with the
properties that cover it or the reason why none does.

## 2. Modules

| module | what it is | uses |
|---|---|---|
| ProcessingQueue, ProcessingWorker | the queue, the worker, what feeds and drains them | |
| TaskLifecycle, ProcessingWorkerRefinement | what the pipeline promises of a task; one worker implements it | ProcessingWorker |
| ReviewQueue | sessions, sender, decisions | |
| TaskSync | Google's lists and the records: sync, adoption, annotation, confirmation, admin's edit, rewrite, rollback and import | |
| NotesCodec, TaskEdits | the envelope; one task and everyone who changes it after its proposal | TaskEdits extends NotesCodec |
| RateLimiter, Classification | buckets; the calls of an attempt, routing, settings, requeue | Classification extends RateLimiter |
| ProjectSync, PromptVersions | projects against lists; versions of one project | MCProjects runs both |
| MC* | model values, symmetry | |
| ProcessingWorkerProofs | theorems about the worker, and that it implements TaskLifecycle | ProcessingWorkerRefinement |
| ReviewQueueProofs, TaskSyncProofs, TaskEditsProofs, ClassificationProofs | theorems about the module they are named after | |
| ProjectsProofs | theorems about PromptVersions and ProjectSync | PromptVersions, ProjectSync, Induction |
| Induction | induction over a set of natural numbers | NotesCodecProofs and ProjectsProofs extend it |
| NotesCodecProofs | what the operators of NotesCodec do with notes of any length | TaskEditsProofs extends it |

The modules cut the program where one commit hands over to the next: `Propose` ends a
run in ProcessingWorker and TaskSync and gives birth to a session in ReviewQueue, whose
decisions TaskEdits spells out with their calls to Google.  ProcessingWorker
leaves open what a classification does, Classification what the queue does with
several rows of a task, TaskSync the order of the queue's rows.  Each module says at
its head what it leaves to others.

Worth proving next: that two projects of one list, or a mixture of two fetches, take
another cycle that commits in between, and that a project sync is refused only for a
list with two projects or a slug that another project holds.

## 3. Processing: ProcessingQueue and ProcessingWorker

`ProcessingQueue` is the table with one operator per repository method.
`ProcessingWorker` extends it with the worker's control state and everything that
writes the table or `processing_status`.

| TLA+ | code |
|---|---|
| `status`, `retries`, `identified` | processing_status, retry_count, `stable_id IS NOT NULL` |
| `delayed`, `expired` | not_before in the future; locked_at older than STALE_LOCK_TIMEOUT_SECONDS |
| a row `<<t, c>>` | the record it is for and created_at (the start of the inserting transaction) |
| `Source` | the source task of each record, which its rows carry as source_task_id |
| `pc`, `held`, `marked` | position in run_processing, entry, rows flushed as SKIPPED but not committed |
| `workflow`, `openReviews` | processing_status of the record, sessions the user can still decide |
| `syncStamp` | created_at of the open sync transaction |

A step is what happens between two points where another actor can interleave: a
statement that takes a row lock, or a commit.  Uncommitted writes are invisible to
others and are kept in `marked`, or applied at the commit that publishes them
(StartProcessing flushes PROCESSING, but only PatchFails, Propose and GoogleTaskGone
commit).  Locks are derived from `pc`: the row under FOR UPDATE while a claim is
open, the row and the record while the language model is asked.  Two consequences
are modelled because they matter: a stale reclaim cannot take the row of a run that
is past mark_processing, and sync and admin updates wait for its record.

A source task is a Google id.  Most have one record; a task that is dragged to another
list before its adoption gets a second one, since `_find_moved_record` looks for
adopted records only.  `claim_next` compares source tasks, so `Source` says which
records share one: `SameSource` is the comparison, and it makes the row of one record
supersede that of another.

Several elements of `Workers` are several processes.  One worker is the deployed
configuration; properties that hold only for one worker say so, and the overlapping
case is checked for those that must survive it.

Properties, all about several steps or several actors:

* **SupersededBySurvivor**: a SKIPPED row was superseded by a newer one of the source
  task that was itself neither absent nor skipped.
* **NoTaskStranded**: a record that is pending or processing, and is the only one of its
  source task, has a live row that will get it processed.  It assumes one worker and no
  admin request: reprocess, retry, reclassify and import-from-google each break it.
* **FailedIffExhausted**: a row is FAILED exactly when its retries are used up.
* **DeadRowsStayDead**: FAILED and SKIPPED are final.
* **BufferBound**: the review buffer is exceeded at most by concurrent runs.
* **EveryRowSettles**: every pending row is eventually completed, failed or skipped.
* **ImplementsLifecycle**: every step of one worker is a step of TaskLifecycle or none,
  when every record has a source task of its own.

`TaskLifecycle` counts, for each task, the requests still to be answered and the
proposals the user can still decide.  Requests give way to others of the same task
only, are answered together with a proposal in one step, or are given up; an answered
request may be asked again.  That is at-least-once processing: a failure after the
commit may produce a second proposal, and a request ends without one only when it
has failed for good.
`ProcessingWorkerRefinement` maps a request to a row that carries a stable_id and is
PENDING, LOCKED or PROCESSING, whoever holds it; `marked` rows of an open claim still
count, since their SKIPPED is not committed.

## 4. Review: ReviewQueue

| TLA+ | code |
|---|---|
| `session` | telegram_review_sessions.status |
| `pc`, `target` | position of a coroutine, and the session it has read |
| `own` | the session object that a worker's run holds in memory |
| `workflow`, `paused` | record status; the cached pause flag |

Workers propose and send; chats are Telegram updates, which decide, answer and send;
apps are Mini App requests, which only decide.  The steps of `send_next` are those
between its awaits: the check, the two picks, the Telegram call with the commit that
follows, the notice.  `Locked` is the FOR UPDATE lock, held from the pick to the
commit.  A decision reads the newest suitable session and later writes it without
looking again.  When `send_next` raises in the worker, the handler sets the run's own
session to SEND_FAILED; if that session is the one that failed, the object already
has that value and SQLAlchemy emits no UPDATE, so the model writes nothing.

The branch of `send_next` for a proposal without `proposed_changes` is left out: the
worker always stores a non-empty dictionary and the edits keep it.

* **ActiveBound**: no more ACTIVE sessions than coroutines that can send at once.
* **NoProposalLost**: a task that awaits review has an undecided session.
* **ShowsOnlyUndecided**: a session becomes ACTIVE only from QUEUED or SEND_FAILED.
* **EveryProposalReviewed**: every queued or failed proposal is shown or decided.

## 5. Google and the records: TaskSync

| TLA+ | code |
|---|---|
| `google` | Google's tasks: list, status, title and its form, notes, stable id of the envelope |
| `rec`, `snap` | task_records (pointer, state, consecutive_misses); content of the latest snapshot |
| `queue` | stable_id of the newest pending row of each source task |
| `past` | before states of a record's task_revisions, which a rollback can go back to |
| `cycle`, `draft` | position of run_sync in lists and items; what its transaction has written |
| `work` | the run of the worker with its adoption, what it has read, and the before states it will commit |
| `conf` | a confirmation, edit, rewrite or rollback between Google and its commit |
| `unseen` | history: completed cycles in a row that have not seen a record |

A call to Google takes effect at once and is never undone, a transaction's writes are
visible at its commit, and a record it has updated is locked until then.  The sync
looks a task up and then writes in two steps, since the worker, a confirmation, the admin
or an import may commit in between; calls to Google that follow each other without an
await are one step of the public process.

Titles and notes are version numbers.  `compute_content_hash` strips and lowercases, so a
title has several forms (the letters and the outer white space of one text): `Hash`
forgets the form and the list, and the sync takes a task as changed only when the hashes
differ.  An import hashes `title|notes` instead, so its snapshot equals none of the sync's
(form `Imported`) and the next cycle takes the task as changed.

The user edits title and notes, cuts the envelope off, drags, completes, reopens and
deletes.  The admin edits (the notes are made from the snapshot, and emptied when the form
is empty and the snapshot has no envelope), rewrites a title, rolls a revision back, and
imports.  A rollback writes title and notes of a before state, and moves the task back to
the list the before state names; one that is Google's payload, as the worker's and the
confirmation's are (`Payload`), names none.  When a call of a rollback fails, what was
called before stays in Google and the transaction is rolled back (`conf.by = "nobody"`).
`Requests` says what the admin does in an instance, and `past` is kept only where a
rollback can still come.  Confirmations, edits, rewrites and rollbacks come one after
the other here (TaskEdits has their overlaps), and the admin does not move a task whose
record is not adopted.

* **DeletedNeedsConsecutiveMisses**: DELETED takes `Threshold` completed cycles in a row.
* **RecordsCatchUp**: when the user, the admin and the faults are through, every open task
  has a record with its present content as far as the hash tells contents apart, and no
  adopted record counts a task as there that is gone, unless an envelope names a record
  that no look-up finds.  A record that was never adopted is not looked for, so nothing
  is claimed of one whose task is gone.
* **ProposedTasksCarryTheirId**: a proposal is published only for a task whose notes name
  its record, unless they have been changed since the worker patched them; and while it is
  undecided only an edit by the user, or the admin's edits, rewrites and rollbacks, take
  the name away.  A rollback of the worker's own revision does: it brings back the id that
  adoption made up.  Tasks that are gone, and tasks with a second record that claims them,
  are excepted.
* **OnlyDuplicatesBlockSync**: a cycle is refused by a unique index only for a new task
  with the envelope of a record that is looked for no more or points at another task,
  or because a record was written since its look-up; never do two records dispute a
  place.  A confirmation that names a place which the sync transaction fills or leaves
  waits for that transaction at the index (`PlaceInDoubt`).

## 6. Changes of one task: TaskEdits and NotesCodec

`NotesCodec` sees notes as a sequence of segments: the user's text, whole envelopes,
and envelopes whose end the user has cut off.  Its operators keep the segments at some
positions, which the recursive function in `Selected` does.  `TaskEdits` has one task with its
proposal and `Procs` operations at a time, each a read, its calls to Google, and a
commit: confirm, discard, the edit of a proposal in the Mini App, the admin's edit,
rewrite and rollback.  The admin panel is a process of its own (`apps/admin/main.py`),
so its calls to Google interleave with those of the public process; within one handler,
a run of calls without an await is one step, except where the admin's edit looks up the
project between two calls.  Where a call fails, what the calls before it did stays.

| TLA+ | code |
|---|---|
| `task`, `clock` | the Google tasks the record has pointed at, Google's `updated` |
| `record`, `session` | pointer and processing_status; open or resolved, proposed_changes |
| `revs` | task_revisions in the order of their commits, with before and after states |
| `snapshot` | the latest snapshot, which the admin's edits start from |
| `ops` | what each operation has read, and the revision number it will write |

* **RollbacksAreSerial**: no rollback starts from a state older than another one left.
* **SecondDecisionOverlaps**: two decisions of a task can only be overlapping ones.
* **EveryChangeIsOnRecord**: when no call fails, the live task is as some revision left it.
* **SerialEditsKeepTheTask**: only an overlap or a failure makes the record lose its task.
* **EditsKeepUserText**: an admin's edit made from the present notes keeps the user's text.
* **RollbackRestoresList** is violated, see section 9.

## 7. Classification and RateLimiter

`RateLimiter` keeps a bucket in units of 1/`Interval` of a token, so that a tick adds
`Amount` units and a call takes `Interval` of them.  `Classification` runs the stages
of an attempt (normalize, classify, disambiguate when the answer is of low confidence,
describe, steps), each a call that is let through, fails, or is refused: two tries,
then one pair with the fallback model if there is another one, then the stage's own
fallback.  A refused call ends the attempt; the worker puts its row back with the delay
the bucket names.  Routing is the operator `Route`; hits of aliases, the answer and the
projects are free.  A behaviour is that of one process, since each has its own buckets.

* **RateKept**: in any stretch of ticks no more calls to a provider than a full bucket
  and its refill; `recent` counts them in the latest tick, the latest two, and so on.
* **WaitEarnsAToken**: after its delay a row finds the token it waited for, unless
  another caller has taken it.
* **ConfidenceIsEarned**: confidence comes from an alias, a name, or the model's own.
* **EveryAttemptEnds**: no failure makes an attempt go on for ever.
* **ServedWhenLocal**: once the settings name a local provider, every row is proposed.

## 8. ProjectSync and PromptVersions

`ProjectSync` has one step for the fetch of the lists and one for each statement that
follows: the look-up of a list's project, the look-up of a slug, the write of a row that
was found, renamed, new or without its list, the query for all projects, the commit.

| TLA+ | code |
|---|---|
| `lists` | the name of each list in Google |
| `project` | the committed rows; a row is named by its list and by the cycle that inserted it |
| `cycle[c].seen`, `done`, `target`, `due` | what was fetched, how far the loop is, the row it works on and the columns it found different |
| `cycle[c].draft` | the rows its transaction has written |
| `cycle[c].alone` | history: no other cycle has committed since its fetch |

Reads take no lock and see what is committed and what the cycle has written (`View`).
`last_seen_at` is written in any case, so `Touch` locks the row of every list; name and
slug are written only where the name that was read differs, in the row as it is by then.
A write waits for a cycle that has written the row or, at the unique index, the slug
(`WaitsFor`); cycles that wait for each other are ended by the database
(`DeadlockDetected`).  A new project evades a slug that is taken by a suffix, a rename
does not, and then the transaction is refused.  No index keeps google_tasklist_id unique:
two cycles that meet a new list can both insert a project for it, and from then on the
look-up of that list raises in every cycle (`Ambiguous`, `Refused`).  The run takes one
prefix for all list ids, of which the suffix is made, as ids of one account share it.

`PromptVersions` has the pages of one project's versions as two reads and a commit; row
locks within a commit are left out since a commit is one step.  `MCProjects` runs the one
or the other, chosen by `part`; they share no state.

* **ProjectsCatchUp**: when the user leaves the lists alone, projects come to agree with
  them for good, though cycles overlap, mix their fetches, fail and wait; or else a list
  has two projects, or a slug two claimants, and that for good.
* **ProjectsShowOneFetch**: a cycle with no other commit between its fetch and its commit
  leaves all projects as it has fetched their lists.  Where another commits in between,
  the two can leave a mixture of their fetches, which the next cycle repairs.
* **OneActiveUnlessOverlapped**, **ActiveIsHandedOver**: requests that do not overlap
  leave at most one active version, and never take it away without a successor.

## 9. Runs, bounds and fairness

| run | instance | shows |
|---|---|---|
| worker_concurrent | 2 workers, 2 records of one source task, 2 rows each, reprocess and import, 1 crash, 1 skip, 1 overrun | TypeOK, SupersededBySurvivor |
| worker_single | 1 worker, 2 records with a source task each, 2 rows each, 2 retries, 1 crash, buffer of 1 | FailedIffExhausted, NoTaskStranded, BufferBound, DeadRowsStayDead, ImplementsLifecycle |
| worker_live | 1 worker, 1 record, 3 rows, 2 retries, retry and reclassify, 1 crash, 1 rate limit | EveryRowSettles |
| review_safety | 1 worker, 1 chat, 1 request, 2 tasks, 3 sessions, 1 failed send, 1 lost coroutine | TypeOK, ActiveBound, NoProposalLost, ShowsOnlyUndecided |
| review_live | 1 worker, 1 chat, 1 request, 1 task, 2 sessions, 1 failed send, 1 pause, 1 lost coroutine | EveryProposalReviewed |
| sync_user | 2 lists, 2 Google tasks, 4 ids, 2 forms of a title, 3 changes by the user, the admin's edit or a fault (1 at most), threshold 2, no worker | DeletedNeedsConsecutiveMisses, RecordsCatchUp |
| sync_worker | 2 lists, 2 Google tasks, 4 ids, 2 runs of the worker, 1 change by the user, request of the admin (all four kinds) or fault | TypeOK, ProposedTasksCarryTheirId, OnlyDuplicatesBlockSync |
| edits | 2 lists, 2 titles, 2 operations in every overlap, 1 change by the user, 1 failed call | TypeOK, RollbacksAreSerial, SecondDecisionOverlaps, EveryChangeIsOnRecord, SerialEditsKeepTheTask, EditsKeepUserText |
| classify | 1 row, 1 caller, bucket of 2 tokens of 2 ticks, 2 requests, 2 changes of the settings | TypeOK, RateKept, WaitEarnsAToken, ConfidenceIsEarned, EveryAttemptEnds, ServedWhenLocal |
| projects | 2 lists, 2 names, 2 cycles in every overlap of their statements, 2 renames, 1 fault; 2 requests, 4 versions | ProjectsCatchUp, ProjectsShowOneFetch, OneActiveUnlessOverlapped, ActiveIsHandedOver |

Two runs end in a violation, each an entry of "findings" in `PROJECT.json`:
*worker_skip_stall* (a skipped proposal keeps its place in the buffer for ever, against
a comment in `review_queue_service.py`) and *rollback_list* (a rollback of a move
leaves the task in the new list, against the docstring of `rollback_service.py`).

Bounds.  Three rows, of one record or of two that share a source task, are the least
with a superseded row, its successor and a third that arrives while the second is
claimed; two retries distinguish "retried" from
"exhausted"; a buffer of one makes the check bite.  Three sessions let two be ACTIVE
and a third exceed the bound if the check were missing.  Two lists and two Google tasks
let a task move, be copied and collide with its copy; a threshold of two
distinguishes missing from deleted; three changes (`MaxUpsets`) are a task dragged away
and back and one more; with the worker and all of the admin's requests one change is what
fits, and what the worker, the confirmation and the sync do takes none; a task that was
adopted and moved before gives a rollback something to go back to; two forms are the least
that a hash cannot tell apart; four ids are enough for every identity that adoptions and new
tasks make up, so that no cycle stops for want of one.  Two operations are the least that overlap, and one after the
other they show what a rollback makes of an earlier change.  Two tokens are fewer than
a classification needs, so rows are refused half way and put back.  Two lists that take over
each other's names make slugs collide, and two cycles are enough for the mixtures, the
second projects and the circles of waiting that overlaps lead to.  `MaxStamp`,
`MaxSessions`, `MaxCrashes`, `MaxRateLimits`, `MaxSkips`, `MaxOverruns`,
`MaxSendFailures`, `MaxPauses`, `MaxTasks`, `MaxIds`, `MaxForms`, `MaxUpsets`, `MaxFaults`,
`MaxRuns`, `MaxOps`, `MaxRequests`, `MaxSaves`, `MaxRenames` and `MaxVersions` exist only
to keep the state space finite; the theorems hold for all values of those in their
modules.  Symmetry is used in runs without liveness properties only.

Deadlock.  The runs of ProcessingWorker switch the check off: with its stamps used up,
or with the buffer full of skipped proposals, the system really stops.  So do those of
TaskEdits, whose steps all come from people who may ask for nothing more.

Fairness.  Weak for each worker (the scheduler starts the job again every ten
seconds and a coroutine that can run does), for the clocks (retry delay, stale lock)
and for every coroutine of ReviewQueue.  The user is assumed to keep deciding, to
resume a paused review, and to keep asking for the next proposal.  The assumptions on
the user's presses are strong because the model has fewer handlers than aiogram,
which starts one per update: that a handler is busy loses no press.  Resolve is
strongly fair for a chat because a user whose confirmation is refused will eventually
use another button.  No fairness is assumed of sync, admin, skip, crash or failure.
BufferRefills is refuted under the same fairness.  Sync cycles are
weakly fair (an interval job starts again, whatever became of the last one).  Project
syncs are strongly fair, each cycle by itself: PostgreSQL hands a row or a slug that is
set free to the transaction that waited for it, and not again and again to a later one.
Nothing else is assumed in those modules.  In Classification the clock and every call are weakly fair
(the client has a timeout), and Claim is strongly fair for every row: the scheduler
goes on claiming and takes the oldest row that is due.

### What the code does not promise

Behaviour met while modelling that limits what the properties can say:

* Latest-only counts PENDING entries: an older entry that was delayed is processed
  after the newer one is completed.
* reprocess, retry, reclassify and import-from-google can leave a task that waits without
  a row that processes it; NoTaskStranded and ImplementsLifecycle assume they are not used.
* Of two records of one source task the newer row supersedes the row of the other record,
  which then waits for nothing.
* Two senders that run together both send, so that two sessions are ACTIVE; the
  worker's error handler may overwrite a decided session with SEND_FAILED.
* Two overlapping decisions of one session both go through.
* What the user writes into the notes while the model is asked is lost, and an admin's
  edit of a task without an envelope empties them.
* A rewrite that overlaps a confirmation writes the old pointer back.
* An edit that changes only letter case or outer white space is no change to the sync:
  snapshot and proposal stay as they are.  A record that was never adopted is not looked
  for, and stays when its task is gone.
* A rollback of the worker's revision while its proposal is undecided brings back the id
  that adoption made up, which no record has.
* An envelope of a record that is given up or not adopted blocks the sync of every
  list; a rename to a slug that is taken blocks project sync and with it task sync.
* Overlapping project syncs can leave a mixture of two fetches until the next cycle, or two
  projects of one list, after which every project sync and with it every task sync fails.
* Overlapping requests on prompt versions leave two active ones, on which create,
  activate and draft then fail until an active version is edited, or none.
* A row refused by the limiter waits for one token and may spend it on the first of
  several calls, again and again; each process has a bucket of its own.

## 10. Proofs

The proof modules prove, for every value of the constants under the named assumptions
of the modules:

| theorem | argument |
|---|---|
| *ProcessingWorkerProofs* | |
| TypeCorrect | TypeOK with HoldsRow (a worker past its SELECT holds a row) |
| NewestRequestSurvives | for any assignment of records to source tasks; SurvivorInv counts a row marked in an open claim as already passed over and asks for a newer row that nobody has skipped or marked; the PENDING row a claim has seen either is such a row or, marked by another worker, has a newer one itself |
| RetriesDecideFailure, DeadRowsAreFinal | assume one worker; the row a worker holds is alive as long as nobody else can touch it, and rows that do not exist yet have no retries |
| WaitingTasksHaveRows | assumes one worker and no admin request, import included, and speaks of records that are the only one of their source task; a row marked by the open claim has a pending heir that is not marked (MarkedHaveHeir), a requeued row stays pending until its record is reset (RequeuedIsPending), and every row is identified, so none is completed unprocessed |
| BufferBounded | a run that has passed the check will add to the buffer whatever others add meanwhile, so BufferInv counts it as if its proposal were there already |
| WorkerImplementsLifecycle | assumes one worker, no admin request and a source task for every record (OneRecordEach); on top of the invariants above, the row a worker works on is a live request (WorksOnLive); then each step changes the requests of one task by at most one, and the lemmas on cardinality turn that into a step of TaskLifecycle or none |
| *ReviewQueueProofs* | |
| ReviewTypeCorrect | TypeOK with what each place of a coroutine implies (a session read, a session of its own) |
| ProposalsAreKept | each step has one of four effects on sessions and records (StepEffect); only a resolution ends with a decided session, and the same commit takes the record out of AWAITING_REVIEW |
| SendsShowOnlyUndecided | the lock invariant: no two senders hold one session, and a held session keeps the status it was picked in, because every other writer waits |
| ActiveIsBounded | the invariant counts ACTIVE sessions together with the senders that have passed the check; a sender passes only when the first number is zero |
| *TaskSyncProofs* | |
| TypeCorrect | TypeInv, with StateInv for what each position of cycle, run and confirmation implies |
| DeletionsWaitForTheThreshold | MissInv: a record has no more misses than cycles in a row have missed it; what the transaction has written it has seen, and a record that is not looked for has no count (StateInv) |
| ConflictsAreDuplicates | PlaceInv: no two records are at one place, neither in the database nor in what the sync transaction has made of it.  The second part needs the first, and that nobody moves a record that is not adopted |
| ProposalsCarryTheirId | KnownInv: of the tasks a record points at, or somebody has read it to point at, at most one is still there.  PointerInv: a task that is still there and that the sync transaction has written, or is about to write, to a record is the one the record points at anyway, and so is the task the worker has patched.  So the proposal's task is the same one before and after a step (GidStep), and of the steps that change a task's envelope (Effects) the worker's either write the id of the record or belong to a record without a proposal |
| *TaskEditsProofs* | |
| TypeCorrect | TypeInv gives every field of an operation its range and says how far the operation is, PlaceInv that whoever knows a task knows its list |
| RollbacksDoNotOverlap | RollInv: one rollback at a time, and what it starts from, as well as the task that is left, is as recent as what every earlier rollback left; it needs LiveInv, that of the tasks the record and the operations point at at most one lives |
| DecidedOnce | DecisionInv: after a decision the session is closed and whoever decides had begun before it |
| ChangesAreOnRecord | ChangeInv: the task that lives is as a revision says, or as one still to be committed will say, or an edit is not yet done with it |
| SerialEditsAreSafe | SerialInv: the task that lives is the record's or the copy of an operation that will commit it; an operation that no commit has overtaken knows the record's task or a copy that nobody else knows |
| EditsKeepTexts | FormInv: the notes an edit is about to write are `Format` of those it has read, and FormatKeepsTexts says what that keeps |
| *NotesCodecProofs* | |
| FormatKeepsTexts | no text lies in an envelope unless one is cut off, so removing the envelopes keeps every text in its order |
| *ClassificationProofs* | |
| TypeCorrect | TypeInv, with Resolve and Effective typed by the assumptions on the settings |
| CallsAreLimited | RateInv adds what is left in the bucket to the calls of every stretch of ticks: a call moves a token from the one to the other, a tick adds its refill to both sides |
| WaitIsLongEnough | WaitInv: bucket and the rest of the wait's refill together make a token; the delay is the ceiling of a division (CeilingDivision) |
| ProposalsEarnConfidence | EarnedInv, from what Route returns in each of its cases |
| *ProjectsProofs* | |
| OneVersionIsActive, ActivationIsHandedOver | SerialInv: while no requests have overlapped there is at most one, and it knows the versions as they are; version numbers have no gap, so that the next one is free |
| UndisturbedCyclesLeaveNoMixture | KnowsRows: as long as no other cycle has committed, the row a cycle works on is as it has read it, and so is the set of projects of its list; SoloInv: what it sees of the lists it has finished is what was fetched, of the others nothing new, and `gone` are the active rows without a list that it has not yet deactivated.  A commit by another takes the assumption away |

The properties are not inductive alone: ActiveBound, for example, says nothing of a
sender that has passed the check, so the invariant must count it.  TLC checked the
invariants on the instances of section 9 before they were proved.

The proofs for TaskEdits and TaskSync have a lemma for each action that reduces it to
one of a few shapes of step (`NextSteps`, `NextShapes`): in TaskEdits an operation begins,
calls Google, ends, or commits, a proposal is made, the user changes the task, or the
snapshot changes; in TaskSync the sync scans, writes a record, rolls back or commits, a
run begins, reads, annotates or ends, a change is made, settled or forgotten, the
user acts, or records are imported; a confirmation and the admin's requests share
their shapes.  The invariants are proved for the shapes.

The library's theorems on induction take an operator as their argument, which the
provers cannot instantiate.  `Induction` has it for sets of numbers
instead: the intervals from 0 to the members of a set are finite sets, strict inclusion
of finite sets is well founded, and so every set of naturals that is not empty has a
least element (`LeastElement`, `SetInduction`).  What `Selected` computes follows for
sequences of any length; that some list, revision or segment is the first of its kind
follows from `LeastElement`.

Assumptions.  Those on the bounds only say that they are numbers.  FiniteAssumption
(tasks and workers are finite sets) lets cardinalities be compared; ConfigAssumption
says that the settings have the fields that the code reads; EditsAssumption says that
lists and titles exist and that no list has the name `None` stands for;
ProjectsAssumption that Google gives each list once, that there are lists and names and
that none of them is `None`.  The theorems that assume one worker, one record for a source
task or no admin request do so in their statement: section 9 lists what happens otherwise.

Two of the properties of TaskSync came out of their proofs: a task may carry the id of a
second record of it, and a new task may carry the envelope of a record that points
elsewhere; the properties say so.

Only model-checked: the liveness properties (EveryRowSettles, EveryProposalReviewed,
RecordsCatchUp, EveryAttemptEnds, ServedWhenLocal, ProjectsCatchUp), which are outside
the prover's reach, as is everything that needs ENABLED.
No module declares a RECURSIVE operator: the selection of NotesCodec is a recursive
function, so that theorems about it can be stated.

## 11. Not modelled

Contents of proposals, the model's answers, texts, keyboards, authentication, pages
and migrations: no property depends on them.  The daily review only reads.  The Mini
App front end caches what the routes return.  The legacy state machine is imported by
its unit test only.  The change monitor compares two reads of one transaction and
its result goes to the log and to alerts; events are rows that pages show.  User
settings are one JSON value read, changed and written, with the lost update that this
implies; the pause flag's cache matters only at start-up, which is not modelled.
Methods that nothing calls (`sync_tasklist`, `sync_inbox`, `complete_task`,
`deactivate_version`, `create_decision_revision`, `resolve_ambiguity`) are left out.
