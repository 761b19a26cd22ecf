------------------------------- MODULE TaskSync -------------------------------
(***************************************************************************)
(* Google's task lists and the records Chiefly keeps of them: the sync     *)
(* cycle (sync_service.py under sync_worker.py), the adoption and          *)
(* annotation of a task by the worker (processing_worker.py), the          *)
(* confirmation that renames or moves it (telegram/callbacks.py), the      *)
(* admin's edit, rewrite, rollback and import (routes/admin_api.py with    *)
(* admin_edit_service.py and rollback_service.py), and the user, who edits *)
(* the same tasks in Google.                                               *)
(*                                                                         *)
(* There are two stores.  A call to Google takes effect at once and is     *)
(* never undone; what a transaction writes to the database is visible to   *)
(* others at its commit, and a record it has updated is locked until then. *)
(* The sync transaction is long, so its writes are kept in "draft"; the    *)
(* transactions of worker and confirmation write at their commit.          *)
(*                                                                         *)
(* Title and notes are version numbers that increase; notes 0 are empty.   *)
(* A title can be written in several forms, which differ in letter case    *)
(* only: the content hash does not tell them apart.  The envelope of a     *)
(* task is the stable id in its notes (core/domain/notes_codec.py).  Only  *)
(* the newest request of a task is kept in the queue: the order of rows is *)
(* the subject of ProcessingQueue.                                         *)
(*                                                                         *)
(* A confirmation, an edit, a rewrite and a rollback make their calls to   *)
(* Google in one step and commit in another, and come one after the other: *)
(* how they overlap with each other is the subject of TaskEdits.  The      *)
(* admin does not move a task whose record is not adopted.                 *)
(***************************************************************************)
EXTENDS Naturals, FiniteSets, Functions

CONSTANTS
  Lists,          \* Google task lists
  MaxTasks,       \* bound: Google task ids
  MaxIds,         \* bound: stable ids in use
  MaxForms,       \* bound: forms of a title
  Threshold,      \* MISSING_THRESHOLD
  MaxFaults,      \* bound: failed calls, rate limits, crashes
  MaxUpsets,      \* bound: changes by the user, requests of the admin, and faults
  MaxRuns,        \* bound: runs of the worker
  Requests,       \* what the admin does: edit, rewrite, rollback, import
  ConfirmMoves    \* whether a confirmation may name another list

ASSUME ListsAssumption  == IsFiniteSet(Lists) /\ Lists # {}
ASSUME BoundsAssumption ==
  /\ MaxTasks \in Nat \ {0} /\ MaxIds \in Nat /\ MaxForms \in Nat \ {0} /\ Threshold \in Nat \ {0}
  /\ MaxUpsets \in Nat /\ MaxFaults \in Nat /\ MaxRuns \in Nat
  /\ ConfirmMoves \in BOOLEAN /\ Requests \subseteq {"edit", "rewrite", "rollback", "import"}

GTasks == 1 .. MaxTasks
Ids    == 1 .. MaxIds
None   == 0

VARIABLES
  google,     \* the tasks as Google stores them
  rec,        \* task_records
  snap,       \* content of the latest snapshot of each record
  queue,      \* stable_id of the newest pending row of each source task
  proposed,   \* records with an undecided proposal
  past,       \* before states of each record's revisions
  cycle,      \* the running sync cycle
  draft,      \* what the sync transaction has written
  unseen,     \* completed cycles in a row that have not seen the record
  work,       \* the worker's run
  conf,       \* the confirmation, edit, rewrite or rollback in progress
  used        \* consumed bounds

dbVars   == <<rec, snap, queue, proposed, past>>
syncVars == <<cycle, draft, unseen>>
vars == <<google, dbVars, syncVars, work, conf, used>>

GoogleState == {"absent", "open", "completed"}
RecordState == {"none", "unadopted", "active", "missing", "deleted"}

Forms    == 1 .. MaxForms
Imported == 0

\* The state of a task in a listing, a snapshot or a revision.  The snapshot of
\* an import has its own form: it is hashed as "title|notes".
Content == [list : Lists \cup {None}, title : Nat \ {0}, form : Forms \cup {Imported},
            notes : Nat, env : Ids \cup {None}]

\* The snapshot of a record that is not there, which nobody reads.
NoContent == [list |-> None, title |-> 1, form |-> 1, notes |-> 0, env |-> None]

\* compute_content_hash: title and notes, stripped and in lower case.
Hash(c) == IF c.form = Imported THEN c ELSE [c EXCEPT !.form = 1, !.list = None]

\* The JSON that Google returns from a get has no "tasklist_id".
Payload(c) == [c EXCEPT !.list = None]

NoRecord  == [state |-> "none", list |-> None, gid |-> None, misses |-> 0]
NoItem    == [gid |-> None, content |-> NoContent]
NoCycle   == [at |-> "off", todo |-> {}, list |-> None, items |-> {}, seen |-> {},
              item |-> NoItem, found |-> None, moved |-> FALSE, was |-> "none"]
NoDraft   == [dirty |-> {}, rec |-> [i \in Ids |-> NoRecord],
              snap |-> [i \in Ids |-> NoContent], rows |-> [g \in GTasks |-> None]]
NoWork    == [at |-> "idle", id |-> None, src |-> None, list |-> None, gid |-> None,
              adoption |-> "none", read |-> NoContent, before |-> {}]
NoConfirm == [at |-> "idle", id |-> None, list |-> None, gid |-> None, by |-> "user",
              points |-> FALSE, before |-> {}]

Records == {i \in Ids : rec[i].state # "none"}

\* A task as the listing of a list shows it.
Shown(g) == [list |-> google[g].list, title |-> google[g].title, form |-> google[g].form,
             notes |-> google[g].notes, env |-> google[g].env]

InList(g, l) == google[g].status # "absent" /\ google[g].list = l

ListOrNone == Lists \cup {None}

TypeOK ==
  /\ google \in [GTasks -> [status : GoogleState, list : ListOrNone, title : Nat,
                            form : Forms, notes : Nat, env : Ids \cup {None}]]
  /\ rec \in [Ids -> [state : RecordState, list : ListOrNone,
                      gid : GTasks \cup {None}, misses : 0 .. Threshold]]
  /\ snap \in [Ids -> Content]
  /\ queue \in [GTasks -> Ids \cup {None}]
  /\ proposed \subseteq Records
  /\ \A i \in Ids : past[i] \subseteq Content
  /\ cycle.at \in {"off", "tasks", "apply"}
  /\ cycle.todo \subseteq Lists /\ cycle.seen \subseteq Ids
  /\ draft.dirty \subseteq Ids
  /\ unseen \in [Ids -> 0 .. Threshold]
  /\ work.at \in {"idle", "claimed", "begun", "thinking", "annotated"}
  /\ conf.at \in {"idle", "applied"}
  /\ used \in [ops : Nat, faults : Nat, runs : Nat]

NewTask(l) == [status |-> "open", list |-> l, title |-> 1, form |-> 1, notes |-> 1,
               env |-> None]
NoTask     == [status |-> "absent", list |-> None, title |-> 0, form |-> 1, notes |-> 0,
               env |-> None]

\* The user has one task when Chiefly starts; it is new, or has been adopted, and
\* the admin's edits have moved it here from the other lists.
Init ==
  \E l \in Lists, adopted \in BOOLEAN :
    LET known == adopted /\ Ids # {}
        task  == IF known THEN [NewTask(l) EXCEPT !.env = 1] ELSE NewTask(l)
    IN  /\ google = [g \in GTasks |-> IF g = 1 THEN task ELSE NoTask]
        /\ rec = [i \in Ids |-> IF known /\ i = 1
                   THEN [state |-> "active", list |-> l, gid |-> 1, misses |-> 0]
                   ELSE NoRecord]
        /\ snap = [i \in Ids |-> IF known /\ i = 1
                    THEN [list |-> l, title |-> 1, form |-> 1, notes |-> 1, env |-> 1]
                    ELSE NoContent]
        /\ queue = [g \in GTasks |-> None]
        /\ proposed = {}
        /\ past = [i \in Ids |-> IF known /\ i = 1 /\ "rollback" \in Requests
                    THEN {[list |-> k, title |-> 1, form |-> 1, notes |-> 1, env |-> 1] :
                            k \in Lists \ {l}}
                    ELSE {}]
        /\ cycle = NoCycle /\ draft = NoDraft
        /\ unseen = [i \in Ids |-> 0]
        /\ work = NoWork /\ conf = NoConfirm
        /\ used = [ops |-> 0, faults |-> 0, runs |-> 0]

Calm  == used.ops + used.faults < MaxUpsets
Fault == used.faults < MaxFaults /\ Calm /\ used' = [used EXCEPT !.faults = @ + 1]


\* Before states are kept while a rollback can still come.
Kept(states) == IF "rollback" \in Requests /\ Calm THEN states ELSE {}

Revised(i, states) == past' = [past EXCEPT ![i] = @ \cup Kept(states)]

------------------------------------------------------------------------------
(* Row locks on task_records.                                              *)

LockedByWorker(i) == work.at \in {"thinking", "annotated"} /\ work.id = i

LockedBySync(i) == i \in draft.dirty

\* What the sync transaction sees of a record: its own writes, or the
\* committed row.
View(i) == IF i \in draft.dirty THEN draft.rec[i] ELSE rec[i]

LastContent(i) == IF i \in draft.dirty THEN draft.snap[i] ELSE snap[i]

Exists(i) == View(i).state # "none"

PointsTo(r, l, g) == r.state # "none" /\ r.list = l /\ r.gid = g

\* uuid4: an id that nothing remembers, the first of them.
Remembered ==
  {google[g].env : g \in GTasks} \cup {snap[i].env : i \in Ids}
  \cup {it.content.env : it \in cycle.items \cup {cycle.item}} \cup {work.read.env}
  \cup {c.env : c \in work.before \cup conf.before \cup UNION {past[i] : i \in Ids}}
Fresh == {i \in Ids \ Remembered : rec[i].state = "none" /\ ~Exists(i)}
NewId(i) == i \in Fresh /\ \A j \in Fresh : i <= j

\* uq: the unique index on (current_tasklist_id, current_task_id)
PlaceTaken(l, g, except) == \E j \in Ids \ {except} : PointsTo(View(j), l, g)

------------------------------------------------------------------------------
(* The user in Google Tasks.                                               *)

UserOp == Calm /\ used' = [used EXCEPT !.ops = @ + 1]

SetTask(g, t) == google' = [google EXCEPT ![g] = t]

\* The task with another title.
Retitled(t) ==
  {[t EXCEPT !.title = @ + 1]} \cup {[t EXCEPT !.form = f] : f \in Forms \ {t.form}}

AddTask(g, l) ==
  /\ google[g].status = "absent" /\ google[g].title = 0
  /\ UserOp
  /\ SetTask(g, NewTask(l))
  /\ UNCHANGED <<dbVars, syncVars, work, conf>>

\* Title and notes; the envelope is part of the notes and can be cut off.
EditTask(g) ==
  /\ google[g].status = "open"
  /\ UserOp
  /\ \/ \E t \in Retitled(google[g]) : SetTask(g, t)
     \/ SetTask(g, [google[g] EXCEPT !.notes = @ + 1])
     \/ google[g].env # None /\ SetTask(g, [google[g] EXCEPT !.env = None])
  /\ UNCHANGED <<dbVars, syncVars, work, conf>>

\* Dragging a task to another list keeps its id.
DragTask(g, l) ==
  /\ google[g].status = "open" /\ google[g].list # l
  /\ UserOp
  /\ SetTask(g, [google[g] EXCEPT !.list = l])
  /\ UNCHANGED <<dbVars, syncVars, work, conf>>

\* Listings leave completed tasks out, get and patch still find them.  Taking a
\* task's title away has the same effect: the sync passes over it.
CompleteOrReopen(g) ==
  /\ google[g].status \in {"open", "completed"}
  /\ UserOp
  /\ SetTask(g, [google[g] EXCEPT !.status = IF @ = "open" THEN "completed" ELSE "open"])
  /\ UNCHANGED <<dbVars, syncVars, work, conf>>

DeleteTask(g) ==
  /\ google[g].status # "absent"
  /\ UserOp
  /\ SetTask(g, [google[g] EXCEPT !.status = "absent"])
  /\ UNCHANGED <<dbVars, syncVars, work, conf>>

UserStep ==
  \E g \in GTasks : \/ \E l \in Lists : AddTask(g, l) \/ DragTask(g, l)
                    \/ EditTask(g) \/ CompleteOrReopen(g) \/ DeleteTask(g)

------------------------------------------------------------------------------
(* The sync cycle (run_sync, sync_all, _sync_tasklist).                    *)

SyncOnly == UNCHANGED <<google, dbVars, work, conf>>

\* list_tasks; list_tasklists comes right before the first of them.
Fetch(l) ==
  LET c == IF cycle.at = "off" THEN [NoCycle EXCEPT !.at = "tasks", !.todo = Lists] ELSE cycle
  IN  /\ c.at = "tasks" /\ c.items = {} /\ l \in c.todo
      /\ cycle' = [c EXCEPT !.todo = @ \ {l}, !.list = l,
                     !.items = {[gid |-> g, content |-> Shown(g)] :
                                  g \in {h \in GTasks : InList(h, l) /\ google[h].status = "open"}}]
      /\ SyncOnly /\ UNCHANGED <<draft, unseen, used>>

\* Mutant: list_active_and_missing forgets the MISSING records.
TrackedActive == {i \in Ids : View(i).state = "active"}

Tracked == {i \in Ids : View(i).state \in {"active", "missing"}}

\* Mutant: a MISSING record cannot move.
MovedActiveOnly(g) == {i \in Ids : View(i).state = "active" /\ View(i).gid = g}

\* _find_moved_record: only ACTIVE and MISSING records are searched
MovedRecords(g) == {i \in Tracked : View(i).gid = g}

\* get_by_pointer, else _find_moved_record, else a new task.
Here(it)  == {i \in Ids : PointsTo(View(i), cycle.list, it.gid)}
Found(it) == IF Here(it) # {} THEN Here(it)
             ELSE IF MovedRecords(it.gid) # {} THEN MovedRecords(it.gid)
             ELSE {None}

LookUp(it) ==
  /\ cycle.at = "tasks"
  /\ \E i \in Found(it) :
       cycle' = [cycle EXCEPT !.at = "apply", !.item = it, !.items = @ \ {it},
                              !.found = i, !.moved = i # None /\ Here(it) = {},
                              !.was = IF i = None THEN "none" ELSE View(i).state]
  /\ SyncOnly /\ UNCHANGED <<draft, unseen, used>>

\* enqueue_by_stable_id: rows belong to a source task, one per Google id,
\* whatever record the task has.
Enqueued(rows, g, i) == [rows EXCEPT ![g] = i]

\* The record i now reads r in the sync transaction, which locks it.
Write(i, r, content, row) ==
  draft' = [dirty |-> draft.dirty \cup {i},
            rec   |-> [draft.rec  EXCEPT ![i] = r],
            snap  |-> [draft.snap EXCEPT ![i] = content],
            rows  |-> IF row THEN Enqueued(draft.rows, cycle.item.gid, i) ELSE draft.rows]

Done(i) == cycle' = [cycle EXCEPT !.at = "tasks", !.item = NoItem, !.found = None,
                                  !.moved = FALSE, !.was = "none", !.seen = @ \cup {i}]

\* mark_seen, reset_misses, reappearance; then a new snapshot and a row when
\* the content changed, else the pointer that was looked up.
ApplyKnown ==
  LET i       == cycle.found
      changed == Hash(LastContent(i)) # Hash(cycle.item.content)
      seen    == [View(i) EXCEPT !.misses = 0,
                    !.state = IF cycle.was \in {"missing", "deleted"} THEN "active" ELSE @]
  IN  /\ cycle.at = "apply" /\ i # None /\ ~cycle.moved
      /\ ~LockedByWorker(i)
      /\ changed \/ ~PlaceTaken(cycle.list, cycle.item.gid, i)
      /\ Write(i, IF changed THEN seen
                  ELSE [seen EXCEPT !.list = cycle.list, !.gid = cycle.item.gid],
               IF changed THEN cycle.item.content ELSE LastContent(i), changed)
      /\ Done(i)
      /\ SyncOnly /\ UNCHANGED <<unseen, used>>

\* Mutant: a move does not reset the misses.
ApplyMovedKeepingMisses ==
  LET i == cycle.found
  IN  /\ cycle.at = "apply" /\ i # None /\ cycle.moved
      /\ ~LockedByWorker(i)
      /\ ~PlaceTaken(cycle.list, cycle.item.gid, i)
      /\ Write(i, [View(i) EXCEPT !.list = cycle.list, !.gid = cycle.item.gid],
               cycle.item.content, TRUE)
      /\ Done(i)
      /\ SyncOnly /\ UNCHANGED <<unseen, used>>

\* The state is left alone: a MISSING record stays MISSING for this cycle.
ApplyMoved ==
  LET i == cycle.found
  IN  /\ cycle.at = "apply" /\ i # None /\ cycle.moved
      /\ ~LockedByWorker(i)
      /\ ~PlaceTaken(cycle.list, cycle.item.gid, i)
      /\ Write(i, [View(i) EXCEPT !.list = cycle.list, !.gid = cycle.item.gid, !.misses = 0],
               cycle.item.content, TRUE)
      /\ Done(i)
      /\ SyncOnly /\ UNCHANGED <<unseen, used>>

\* _resolve_identity: the stable id of the envelope, or a new one.
ApplyNew ==
  /\ cycle.at = "apply" /\ cycle.found = None
  /\ ~PlaceTaken(cycle.list, cycle.item.gid, None)
  /\ \E i \in Ids :
       /\ IF cycle.item.content.env # None
            THEN i = cycle.item.content.env
            ELSE NewId(i)
       /\ ~Exists(i)
       /\ Write(i, [state  |-> IF cycle.item.content.env # None THEN "active" ELSE "unadopted",
                    list   |-> cycle.list, gid |-> cycle.item.gid, misses |-> 0],
                cycle.item.content, TRUE)
       /\ Done(i)
  /\ SyncOnly /\ UNCHANGED <<unseen, used>>

\* An insert or update that a unique index refuses: IntegrityError.
Conflict ==
  /\ cycle.at = "apply"
  /\ LET it == cycle.item
     IN  \/ /\ cycle.found = None
            /\ it.content.env # None
            /\ Exists(it.content.env)
         \/ /\ cycle.found # None => cycle.moved \/ Hash(LastContent(cycle.found)) = Hash(it.content)
            /\ PlaceTaken(cycle.list, it.gid, cycle.found)

\* run_sync rolls the whole cycle back, whatever list it was in.
RollBackCycle == cycle' = NoCycle /\ draft' = NoDraft

CycleConflicts ==
  /\ Conflict
  /\ RollBackCycle
  /\ SyncOnly /\ UNCHANGED <<unseen, used>>

\* A listing fails, the database or the process goes away.
CycleFails ==
  /\ cycle.at # "off"
  /\ Fault
  /\ RollBackCycle
  /\ SyncOnly /\ UNCHANGED <<unseen>>

\* Mutant: no record is ever given up.
MissForever(r) == [r EXCEPT !.misses = @ + 1, !.state = "missing"]

\* _detect_missing, for one record.
Miss(r) ==
  [r EXCEPT !.misses = @ + 1,
            !.state  = IF r.misses + 1 >= Threshold THEN "deleted" ELSE "missing"]

CommitCycle ==
  LET missed == Tracked \ cycle.seen
  IN  /\ cycle.at = "tasks" /\ cycle.items = {} /\ cycle.todo = {}
      /\ \A i \in missed : ~LockedByWorker(i)
      /\ rec'   = [i \in Ids |-> IF i \in missed THEN Miss(View(i)) ELSE View(i)]
      /\ snap'  = [i \in Ids |-> LastContent(i)]
      /\ queue' = [g \in GTasks |-> IF draft.rows[g] # None THEN draft.rows[g] ELSE queue[g]]
      /\ draft' = NoDraft
      /\ cycle' = NoCycle
      /\ unseen' = [i \in Ids |-> IF i \in cycle.seen THEN 0
                                  ELSE IF Exists(i) /\ unseen[i] < Threshold THEN unseen[i] + 1
                                  ELSE unseen[i]]
      /\ UNCHANGED <<google, proposed, past, work, conf, used>>

SyncStep ==
  \/ \E l \in Lists : Fetch(l)
  \/ \E it \in cycle.items : LookUp(it)
  \/ ApplyKnown \/ ApplyMoved \/ ApplyNew \/ CycleConflicts
  \/ CommitCycle

------------------------------------------------------------------------------
(* POST /admin/tasks/import-from-google, one commit: records without rows. *)

\* The snapshot of an import names the new record and has no notes.
ImportFromGoogle ==
  LET new == {g \in GTasks : /\ google[g].status = "open"
                             /\ ~\E i \in Ids : PointsTo(rec[i], google[g].list, g)}
  IN  /\ "import" \in Requests /\ UserOp
      /\ new # {}
      /\ \A g \in new : ~PlaceTaken(google[g].list, g, None)
      /\ \E f \in Injection(new, Fresh) :
           LET imported(i) == CHOOSE g \in new : f[g] = i
           IN  /\ rec' = [i \in Ids |-> IF i \notin Range(f) THEN rec[i]
                            ELSE [state |-> "unadopted", list |-> google[imported(i)].list,
                                  gid |-> imported(i), misses |-> 0]]
               /\ snap' = [i \in Ids |-> IF i \notin Range(f) THEN snap[i]
                             ELSE [Shown(imported(i)) EXCEPT !.form = Imported,
                                                             !.notes = 0, !.env = i]]
      /\ UNCHANGED <<google, queue, proposed, past, syncVars, work, conf>>

------------------------------------------------------------------------------
(* The worker (_process_entry, _adopt_task).  A run that ends without a    *)
(* proposal may or may not have a retry left.                              *)

WorkOnly == UNCHANGED <<syncVars, conf>>

Claim(g) ==
  /\ work.at = "idle" /\ queue[g] # None
  /\ used.runs < MaxRuns /\ used' = [used EXCEPT !.runs = @ + 1]
  /\ work'  = [NoWork EXCEPT !.at = "claimed", !.id = queue[g], !.src = g]
  /\ queue' = [queue EXCEPT ![g] = None]
  /\ WorkOnly /\ UNCHANGED <<google, rec, snap, proposed, past>>

\* The row of the run is pending again unless a newer one is.
RowReturns ==
  queue' = IF queue[work.src] = None THEN [queue EXCEPT ![work.src] = work.id] ELSE queue

\* The record is read.  If it is not adopted, a new stable id is written to
\* the notes of the task, and then the id of the record is kept after all.
BeginWork ==
  LET r == rec[work.id]
      begun(adoption, before) ==
        work' = [work EXCEPT !.at = "begun", !.list = r.list, !.gid = r.gid,
                             !.adoption = adoption, !.before = before]
  IN  /\ work.at = "claimed"
      /\ \/ /\ r.state # "unadopted"
            /\ begun("none", {}) /\ UNCHANGED <<google, used>>
         \/ /\ r.state = "unadopted" /\ InList(r.gid, r.list)
            /\ \E i \in Ids : NewId(i) /\ SetTask(r.gid, [google[r.gid] EXCEPT !.env = i])
            /\ begun("adopted", Kept({Payload(Shown(r.gid))})) /\ UNCHANGED used
         \/ /\ r.state = "unadopted"
            /\ (~InList(r.gid, r.list) /\ UNCHANGED used) \/ Fault
            /\ begun("lost", {}) /\ UNCHANGED <<google>>
      /\ WorkOnly /\ UNCHANGED dbVars

\* What the transaction of the run has made of the record's state.
Adopt(r) ==
  CASE work.adoption = "adopted" -> [r EXCEPT !.state = "active", !.list = work.list, !.gid = work.gid]
    [] work.adoption = "lost"    -> [r EXCEPT !.state = "deleted"]
    [] OTHER                     -> r

\* PROCESSING is written, which locks the record; then the task is read.
ReadTask ==
  /\ work.at = "begun"
  /\ ~LockedBySync(work.id)
  /\ InList(work.gid, work.list)
  /\ work' = [work EXCEPT !.at = "thinking", !.read = Shown(work.gid),
                          !.before = @ \cup Kept({Payload(Shown(work.gid))})]
  /\ WorkOnly /\ UNCHANGED <<google, dbVars, used>>

\* get_task answers None for every error, not only for a missing task.
TaskGone ==
  /\ work.at = "begun"
  /\ ~LockedBySync(work.id)
  /\ \/ ~InList(work.gid, work.list) /\ UNCHANGED used
     \/ Fault
  /\ rec' = [rec EXCEPT ![work.id] = Adopt(@)]
  /\ Revised(work.id, work.before)
  /\ RowReturns \/ UNCHANGED queue
  /\ work' = NoWork
  /\ WorkOnly /\ UNCHANGED <<google, snap, proposed>>

\* Mutant: the envelope keeps the id that adoption made up.
AnnotateKeepingEnvelope ==
  /\ work.at = "thinking"
  /\ InList(work.gid, work.list)
  /\ SetTask(work.gid, [google[work.gid] EXCEPT !.notes = work.read.notes])
  /\ work' = [work EXCEPT !.at = "annotated", !.read = [Shown(work.gid) EXCEPT
                                                       !.notes = work.read.notes]]
  /\ WorkOnly /\ UNCHANGED <<dbVars, used>>

\* The model has answered.  The notes are patched with the envelope of the
\* record and the user's notes as they were before the model was asked.
Annotate ==
  LET patched == [google[work.gid] EXCEPT !.notes = work.read.notes, !.env = work.id]
  IN  /\ work.at = "thinking"
      /\ InList(work.gid, work.list)
      /\ SetTask(work.gid, patched)
      /\ work' = [work EXCEPT !.at = "annotated",
                   !.read = [Shown(work.gid) EXCEPT !.notes = work.read.notes, !.env = work.id]]
      /\ WorkOnly /\ UNCHANGED <<dbVars, used>>

\* The patch fails: the adoption is committed with the failed revision.
AnnotateFails ==
  /\ work.at = "thinking"
  /\ \/ ~InList(work.gid, work.list) /\ UNCHANGED used
     \/ Fault
  /\ rec' = [rec EXCEPT ![work.id] = Adopt(@)]
  /\ Revised(work.id, work.before)
  /\ RowReturns \/ UNCHANGED queue
  /\ work' = NoWork
  /\ WorkOnly /\ UNCHANGED <<google, snap, proposed>>

\* Snapshot of the patched task, review session, record: one commit.
Propose ==
  /\ work.at = "annotated"
  /\ rec'  = [rec EXCEPT ![work.id] = Adopt(@)]
  /\ snap' = [snap EXCEPT ![work.id] = work.read]
  /\ proposed' = proposed \cup {work.id}
  /\ Revised(work.id, work.before)
  /\ work' = NoWork
  /\ WorkOnly /\ UNCHANGED <<google, queue, used>>

\* A rate limit, an error or a crash: the database forgets, Google does not.
RollBackWork ==
  /\ work.at # "idle"
  /\ Fault
  /\ RowReturns
  /\ work' = NoWork
  /\ WorkOnly /\ UNCHANGED <<google, rec, snap, proposed, past>>

WorkStep ==
  \/ \E g \in GTasks : Claim(g)
  \/ BeginWork \/ ReadTask \/ TaskGone \/ Annotate \/ AnnotateFails \/ Propose
  \/ RollBackWork

------------------------------------------------------------------------------
(* The user's decision (handle_confirm, handle_discard_confirm).  The calls *)
(* to Google come first and never fail the confirmation.                   *)

ChangeOnly == UNCHANGED <<rec, snap, queue, past, syncVars, work>>

\* A change has been applied to Google, or has failed; "points" when its commit
\* writes the pointer.  What is done by nobody is rolled back.
Applied(i, l, g, by, points, before) ==
  conf' = [at |-> "applied", id |-> i, list |-> l, gid |-> g, by |-> by,
           points |-> points, before |-> Kept({before})]

\* move_task: the copy t is inserted in l, then the original is deleted.
MoveTask(g, copy, t, l) ==
  /\ google[copy].title = 0
  /\ google' = [google EXCEPT ![copy] = [t EXCEPT !.status = "open", !.list = l],
                              ![g].status = "absent"]

MoveFailsHalfway(copy, t, l) ==
  google[copy].title = 0 /\ SetTask(copy, [t EXCEPT !.status = "open", !.list = l])

\* The new title, or nothing when it is unchanged or Google refuses.
ConfirmInPlace(i) ==
  LET r == rec[i]
  IN  /\ conf.at = "idle" /\ i \in proposed /\ InList(r.gid, r.list)
      /\ UNCHANGED google \/ \E t \in Retitled(google[r.gid]) : SetTask(r.gid, t)
      /\ Applied(i, r.list, r.gid, "user", TRUE, Payload(Shown(r.gid)))
      /\ ChangeOnly /\ UNCHANGED <<proposed, used>>

ConfirmMove(i, l, copy) ==
  LET r == rec[i]
      t == google[r.gid]
  IN  /\ ConfirmMoves
      /\ conf.at = "idle" /\ i \in proposed /\ InList(r.gid, r.list) /\ l # r.list
      /\ \/ /\ \E new \in Retitled(t) \cup {t} : MoveTask(r.gid, copy, new, l)
            /\ Applied(i, l, copy, "user", TRUE, Payload(Shown(r.gid)))
            /\ UNCHANGED used
         \/ /\ Fault
            /\ MoveFailsHalfway(copy, t, l) \/ UNCHANGED google
            /\ Applied(i, r.list, r.gid, "user", TRUE, Payload(Shown(r.gid)))
      /\ ChangeOnly /\ UNCHANGED proposed

\* A place that the sync transaction fills or leaves: the index makes another
\* transaction wait for its end.
PlaceInDoubt(l, g, except) ==
  \E j \in draft.dirty \ {except} : PointsTo(rec[j], l, g) \/ PointsTo(draft.rec[j], l, g)

\* The pointer can be written now.
RecordFree(i) ==
  ~LockedByWorker(i) /\ ~LockedBySync(i) /\ ~PlaceInDoubt(conf.list, conf.gid, i)

Pointed == [rec EXCEPT ![conf.id].list = conf.list, ![conf.id].gid = conf.gid]

\* The unique index refuses the pointer, the operation has failed, or the process
\* goes away: Google keeps what has been done to it.
ChangeIsLost ==
  /\ conf.at = "applied"
  /\ \/ Fault
     \/ conf.by = "nobody" /\ UNCHANGED used
     \/ /\ conf.points /\ RecordFree(conf.id) /\ PlaceTaken(conf.list, conf.gid, conf.id)
        /\ UNCHANGED used
  /\ conf' = NoConfirm
  /\ ChangeOnly /\ UNCHANGED <<google, proposed>>

ConfirmCommit ==
  LET i == conf.id
  IN  /\ conf.at = "applied" /\ conf.by = "user"
      /\ RecordFree(i) /\ ~PlaceTaken(conf.list, conf.gid, i)
      /\ rec' = Pointed
      /\ proposed' = proposed \ {i}
      /\ Revised(i, conf.before)
      /\ conf' = NoConfirm
      /\ UNCHANGED <<google, snap, queue, syncVars, work, used>>

Discard(i) ==
  /\ i \in proposed
  /\ ~LockedByWorker(i) /\ ~LockedBySync(i)
  /\ proposed' = proposed \ {i}
  /\ ChangeOnly /\ UNCHANGED <<google, conf, used>>

ReviewStep ==
  \/ \E i \in Ids : \/ ConfirmInPlace(i) \/ Discard(i)
                    \/ \E l \in Lists, g \in GTasks : ConfirmMove(i, l, g)
  \/ ConfirmCommit \/ ChangeIsLost

------------------------------------------------------------------------------
(* The admin's edit, rewrite and rollback.                                 *)

AdminMay(i, request) ==
  /\ request \in Requests
  /\ conf.at = "idle" /\ rec[i].state # "none" /\ UserOp
  /\ ChangeOnly /\ UNCHANGED proposed

\* updated_notes of the edit form, made from the snapshot: with nothing in the
\* form and no envelope in the snapshot the notes are emptied.
EditedNotes(i, t, blank) ==
  IF blank /\ snap[i].env = None THEN [t EXCEPT !.notes = 0, !.env = None]
                                 ELSE [t EXCEPT !.notes = snap[i].notes, !.env = i]

\* The task with a new title or without, in the notes of a form filled in or not.
Edited(i) ==
  LET t == google[rec[i].gid]
  IN  {EditedNotes(i, new, FALSE) : new \in Retitled(t) \cup {t}} \cup {EditedNotes(i, t, TRUE)}

\* A revision is committed also when Google refuses.
AdminEdit(i) ==
  LET r == rec[i]
  IN  /\ AdminMay(i, "edit")
      /\ \/ InList(r.gid, r.list) /\ \E t \in Edited(i) : SetTask(r.gid, t)
         \/ UNCHANGED google
      /\ Applied(i, r.list, r.gid, "admin", FALSE, snap[i])

\* The task is patched and then moved to the list of another project.
AdminEditMoves(i, l, copy) ==
  LET r == rec[i]
      t == EditedNotes(i, google[r.gid], FALSE)
  IN  /\ AdminMay(i, "edit") /\ r.state # "unadopted" /\ InList(r.gid, r.list) /\ l # r.list
      /\ \/ /\ MoveTask(r.gid, copy, t, l)
            /\ Applied(i, l, copy, "admin", TRUE, snap[i])
         \/ /\ MoveFailsHalfway(copy, t, l)
            /\ Applied(i, r.list, r.gid, "admin", FALSE, snap[i])

AdminRewrite(i) ==
  LET r == rec[i]
  IN  /\ AdminMay(i, "rewrite")
      /\ \/ /\ InList(r.gid, r.list) /\ \E t \in Retitled(google[r.gid]) : SetTask(r.gid, t)
            /\ Applied(i, r.list, r.gid, "admin", TRUE, snap[i])
         \/ UNCHANGED google /\ Applied(i, r.list, r.gid, "admin", FALSE, snap[i])

\* patch_task with the before state c; notes that are not there are not restored.
Restored(t, c) ==
  LET titled == [t EXCEPT !.title = c.title, !.form = IF c.form = Imported THEN 1 ELSE c.form]
  IN  IF c.notes = 0 /\ c.env = None THEN titled
      ELSE [titled EXCEPT !.notes = c.notes, !.env = c.env]

Rollback(i, c) ==
  LET r == rec[i]
  IN  /\ AdminMay(i, "rollback") /\ InList(r.gid, r.list) /\ c.list \in {None, r.list}
      /\ SetTask(r.gid, Restored(google[r.gid], c))
      /\ Applied(i, r.list, r.gid, "admin", FALSE, Shown(r.gid))

\* A before state that names another list moves the task back there; a call that
\* fails ends the rollback, with the task copied or moved.
RollbackMoves(i, c, copy) ==
  LET r == rec[i]
      t == google[r.gid]
  IN  /\ AdminMay(i, "rollback") /\ r.state # "unadopted" /\ InList(r.gid, r.list)
      /\ c.list \notin {None, r.list}
      /\ \/ /\ MoveTask(r.gid, copy, Restored(t, c), c.list)
            /\ Applied(i, c.list, copy, "admin", TRUE, Shown(r.gid))
         \/ /\ MoveFailsHalfway(copy, t, c.list) \/ MoveTask(r.gid, copy, t, c.list)
            /\ Applied(i, r.list, r.gid, "nobody", FALSE, Shown(r.gid))

AdminCommit ==
  LET i == conf.id
  IN  /\ conf.at = "applied" /\ conf.by = "admin"
      /\ IF conf.points
           THEN /\ RecordFree(i) /\ ~PlaceTaken(conf.list, conf.gid, i)
                /\ rec' = Pointed
           ELSE UNCHANGED rec
      /\ Revised(i, conf.before)
      /\ conf' = NoConfirm
      /\ UNCHANGED <<google, snap, queue, proposed, syncVars, work, used>>

AdminStep ==
  \/ \E i \in Ids : \/ AdminEdit(i) \/ AdminRewrite(i)
                    \/ \E c \in past[i] : Rollback(i, c)
                    \/ \E g \in GTasks : \/ \E l \in Lists : AdminEditMoves(i, l, g)
                                         \/ \E c \in past[i] : RollbackMoves(i, c, g)
  \/ AdminCommit

------------------------------------------------------------------------------

Next == UserStep \/ ImportFromGoogle \/ SyncStep \/ CycleFails \/ WorkStep \/ ReviewStep
        \/ AdminStep

Spec == Init /\ [][Next]_vars

\* The scheduler starts a cycle at every interval and runs it to its end; it
\* does not depend on the user, the worker or a failed cycle.
FairSpec == Spec /\ WF_vars(SyncStep)

------------------------------------------------------------------------------
(* Properties.                                                             *)

Names(i) == google[rec[i].gid].env = i

\* A second record of the same task, which a task dragged before its adoption
\* gets, can have put its own id there.
HasDouble(i) ==
  \E j \in Records \ {i} : rec[j].gid = rec[i].gid \/ google[rec[i].gid].env = j

\* A proposal is published only for a task whose notes name its record, unless
\* they have been changed since the worker has patched them; and while it is
\* undecided only the user and the admin's edits and rollbacks take the name
\* away, as the rollback of the worker's own revision does, which brings back
\* the id that adoption has made up.  No rolled back adoption, confirmation,
\* move or late cycle leaves another identity on a task that is still there.
ProposedTasksCarryTheirId ==
  [][\A i \in proposed' :
       \/ google'[rec'[i].gid].status = "absent"
       \/ Names(i)' \/ HasDouble(i)'
       \/ IF i \in proposed
            THEN ~Names(i) \/ AdminStep \/ \E g \in GTasks : EditTask(g)
            ELSE google[work.gid].env # work.read.env]_vars

\* A cycle marks a record DELETED only after Threshold completed cycles in a
\* row have not seen it, whatever was rolled back, moved or seen in between.
DeletedNeedsConsecutiveMisses ==
  [][\A i \in Ids : /\ cycle.at # "off" /\ cycle'.at = "off"
                    /\ rec[i].state # "deleted" /\ rec'[i].state = "deleted"
                    => unseen[i] >= Threshold - 1]_vars

\* A conflict rolls back the sync of every list and recurs in the next cycle.
\* Unless the record was written by others since the look-up, its only cause
\* is a new task with an envelope that is not its own: that of a record that is
\* looked for no more, or that points at another task, as after a move whose
\* original was not deleted.  Never do two records dispute one place.
OnlyDuplicatesBlockSync ==
  [][Conflict /\ cycle'.at = "off" =>
       LET e == cycle.item.content.env
       IN  \/ cycle.found \notin Found(cycle.item)
           \/ /\ cycle.found = None /\ e # None
              /\ View(e).state \in {"deleted", "unadopted"} \/ View(e).gid # cycle.item.gid]_vars

\* Once the user, the admin and the faults are through, every open task has a
\* record with its present content up to letter case, and no record that has
\* been adopted counts a task as there that is gone: rolled back cycles, tasks
\* dragged while a cycle runs and records that reappear included.  A record that
\* has not been adopted is never looked for.  Only an envelope whose record no
\* look-up finds can prevent it, for every list at once.
Shadowed(g) ==
  LET e == google[g].env
  IN  /\ google[g].status = "open" /\ e # None /\ rec[e].state # "none"
      /\ ~PointsTo(rec[e], google[g].list, g)
      /\ rec[e].gid # g \/ rec[e].state \in {"deleted", "unadopted"}

InStep ==
  /\ \A g \in GTasks : google[g].status = "open" =>
       \E i \in Ids : /\ PointsTo(rec[i], google[g].list, g)
                      /\ rec[i].state \in {"unadopted", "active"}
                      /\ Hash(snap[i]) = Hash(Shown(g))
  /\ \A i \in Ids : rec[i].state \in {"active", "missing"} =>
       google[rec[i].gid].status = "open" /\ InList(rec[i].gid, rec[i].list)

RecordsCatchUp == <>[](InStep \/ \E g \in GTasks : Shadowed(g))

==============================================================================
