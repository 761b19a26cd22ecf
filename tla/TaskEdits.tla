------------------------------ MODULE TaskEdits ------------------------------
(***************************************************************************)
(* One reviewed task and everyone who changes it: the decisions and edits  *)
(* of Telegram (telegram/callbacks.py) and of the Mini App                 *)
(* (miniapp_review_service.py), the admin's edit, rewrite and rollback     *)
(* (routes/admin_api.py with admin_edit_service.py and                     *)
(* rollback_service.py), and the user in Google.                           *)
(*                                                                         *)
(* Every operation reads, calls Google, and commits: "ops" holds what each *)
(* has read.  The calls to Google that follow each other without an await  *)
(* are one step; a call that raises leaves what the ones before it did.    *)
(* "updated" is the time stamp Google gives a task at every change.        *)
(***************************************************************************)
EXTENDS NotesCodec, FiniteSetsExt

CONSTANTS
  Lists,        \* Google task lists, each of a project
  Procs,        \* operations that can overlap
  Titles,       \* titles that are given to the task
  MaxOps,       \* bound: operations begun that are recorded
  MaxUserOps,   \* bound: changes the user makes in Google or to the proposal
  MaxFaults     \* bound: failed calls and lost requests

None == 0

ASSUME EditsAssumption ==
  /\ IsFiniteSet(Lists) /\ Lists # {} /\ None \notin Lists /\ IsFiniteSet(Procs)
  /\ Titles \subseteq Nat \ {0} /\ 1 \in Titles
  /\ {MaxOps, MaxUserOps, MaxFaults} \subseteq Nat

Me   == 1                                   \* the stable id of the task
Gids == 1 .. MaxOps + 1                     \* a move makes a new Google task

VARIABLES
  task,      \* the Google tasks the record has pointed at
  clock,     \* the latest time stamp
  record,    \* current_tasklist_id, current_task_id, processing_status
  session,   \* the review session: still reviewable, proposed_changes
  revs,      \* task_revisions in the order of their commits
  snapshot,  \* the latest snapshot of the task
  ops,       \* the operations in progress
  used       \* consumed bounds

google == <<task, clock>>
db     == <<record, session, revs, snapshot>>
vars   == <<google, db, ops, used>>

\* A before_state_json or after_state_json; an absent one has no title, that of
\* an edit that fails is the before state with the new title and notes.  The
\* JSON that Google returns from a get has no "tasklist_id".
NoState  == [list |-> None, title |-> None, notes |-> <<>>, updated |-> 0]
State(g) == [list |-> task[g].list, title |-> task[g].title,
             notes |-> task[g].notes, updated |-> task[g].updated]
Payload(s) == [s EXCEPT !.list = None]

NoProposal == [title |-> None, dest |-> None]
NoOp == [kind |-> "idle", at |-> "idle", list |-> None, gid |-> None, prop |-> NoProposal,
         notes |-> <<>>, before |-> NoState, after |-> NoState, moved |-> FALSE,
         ok |-> TRUE, no |-> 0, began |-> 0]

Init ==
  \E l, dest \in Lists, proposed \in Titles :
    LET notes == <<Text(1), Envelope(Me)>>
        raw   == [list |-> None, title |-> 1, notes |-> notes, updated |-> 1]
    IN  /\ task = [g \in Gids |-> IF g = 1
                    THEN [live |-> TRUE, list |-> l, title |-> 1, notes |-> notes, updated |-> 2]
                    ELSE [live |-> FALSE, list |-> None, title |-> None, notes |-> <<>>,
                          updated |-> 0]]
        /\ clock = 2
        /\ record = [list |-> l, gid |-> 1, status |-> "awaiting_review"]
        /\ session = [open |-> TRUE, prop |-> [title |-> proposed, dest |-> dest]]
        \* annotate_metadata, the worker's revision
        /\ revs = <<[op |-> "annotate", no |-> 1, before |-> raw, after |-> State(1),
                     from |-> l, gid |-> 1, ok |-> TRUE, began |-> 0]>>
        /\ snapshot = State(1)
        /\ ops = [p \in Procs |-> NoOp]
        /\ used = [ops |-> 0, proposals |-> 0, user |-> 0, faults |-> 0]

UserActs == used.user + used.proposals < MaxUserOps

Fault == used.faults < MaxFaults /\ used' = [used EXCEPT !.faults = @ + 1]

\* Mutant: numbers are skipped.
NextNoAfterNext == 2 + Max({revs[k].no : k \in DOMAIN revs})

\* get_next_revision_no_by_stable_id: read without a lock.
NextNo == 1 + Max({revs[k].no : k \in DOMAIN revs})

There(g, l) == task[g].live /\ task[g].list = l

------------------------------------------------------------------------------
(* Google's side of a change (google_tasks_service.py).                    *)

\* Patching with None leaves a field alone.
Patched(t, title, notes) ==
  [t EXCEPT !.title = IF title = None THEN @ ELSE title,
            !.notes = IF notes = <<>> THEN @ ELSE notes]

\* The task g becomes t.
Patch(g, t) ==
  /\ clock' = clock + 1
  /\ task' = [task EXCEPT ![g] = [t EXCEPT !.updated = clock + 1]]

\* move_task: the copy t is inserted in l, then the original is deleted, unless
\* the deletion fails; whatever is patched afterwards is already in t.
Copy == CHOOSE g \in Gids : task[g].title = None /\ \A h \in 1 .. g - 1 : task[h].title # None

Move(g, l, t, deleted) ==
  /\ \E c \in Gids : task[c].title = None
  /\ clock' = clock + 1
  /\ task' = [task EXCEPT ![Copy] = [t EXCEPT !.list = l, !.updated = clock + 1],
                          ![g].live = ~deleted]

Untouched == UNCHANGED google

------------------------------------------------------------------------------
(* The life of an operation.                                               *)

Reads(p, o) ==
  /\ ops[p] = NoOp
  /\ ops' = [ops EXCEPT ![p] = [o EXCEPT !.at = "read", !.began = Len(revs)]]
  /\ UNCHANGED <<google, db>>

Begin(p, o) ==
  /\ used.ops < MaxOps /\ used' = [used EXCEPT !.ops = @ + 1]
  /\ Reads(p, o)

At(p, kind, at) == ops[p].kind = kind /\ ops[p].at = at

\* The calls to Google are made and the revision number is read.
Called(p, o) == ops' = [ops EXCEPT ![p] = [o EXCEPT !.at = "called", !.no = NextNo]]

Gone(p) == ops' = [ops EXCEPT ![p] = NoOp]

\* Mutant: the after state is the before state with the new title.
RevisionOfBefore(o, op) ==
  [op |-> op, no |-> o.no, before |-> o.before,
   after |-> [o.before EXCEPT !.title = o.after.title],
   from |-> o.before.list, gid |-> o.gid, ok |-> o.ok, began |-> o.began]

Revision(o, op) ==
  [op |-> op, no |-> o.no, before |-> o.before, after |-> o.after,
   from |-> o.before.list, gid |-> o.gid, ok |-> o.ok, began |-> o.began]

\* A request is lost, or an error rolls its transaction back.
Dies(p) ==
  /\ ops[p] # NoOp
  /\ Fault /\ Gone(p)
  /\ UNCHANGED <<google, db>>

Here(o) == [o EXCEPT !.list = record.list, !.gid = record.gid]

------------------------------------------------------------------------------
(* Decisions, in Telegram or the Mini App.                                 *)

BeginConfirm(p) ==
  /\ session.open
  /\ Begin(p, Here([NoOp EXCEPT !.kind = "confirm", !.prop = session.prop]))

\* get_task, then move_task and patch_task or patch_task, then get_task.
ConfirmCalls(p) ==
  LET o       == ops[p]
      t       == task[o.gid]
      renamed == Patched(t, o.prop.title, <<>>)
      called(g, l, title, at) ==
        Called(p, [o EXCEPT !.gid = g, !.list = l, !.before = State(o.gid),
                            !.after = [list |-> l, title |-> title, notes |-> t.notes,
                                       updated |-> at]])
  IN  /\ At(p, "confirm", "read") /\ There(o.gid, o.list)
      /\ \/ /\ o.prop.dest # o.list
            /\ \/ /\ Move(o.gid, o.prop.dest, renamed, TRUE)
                  /\ called(Copy, o.prop.dest, renamed.title, clock + 1) /\ UNCHANGED used
               \/ /\ Fault /\ Move(o.gid, o.prop.dest, t, TRUE)
                  /\ called(Copy, o.prop.dest, t.title, clock + 1)
               \/ /\ Fault
                  /\ Move(o.gid, o.prop.dest, t, FALSE) \/ Untouched
                  /\ called(o.gid, o.list, t.title, t.updated)
         \/ /\ o.prop.dest = o.list /\ t.title # o.prop.title
            /\ \/ /\ Patch(o.gid, renamed)
                  /\ called(o.gid, o.list, renamed.title, clock + 1) /\ UNCHANGED used
               \/ Fault /\ Untouched /\ called(o.gid, o.list, t.title, t.updated)
         \/ /\ o.prop.dest = o.list /\ t.title = o.prop.title
            /\ Untouched /\ called(o.gid, o.list, t.title, t.updated) /\ UNCHANGED used
      /\ UNCHANGED db

\* "Google task not found"
ConfirmRefused(p) ==
  /\ At(p, "confirm", "read") /\ ~There(ops[p].gid, ops[p].list)
  /\ Gone(p) /\ UNCHANGED <<google, db, used>>

CommitConfirm(p) ==
  LET o   == ops[p]
      rev == [Revision(o, "confirm") EXCEPT !.before = Payload(@), !.after = Payload(@)]
  IN  /\ At(p, "confirm", "called")
      /\ revs' = Append(revs, rev)
      /\ record' = [list |-> o.list, gid |-> o.gid, status |-> "applied"]
      /\ session' = [session EXCEPT !.open = FALSE]
      /\ Gone(p) /\ UNCHANGED <<google, snapshot, used>>

BeginDiscard(p) ==
  /\ session.open
  /\ Begin(p, [NoOp EXCEPT !.kind = "discard", !.no = NextNo])

CommitDiscard(p) ==
  /\ At(p, "discard", "read")
  /\ revs' = Append(revs, Revision(ops[p], "discard"))
  /\ record' = [record EXCEPT !.status = "discarded"]
  /\ session' = [session EXCEPT !.open = FALSE]
  /\ Gone(p) /\ UNCHANGED <<google, snapshot, used>>

------------------------------------------------------------------------------
(* The Mini App's edits: proposed_changes is read, changed and written as  *)
(* a whole; change_type changes only a field that is left out here.        *)

BeginProposalEdit(p) ==
  /\ session.open
  /\ \E prop \in [title : Titles, dest : Lists] :
       /\ prop.title = session.prop.title \/ prop.dest = session.prop.dest
       /\ UserActs /\ used' = [used EXCEPT !.proposals = @ + 1]
       /\ Reads(p, [NoOp EXCEPT !.kind = "propose", !.prop = prop])

\* Mutant: the whole session is written back as it was read.
CommitWholeSession(p) ==
  /\ At(p, "propose", "read")
  /\ session' = [open |-> TRUE, prop |-> ops[p].prop]
  /\ Gone(p) /\ UNCHANGED <<google, record, revs, snapshot, used>>

CommitProposalEdit(p) ==
  /\ At(p, "propose", "read")
  /\ session' = [session EXCEPT !.prop = ops[p].prop]
  /\ Gone(p) /\ UNCHANGED <<google, record, revs, snapshot, used>>

------------------------------------------------------------------------------
(* The admin's edit and rewrite.  They see the snapshot, not the task.     *)

\* updated_notes of the edit form: with nothing in the form and no envelope in
\* the snapshot the notes are emptied.
EditedNotes(seen, blank) ==
  IF blank /\ Parse(seen) = NoId THEN <<>> ELSE Format(Me, UserNotes(seen))

BeginAdminEdit(p) ==
  \E title \in Titles \cup {None}, dest \in (Lists \ {record.list}) \cup {None} :
    Begin(p, Here([NoOp EXCEPT
      !.kind = "edit", !.prop = [title |-> title, dest |-> dest], !.before = snapshot,
      !.notes = EditedNotes(snapshot.notes, title = None /\ dest = None)]))

\* The after state of an edit that fails: what it was to make of the snapshot.
Intended(o, notes) == [Patched(o.before, o.prop.title, <<>>) EXCEPT !.notes = notes]

EditMoves(o)      == o.prop.dest # None
Edited(o)         == [Patched(task[o.gid], o.prop.title, <<>>) EXCEPT !.notes = o.notes]
EditFailed(p, o)  == Called(p, [o EXCEPT !.ok = FALSE, !.after = Intended(o, o.notes)])
EditDone(p, o, t) == Called(p, [o EXCEPT !.after = [list |-> o.list, title |-> t.title,
                                                    notes |-> t.notes, updated |-> clock + 1]])

\* patch_task with title and notes
AdminEditPatches(p) ==
  LET o == ops[p]
  IN  /\ At(p, "edit", "read")
      /\ \/ /\ There(o.gid, o.list) /\ Patch(o.gid, Edited(o))
            /\ IF EditMoves(o) THEN ops' = [ops EXCEPT ![p].at = "patched"]
               ELSE EditDone(p, o, Edited(o))
            /\ UNCHANGED used
         \/ /\ Fault \/ (~There(o.gid, o.list) /\ UNCHANGED used)
            /\ Untouched /\ EditFailed(p, o)
      /\ UNCHANGED db

\* The new project is looked up; then move_task and, with a title, patch_task
\* again, which nobody else can come before: the copy is not known yet.
AdminEditMoves(p) ==
  LET o     == ops[p]
      dest  == o.prop.dest
      t     == IF o.prop.title = None THEN task[o.gid] ELSE Edited(o)
      moved == [o EXCEPT !.gid = Copy, !.list = dest, !.moved = TRUE]
  IN  /\ At(p, "edit", "patched")
      /\ \/ /\ There(o.gid, o.list)
            /\ Move(o.gid, dest, t, TRUE) /\ EditDone(p, moved, t) /\ UNCHANGED used
         \/ /\ There(o.gid, o.list) /\ Fault
            /\ \/ Move(o.gid, dest, task[o.gid], TRUE) /\ EditFailed(p, moved)
               \/ Move(o.gid, dest, task[o.gid], FALSE) /\ EditFailed(p, o)
               \/ Untouched /\ EditFailed(p, o)
         \/ /\ ~There(o.gid, o.list)
            /\ Untouched /\ EditFailed(p, o) /\ UNCHANGED used
      /\ UNCHANGED db

\* The pointer is written only by a move, and then even when the edit fails.
CommitAdminEdit(p) ==
  LET o == ops[p]
  IN  /\ At(p, "edit", "called")
      /\ revs' = Append(revs, Revision(o, "edit"))
      /\ record' = IF o.moved THEN [record EXCEPT !.list = o.list, !.gid = o.gid] ELSE record
      /\ Gone(p) /\ UNCHANGED <<google, session, snapshot, used>>

BeginRewrite(p) ==
  \E title \in Titles :
    Begin(p, Here([NoOp EXCEPT !.kind = "rewrite", !.before = snapshot,
                               !.prop = [title |-> title, dest |-> None]]))

RewriteCalls(p) ==
  LET o       == ops[p]
      renamed == Patched(task[o.gid], o.prop.title, <<>>)
  IN  /\ At(p, "rewrite", "read")
      /\ \/ /\ There(o.gid, o.list)
            /\ Patch(o.gid, renamed)
            /\ Called(p, [o EXCEPT !.after = [list |-> o.list, title |-> renamed.title,
                                              notes |-> renamed.notes, updated |-> clock + 1]])
            /\ UNCHANGED used
         \/ /\ Fault \/ (~There(o.gid, o.list) /\ UNCHANGED used)
            /\ Untouched
            /\ Called(p, [o EXCEPT !.ok = FALSE, !.after = Intended(o, o.before.notes)])
      /\ UNCHANGED db

\* The pointer is written with the place that was patched.
CommitRewrite(p) ==
  LET o == ops[p]
  IN  /\ At(p, "rewrite", "called")
      /\ revs' = Append(revs, Revision(o, "rewrite"))
      /\ record' = IF o.ok THEN [record EXCEPT !.list = o.list, !.gid = o.gid] ELSE record
      /\ Gone(p) /\ UNCHANGED <<google, session, snapshot, used>>

------------------------------------------------------------------------------
(* Rollback.                                                               *)

RollingBack(p) == ops[p].kind = "rollback"

\* Mutant: nobody else's lock row is noticed.
LockFreeForAll == TRUE

\* require_lock: the row of another rollback is uncommitted while it runs, and
\* an insert of the same key waits for it on the unique index.
LockFree == \A p \in Procs : ~RollingBack(p)

\* The lock, the record, and the task as Google has it.
BeginRollback(p) ==
  /\ LockFree
  /\ There(record.gid, record.list)
  /\ Begin(p, Here([NoOp EXCEPT !.kind = "rollback", !.before = State(record.gid)]))

\* revisions[-1], ordered by number
LatestRevisions == {k \in DOMAIN revs : \A j \in DOMAIN revs : revs[j].no <= revs[k].no}

\* The drift check, which a revision without after state passes.
NoDrift(o) ==
  \E k \in LatestRevisions :
    revs[k].after.updated # 0 => revs[k].after.updated = o.before.updated

\* move_task when the target names another list, then patch_task; an absent
\* before state cannot be restored.
RollbackCalls(p, k) ==
  LET o        == ops[p]
      target   == revs[k].before
      dest     == IF target.list = None THEN o.list ELSE target.list
      restored == Patched(task[o.gid], target.title, target.notes)
      done(g)  == Called(p, [o EXCEPT !.gid = g, !.list = dest, !.moved = dest # o.list,
                               !.prop.dest = revs[k].from,
                               !.after = [list |-> dest, title |-> restored.title,
                                          notes |-> restored.notes, updated |-> clock + 1]])
  IN  /\ At(p, "rollback", "read") /\ target # NoState
      /\ There(o.gid, o.list)
      /\ \E force \in BOOLEAN : force \/ NoDrift(o)
      /\ \/ /\ dest = o.list
            /\ Patch(o.gid, restored) /\ done(o.gid) /\ UNCHANGED used
         \/ /\ dest # o.list
            /\ Move(o.gid, dest, restored, TRUE) /\ done(Copy) /\ UNCHANGED used
         \/ /\ dest # o.list /\ Fault
            /\ \E deleted \in BOOLEAN : Move(o.gid, dest, task[o.gid], deleted)
            /\ Gone(p)
      /\ UNCHANGED db

\* RollbackDriftError, RollbackError, and everything else that ends without a
\* commit and before Google is changed.
RollbackRefused(p) ==
  /\ At(p, "rollback", "read")
  /\ \/ ~NoDrift(ops[p])
     \/ ~There(ops[p].gid, ops[p].list)
     \/ \E k \in DOMAIN revs : revs[k].before = NoState
  /\ Gone(p) /\ UNCHANGED <<google, db, used>>

\* Mutant: the pointer is left where it was.
CommitRollbackInPlace(p) ==
  /\ At(p, "rollback", "called")
  /\ revs' = Append(revs, Revision(ops[p], "rollback"))
  /\ Gone(p) /\ UNCHANGED <<google, record, session, snapshot, used>>

CommitRollback(p) ==
  LET o == ops[p]
  IN  /\ At(p, "rollback", "called")
      /\ revs' = Append(revs, Revision(o, "rollback"))
      /\ record' = IF o.moved THEN [record EXCEPT !.list = o.list, !.gid = o.gid] ELSE record
      /\ Gone(p) /\ UNCHANGED <<google, session, snapshot, used>>

------------------------------------------------------------------------------
(* The user in Google, and the sync that sees it.                          *)

UserEdits ==
  LET g == record.gid
      t == task[g]
  IN  /\ t.live
      /\ UserActs /\ used' = [used EXCEPT !.user = @ + 1]
      /\ \/ \E title \in Titles \ {t.title} : Patch(g, [t EXCEPT !.title = title])
         \/ Patch(g, [t EXCEPT !.notes = Append(@, Text(2))])
         \/ /\ Parse(t.notes) # NoId
            /\ Patch(g, [t EXCEPT !.notes = [k \in DOMAIN @ |->
                         IF @[k].kind = "env" THEN Broken(@[k].v) ELSE @[k]]])
      /\ UNCHANGED <<db, ops>>

\* A cycle of the sync finds the task and saves what changed.
SyncSeesTask ==
  /\ There(record.gid, record.list)
  /\ snapshot # State(record.gid)
  /\ snapshot' = State(record.gid)
  /\ UNCHANGED <<google, record, session, revs, ops, used>>

------------------------------------------------------------------------------

Next ==
  \/ \E p \in Procs :
       \/ BeginConfirm(p) \/ ConfirmCalls(p) \/ ConfirmRefused(p) \/ CommitConfirm(p)
       \/ BeginDiscard(p) \/ CommitDiscard(p)
       \/ BeginProposalEdit(p) \/ CommitProposalEdit(p)
       \/ BeginAdminEdit(p) \/ AdminEditPatches(p) \/ AdminEditMoves(p) \/ CommitAdminEdit(p)
       \/ BeginRewrite(p) \/ RewriteCalls(p) \/ CommitRewrite(p)
       \/ BeginRollback(p) \/ RollbackRefused(p) \/ CommitRollback(p)
       \/ \E k \in DOMAIN revs : RollbackCalls(p, k)
       \/ Dies(p)
  \/ UserEdits \/ SyncSeesTask

Spec == Init /\ [][Next]_vars

------------------------------------------------------------------------------
(* Properties.                                                             *)

TypeOK ==
  /\ \A g \in Gids : task[g].list \in Lists \cup {None} /\ task[g].updated \in 0 .. clock
  /\ record.list \in Lists /\ record.gid \in Gids
  /\ record.status \in {"awaiting_review", "applied", "discarded"}
  /\ session.prop \in [title : Titles, dest : Lists]
  /\ \A p \in Procs : ops[p].at \in {"idle", "read", "patched", "called"}
  /\ \A k \in DOMAIN revs : revs[k].no \in 1 .. k

\* A rollback never starts from a state older than what an earlier rollback of
\* the task left: two admins rolling one task back are served one after the
\* other, although the lock row is removed before the transaction ends.
RollbacksAreSerial ==
  \A i, j \in DOMAIN revs :
    i < j /\ revs[i].op = "rollback" /\ revs[j].op = "rollback"
      => revs[j].before.updated >= revs[i].after.updated

\* A task is decided twice only by decisions that overlap: whoever looks after
\* a decision is committed finds no session, whatever edit of the proposal was
\* under way meanwhile.
SecondDecisionOverlaps ==
  \A i, j \in DOMAIN revs :
    i < j /\ {revs[i].op, revs[j].op} \subseteq {"confirm", "discard"} => revs[j].began < i

Quiet == used.faults = 0 /\ \A p \in Procs : ops[p] = NoOp

\* Every change is on record: when no call fails and no request is lost, then
\* however the operations overlap, the task that lives in Google and what is in
\* it are as one of the revisions says it left them.
EveryChangeIsOnRecord ==
  Quiet /\ used.user = 0 =>
    \A g \in Gids : task[g].live =>
      \E k \in DOMAIN revs : revs[k].gid = g /\ Payload(revs[k].after) = Payload(State(g))

\* The record loses its task, and the task is doubled, only when operations
\* overlap or a call fails.
SerialEditsKeepTheTask ==
  Quiet /\ (\A k \in DOMAIN revs : revs[k].began = k - 1) =>
    {g \in Gids : task[g].live} = {record.gid} /\ task[record.gid].list = record.list

\* An admin's edit that starts from the present notes keeps what the user wrote
\* in them and leaves an envelope that names the task.
EditsKeepUserText ==
  [][\A p \in Procs :
       LET seen == ops[p].before.notes
           now  == task'[ops'[p].gid].notes
       IN  /\ At(p, "edit", "read") /\ ~At(p, "edit", "read")' /\ ops'[p] # NoOp /\ ops'[p].ok
           /\ seen = task[ops[p].gid].notes /\ Parse(seen) = Me
           => Texts(now) = Texts(seen) /\ Parse(now) = Me]_vars

\* The service "replays a prior revision to restore a Google Task to a previous
\* state": the list it was in is part of that state.
RollbackRestoresList ==
  [][\A p \in Procs :
       At(p, "rollback", "called") /\ Len(revs') > Len(revs) /\ ops'[p] = NoOp
         => record'.list = ops[p].prop.dest]_vars

==============================================================================
