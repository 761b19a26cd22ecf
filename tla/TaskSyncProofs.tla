---------------------------- MODULE TaskSyncProofs ----------------------------
(* Theorems about TaskSync, for any number of lists, tasks, ids, faults,   *)
(* runs and changes by the user, and any threshold.                        *)
EXTENDS TaskSync, FiniteSetTheorems, TLAPS

------------------------------------------------------------------------------
(* The inductive invariant.                                                *)

GTaskOrNone == GTasks \cup {None}
IdOrNone    == Ids \cup {None}

Tasks  == [status : GoogleState, list : ListOrNone, title : Nat, form : Forms, notes : Nat,
           env : IdOrNone]
Rows   == [state : RecordState, list : ListOrNone, gid : GTaskOrNone, misses : 0 .. Threshold]
Item   == [gid : GTaskOrNone, content : Content]
Cycles == [at : {"off", "tasks", "apply"}, todo : SUBSET Lists, list : ListOrNone,
           items : SUBSET Item, seen : SUBSET Ids, item : Item, found : IdOrNone,
           moved : BOOLEAN, was : RecordState]
Drafts == [dirty : SUBSET Ids, rec : [Ids -> Rows], snap : [Ids -> Content],
           rows : [GTasks -> IdOrNone]]
Works  == [at : {"idle", "claimed", "begun", "thinking", "annotated"}, id : IdOrNone,
           src : GTaskOrNone, list : ListOrNone, gid : GTaskOrNone,
           adoption : {"none", "adopted", "lost"}, read : Content, before : SUBSET Content]
Confs  == [at : {"idle", "applied"}, id : IdOrNone, list : ListOrNone, gid : GTaskOrNone,
           by : {"user", "admin", "nobody"}, points : BOOLEAN, before : SUBSET Content]

TypeInv ==
  /\ google \in [GTasks -> Tasks] /\ rec \in [Ids -> Rows] /\ snap \in [Ids -> Content]
  /\ queue \in [GTasks -> IdOrNone] /\ proposed \in SUBSET Ids /\ past \in [Ids -> SUBSET Content]
  /\ cycle \in Cycles /\ draft \in Drafts /\ unseen \in [Ids -> 0 .. Threshold]
  /\ work \in Works /\ conf \in Confs /\ used \in [ops : Nat, faults : Nat, runs : Nat]

Running == work.at \in {"begun", "thinking", "annotated"}
Located == cycle.at = "apply" /\ cycle.found # None
Adopted(r) == r.state \notin {"none", "unadopted"}

\* A record counts its misses only while it is looked for.
RowOK(r) ==
  /\ r.state # "none" => r.list \in Lists /\ r.gid \in GTasks
  /\ r.state \in {"none", "unadopted"} => r.misses = 0
  /\ r.state \in {"active", "missing"} => r.misses < Threshold

DraftInv ==
  /\ cycle.at = "off" => draft = NoDraft /\ cycle.seen = {}
  /\ draft.dirty = cycle.seen
  /\ \A i \in draft.dirty :
       /\ RowOK(draft.rec[i]) /\ draft.rec[i].state # "none" /\ draft.rec[i].misses = 0
       /\ rec[i].state # "none" => (rec[i].state = "unadopted" <=> draft.rec[i].state = "unadopted")
       /\ draft.rec[i].state = "deleted" => rec[i].state = "deleted"
  /\ \A g \in GTasks : draft.rows[g] # None => Exists(draft.rows[g])

CycleInv ==
  /\ cycle.at # "off" /\ (cycle.at = "apply" \/ cycle.items # {}) => cycle.list \in Lists
  /\ \A it \in cycle.items : it.gid # None
  /\ cycle.at = "apply" => cycle.item.gid # None
  /\ Located => Exists(cycle.found) /\
                (cycle.was \in {"missing", "deleted"} => View(cycle.found).state # "unadopted")

\* Whoever is at work has a record, which is not adopted before he commits.  Only
\* an admin changes a record that is not adopted, and leaves it where it is.
WorkInv ==
  /\ work.at # "idle" => work.id # None /\ work.src # None /\ rec[work.id].state # "none"
  /\ Running => /\ work.list \in Lists /\ work.gid # None
                /\ work.adoption # "none" <=> rec[work.id].state = "unadopted"
  /\ work.at \in {"thinking", "annotated"} => work.id \notin draft.dirty
  /\ \A g \in GTasks : queue[g] # None => rec[queue[g]].state # "none"
  /\ \A i \in proposed : Adopted(rec[i])
  /\ conf.at = "applied" =>
       /\ conf.id # None /\ conf.list \in Lists /\ conf.gid # None /\ rec[conf.id].state # "none"
       /\ conf.by = "user" => conf.points /\ Adopted(rec[conf.id])

StateInv == (\A i \in Ids : RowOK(rec[i])) /\ DraftInv /\ CycleInv /\ WorkInv

MissInv == \A i \in Ids : rec[i].misses <= unseen[i]

------------------------------------------------------------------------------
(* Places.                                                                 *)

SamePlace(r, s) == r.state # "none" /\ s.state # "none" /\ r.list = s.list /\ r.gid = s.gid

\* No two records are at one place, neither in the database nor in what the sync
\* transaction has made of it; and nobody writes another place to a record that
\* is not adopted.
PlaceInv ==
  /\ \A i, j \in Ids : SamePlace(rec[i], rec[j]) => i = j
  /\ \A i, j \in Ids : SamePlace(View(i), View(j)) => i = j
  /\ \A i \in Ids : rec[i].state = "unadopted" =>
       /\ i \in draft.dirty => draft.rec[i].list = rec[i].list
       /\ Located /\ cycle.found = i => ~cycle.moved /\ cycle.list = rec[i].list
       /\ Running /\ work.id = i => work.list = rec[i].list
       /\ conf.at = "applied" /\ conf.points /\ conf.id = i => conf.list = rec[i].list

(***************************************************************************)
(* The Google tasks that a record points at, or that somebody has read it  *)
(* to point at and may write to it.                                        *)
(***************************************************************************)
Knows(i, g) ==
  \/ rec[i].state # "none" /\ rec[i].gid = g
  \/ i \in draft.dirty /\ draft.rec[i].gid = g
  \/ Located /\ cycle.found = i /\ cycle.item.gid = g
  \/ Running /\ work.id = i /\ work.gid = g
  \/ conf.at = "applied" /\ conf.points /\ conf.id = i /\ conf.gid = g

Alive(g) == google[g].status # "absent"
Taken(g) == google[g].title # 0

Placed(g) == Taken(g) /\ google[g].list \in Lists

\* Of the tasks that are known of a record at most one is still there, and that
\* is the one that a change in progress will point at.
KnownInv ==
  /\ \A g \in GTasks : Alive(g) => Placed(g)
  /\ \A i \in Ids, g \in GTasks : Knows(i, g) => Taken(g)
  /\ \A it \in cycle.items : Taken(it.gid)
  /\ cycle.at = "apply" => Taken(cycle.item.gid)
  /\ \A i \in Ids, g, h \in GTasks : Knows(i, g) /\ Knows(i, h) /\ Alive(g) /\ Alive(h) => g = h
  /\ conf.at = "applied" /\ conf.points =>
       \A g \in GTasks : Knows(conf.id, g) => g = conf.gid \/ ~Alive(g)
  /\ \A i \in Ids, g \in GTasks : rec[i].state = "unadopted" /\ Knows(i, g) => g = rec[i].gid

------------------------------------------------------------------------------
(* The task of a record.                                                   *)

(***************************************************************************)
(* A task that is still there and that the sync transaction has written to *)
(* a record, or is about to write, is the one the record points at anyway; *)
(* and so is the task that the worker patches, whose record is locked.     *)
(***************************************************************************)
PointerInv ==
  /\ \A i \in draft.dirty : rec[i].state # "none" /\ Alive(draft.rec[i].gid)
                            => draft.rec[i].gid = rec[i].gid
  /\ Located /\ Alive(cycle.item.gid) => View(cycle.found).gid = cycle.item.gid
  /\ work.at \in {"thinking", "annotated"} =>
       work.gid = rec[work.id].gid \/ ~Alive(rec[work.id].gid)
  /\ work.at = "annotated" => work.read.env = work.id

Inv == TypeInv /\ StateInv /\ MissInv /\ PlaceInv /\ KnownInv /\ PointerInv

------------------------------------------------------------------------------
(* Types of the constants and of the fields of the variables.              *)

LEMMA NoneIs == None \notin Ids /\ None \notin GTasks
BY DEF None, Ids, GTasks

LEMMA NothingTyped ==
  /\ NoContent \in Content /\ NoRecord \in Rows /\ NoItem \in Item /\ NoTask \in Tasks
  /\ NoCycle \in Cycles /\ NoDraft \in Drafts /\ NoWork \in Works /\ NoConfirm \in Confs
<1>1. NoContent \in Content
  BY BoundsAssumption DEF NoContent, Content, Forms
<1>2. NoRecord \in Rows
  BY BoundsAssumption DEF NoRecord, Rows, RecordState, ListOrNone, GTaskOrNone
<1>3. NoItem \in Item
  BY <1>1 DEF NoItem, Item, GTaskOrNone
<1>4. NoCycle \in Cycles
  BY <1>3 DEF NoCycle, Cycles, IdOrNone, ListOrNone, RecordState
<1>5. NoDraft \in Drafts
  BY <1>1, <1>2 DEF NoDraft, Drafts, IdOrNone
<1>6. NoWork \in Works
  BY <1>1 DEF NoWork, Works, IdOrNone, GTaskOrNone, ListOrNone
<1>7. NoConfirm \in Confs /\ NoTask \in Tasks
  BY BoundsAssumption
  DEF NoConfirm, Confs, IdOrNone, GTaskOrNone, ListOrNone, NoTask, Tasks, GoogleState, Forms
<1>8. QED
  BY <1>1, <1>2, <1>3, <1>4, <1>5, <1>6, <1>7

LEMMA RowsTyped ==
  ASSUME TypeInv, NEW i \in Ids
  PROVE  /\ rec[i] \in Rows /\ draft.rec[i] \in Rows /\ View(i) \in Rows
         /\ snap[i] \in Content /\ draft.snap[i] \in Content /\ LastContent(i) \in Content
<1>1. draft.rec \in [Ids -> Rows] /\ draft.snap \in [Ids -> Content]
  BY DEF TypeInv, Drafts
<1>2. rec \in [Ids -> Rows] /\ snap \in [Ids -> Content]
  BY DEF TypeInv
<1>3. QED
  BY <1>1, <1>2 DEF View, LastContent

LEMMA TasksTyped ==
  ASSUME TypeInv, NEW g \in GTasks
  PROVE  google[g] \in Tasks /\ (Taken(g) => Shown(g) \in Content)
<1>1. google[g] \in Tasks
  BY DEF TypeInv
<1>2. QED
  BY <1>1 DEF Tasks, Shown, Content, IdOrNone, ListOrNone, Taken

\* What the sync transaction sees is as sound as what is in the database.
LEMMA ViewsOK ==
  ASSUME TypeInv, StateInv, NEW i \in Ids
  PROVE  /\ RowOK(View(i))
         /\ rec[i].state # "none" => Exists(i)
         /\ rec[i].state # "none" => (rec[i].state = "unadopted" <=> View(i).state = "unadopted")
<1>1. CASE i \in draft.dirty
  BY <1>1 DEF StateInv, DraftInv, View, Exists
<1>2. CASE i \notin draft.dirty
  BY <1>2 DEF StateInv, View, Exists
<1>3. QED
  BY <1>1, <1>2

------------------------------------------------------------------------------
(* The shapes of steps.                                                    *)

UsedTyped == used' \in [ops : Nat, faults : Nat, runs : Nat]

LEMMA FaultTyped ==
  ASSUME TypeInv, Fault
  PROVE  UsedTyped
<1>1. used \in [ops : Nat, faults : Nat, runs : Nat]
  BY DEF TypeInv
<1>2. QED
  BY <1>1 DEF Fault, UsedTyped

\* A task is never forgotten and does not come back.
GoogleKeeps ==
  \A g \in GTasks : /\ Taken(g) => Taken(g)' /\ (~Alive(g) => ~Alive(g)')
                    /\ (Alive(g) => Placed(g))'

\* Except that of g, the tasks that have been taken keep their envelopes.
EnvelopesStay(S) == \A g \in GTasks \ S : Taken(g) => google'[g].env = google[g].env

GoogleActs == google' \in [GTasks -> Tasks] /\ GoogleKeeps

UserActs ==
  /\ GoogleActs
  /\ EnvelopesStay({}) \/ \E g \in GTasks : EditTask(g)
  /\ UsedTyped /\ UNCHANGED <<dbVars, syncVars, work, conf>>

LEMMA GoogleRests ==
  ASSUME KnownInv, UNCHANGED google
  PROVE  GoogleKeeps
BY DEF KnownInv, GoogleKeeps, Alive, Taken, Placed

LEMMA SetTaskIs ==
  ASSUME TypeInv, KnownInv, NEW g \in GTasks, NEW t \in Tasks, SetTask(g, t),
         t.title # 0, t.status # "absent" => t.list \in Lists,
         Taken(g) /\ ~Alive(g) => t.status = "absent"
  PROVE  /\ GoogleActs
         /\ \A h \in GTasks \ {g} : google'[h] = google[h]
         /\ google'[g] = t
<1>1. google \in [GTasks -> Tasks]
  BY DEF TypeInv
<1>2. google' = [google EXCEPT ![g] = t]
  BY DEF SetTask
<1>3. google' \in [GTasks -> Tasks] /\ google'[g] = t /\ \A h \in GTasks \ {g} : google'[h] = google[h]
  BY <1>1, <1>2
<1>4. \A h \in GTasks : Alive(h) => Placed(h)
  BY DEF KnownInv
<1>5. GoogleKeeps
  <2> SUFFICES ASSUME NEW h \in GTasks
               PROVE  /\ Taken(h) => Taken(h)' /\ (~Alive(h) => ~Alive(h)')
                      /\ Alive(h)' => Placed(h)'
    BY DEF GoogleKeeps
  <2>1. CASE h = g
    BY <2>1, <1>3 DEF Alive, Taken, Placed
  <2>2. CASE h # g
    BY <2>2, <1>3, <1>4 DEF Alive, Taken, Placed
  <2>3. QED
    BY <2>1, <2>2
<1>6. QED
  BY <1>3, <1>5 DEF GoogleActs

\* A new title is a title, and changes nothing else.
LEMMA RetitledIs ==
  ASSUME NEW t \in Tasks, t.title # 0, NEW u \in Retitled(t)
  PROVE  u \in Tasks /\ u.title # 0 /\ u.list = t.list /\ u.status = t.status /\ u.env = t.env
<1>1. t.title \in Nat /\ t.title + 1 \in Nat /\ t.title + 1 # 0
  BY DEF Tasks
<1>2. CASE u = [t EXCEPT !.title = @ + 1]
  BY <1>1, <1>2 DEF Tasks
<1>3. CASE \E f \in Forms : u = [t EXCEPT !.form = f]
  BY <1>3 DEF Tasks
<1>4. QED
  BY <1>2, <1>3 DEF Retitled

LEMMA UserIs ==
  ASSUME TypeInv, KnownInv, UserStep
  PROVE  UserActs
<1>1. UsedTyped /\ UNCHANGED <<dbVars, syncVars, work, conf>>
  <2>1. used \in [ops : Nat, faults : Nat, runs : Nat]
    BY DEF TypeInv
  <2>2. UserOp /\ UNCHANGED <<dbVars, syncVars, work, conf>>
    BY DEF UserStep, AddTask, EditTask, DragTask, CompleteOrReopen, DeleteTask
  <2>3. QED
    BY <2>1, <2>2 DEF UserOp, UsedTyped
<1> SUFFICES GoogleActs /\ (EnvelopesStay({}) \/ \E g \in GTasks : EditTask(g))
  BY <1>1 DEF UserActs
<1>2. ASSUME NEW g \in GTasks, NEW t \in Tasks, SetTask(g, t), t.title # 0, t.list \in Lists,
             Taken(g) /\ ~Alive(g) => t.status = "absent"
      PROVE  /\ GoogleActs
             /\ (Taken(g) => t.env = google[g].env) => EnvelopesStay({})
  BY <1>2, SetTaskIs DEF EnvelopesStay
<1>3. \A g \in GTasks : google[g] \in Tasks /\ (Alive(g) => google[g].title # 0 /\ google[g].list \in Lists)
  BY TasksTyped DEF KnownInv, Taken, Placed
<1>4. ASSUME NEW g \in GTasks, NEW l \in Lists, AddTask(g, l)
      PROVE  GoogleActs /\ EnvelopesStay({})
  <2>1. NewTask(l) \in Tasks /\ NewTask(l).title # 0 /\ NewTask(l).list \in Lists
    BY BoundsAssumption DEF NewTask, Tasks, GoogleState, ListOrNone, IdOrNone, Forms
  <2>2. ~Taken(g) /\ SetTask(g, NewTask(l))
    BY <1>4 DEF AddTask, Taken
  <2>3. QED
    BY <2>1, <2>2, <1>2
<1>5. ASSUME NEW g \in GTasks, NEW l \in Lists, DragTask(g, l)
      PROVE  GoogleActs /\ EnvelopesStay({})
  <2>1. PICK t : t = [google[g] EXCEPT !.list = l]
    OBVIOUS
  <2>2. SetTask(g, t) /\ Alive(g)
    BY <1>5, <2>1 DEF DragTask, Alive
  <2>3. t \in Tasks /\ t.title # 0 /\ t.list \in Lists /\ t.env = google[g].env
    BY <2>1, <2>2, <1>3 DEF Tasks, ListOrNone
  <2>4. QED
    BY <2>2, <2>3, <1>2
<1>6. ASSUME NEW g \in GTasks, EditTask(g)
      PROVE  GoogleActs
  <2>1. Alive(g)
    BY <1>6 DEF EditTask, Alive
  <2>2. google[g] \in Tasks /\ google[g].title # 0 /\ google[g].list \in Lists
    BY <2>1, <1>3
  <2>3. PICK t : /\ SetTask(g, t)
                 /\ \/ t \in Retitled(google[g])
                    \/ t = [google[g] EXCEPT !.notes = @ + 1]
                    \/ t = [google[g] EXCEPT !.env = None]
    BY <1>6 DEF EditTask
  <2>4. t \in Tasks /\ t.title # 0 /\ t.list \in Lists
    <3>1. CASE t \in Retitled(google[g])
      BY <2>2, <3>1, RetitledIs
    <3>2. CASE t = [google[g] EXCEPT !.notes = @ + 1] \/ t = [google[g] EXCEPT !.env = None]
      BY <2>2, <3>2 DEF Tasks, IdOrNone
    <3>3. QED
      BY <2>3, <3>1, <3>2
  <2>5. QED
    BY <2>1, <2>3, <2>4, <1>2
<1>7. ASSUME NEW g \in GTasks, CompleteOrReopen(g) \/ DeleteTask(g)
      PROVE  GoogleActs /\ EnvelopesStay({})
  <2>1. PICK s \in GoogleState : SetTask(g, [google[g] EXCEPT !.status = s])
    BY <1>7, <1>3 DEF CompleteOrReopen, DeleteTask, GoogleState, Tasks
  <2>2. Alive(g)
    BY <1>7 DEF CompleteOrReopen, DeleteTask, Alive
  <2>3. PICK t : t = [google[g] EXCEPT !.status = s]
    OBVIOUS
  <2>4. t \in Tasks /\ t.title # 0 /\ t.list \in Lists /\ t.env = google[g].env
    BY <2>2, <2>3, <1>3 DEF Tasks
  <2>5. QED
    BY <2>1, <2>2, <2>3, <2>4, <1>2
<1>8. QED
  BY <1>4, <1>5, <1>6, <1>7 DEF UserStep

Bystander == UNCHANGED <<google, queue, past, proposed, cycle, draft, unseen, work, conf>>

\* An import gives a task a record that is not adopted, at a place that is free.
Admitted(i, r) ==
  /\ ~Exists(i) /\ rec[i].state = "none"
  /\ r.state = "unadopted" /\ r.misses = 0 /\ r.list \in Lists /\ r.gid \in GTasks
  /\ Alive(r.gid)
  /\ \A j \in Ids : ~PointsTo(rec[j], r.list, r.gid) /\ ~PointsTo(View(j), r.list, r.gid)

Imports ==
  /\ rec' \in [Ids -> Rows]
  /\ \A i \in Ids : rec'[i] = rec[i] \/ Admitted(i, rec'[i])
  /\ \A i, j \in Ids : rec'[i] # rec[i] /\ rec'[j] # rec[j] /\ rec'[i].gid = rec'[j].gid => i = j
  /\ snap' \in [Ids -> Content] /\ UsedTyped /\ Bystander

LEMMA ImportIs ==
  ASSUME TypeInv, KnownInv, ImportFromGoogle
  PROVE  Imports
<1> DEFINE new == {g \in GTasks : /\ google[g].status = "open"
                                  /\ ~\E i \in Ids : PointsTo(rec[i], google[g].list, g)}
           row(g) == [state |-> "unadopted", list |-> google[g].list, gid |-> g, misses |-> 0]
<1>1. PICK f \in Injection(new, Fresh) :
        /\ rec' = [i \in Ids |-> IF i \notin Range(f) THEN rec[i]
                                 ELSE row(CHOOSE g \in new : f[g] = i)]
        /\ snap' = [i \in Ids |-> IF i \notin Range(f) THEN snap[i]
                      ELSE [Shown(CHOOSE g \in new : f[g] = i) EXCEPT !.form = Imported, !.notes = 0, !.env = i]]
  BY DEF ImportFromGoogle
<1>2. f \in [new -> Fresh] /\ \A g, h \in new : f[g] = f[h] => g = h
  BY <1>1 DEF Injection, IsInjective
<1>3. \A g \in new : ~PlaceTaken(google[g].list, g, None)
  BY DEF ImportFromGoogle
<1>4. \A g \in new : /\ g \in GTasks /\ Alive(g) /\ google[g].list \in Lists
                     /\ \A j \in Ids : /\ ~PointsTo(rec[j], google[g].list, g)
                                       /\ ~PointsTo(View(j), google[g].list, g)
  BY <1>3, NoneIs DEF KnownInv, Placed, Alive, PlaceTaken
<1>5. \A i \in Fresh : i \in Ids /\ ~Exists(i) /\ rec[i].state = "none"
  BY DEF Fresh
<1>6. \A g \in new : /\ row(g) \in Rows /\ row(g).state = "unadopted" /\ row(g).misses = 0
                     /\ row(g).list = google[g].list /\ row(g).gid = g
  BY <1>4, BoundsAssumption DEF Rows, RecordState, ListOrNone, GTaskOrNone
<1>7. \A i \in Ids : rec'[i] = rec[i] \/ \E g \in new : i = f[g] /\ rec'[i] = row(g)
  <2> HIDE DEF new, row
  <2>1. \A i \in Range(f) : \E g \in new : f[g] = i
    BY <1>2 DEF Range
  <2>2. QED
    BY <1>1, <2>1
<1>8. \A i \in Ids : rec'[i] = rec[i] \/ Admitted(i, rec'[i])
  <2> SUFFICES ASSUME NEW i \in Ids, rec'[i] # rec[i] PROVE Admitted(i, rec'[i])
    OBVIOUS
  <2>1. PICK g \in new : i = f[g] /\ rec'[i] = row(g)
    BY <1>7
  <2> HIDE DEF new, row
  <2>2. i \in Fresh
    BY <2>1, <1>2
  <2>3. QED
    BY <2>1, <2>2, <1>4, <1>5, <1>6 DEF Admitted
<1>9. \A i, j \in Ids : rec'[i] # rec[i] /\ rec'[j] # rec[j] /\ rec'[i].gid = rec'[j].gid => i = j
  <2> HIDE DEF new, row
  <2>1. QED
    BY <1>6, <1>7
<1>10. rec' \in [Ids -> Rows]
  <2>1. \A i \in Ids : rec[i] \in Rows
    BY RowsTyped
  <2> HIDE DEF new, row
  <2>2. \A i \in Ids : rec'[i] \in Rows
    BY <2>1, <1>6, <1>7
  <2>3. QED
    BY <1>1, <2>2
<1>11. UsedTyped /\ Bystander
  <2>1. used \in [ops : Nat, faults : Nat, runs : Nat]
    BY DEF TypeInv
  <2>2. UserOp /\ UNCHANGED <<google, queue, proposed, past, syncVars, work, conf>>
    BY DEF ImportFromGoogle
  <2>3. QED
    BY <2>1, <2>2 DEF UserOp, UsedTyped, Bystander, syncVars
<1>12. snap' \in [Ids -> Content]
  <2> HIDE DEF new, row
  <2>1. \A i \in Range(f) : \E g \in new : f[g] = i
    BY <1>2 DEF Range
  <2>2. \A g \in new : Shown(g) \in Content
    BY <1>4, TasksTyped DEF KnownInv, Placed
  <2>3. \A i \in Ids, c \in Content : [c EXCEPT !.form = Imported, !.notes = 0, !.env = i] \in Content
    BY DEF Content
  <2>4. snap \in [Ids -> Content]
    BY DEF TypeInv
  <2>5. QED
    BY <1>1, <2>1, <2>2, <2>3, <2>4
<1>13. QED
  BY <1>8, <1>9, <1>10, <1>11, <1>12 DEF Imports

SyncActs == UNCHANGED <<google, rec, snap, queue, proposed, past, unseen, work, conf>> /\ UsedTyped

\* The sync transaction writes the row r for the record it has looked up, or for
\* a new task.
Rewritten(i, r) ==
  /\ cycle.found = i /\ Exists(i) /\ ~LockedByWorker(i)
  /\ r.state = "unadopted" <=> View(i).state = "unadopted"
  /\ r.state = "deleted" => View(i).state = "deleted"
  /\ r.gid = View(i).gid \/ r.gid = cycle.item.gid
  /\ \/ r.list = View(i).list /\ r.gid = View(i).gid
     \/ /\ r.list = cycle.list /\ r.gid = cycle.item.gid
        /\ ~PlaceTaken(r.list, r.gid, i)
  /\ View(i).state = "unadopted" => cycle.moved \/ r.list \in {View(i).list, cycle.list}

Recorded(i, r) ==
  /\ cycle.found = None /\ ~Exists(i)
  /\ r.state \in {"active", "unadopted"}
  /\ r.list = cycle.list /\ r.gid = cycle.item.gid
  /\ ~PlaceTaken(r.list, r.gid, None)

Writes(i, r) ==
  /\ cycle.at = "apply" /\ SyncActs
  /\ r \in Rows /\ RowOK(r) /\ r.state # "none" /\ r.misses = 0
  /\ Rewritten(i, r) \/ Recorded(i, r)
  /\ \E c \in Content, row \in BOOLEAN : Write(i, r, c, row)
  /\ Done(i)

LEMMA ApplyIs ==
  ASSUME TypeInv, StateInv, ApplyKnown \/ ApplyMoved \/ ApplyNew
  PROVE  \E i \in Ids : \E r \in Rows : Writes(i, r)
<1>1. cycle \in Cycles /\ cycle.at = "apply" /\ SyncActs
  <2>1. used \in [ops : Nat, faults : Nat, runs : Nat] /\ cycle \in Cycles
    BY DEF TypeInv
  <2>2. QED
    BY <2>1 DEF ApplyKnown, ApplyMoved, ApplyNew, SyncOnly, SyncActs, UsedTyped, dbVars
<1>2. /\ cycle.list \in Lists /\ cycle.item.gid \in GTasks /\ cycle.item.content \in Content
      /\ cycle.found \in IdOrNone
  BY <1>1 DEF StateInv, CycleInv, Cycles, Item, GTaskOrNone
<1>3. CASE ApplyKnown
  <2> DEFINE i       == cycle.found
             changed == Hash(LastContent(i)) # Hash(cycle.item.content)
             content == IF changed THEN cycle.item.content ELSE LastContent(i)
             seen    == [View(i) EXCEPT !.misses = 0,
                           !.state = IF cycle.was \in {"missing", "deleted"} THEN "active" ELSE @]
  <2>1. i \in Ids /\ Located
    BY <1>1, <1>2, <1>3 DEF ApplyKnown, Located, IdOrNone
  <2>2. /\ View(i) \in Rows /\ RowOK(View(i)) /\ Exists(i)
        /\ cycle.was \in {"missing", "deleted"} => View(i).state # "unadopted"
    BY <2>1, RowsTyped, ViewsOK DEF StateInv, CycleInv
  <2>3. PICK r : r = IF changed THEN seen
                     ELSE [seen EXCEPT !.list = cycle.list, !.gid = cycle.item.gid]
    OBVIOUS
  <2>4. PICK s \in RecordState :
          /\ seen = [View(i) EXCEPT !.misses = 0, !.state = s]
          /\ s # "none" /\ (s = "unadopted" <=> View(i).state = "unadopted")
          /\ s = "deleted" => View(i).state = "deleted"
    BY <2>2 DEF Rows, RecordState, Exists
  <2>5. /\ seen \in Rows /\ seen.state = s /\ seen.misses = 0
        /\ seen.list = View(i).list /\ seen.gid = View(i).gid
    <3>1. PICK v \in Rows : v = View(i)
      BY <2>2
    <3>2. seen = [v EXCEPT !.misses = 0, !.state = s]
      BY <2>4, <3>1
    <3>3. 0 \in 0 .. Threshold
      BY BoundsAssumption
    <3> HIDE DEF seen, i
    <3>4. QED
      BY <3>1, <3>2, <3>3 DEF Rows
  <2>6. View(i).list \in Lists /\ View(i).gid \in GTasks
    BY <2>2 DEF RowOK, Exists
  <2>7. /\ r \in Rows /\ r.state = s /\ r.misses = 0
        /\ changed => r.list = View(i).list /\ r.gid = View(i).gid
        /\ ~changed => r.list = cycle.list /\ r.gid = cycle.item.gid
    <3> HIDE DEF seen, changed
    <3>1. QED
      BY <1>2, <2>3, <2>5 DEF Rows, ListOrNone, GTaskOrNone
  <2>8. RowOK(r)
    BY <1>2, <2>4, <2>6, <2>7, BoundsAssumption DEF RowOK
  <2>9. changed \/ ~PlaceTaken(cycle.list, cycle.item.gid, i)
    BY <1>3 DEF ApplyKnown
  <2>10. Rewritten(i, r)
    <3> HIDE DEF changed
    <3>1. ~LockedByWorker(i)
      BY <1>3 DEF ApplyKnown
    <3>2. QED
      BY <2>2, <2>4, <2>7, <2>9, <3>1 DEF Rewritten
  <2>11. Write(i, r, content, changed) /\ Done(i)
    BY <1>3, <2>3 DEF ApplyKnown
  <2>12. changed \in BOOLEAN /\ content \in Content
    BY <1>2, <2>1, RowsTyped
  <2>13. Writes(i, r)
    <3> HIDE DEF changed, i, content
    <3>1. QED
      BY <1>1, <1>2, <2>4, <2>7, <2>8, <2>10, <2>11, <2>12 DEF Writes
  <2>14. QED
    BY <2>1, <2>7, <2>13
<1>4. CASE ApplyMoved
  <2> DEFINE i == cycle.found
  <2>1. i \in Ids /\ Located /\ cycle.moved /\ ~LockedByWorker(i)
    BY <1>1, <1>2, <1>4 DEF ApplyMoved, Located, IdOrNone
  <2>2. View(i) \in Rows /\ RowOK(View(i)) /\ Exists(i)
    BY <2>1, RowsTyped, ViewsOK DEF StateInv, CycleInv
  <2>3. PICK r : r = [View(i) EXCEPT !.list = cycle.list, !.gid = cycle.item.gid, !.misses = 0]
    OBVIOUS
  <2>4. /\ r \in Rows /\ r.state = View(i).state /\ r.misses = 0
        /\ r.list = cycle.list /\ r.gid = cycle.item.gid
    <3>1. PICK v \in Rows : v = View(i)
      BY <2>2
    <3>2. 0 \in 0 .. Threshold
      BY BoundsAssumption
    <3> HIDE DEF i
    <3>3. QED
      BY <1>2, <2>3, <3>1, <3>2 DEF Rows, ListOrNone, GTaskOrNone
  <2>5. RowOK(r) /\ r.state # "none"
    BY <1>2, <2>2, <2>4, BoundsAssumption DEF RowOK, Exists
  <2>6. Rewritten(i, r)
    <3>1. ~PlaceTaken(cycle.list, cycle.item.gid, i)
      BY <1>4 DEF ApplyMoved
    <3>2. QED
      BY <2>1, <2>2, <2>4, <3>1 DEF Rewritten
  <2>7. Write(i, r, cycle.item.content, TRUE) /\ Done(i)
    BY <1>4, <2>3 DEF ApplyMoved
  <2>8. Writes(i, r)
    <3> HIDE DEF i
    <3>1. QED
      BY <1>1, <1>2, <2>4, <2>5, <2>6, <2>7 DEF Writes
  <2>9. QED
    BY <2>1, <2>4, <2>8
<1>5. CASE ApplyNew
  <2> DEFINE row == [state |-> IF cycle.item.content.env # None THEN "active" ELSE "unadopted",
                     list  |-> cycle.list, gid |-> cycle.item.gid, misses |-> 0]
  <2>1. PICK i \in Ids : ~Exists(i) /\ Write(i, row, cycle.item.content, TRUE) /\ Done(i)
    BY <1>5 DEF ApplyNew
  <2>2. PICK r : r = row
    OBVIOUS
  <2>3. /\ r \in Rows /\ r.state \in {"active", "unadopted"} /\ r.misses = 0
        /\ r.list = cycle.list /\ r.gid = cycle.item.gid
    BY <1>2, <2>2, BoundsAssumption DEF Rows, ListOrNone, GTaskOrNone, RecordState
  <2>4. RowOK(r) /\ r.state # "none"
    BY <1>2, <2>3, BoundsAssumption DEF RowOK
  <2>5. Recorded(i, r)
    BY <1>5, <2>1, <2>3 DEF ApplyNew, Recorded
  <2>6. Write(i, r, cycle.item.content, TRUE)
    BY <2>1, <2>2
  <2>7. Writes(i, r)
    <3> HIDE DEF row
    <3>1. QED
      BY <1>1, <1>2, <2>1, <2>3, <2>4, <2>5, <2>6 DEF Writes
  <2>8. QED
    BY <2>3, <2>7
<1>6. QED
  BY <1>3, <1>4, <1>5

WorkActs == UNCHANGED <<cycle, draft, unseen, conf>> /\ UsedTyped

LEMMA KeptTyped ==
  ASSUME NEW states \in SUBSET Content
  PROVE  Kept(states) \in SUBSET Content
BY DEF Kept

LEMMA RevisedTyped ==
  ASSUME TypeInv, NEW i \in Ids, NEW states \in SUBSET Content, Revised(i, states)
  PROVE  past' \in [Ids -> SUBSET Content]
<1>1. past \in [Ids -> SUBSET Content]
  BY DEF TypeInv
<1>2. PICK k \in SUBSET Content : k = Kept(states)
  BY KeptTyped
<1>3. past' = [past EXCEPT ![i] = @ \cup k]
  BY <1>2 DEF Revised
<1>4. QED
  BY <1>1, <1>3

\* The run of the record i ends and has made r of it.
RunEnds(i, r) ==
  /\ i = work.id /\ work.at # "idle" /\ r \in Rows
  /\ r.list = rec[i].list /\ r.gid = rec[i].gid /\ r.misses = rec[i].misses
  /\ \/ r = rec[i]
     \/ rec[i].state = "unadopted" /\ r.state \in {"active", "deleted"} /\ Running /\ i \notin draft.dirty
  /\ rec' = [rec EXCEPT ![i] = r]
  /\ \/ proposed' = proposed
     \/ proposed' = proposed \cup {i} /\ work.at = "annotated" /\ Adopted(r)
  /\ snap' \in [Ids -> Content] /\ queue' \in [GTasks -> IdOrNone]
  /\ past' \in [Ids -> SUBSET Content]
  /\ \A g \in GTasks : queue'[g] \in {queue[g], i}
  /\ work' = NoWork /\ UNCHANGED google /\ WorkActs

LEMMA WorksFor ==
  ASSUME TypeInv, StateInv
  PROVE  /\ work \in Works
         /\ work.at # "idle" => work.id \in Ids /\ work.src \in GTasks
         /\ Running => work.gid \in GTasks /\ work.list \in Lists
<1>1. work \in Works
  BY DEF TypeInv
<1>2. work.id \in IdOrNone /\ work.src \in GTaskOrNone /\ work.gid \in GTaskOrNone
  BY <1>1 DEF Works
<1>3. WorkInv
  BY DEF StateInv
<1>4. QED
  BY <1>1, <1>2, <1>3 DEF WorkInv, IdOrNone, GTaskOrNone

LEMMA AdoptIs ==
  ASSUME TypeInv, StateInv, PlaceInv, KnownInv, Running, NEW r, r = Adopt(rec[work.id])
  PROVE  /\ r \in Rows /\ Adopted(r)
         /\ r.list = rec[work.id].list /\ r.gid = rec[work.id].gid /\ r.misses = rec[work.id].misses
         /\ \/ r = rec[work.id]
            \/ rec[work.id].state = "unadopted" /\ r.state \in {"active", "deleted"}
<1>1. PICK i \in Ids : i = work.id
  BY WorksFor DEF Running
<1>2. rec[i] \in Rows /\ rec[i].state # "none"
  BY <1>1, RowsTyped DEF StateInv, WorkInv, Running
<1>3. work.adoption \in {"none", "adopted", "lost"}
  BY WorksFor DEF Works
<1>4. work.adoption # "none" <=> rec[i].state = "unadopted"
  BY <1>1 DEF StateInv, WorkInv
<1>5. CASE work.adoption = "none"
  BY <1>1, <1>2, <1>4, <1>5 DEF Adopt, Adopted
<1>6. CASE work.adoption # "none"
  <2>1. work.list = rec[i].list /\ work.gid = rec[i].gid
    <3>1. Knows(i, work.gid) /\ work.gid \in GTasks
      BY <1>1, WorksFor DEF Knows
    <3>2. QED
      BY <1>1, <1>4, <1>6, <3>1 DEF PlaceInv, KnownInv
  <2>2. PICK v \in Rows : v = rec[i]
    BY <1>2
  <2>3. \/ r = [v EXCEPT !.state = "active", !.list = v.list, !.gid = v.gid]
        \/ r = [v EXCEPT !.state = "deleted"]
    BY <1>1, <1>3, <1>6, <2>1, <2>2 DEF Adopt
  <2>4. /\ r \in Rows /\ r.list = v.list /\ r.gid = v.gid /\ r.misses = v.misses
        /\ r.state \in {"active", "deleted"}
    BY <2>3 DEF Rows, RecordState
  <2>5. QED
    BY <1>1, <1>4, <1>6, <2>2, <2>4 DEF Adopted
<1>7. QED
  BY <1>5, <1>6

LEMMA RunEndIs ==
  ASSUME TypeInv, StateInv, PlaceInv, KnownInv,
         TaskGone \/ AnnotateFails \/ Propose \/ RollBackWork
  PROVE  \E r \in Rows : RunEnds(work.id, r)
<1>1. work.at # "idle" /\ (~RollBackWork => Running)
  BY DEF TaskGone, AnnotateFails, Propose, RollBackWork, Running
<1>2. PICK i \in Ids : i = work.id
  BY <1>1, WorksFor
<1>3. rec \in [Ids -> Rows] /\ snap \in [Ids -> Content] /\ queue \in [GTasks -> IdOrNone]
  BY DEF TypeInv
<1>4. WorkActs /\ work' = NoWork /\ UNCHANGED google
  <2>1. UsedTyped
    <3>1. Fault => UsedTyped
      BY FaultTyped
    <3>2. used' = used => UsedTyped
      BY DEF TypeInv, UsedTyped
    <3>3. QED
      BY <3>1, <3>2 DEF TaskGone, AnnotateFails, Propose, RollBackWork
  <2>2. QED
    BY <2>1 DEF TaskGone, AnnotateFails, Propose, RollBackWork, WorkActs, WorkOnly, syncVars
<1>5. RowReturns => queue' \in [GTasks -> IdOrNone] /\ \A g \in GTasks : queue'[g] \in {queue[g], i}
  <2> SUFFICES ASSUME RowReturns
               PROVE  queue' \in [GTasks -> IdOrNone] /\ \A g \in GTasks : queue'[g] \in {queue[g], i}
    OBVIOUS
  <2>1. queue' = queue \/ queue' = [queue EXCEPT ![work.src] = i]
    BY <1>2 DEF RowReturns
  <2>2. work.src \in GTasks
    BY <1>1, WorksFor
  <2>3. QED
    BY <1>2, <1>3, <2>1, <2>2 DEF IdOrNone
<1>6. /\ queue' \in [GTasks -> IdOrNone]
      /\ \A g \in GTasks : queue'[g] \in {queue[g], i}
  BY <1>3, <1>5 DEF TaskGone, AnnotateFails, Propose, RollBackWork
<1>7. CASE RollBackWork
  <2>1. rec[i] \in Rows /\ rec' = [rec EXCEPT ![i] = rec[i]]
    BY <1>2, <1>3, <1>7 DEF RollBackWork
  <2>2. snap' = snap /\ proposed' = proposed /\ past' \in [Ids -> SUBSET Content]
    BY <1>7 DEF RollBackWork, TypeInv
  <2>3. RunEnds(i, rec[i])
    BY <1>1, <1>2, <1>3, <1>4, <1>6, <2>1, <2>2 DEF RunEnds
  <2>4. QED
    BY <1>2, <2>1, <2>3
<1>8. CASE TaskGone \/ AnnotateFails \/ Propose
  <2>1. PICK r : r = Adopt(rec[i])
    OBVIOUS
  <2>2. Running
    BY <1>8 DEF TaskGone, AnnotateFails, Propose, Running
  <2>3. /\ r \in Rows /\ Adopted(r)
        /\ r.list = rec[i].list /\ r.gid = rec[i].gid /\ r.misses = rec[i].misses
        /\ r = rec[i] \/ (rec[i].state = "unadopted" /\ r.state \in {"active", "deleted"})
    BY <1>2, <2>1, <2>2, AdoptIs
  <2>4. rec' = [rec EXCEPT ![i] = r]
    BY <1>2, <1>8, <2>1 DEF TaskGone, AnnotateFails, Propose
  <2>5. i \notin draft.dirty
    BY <1>2, <1>8 DEF TaskGone, AnnotateFails, Propose, LockedBySync, StateInv, WorkInv
  <2>6. \/ proposed' = proposed
        \/ proposed' = proposed \cup {i} /\ work.at = "annotated"
    BY <1>2, <1>8 DEF TaskGone, AnnotateFails, Propose
  <2>7. snap' \in [Ids -> Content]
    <3>1. work.read \in Content
      BY WorksFor DEF Works
    <3>2. QED
      BY <1>2, <1>3, <1>8, <3>1 DEF TaskGone, AnnotateFails, Propose
  <2>8. past' \in [Ids -> SUBSET Content]
    <3>1. work.before \in SUBSET Content /\ Revised(i, work.before)
      BY <1>2, <1>8, WorksFor DEF TaskGone, AnnotateFails, Propose, Works
    <3>2. QED
      BY <3>1, RevisedTyped
  <2>10. RunEnds(i, r)
    BY <1>1, <1>2, <1>4, <1>6, <2>2, <2>3, <2>4, <2>5, <2>6, <2>7, <2>8 DEF RunEnds
  <2>9. QED
    BY <1>2, <2>3, <2>10
<1>9. QED
  BY <1>7, <1>8

Claims(g) == g \in GTasks /\ Claim(g) /\ UsedTyped

\* The worker reads the record it works for, and may make an id up for its task.
Begins ==
  /\ work.at = "claimed" /\ WorkActs /\ UNCHANGED dbVars /\ GoogleActs
  /\ work' \in Works /\ work'.at = "begun"
  /\ work'.id = work.id /\ work'.src = work.src
  /\ work'.list = rec[work.id].list /\ work'.gid = rec[work.id].gid
  /\ work'.adoption # "none" <=> rec[work.id].state = "unadopted"
  /\ \A g \in GTasks : Taken(g) =>
       \/ google'[g].env = google[g].env
       \/ g = rec[work.id].gid /\ rec[work.id].state = "unadopted"

LEMMA PatchIs ==
  ASSUME TypeInv, KnownInv, NEW g \in GTasks, Alive(g), NEW e \in IdOrNone, NEW n \in Nat,
         SetTask(g, [google[g] EXCEPT !.notes = n, !.env = e])
  PROVE  /\ GoogleActs /\ google'[g].env = e
         /\ \A h \in GTasks \ {g} : google'[h].env = google[h].env
         /\ google'[g].title = google[g].title
<1>1. google[g] \in Tasks /\ google[g].title # 0 /\ google[g].list \in Lists
  BY TasksTyped DEF KnownInv, Placed, Taken
<1>2. PICK t : t = [google[g] EXCEPT !.notes = n, !.env = e]
  OBVIOUS
<1>3. /\ t \in Tasks /\ t.title = google[g].title /\ t.list = google[g].list
      /\ t.status = google[g].status /\ t.env = e
  BY <1>1, <1>2 DEF Tasks
<1>4. SetTask(g, t)
  BY <1>2
<1>5. QED
  BY <1>1, <1>3, <1>4, SetTaskIs

LEMMA PayloadTyped ==
  ASSUME TypeInv, KnownInv, NEW g \in GTasks, Alive(g)
  PROVE  Payload(Shown(g)) \in Content
<1>1. Shown(g) \in Content
  BY TasksTyped DEF KnownInv, Placed
<1>2. QED
  BY <1>1 DEF Payload, Content

LEMMA BeginWorkIs ==
  ASSUME TypeInv, StateInv, KnownInv, BeginWork
  PROVE  Begins
<1>1. PICK i \in Ids : i = work.id
  BY WorksFor DEF BeginWork
<1>2. work.at = "claimed" /\ work \in Works /\ rec[i] \in Rows /\ rec[i].state # "none"
  BY <1>1, WorksFor, RowsTyped DEF BeginWork, StateInv, WorkInv
<1>3. rec[i].list \in Lists /\ rec[i].gid \in GTasks
  BY <1>2 DEF StateInv, RowOK
<1>4. PICK a, s :
        /\ a \in {"none", "adopted", "lost"}
        /\ work' = [work EXCEPT !.at = "begun", !.list = rec[i].list, !.gid = rec[i].gid,
                                !.adoption = a, !.before = s]
        /\ a # "none" <=> rec[i].state = "unadopted"
        /\ a # "adopted" => UNCHANGED google /\ s = {}
        /\ a = "adopted" => /\ InList(rec[i].gid, rec[i].list)
                            /\ s = Kept({Payload(Shown(rec[i].gid))})
                            /\ \E e \in Ids : SetTask(rec[i].gid, [google[rec[i].gid] EXCEPT !.env = e])
  <2> DEFINE begun(a, s) == work' = [work EXCEPT !.at = "begun", !.list = rec[i].list,
                                       !.gid = rec[i].gid, !.adoption = a, !.before = s]
             marked == \E e \in Ids : SetTask(rec[i].gid, [google[rec[i].gid] EXCEPT !.env = e])
             kept   == Kept({Payload(Shown(rec[i].gid))})
             outcome(a, s) == /\ a \in {"none", "adopted", "lost"}
                              /\ begun(a, s)
                              /\ a # "none" <=> rec[i].state = "unadopted"
                              /\ a # "adopted" => UNCHANGED google /\ s = {}
                              /\ a = "adopted" => /\ InList(rec[i].gid, rec[i].list)
                                                  /\ s = kept /\ marked
  <2>1. \/ rec[i].state # "unadopted" /\ begun("none", {}) /\ UNCHANGED google
        \/ /\ rec[i].state = "unadopted" /\ InList(rec[i].gid, rec[i].list)
           /\ marked /\ begun("adopted", kept)
        \/ rec[i].state = "unadopted" /\ begun("lost", {}) /\ UNCHANGED google
    BY <1>1 DEF BeginWork
  <2> HIDE DEF begun, marked, kept
  <2>2. outcome("none", {}) \/ outcome("adopted", kept) \/ outcome("lost", {})
    BY <2>1
  <2> HIDE DEF outcome
  <2>3. \E a, s : outcome(a, s)
    BY <2>2
  <2>4. QED
    BY <2>3 DEF outcome, begun, marked, kept
<1>5. /\ work' \in Works /\ work'.at = "begun" /\ work'.id = i /\ work'.src = work.src
      /\ work'.list = rec[i].list /\ work'.gid = rec[i].gid /\ work'.adoption = a
  <2>1. s \in SUBSET Content
    <3>1. CASE a = "adopted"
      <4>1. {Payload(Shown(rec[i].gid))} \in SUBSET Content
        BY <1>3, <1>4, <3>1, PayloadTyped DEF InList, Alive
      <4>2. QED
        BY <1>4, <3>1, <4>1, KeptTyped
    <3>2. QED
      BY <1>4, <3>1
  <2>2. QED
    BY <1>1, <1>2, <1>3, <1>4, <2>1 DEF Works, ListOrNone, GTaskOrNone
<1>6. WorkActs /\ UNCHANGED dbVars
  <2>1. Fault => UsedTyped
    BY FaultTyped
  <2>2. used' = used => UsedTyped
    BY DEF TypeInv, UsedTyped
  <2>3. QED
    BY <2>1, <2>2 DEF BeginWork, WorkActs, WorkOnly, syncVars
<1>7. GoogleActs /\ \A g \in GTasks : Taken(g) =>
                      \/ google'[g].env = google[g].env
                      \/ g = rec[i].gid /\ rec[i].state = "unadopted"
  <2>1. CASE a # "adopted"
    <3>1. GoogleActs
      BY <1>4, <2>1 DEF GoogleActs, GoogleKeeps, KnownInv, TypeInv, Alive, Taken, Placed
    <3>2. QED
      BY <1>4, <2>1, <3>1
  <2>2. CASE a = "adopted"
    <3>1. PICK e \in Ids : SetTask(rec[i].gid, [google[rec[i].gid] EXCEPT !.env = e])
      BY <1>4, <2>2
    <3>2. PICK g \in GTasks : g = rec[i].gid
      BY <1>3
    <3>3. google[g] \in Tasks /\ Alive(g)
      BY <1>4, <2>2, <3>2, TasksTyped DEF InList, Alive
    <3>4. google[g].notes \in Nat
      BY <3>3 DEF Tasks
    <3>5. [google[g] EXCEPT !.env = e] = [google[g] EXCEPT !.notes = google[g].notes, !.env = e]
      BY <3>3 DEF Tasks
    <3>6. SetTask(g, [google[g] EXCEPT !.notes = google[g].notes, !.env = e])
      BY <3>1, <3>2, <3>5
    <3>7. e \in IdOrNone
      BY DEF IdOrNone
    <3>8. GoogleActs /\ \A h \in GTasks \ {g} : google'[h].env = google[h].env
      BY <3>3, <3>4, <3>6, <3>7, PatchIs
    <3>9. QED
      BY <1>4, <2>2, <3>2, <3>8
  <2>3. QED
    BY <2>1, <2>2
<1>8. QED
  BY <1>1, <1>2, <1>4, <1>5, <1>6, <1>7 DEF Begins

Reads ==
  /\ work.at = "begun" /\ work.id \notin draft.dirty
  /\ Alive(work.gid)
  /\ \E c \in Content, s \in SUBSET Content :
       work' = [work EXCEPT !.at = "thinking", !.read = c, !.before = s]
  /\ WorkActs /\ UNCHANGED <<google, dbVars>>

Annotates ==
  /\ work.at = "thinking" /\ GoogleActs
  /\ google'[work.gid].env = work.id
  /\ \A g \in GTasks \ {work.gid} : google'[g].env = google[g].env
  /\ \E c \in Content : c.env = work.id /\ work' = [work EXCEPT !.at = "annotated", !.read = c]
  /\ WorkActs /\ UNCHANGED dbVars

LEMMA ReadIs ==
  ASSUME TypeInv, StateInv, KnownInv, ReadTask
  PROVE  Reads
<1>1. work.gid \in GTasks /\ Alive(work.gid)
  BY WorksFor DEF ReadTask, Running, InList, Alive
<1>2. Shown(work.gid) \in Content
  BY <1>1, TasksTyped DEF KnownInv, Placed
<1>3. UsedTyped
  BY DEF ReadTask, TypeInv, UsedTyped
<1>4. PICK s \in SUBSET Content :
        work' = [work EXCEPT !.at = "thinking", !.read = Shown(work.gid), !.before = s]
  <2>1. work.before \in SUBSET Content
    BY WorksFor DEF Works
  <2>2. Kept({Payload(Shown(work.gid))}) \in SUBSET Content
    <3>1. {Payload(Shown(work.gid))} \in SUBSET Content
      BY <1>1, PayloadTyped
    <3>2. QED
      BY <3>1, KeptTyped
  <2>3. work.before \cup Kept({Payload(Shown(work.gid))}) \in SUBSET Content
    BY <2>1, <2>2
  <2>4. work' = [work EXCEPT !.at = "thinking", !.read = Shown(work.gid),
                   !.before = work.before \cup Kept({Payload(Shown(work.gid))})]
    BY WorksFor DEF ReadTask, Works
  <2>5. QED
    BY <2>3, <2>4
<1>5. QED
  BY <1>2, <1>3, <1>4 DEF ReadTask, Reads, WorkActs, WorkOnly, syncVars, LockedBySync, InList, Alive

LEMMA AnnotateIs ==
  ASSUME TypeInv, StateInv, KnownInv, Annotate
  PROVE  Annotates
<1>1. /\ work.gid \in GTasks /\ work.id \in IdOrNone /\ work.read \in Content
      /\ work.at = "thinking" /\ Alive(work.gid)
  BY WorksFor DEF Annotate, Running, IdOrNone, Works, InList, Alive
<1>2. PICK g \in GTasks : g = work.gid
  BY <1>1
<1>3. work.read.notes \in Nat
  BY <1>1 DEF Content
<1>4. SetTask(g, [google[g] EXCEPT !.notes = work.read.notes, !.env = work.id])
  BY <1>2 DEF Annotate
<1>5. /\ GoogleActs /\ google'[g].env = work.id
      /\ \A h \in GTasks \ {g} : google'[h].env = google[h].env
  BY <1>1, <1>2, <1>3, <1>4, PatchIs
<1>6. PICK c \in Content : c.env = work.id /\ work' = [work EXCEPT !.at = "annotated", !.read = c]
  <2>1. PICK c : c = [Shown(g) EXCEPT !.notes = work.read.notes, !.env = work.id]
    OBVIOUS
  <2>2. Shown(g) \in Content
    BY <1>1, <1>2, TasksTyped DEF KnownInv, Placed
  <2>3. c \in Content /\ c.env = work.id
    BY <1>1, <1>3, <2>1, <2>2 DEF Content, IdOrNone
  <2>4. work' = [work EXCEPT !.at = "annotated", !.read = c]
    BY <1>2, <2>1 DEF Annotate
  <2>5. QED
    BY <2>3, <2>4
<1>7. WorkActs /\ UNCHANGED dbVars
  BY DEF Annotate, WorkActs, WorkOnly, syncVars, UsedTyped, TypeInv
<1>8. QED
  BY <1>1, <1>2, <1>5, <1>6, <1>7 DEF Annotates

------------------------------------------------------------------------------

\* Somebody has changed the task of the record i in Google, or failed to; with p
\* the record will point at the task c in the list l, which is the task it has,
\* or the copy a move has made of it.
Changes(i, l, c, p) ==
  /\ conf.at = "idle" /\ rec[i].state # "none"
  /\ conf' \in Confs /\ conf'.at = "applied"
  /\ conf'.id = i /\ conf'.list = l /\ conf'.gid = c /\ conf'.points = p
  /\ conf'.by = "user" => p /\ Adopted(rec[i])
  /\ p => Alive(rec[i].gid)
  /\ p => \/ c = rec[i].gid /\ l = rec[i].list
          \/ /\ Adopted(rec[i]) /\ ~Taken(c) /\ Taken(c)'
             /\ google'[rec[i].gid].status = "absent"
  /\ GoogleActs
  /\ EnvelopesStay({}) \/ AdminStep
  /\ UNCHANGED <<rec, snap, queue, proposed, past, cycle, draft, unseen, work>> /\ UsedTyped

LEMMA AppliedIs ==
  ASSUME TypeInv, NEW i \in Ids, NEW l \in Lists, NEW c \in GTasks,
         NEW by \in {"user", "admin", "nobody"},
         NEW p \in BOOLEAN, NEW before \in Content, Applied(i, l, c, by, p, before)
  PROVE  /\ conf' \in Confs /\ conf'.at = "applied" /\ conf'.by = by
         /\ conf'.id = i /\ conf'.list = l /\ conf'.gid = c /\ conf'.points = p
<1>1. PICK k \in SUBSET Content : k = Kept({before})
  BY KeptTyped
<1>2. conf' = [at |-> "applied", id |-> i, list |-> l, gid |-> c, by |-> by, points |-> p,
               before |-> k]
  BY <1>1 DEF Applied
<1>3. QED
  BY <1>2 DEF Confs, IdOrNone, ListOrNone, GTaskOrNone

\* A task that is there is patched, or nothing happens to it.
LEMMA PatchedIs ==
  ASSUME TypeInv, KnownInv, NEW g \in GTasks, NEW t \in Tasks, Alive(g),
         t.title # 0, t.list = google[g].list, t.status = google[g].status,
         SetTask(g, t) \/ UNCHANGED google
  PROVE  GoogleActs /\ (t.env = google[g].env => EnvelopesStay({}))
<1>1. CASE SetTask(g, t)
  <2>1. google[g].list \in Lists
    BY DEF KnownInv, Placed
  <2>2. /\ GoogleActs /\ google'[g] = t
        /\ \A h \in GTasks \ {g} : google'[h] = google[h]
    BY <1>1, <2>1, SetTaskIs
  <2>3. QED
    BY <2>2 DEF EnvelopesStay
<1>2. CASE UNCHANGED google
  BY <1>2, GoogleRests DEF GoogleActs, EnvelopesStay, TypeInv
<1>3. QED
  BY <1>1, <1>2

LEMMA MoveIs ==
  ASSUME TypeInv, KnownInv, NEW g \in GTasks, NEW copy \in GTasks, NEW l \in Lists,
         NEW t \in Tasks, t.title # 0, Alive(g), MoveTask(g, copy, t, l)
  PROVE  /\ GoogleActs /\ EnvelopesStay({})
         /\ ~Taken(copy) /\ Taken(copy)' /\ google'[g].status = "absent"
<1>1. google \in [GTasks -> Tasks] /\ google[g] \in Tasks /\ Taken(g) /\ google[g].list \in Lists
  BY TasksTyped DEF KnownInv, Placed, TypeInv
<1>2. PICK v : v = [t EXCEPT !.status = "open", !.list = l]
  OBVIOUS
<1>3. v \in Tasks /\ v.title # 0 /\ v.list \in Lists
  BY <1>2 DEF Tasks, GoogleState, ListOrNone
<1>4. ~Taken(copy) /\ copy # g
  BY <1>1 DEF MoveTask, Taken
<1>5. PICK u : u = [google[g] EXCEPT !.status = "absent"]
  OBVIOUS
<1>6. u \in Tasks /\ u.title = google[g].title /\ u.env = google[g].env /\ u.status = "absent"
  BY <1>1, <1>5 DEF Tasks, GoogleState
<1>7. google' = [google EXCEPT ![copy] = v, ![g].status = "absent"]
  BY <1>2 DEF MoveTask
<1>8. /\ google' \in [GTasks -> Tasks] /\ google'[copy] = v /\ google'[g] = u
      /\ \A h \in GTasks \ {copy, g} : google'[h] = google[h]
  BY <1>1, <1>3, <1>4, <1>5, <1>6, <1>7
<1>9. \A h \in GTasks : Alive(h) => Placed(h)
  BY DEF KnownInv
<1>10. ASSUME NEW h \in GTasks
       PROVE  /\ Taken(h) => Taken(h)' /\ (~Alive(h) => ~Alive(h)')
              /\ Alive(h)' => Placed(h)'
  <2>1. CASE h = copy
    BY <2>1, <1>3, <1>4, <1>8, <1>9 DEF Taken, Alive, Placed
  <2>2. CASE h = g
    BY <2>2, <1>1, <1>6, <1>8 DEF Taken, Alive, Placed
  <2>3. CASE h \notin {copy, g}
    BY <2>3, <1>8, <1>9 DEF Taken, Alive, Placed
  <2>4. QED
    BY <2>1, <2>2, <2>3
<1>11. GoogleActs
  BY <1>8, <1>10 DEF GoogleActs, GoogleKeeps
<1>12. EnvelopesStay({})
  BY <1>4, <1>6, <1>8 DEF EnvelopesStay
<1>13. QED
  BY <1>3, <1>4, <1>6, <1>8, <1>11, <1>12 DEF Taken

LEMMA HalfMoveIs ==
  ASSUME TypeInv, KnownInv, NEW copy \in GTasks, NEW l \in Lists, NEW t \in Tasks, t.title # 0,
         MoveFailsHalfway(copy, t, l)
  PROVE  GoogleActs /\ EnvelopesStay({})
<1>1. PICK v : v = [t EXCEPT !.status = "open", !.list = l]
  OBVIOUS
<1>2. v \in Tasks /\ v.title # 0 /\ v.list \in Lists
  BY <1>1 DEF Tasks, GoogleState, ListOrNone
<1>3. ~Taken(copy) /\ SetTask(copy, v)
  BY <1>1 DEF MoveFailsHalfway, Taken
<1>4. GoogleActs /\ \A h \in GTasks \ {copy} : google'[h] = google[h]
  BY <1>2, <1>3, SetTaskIs
<1>5. QED
  BY <1>3, <1>4 DEF EnvelopesStay

\* What a record points at.
LEMMA PointerIs ==
  ASSUME TypeInv, StateInv, KnownInv, NEW i \in Ids, rec[i].state # "none"
  PROVE  /\ rec[i].list \in Lists /\ rec[i].gid \in GTasks /\ snap[i] \in Content
         /\ InList(rec[i].gid, rec[i].list) =>
              /\ Alive(rec[i].gid) /\ google[rec[i].gid] \in Tasks /\ google[rec[i].gid].title # 0
              /\ Shown(rec[i].gid) \in Content /\ Payload(Shown(rec[i].gid)) \in Content
<1>1. rec[i].list \in Lists /\ rec[i].gid \in GTasks /\ snap[i] \in Content
  BY RowsTyped DEF StateInv, RowOK
<1>2. ASSUME InList(rec[i].gid, rec[i].list)
      PROVE  /\ Alive(rec[i].gid) /\ google[rec[i].gid] \in Tasks /\ google[rec[i].gid].title # 0
             /\ Shown(rec[i].gid) \in Content /\ Payload(Shown(rec[i].gid)) \in Content
  <2>1. Alive(rec[i].gid) /\ Taken(rec[i].gid)
    BY <1>1, <1>2 DEF InList, Alive, KnownInv, Placed
  <2>2. google[rec[i].gid] \in Tasks /\ Shown(rec[i].gid) \in Content
    BY <1>1, <2>1, TasksTyped
  <2>3. Payload(Shown(rec[i].gid)) \in Content
    BY <1>1, <2>1, PayloadTyped
  <2>4. QED
    BY <2>1, <2>2, <2>3 DEF Taken
<1>3. QED
  BY <1>1, <1>2

LEMMA ConfirmInPlaceIs ==
  ASSUME TypeInv, StateInv, KnownInv, NEW i \in Ids, ConfirmInPlace(i)
  PROVE  \E m \in Lists, c \in GTasks, p \in BOOLEAN : Changes(i, m, c, p)
<1>1. i \in proposed /\ conf.at = "idle" /\ InList(rec[i].gid, rec[i].list) /\ Adopted(rec[i])
  BY DEF ConfirmInPlace, StateInv, WorkInv
<1>2. /\ rec[i].state # "none" /\ rec[i].list \in Lists /\ rec[i].gid \in GTasks
      /\ Alive(rec[i].gid) /\ google[rec[i].gid] \in Tasks /\ google[rec[i].gid].title # 0
      /\ Payload(Shown(rec[i].gid)) \in Content
  BY <1>1, PointerIs DEF Adopted
<1>3. GoogleActs /\ EnvelopesStay({})
  <2>1. CASE UNCHANGED google
    BY <1>2, <2>1, PatchedIs
  <2>2. ASSUME NEW t \in Retitled(google[rec[i].gid]), SetTask(rec[i].gid, t)
        PROVE  GoogleActs /\ EnvelopesStay({})
    BY <1>2, <2>2, RetitledIs, PatchedIs
  <2>3. QED
    BY <2>1, <2>2 DEF ConfirmInPlace
<1>4. Applied(i, rec[i].list, rec[i].gid, "user", TRUE, Payload(Shown(rec[i].gid)))
  BY DEF ConfirmInPlace
<1>5. /\ conf' \in Confs /\ conf'.at = "applied" /\ conf'.by = "user"
      /\ conf'.id = i /\ conf'.list = rec[i].list /\ conf'.gid = rec[i].gid /\ conf'.points = TRUE
  BY <1>2, <1>4, AppliedIs
<1>6. UNCHANGED <<rec, snap, queue, proposed, past, cycle, draft, unseen, work>> /\ UsedTyped
  BY DEF ConfirmInPlace, ChangeOnly, syncVars, UsedTyped, TypeInv
<1>7. Changes(i, rec[i].list, rec[i].gid, TRUE)
  BY <1>1, <1>2, <1>3, <1>5, <1>6 DEF Changes
<1>8. QED
  BY <1>2, <1>7

LEMMA ConfirmMoveIs ==
  ASSUME TypeInv, StateInv, KnownInv, NEW i \in Ids, NEW l \in Lists, NEW copy \in GTasks,
         ConfirmMove(i, l, copy)
  PROVE  \E m \in Lists, c \in GTasks, p \in BOOLEAN : Changes(i, m, c, p)
<1>1. i \in proposed /\ conf.at = "idle" /\ InList(rec[i].gid, rec[i].list) /\ Adopted(rec[i])
  BY DEF ConfirmMove, StateInv, WorkInv
<1>2. /\ rec[i].state # "none" /\ rec[i].list \in Lists /\ rec[i].gid \in GTasks
      /\ Alive(rec[i].gid) /\ google[rec[i].gid] \in Tasks /\ google[rec[i].gid].title # 0
      /\ Payload(Shown(rec[i].gid)) \in Content
  BY <1>1, PointerIs DEF Adopted
<1>3. UNCHANGED <<rec, snap, queue, proposed, past, cycle, draft, unseen, work>>
  BY DEF ConfirmMove, ChangeOnly, syncVars
<1>4. CASE /\ \E new \in Retitled(google[rec[i].gid]) \cup {google[rec[i].gid]} :
                 MoveTask(rec[i].gid, copy, new, l)
           /\ Applied(i, l, copy, "user", TRUE, Payload(Shown(rec[i].gid)))
           /\ UNCHANGED used
  <2>1. PICK t \in Retitled(google[rec[i].gid]) \cup {google[rec[i].gid]} :
          MoveTask(rec[i].gid, copy, t, l)
    BY <1>4
  <2>2. t \in Tasks /\ t.title # 0
    BY <1>2, RetitledIs
  <2>3. /\ GoogleActs /\ EnvelopesStay({})
        /\ ~Taken(copy) /\ Taken(copy)' /\ google'[rec[i].gid].status = "absent"
    BY <1>2, <2>1, <2>2, MoveIs
  <2>4. /\ conf' \in Confs /\ conf'.at = "applied" /\ conf'.by = "user"
        /\ conf'.id = i /\ conf'.list = l /\ conf'.gid = copy /\ conf'.points = TRUE
    BY <1>2, <1>4, AppliedIs
  <2>5. UsedTyped
    BY <1>4 DEF UsedTyped, TypeInv
  <2>6. Changes(i, l, copy, TRUE)
    BY <1>1, <1>2, <1>3, <2>3, <2>4, <2>5 DEF Changes
  <2>7. QED
    BY <2>6
<1>5. CASE /\ Fault
           /\ MoveFailsHalfway(copy, google[rec[i].gid], l) \/ UNCHANGED google
           /\ Applied(i, rec[i].list, rec[i].gid, "user", TRUE, Payload(Shown(rec[i].gid)))
  <2>1. GoogleActs /\ EnvelopesStay({})
    BY <1>2, <1>5, HalfMoveIs, PatchedIs
  <2>2. /\ conf' \in Confs /\ conf'.at = "applied" /\ conf'.by = "user"
        /\ conf'.id = i /\ conf'.list = rec[i].list /\ conf'.gid = rec[i].gid /\ conf'.points = TRUE
    BY <1>2, <1>5, AppliedIs
  <2>3. UsedTyped
    BY <1>5, FaultTyped
  <2>4. Changes(i, rec[i].list, rec[i].gid, TRUE)
    BY <1>1, <1>2, <1>3, <2>1, <2>2, <2>3 DEF Changes
  <2>5. QED
    BY <1>2, <2>4
<1>6. QED
  BY <1>4, <1>5 DEF ConfirmMove

\* What the admin's requests have in common.
LEMMA AdminMayIs ==
  ASSUME TypeInv, StateInv, KnownInv, NEW i \in Ids, NEW request, AdminMay(i, request)
  PROVE  /\ conf.at = "idle" /\ rec[i].state # "none" /\ UsedTyped
         /\ UNCHANGED <<rec, snap, queue, proposed, past, cycle, draft, unseen, work>>
         /\ rec[i].list \in Lists /\ rec[i].gid \in GTasks /\ snap[i] \in Content
         /\ InList(rec[i].gid, rec[i].list) =>
              /\ Alive(rec[i].gid) /\ google[rec[i].gid] \in Tasks /\ google[rec[i].gid].title # 0
              /\ Shown(rec[i].gid) \in Content
<1>1. conf.at = "idle" /\ rec[i].state # "none" /\ UserOp
  BY DEF AdminMay
<1>2. UsedTyped
  BY <1>1 DEF UserOp, UsedTyped, TypeInv
<1>3. UNCHANGED <<rec, snap, queue, proposed, past, cycle, draft, unseen, work>>
  BY DEF AdminMay, ChangeOnly, syncVars
<1>4. QED
  BY <1>1, <1>2, <1>3, PointerIs

\* The edit form changes the title and the notes only.
LEMMA EditedNotesIs ==
  ASSUME NEW i \in Ids, snap[i] \in Content, NEW t \in Tasks, NEW blank \in BOOLEAN
  PROVE  /\ EditedNotes(i, t, blank) \in Tasks
         /\ EditedNotes(i, t, blank).title = t.title /\ EditedNotes(i, t, blank).list = t.list
         /\ EditedNotes(i, t, blank).status = t.status
<1>1. snap[i].notes \in Nat
  BY DEF Content
<1>2. PICK u : u = EditedNotes(i, t, blank)
  OBVIOUS
<1>3. CASE u = [t EXCEPT !.notes = 0, !.env = None]
  <2>1. u \in Tasks /\ u.title = t.title /\ u.list = t.list /\ u.status = t.status
    BY <1>3 DEF Tasks, IdOrNone
  <2>2. QED
    BY <1>2, <2>1
<1>4. CASE u = [t EXCEPT !.notes = snap[i].notes, !.env = i]
  <2>1. u \in Tasks /\ u.title = t.title /\ u.list = t.list /\ u.status = t.status
    BY <1>1, <1>4 DEF Tasks, IdOrNone
  <2>2. QED
    BY <1>2, <2>1
<1>5. QED
  BY <1>2, <1>3, <1>4 DEF EditedNotes

\* A before state changes the title and the notes only.
LEMMA RestoredIs ==
  ASSUME NEW t \in Tasks, NEW c \in Content
  PROVE  /\ Restored(t, c) \in Tasks /\ Restored(t, c).title # 0
         /\ Restored(t, c).list = t.list /\ Restored(t, c).status = t.status
<1>1. c.title \in Nat /\ c.title # 0 /\ c.notes \in Nat /\ c.env \in IdOrNone
  BY DEF Content, IdOrNone
<1>2. PICK f \in Forms : f = IF c.form = Imported THEN 1 ELSE c.form
  BY BoundsAssumption DEF Content, Forms
<1>3. PICK u : u = [t EXCEPT !.title = c.title, !.form = f]
  OBVIOUS
<1>4. u \in Tasks /\ u.title # 0 /\ u.list = t.list /\ u.status = t.status
  BY <1>1, <1>3 DEF Tasks
<1>5. PICK v : v = [u EXCEPT !.notes = c.notes, !.env = c.env]
  OBVIOUS
<1>6. v \in Tasks /\ v.title # 0 /\ v.list = t.list /\ v.status = t.status
  BY <1>1, <1>4, <1>5 DEF Tasks
<1>7. Restored(t, c) \in {u, v}
  BY <1>2, <1>3, <1>5 DEF Restored
<1>8. QED
  BY <1>4, <1>6, <1>7

LEMMA AdminEditIs ==
  ASSUME TypeInv, StateInv, KnownInv, NEW i \in Ids, AdminEdit(i)
  PROVE  \E m \in Lists, c \in GTasks, p \in BOOLEAN : Changes(i, m, c, p)
<1>1. AdminMay(i, "edit") /\ AdminStep
  BY DEF AdminEdit, AdminStep
<1>2. /\ conf.at = "idle" /\ rec[i].state # "none" /\ UsedTyped
      /\ UNCHANGED <<rec, snap, queue, proposed, past, cycle, draft, unseen, work>>
      /\ rec[i].list \in Lists /\ rec[i].gid \in GTasks /\ snap[i] \in Content
      /\ InList(rec[i].gid, rec[i].list) =>
           /\ Alive(rec[i].gid) /\ google[rec[i].gid] \in Tasks /\ google[rec[i].gid].title # 0
  BY <1>1, AdminMayIs
<1>3. GoogleActs
  <2>1. CASE UNCHANGED google
    BY <2>1, GoogleRests DEF GoogleActs, TypeInv
  <2>2. ASSUME InList(rec[i].gid, rec[i].list), NEW t \in Edited(i), SetTask(rec[i].gid, t)
        PROVE  GoogleActs
    <3>1. PICK u \in Retitled(google[rec[i].gid]) \cup {google[rec[i].gid]}, blank \in BOOLEAN :
            t = EditedNotes(i, u, blank)
      BY <2>2 DEF Edited
    <3>2. /\ u \in Tasks /\ u.title # 0 /\ u.list = google[rec[i].gid].list
          /\ u.status = google[rec[i].gid].status
      BY <1>2, <2>2, <3>1, RetitledIs
    <3>3. t \in Tasks /\ t.title = u.title /\ t.list = u.list /\ t.status = u.status
      BY <1>2, <3>1, <3>2, EditedNotesIs
    <3>4. QED
      BY <1>2, <2>2, <3>2, <3>3, PatchedIs
  <2>3. QED
    BY <2>1, <2>2 DEF AdminEdit
<1>4. Applied(i, rec[i].list, rec[i].gid, "admin", FALSE, snap[i])
  BY DEF AdminEdit
<1>5. /\ conf' \in Confs /\ conf'.at = "applied" /\ conf'.by = "admin"
      /\ conf'.id = i /\ conf'.list = rec[i].list /\ conf'.gid = rec[i].gid /\ conf'.points = FALSE
  <2>1. rec[i].list \in Lists /\ rec[i].gid \in GTasks /\ snap[i] \in Content
    BY <1>2
  <2>2. PICK k \in SUBSET Content : k = Kept({snap[i]})
    BY <2>1, KeptTyped
  <2>3. conf' = [at |-> "applied", id |-> i, list |-> rec[i].list, gid |-> rec[i].gid,
                 by |-> "admin", points |-> FALSE, before |-> k]
    BY <1>4, <2>2 DEF Applied
  <2>4. QED
    BY <2>1, <2>3 DEF Confs, IdOrNone, ListOrNone, GTaskOrNone
<1>6. Changes(i, rec[i].list, rec[i].gid, FALSE)
  BY <1>1, <1>2, <1>3, <1>5 DEF Changes
<1>7. QED
  BY <1>2, <1>6

LEMMA AdminEditMovesIs ==
  ASSUME TypeInv, StateInv, KnownInv, NEW i \in Ids, NEW l \in Lists, NEW copy \in GTasks,
         AdminEditMoves(i, l, copy)
  PROVE  \E m \in Lists, c \in GTasks, p \in BOOLEAN : Changes(i, m, c, p)
<1>1. AdminMay(i, "edit") /\ AdminStep /\ rec[i].state # "unadopted" /\ InList(rec[i].gid, rec[i].list)
  BY DEF AdminEditMoves, AdminStep
<1>2. /\ conf.at = "idle" /\ rec[i].state # "none" /\ UsedTyped
      /\ UNCHANGED <<rec, snap, queue, proposed, past, cycle, draft, unseen, work>>
      /\ rec[i].list \in Lists /\ rec[i].gid \in GTasks /\ snap[i] \in Content
      /\ Alive(rec[i].gid) /\ google[rec[i].gid] \in Tasks /\ google[rec[i].gid].title # 0
  BY <1>1, AdminMayIs
<1>3. PICK t : t = EditedNotes(i, google[rec[i].gid], FALSE)
  OBVIOUS
<1>4. t \in Tasks /\ t.title # 0
  BY <1>2, <1>3, EditedNotesIs
<1>5. CASE MoveTask(rec[i].gid, copy, t, l) /\ Applied(i, l, copy, "admin", TRUE, snap[i])
  <2>1. /\ GoogleActs
        /\ ~Taken(copy) /\ Taken(copy)' /\ google'[rec[i].gid].status = "absent"
    BY <1>2, <1>4, <1>5, MoveIs
  <2>2. /\ conf' \in Confs /\ conf'.at = "applied" /\ conf'.by = "admin"
        /\ conf'.id = i /\ conf'.list = l /\ conf'.gid = copy /\ conf'.points = TRUE
    BY <1>2, <1>5, AppliedIs
  <2>3. Changes(i, l, copy, TRUE)
    BY <1>1, <1>2, <2>1, <2>2 DEF Changes, Adopted
  <2>4. QED
    BY <2>3
<1>6. CASE /\ MoveFailsHalfway(copy, t, l)
           /\ Applied(i, rec[i].list, rec[i].gid, "admin", FALSE, snap[i])
  <2>1. GoogleActs
    BY <1>4, <1>6, HalfMoveIs
  <2>2. /\ conf' \in Confs /\ conf'.at = "applied" /\ conf'.by = "admin"
        /\ conf'.id = i /\ conf'.list = rec[i].list /\ conf'.gid = rec[i].gid /\ conf'.points = FALSE
    BY <1>2, <1>6, AppliedIs
  <2>3. Changes(i, rec[i].list, rec[i].gid, FALSE)
    BY <1>1, <1>2, <2>1, <2>2 DEF Changes
  <2>4. QED
    BY <1>2, <2>3
<1>7. QED
  BY <1>3, <1>5, <1>6 DEF AdminEditMoves

LEMMA AdminRewriteIs ==
  ASSUME TypeInv, StateInv, KnownInv, NEW i \in Ids, AdminRewrite(i)
  PROVE  \E m \in Lists, c \in GTasks, p \in BOOLEAN : Changes(i, m, c, p)
<1>1. AdminMay(i, "rewrite") /\ AdminStep
  BY DEF AdminRewrite, AdminStep
<1>2. /\ conf.at = "idle" /\ rec[i].state # "none" /\ UsedTyped
      /\ UNCHANGED <<rec, snap, queue, proposed, past, cycle, draft, unseen, work>>
      /\ rec[i].list \in Lists /\ rec[i].gid \in GTasks /\ snap[i] \in Content
      /\ InList(rec[i].gid, rec[i].list) =>
           /\ Alive(rec[i].gid) /\ google[rec[i].gid] \in Tasks /\ google[rec[i].gid].title # 0
  BY <1>1, AdminMayIs
<1>3. CASE /\ InList(rec[i].gid, rec[i].list)
           /\ \E t \in Retitled(google[rec[i].gid]) : SetTask(rec[i].gid, t)
           /\ Applied(i, rec[i].list, rec[i].gid, "admin", TRUE, snap[i])
  <2>1. PICK t \in Retitled(google[rec[i].gid]) : SetTask(rec[i].gid, t)
    BY <1>3
  <2>2. GoogleActs
    BY <1>2, <1>3, <2>1, RetitledIs, PatchedIs
  <2>3. /\ conf' \in Confs /\ conf'.at = "applied" /\ conf'.by = "admin"
        /\ conf'.id = i /\ conf'.list = rec[i].list /\ conf'.gid = rec[i].gid /\ conf'.points = TRUE
    BY <1>2, <1>3, AppliedIs
  <2>4. Changes(i, rec[i].list, rec[i].gid, TRUE)
    BY <1>1, <1>2, <1>3, <2>2, <2>3 DEF Changes
  <2>5. QED
    BY <1>2, <2>4
<1>4. CASE UNCHANGED google /\ Applied(i, rec[i].list, rec[i].gid, "admin", FALSE, snap[i])
  <2>1. GoogleActs
    BY <1>4, GoogleRests DEF GoogleActs, TypeInv
  <2>2. /\ conf' \in Confs /\ conf'.at = "applied" /\ conf'.by = "admin"
        /\ conf'.id = i /\ conf'.list = rec[i].list /\ conf'.gid = rec[i].gid /\ conf'.points = FALSE
    <3>1. rec[i].list \in Lists /\ rec[i].gid \in GTasks /\ snap[i] \in Content
      BY <1>2
    <3>2. QED
      BY <1>4, <3>1, AppliedIs
  <2>3. Changes(i, rec[i].list, rec[i].gid, FALSE)
    BY <1>1, <1>2, <2>1, <2>2 DEF Changes
  <2>4. QED
    BY <1>2, <2>3
<1>5. QED
  BY <1>3, <1>4 DEF AdminRewrite

LEMMA RollbackIs ==
  ASSUME TypeInv, StateInv, KnownInv, NEW i \in Ids, NEW b \in past[i],
         Rollback(i, b) \/ \E g \in GTasks : RollbackMoves(i, b, g)
  PROVE  \E m \in Lists, c \in GTasks, p \in BOOLEAN : Changes(i, m, c, p)
<1>1. AdminMay(i, "rollback") /\ AdminStep /\ InList(rec[i].gid, rec[i].list)
  <2>1. AdminStep
    <3>1. CASE Rollback(i, b)
      BY <3>1 DEF AdminStep
    <3>2. ASSUME NEW g \in GTasks, RollbackMoves(i, b, g)
          PROVE  AdminStep
      BY <3>2 DEF AdminStep
    <3>3. QED
      BY <3>1, <3>2
  <2>2. AdminMay(i, "rollback") /\ InList(rec[i].gid, rec[i].list)
    BY DEF Rollback, RollbackMoves
  <2>3. QED
    BY <2>1, <2>2
<1>2. /\ conf.at = "idle" /\ rec[i].state # "none" /\ UsedTyped
      /\ UNCHANGED <<rec, snap, queue, proposed, past, cycle, draft, unseen, work>>
      /\ rec[i].list \in Lists /\ rec[i].gid \in GTasks /\ Shown(rec[i].gid) \in Content
      /\ Alive(rec[i].gid) /\ google[rec[i].gid] \in Tasks /\ google[rec[i].gid].title # 0
  BY <1>1, AdminMayIs
<1>3. b \in Content
  <2>1. past[i] \in SUBSET Content
    BY DEF TypeInv
  <2>2. QED
    BY <2>1
<1>4. PICK t : t = Restored(google[rec[i].gid], b)
  OBVIOUS
<1>5. /\ t \in Tasks /\ t.title # 0
      /\ t.list = google[rec[i].gid].list /\ t.status = google[rec[i].gid].status
  BY <1>2, <1>3, <1>4, RestoredIs
<1>6. CASE Rollback(i, b)
  <2>1. /\ SetTask(rec[i].gid, t)
        /\ Applied(i, rec[i].list, rec[i].gid, "admin", FALSE, Shown(rec[i].gid))
    BY <1>4, <1>6 DEF Rollback
  <2>2. GoogleActs
    BY <1>2, <1>5, <2>1, PatchedIs
  <2>3. /\ conf' \in Confs /\ conf'.at = "applied" /\ conf'.by = "admin"
        /\ conf'.id = i /\ conf'.list = rec[i].list /\ conf'.gid = rec[i].gid /\ conf'.points = FALSE
    BY <1>2, <2>1, AppliedIs
  <2>4. Changes(i, rec[i].list, rec[i].gid, FALSE)
    BY <1>1, <1>2, <2>2, <2>3 DEF Changes
  <2>5. QED
    BY <1>2, <2>4
<1>7. ASSUME NEW g \in GTasks, RollbackMoves(i, b, g)
      PROVE  \E m \in Lists, c \in GTasks, p \in BOOLEAN : Changes(i, m, c, p)
  <2>1. rec[i].state # "unadopted" /\ b.list \notin {None, rec[i].list}
    BY <1>7 DEF RollbackMoves
  <2>2. b.list \in Lists
    BY <1>3, <2>1 DEF Content
  <2>3. CASE /\ MoveTask(rec[i].gid, g, t, b.list)
             /\ Applied(i, b.list, g, "admin", TRUE, Shown(rec[i].gid))
    <3>1. /\ GoogleActs
          /\ ~Taken(g) /\ Taken(g)' /\ google'[rec[i].gid].status = "absent"
      BY <1>2, <1>5, <2>2, <2>3, MoveIs
    <3>2. /\ conf' \in Confs /\ conf'.at = "applied" /\ conf'.by = "admin"
          /\ conf'.id = i /\ conf'.list = b.list /\ conf'.gid = g /\ conf'.points = TRUE
      BY <1>2, <2>2, <2>3, AppliedIs
    <3>3. Changes(i, b.list, g, TRUE)
      BY <1>1, <1>2, <2>1, <3>1, <3>2 DEF Changes, Adopted
    <3>4. QED
      BY <2>2, <3>3
  <2>4. CASE /\ \/ MoveFailsHalfway(g, google[rec[i].gid], b.list)
                \/ MoveTask(rec[i].gid, g, google[rec[i].gid], b.list)
             /\ Applied(i, rec[i].list, rec[i].gid, "nobody", FALSE, Shown(rec[i].gid))
    <3>1. GoogleActs
      BY <1>2, <2>2, <2>4, HalfMoveIs, MoveIs
    <3>2. /\ conf' \in Confs /\ conf'.at = "applied" /\ conf'.by = "nobody"
          /\ conf'.id = i /\ conf'.list = rec[i].list /\ conf'.gid = rec[i].gid
          /\ conf'.points = FALSE
      BY <1>2, <2>4, AppliedIs
    <3>3. Changes(i, rec[i].list, rec[i].gid, FALSE)
      BY <1>1, <1>2, <3>1, <3>2 DEF Changes
    <3>4. QED
      BY <1>2, <3>3
  <2>5. QED
    BY <1>4, <1>7, <2>3, <2>4 DEF RollbackMoves
<1>8. QED
  BY <1>6, <1>7

ConfActs ==
  /\ UNCHANGED <<google, snap, queue, cycle, draft, unseen, work>> /\ UsedTyped
  /\ past' \in [Ids -> SUBSET Content]

\* A change of the record i is committed.
Settles(i, r) ==
  /\ conf.at = "applied" /\ conf.points /\ i = conf.id /\ i \in Ids /\ Adopted(rec[i])
  /\ ~LockedByWorker(i) /\ i \notin draft.dirty
  /\ \A j \in Ids \ {i} : /\ ~PointsTo(View(j), conf.list, conf.gid)
                          /\ ~PointsTo(rec[j], conf.list, conf.gid)
  /\ r \in Rows /\ r.list = conf.list /\ r.gid = conf.gid
  /\ r.state = rec[i].state /\ r.misses = rec[i].misses
  /\ rec' = [rec EXCEPT ![i] = r]
  /\ proposed' = proposed \ {i} \/ (proposed' = proposed /\ AdminStep)
  /\ conf' = NoConfirm /\ ConfActs

\* A change leaves the record as it is, is refused or dies, or a proposal is
\* discarded.
Forgets ==
  /\ UNCHANGED rec /\ ConfActs
  /\ conf' \in {conf, NoConfirm} /\ proposed' \in SUBSET proposed

LEMMA SettleIs ==
  ASSUME TypeInv, StateInv, PlaceInv, KnownInv, ConfirmCommit \/ AdminCommit
  PROVE  Forgets \/ \E r \in Rows : Settles(conf.id, r)
<1>1. conf \in Confs /\ conf.at = "applied" /\ conf.id # None /\ rec[conf.id].state # "none"
  BY DEF TypeInv, StateInv, WorkInv, ConfirmCommit, AdminCommit
<1>2. PICK i \in Ids : i = conf.id
  BY <1>1 DEF Confs, IdOrNone
<1>3. conf' = NoConfirm /\ UNCHANGED <<google, snap, queue, cycle, draft, unseen, work>> /\ UsedTyped
  BY DEF ConfirmCommit, AdminCommit, syncVars, UsedTyped, TypeInv
<1>4. past' \in [Ids -> SUBSET Content]
  <2>1. conf.before \in SUBSET Content /\ Revised(i, conf.before)
    BY <1>1, <1>2 DEF ConfirmCommit, AdminCommit, Confs
  <2>2. QED
    BY <2>1, RevisedTyped
<1>5. ConfActs
  BY <1>3, <1>4 DEF ConfActs
<1>6. proposed' = proposed \ {i} \/ (proposed' = proposed /\ AdminStep)
  BY <1>2 DEF ConfirmCommit, AdminCommit, AdminStep
<1>7. CASE ~conf.points
  <2>1. AdminCommit
    BY <1>1, <1>7 DEF ConfirmCommit, StateInv, WorkInv
  <2>2. UNCHANGED <<rec, proposed>>
    BY <1>7, <2>1 DEF AdminCommit
  <2>3. QED
    BY <1>3, <1>5, <2>2 DEF Forgets
<1>8. CASE conf.points
  <2>1. RecordFree(i) /\ ~PlaceTaken(conf.list, conf.gid, i) /\ rec' = Pointed
    BY <1>2, <1>8 DEF ConfirmCommit, AdminCommit
  <2>2. PICK r : r = [rec[i] EXCEPT !.list = conf.list, !.gid = conf.gid]
    OBVIOUS
  <2>3. rec \in [Ids -> Rows] /\ rec[i] \in Rows
    BY DEF TypeInv
  <2>4. rec' = [rec EXCEPT ![i] = r]
    BY <1>2, <2>1, <2>2, <2>3 DEF Pointed
  <2>5. conf.list \in ListOrNone /\ conf.gid \in GTasks
    BY <1>1 DEF Confs, GTaskOrNone, StateInv, WorkInv
  <2>6. /\ r \in Rows /\ r.list = conf.list /\ r.gid = conf.gid
        /\ r.state = rec[i].state /\ r.misses = rec[i].misses
    BY <2>2, <2>3, <2>5 DEF Rows, GTaskOrNone
  <2>7. CASE rec[i].state = "unadopted"
    <3>1. Knows(i, conf.gid)
      BY <1>1, <1>2, <1>8 DEF Knows
    <3>2. conf.gid = rec[i].gid /\ conf.list = rec[i].list
      BY <1>1, <1>2, <1>8, <2>5, <2>7, <3>1 DEF KnownInv, PlaceInv
    <3>3. r = rec[i]
      BY <2>2, <2>3, <3>2 DEF Rows
    <3>4. rec' = rec
      BY <2>3, <2>4, <3>3
    <3>5. QED
      BY <1>3, <1>5, <1>6, <3>4 DEF Forgets
  <2>8. CASE rec[i].state # "unadopted"
    <3>1. Adopted(rec[i])
      BY <1>1, <1>2, <2>8 DEF Adopted
    <3>2. \A j \in Ids \ {i} : /\ ~PointsTo(View(j), conf.list, conf.gid)
                               /\ ~PointsTo(rec[j], conf.list, conf.gid)
      BY <2>1 DEF RecordFree, PlaceTaken, PlaceInDoubt, View
    <3>3. ~LockedByWorker(i) /\ i \notin draft.dirty
      BY <2>1 DEF RecordFree, LockedBySync
    <3>4. Settles(i, r)
      BY <1>1, <1>2, <1>3, <1>5, <1>6, <1>8, <2>4, <2>6, <3>1, <3>2, <3>3 DEF Settles
    <3>5. QED
      BY <1>2, <2>6, <3>4
  <2>9. QED
    BY <2>7, <2>8
<1>9. QED
  BY <1>1, <1>7, <1>8 DEF Confs

LEMMA ForgetIs ==
  ASSUME TypeInv, ChangeIsLost \/ (\E i \in Ids : Discard(i))
  PROVE  Forgets
<1>1. Fault => UsedTyped
  BY FaultTyped
<1>2. used' = used => UsedTyped
  BY DEF TypeInv, UsedTyped
<1>3. past' \in [Ids -> SUBSET Content]
  BY DEF ChangeIsLost, Discard, ChangeOnly, TypeInv
<1>4. QED
  BY <1>1, <1>2, <1>3 DEF ChangeIsLost, Discard, Forgets, ConfActs, ChangeOnly, syncVars

RollsBack == cycle' = NoCycle /\ draft' = NoDraft /\ SyncActs

Scans == (\E l \in Lists : Fetch(l)) \/ (\E it \in cycle.items : LookUp(it))

\* Every step is of one of these shapes.
LEMMA NextShapes ==
  ASSUME TypeInv, StateInv, PlaceInv, KnownInv, Next
  PROVE  \/ UserActs \/ Imports
         \/ Scans \/ (\E i \in Ids : \E r \in Rows : Writes(i, r)) \/ RollsBack \/ CommitCycle
         \/ (\E g \in GTasks : Claims(g)) \/ Begins \/ Reads \/ Annotates
         \/ (\E r \in Rows : RunEnds(work.id, r))
         \/ (\E i \in Ids : \E m \in Lists, c \in GTasks, p \in BOOLEAN : Changes(i, m, c, p))
         \/ (\E r \in Rows : Settles(conf.id, r)) \/ Forgets
<1>1. UserStep => UserActs
  BY UserIs
<1>2. ImportFromGoogle => Imports
  BY ImportIs
<1>3. ApplyKnown \/ ApplyMoved \/ ApplyNew => \E i \in Ids : \E r \in Rows : Writes(i, r)
  BY ApplyIs
<1>4. CycleConflicts \/ CycleFails => RollsBack
  <2>1. Fault => UsedTyped
    BY FaultTyped
  <2>2. used' = used => UsedTyped
    BY DEF TypeInv, UsedTyped
  <2>3. QED
    BY <2>1, <2>2 DEF CycleConflicts, CycleFails, RollBackCycle, RollsBack, SyncActs, SyncOnly, dbVars
<1>5. SyncStep => \/ Scans \/ CommitCycle \/ RollsBack
                  \/ \E i \in Ids : \E r \in Rows : Writes(i, r)
  BY <1>3, <1>4 DEF SyncStep, Scans
<1>6. WorkStep => \/ (\E g \in GTasks : Claims(g)) \/ Begins \/ Reads \/ Annotates
                  \/ \E r \in Rows : RunEnds(work.id, r)
  <2>1. ASSUME NEW g \in GTasks, Claim(g)
        PROVE  Claims(g)
    <3>1. used \in [ops : Nat, faults : Nat, runs : Nat]
      BY DEF TypeInv
    <3>2. QED
      BY <2>1, <3>1 DEF Claim, Claims, UsedTyped
  <2>2. QED
    BY <2>1, BeginWorkIs, ReadIs, AnnotateIs, RunEndIs DEF WorkStep
<1>7. ReviewStep \/ AdminStep
      => \/ (\E i \in Ids : \E m \in Lists, c \in GTasks, p \in BOOLEAN : Changes(i, m, c, p))
         \/ (\E r \in Rows : Settles(conf.id, r)) \/ Forgets
  <2>1. ReviewStep
        => \/ (\E i \in Ids : \E m \in Lists, c \in GTasks, p \in BOOLEAN : Changes(i, m, c, p))
           \/ (\E r \in Rows : Settles(conf.id, r)) \/ Forgets
    BY ConfirmInPlaceIs, ConfirmMoveIs, SettleIs, ForgetIs DEF ReviewStep
  <2>2. AdminStep
        => \/ (\E i \in Ids : \E m \in Lists, c \in GTasks, p \in BOOLEAN : Changes(i, m, c, p))
           \/ (\E r \in Rows : Settles(conf.id, r)) \/ Forgets
    BY AdminEditIs, AdminEditMovesIs, AdminRewriteIs, RollbackIs, SettleIs DEF AdminStep
  <2>3. QED
    BY <2>1, <2>2
<1>8. QED
  BY <1>1, <1>2, <1>4, <1>5, <1>6, <1>7 DEF Next

------------------------------------------------------------------------------
(* Types.                                                                  *)

\* A listing, the first of a cycle or a later one, shows tasks that are there.
LEMMA FetchIs ==
  ASSUME TypeInv, StateInv, KnownInv, NEW l \in Lists, Fetch(l)
  PROVE  /\ cycle' \in Cycles /\ cycle'.at = "tasks" /\ cycle'.list = l
         /\ cycle'.seen = cycle.seen
         /\ \A it \in cycle'.items : it.gid \in GTasks /\ Taken(it.gid)
         /\ UNCHANGED <<google, dbVars, work, conf, draft, unseen, used>>
<1>1. PICK c : c = IF cycle.at = "off" THEN [NoCycle EXCEPT !.at = "tasks", !.todo = Lists] ELSE cycle
  OBVIOUS
<1>2. c \in Cycles /\ c.seen = cycle.seen
  <2>1. cycle.at = "off" => cycle.seen = {}
    BY DEF StateInv, DraftInv
  <2>2. CASE c = [NoCycle EXCEPT !.at = "tasks", !.todo = Lists] /\ cycle.at = "off"
    <3>1. NoCycle \in Cycles /\ NoCycle.seen = {}
      BY NothingTyped DEF NoCycle
    <3>2. QED
      BY <2>1, <2>2, <3>1 DEF Cycles
  <2>3. QED
    BY <1>1, <2>2 DEF TypeInv
<1>3. PICK s : s = {[gid |-> g, content |-> Shown(g)] :
                      g \in {h \in GTasks : InList(h, l) /\ google[h].status = "open"}}
  OBVIOUS
<1>4. /\ c.at = "tasks" /\ cycle' = [c EXCEPT !.todo = @ \ {l}, !.list = l, !.items = s]
      /\ UNCHANGED <<google, dbVars, work, conf, draft, unseen, used>>
  BY <1>1, <1>3 DEF Fetch, SyncOnly
<1>5. \A it \in s : it \in Item /\ it.gid \in GTasks /\ Taken(it.gid)
  <2>1. \A g \in GTasks : google[g].status = "open" => Taken(g) /\ Shown(g) \in Content
    BY TasksTyped DEF KnownInv, Alive, Placed
  <2>2. QED
    BY <1>3, <2>1 DEF Item, GTaskOrNone
<1>6. s \in SUBSET Item
  BY <1>5
<1>7. QED
  BY <1>2, <1>4, <1>5, <1>6 DEF Cycles, ListOrNone

LEMMA TypeScans ==
  ASSUME TypeInv, StateInv, KnownInv, Scans
  PROVE  TypeInv'
<1>1. cycle' \in Cycles /\ UNCHANGED <<google, dbVars, work, conf, draft, unseen, used>>
  <2>1. cycle \in Cycles
    BY DEF TypeInv
  <2>3. ASSUME NEW l \in Lists, Fetch(l)
        PROVE  cycle' \in Cycles /\ UNCHANGED <<google, dbVars, work, conf, draft, unseen, used>>
    BY <2>3, FetchIs
  <2>4. ASSUME NEW it \in cycle.items, LookUp(it)
        PROVE  cycle' \in Cycles /\ UNCHANGED <<google, dbVars, work, conf, draft, unseen, used>>
    <3>1. PICK i \in Found(it) :
            cycle' = [cycle EXCEPT !.at = "apply", !.item = it, !.items = @ \ {it},
                              !.found = i, !.moved = i # None /\ Here(it) = {},
                              !.was = IF i = None THEN "none" ELSE View(i).state]
      BY <2>4 DEF LookUp
    <3>2. i \in IdOrNone
      BY DEF Found, Here, MovedRecords, Tracked, IdOrNone
    <3>3. PICK w : w = IF i = None THEN "none" ELSE View(i).state
      OBVIOUS
    <3>4. w \in RecordState
      <4>1. i # None => View(i) \in Rows
        BY <3>2, RowsTyped DEF IdOrNone
      <4>2. QED
        BY <3>3, <4>1 DEF Rows, RecordState
    <3>5. PICK m \in BOOLEAN : m = (i # None /\ Here(it) = {})
      OBVIOUS
    <3>6. it \in Item /\ cycle.items \ {it} \in SUBSET Item
      BY <2>1 DEF Cycles
    <3>7. cycle' = [cycle EXCEPT !.at = "apply", !.item = it, !.items = @ \ {it},
                              !.found = i, !.moved = m, !.was = w]
      BY <3>1, <3>3, <3>5
    <3>8. QED
      BY <2>1, <2>4, <3>2, <3>4, <3>6, <3>7 DEF LookUp, SyncOnly, Cycles
  <2>5. QED
    BY <2>3, <2>4 DEF Scans
<1>2. QED
  BY <1>1 DEF TypeInv, dbVars

\* What the transaction and the cycle are after a record is written.
LEMMA WriteIs ==
  ASSUME TypeInv, NEW i \in Ids, NEW r \in Rows, Writes(i, r)
  PROVE  /\ draft' \in Drafts /\ cycle' \in Cycles
         /\ draft'.dirty = draft.dirty \cup {i} /\ draft'.rec = [draft.rec EXCEPT ![i] = r]
         /\ \A g \in GTasks : draft'.rows[g] \in {draft.rows[g], i}
         /\ cycle'.at = "tasks" /\ cycle'.seen = cycle.seen \cup {i}
         /\ cycle'.items = cycle.items /\ cycle'.list = cycle.list /\ cycle'.todo = cycle.todo
         /\ View(i)' = r
         /\ \A j \in Ids \ {i} : View(j)' = View(j)
<1>1. draft \in Drafts /\ cycle \in Cycles
  BY DEF TypeInv
<1>2. PICK c \in Content, row \in BOOLEAN : Write(i, r, c, row)
  BY DEF Writes
<1>3. draft.rec \in [Ids -> Rows] /\ draft.snap \in [Ids -> Content] /\ draft.rows \in [GTasks -> IdOrNone]
      /\ draft.dirty \in SUBSET Ids
  BY <1>1 DEF Drafts
<1>4. PICK s : s = [draft.snap EXCEPT ![i] = c]
  OBVIOUS
<1>5. PICK w : w = IF row THEN Enqueued(draft.rows, cycle.item.gid, i) ELSE draft.rows
  OBVIOUS
<1>6. s \in [Ids -> Content]
  BY <1>3, <1>4
<1>7. w \in [GTasks -> IdOrNone] /\ \A g \in GTasks : w[g] \in {draft.rows[g], i}
  BY <1>3, <1>5 DEF Enqueued, IdOrNone
<1>8. PICK q : q = [draft.rec EXCEPT ![i] = r]
  OBVIOUS
<1>9. q \in [Ids -> Rows]
  BY <1>3, <1>8
<1>10. draft' = [dirty |-> draft.dirty \cup {i}, rec |-> q, snap |-> s, rows |-> w]
  BY <1>2, <1>4, <1>5, <1>8 DEF Write
<1>11. /\ draft' \in Drafts /\ draft'.dirty = draft.dirty \cup {i} /\ draft'.rec = q
       /\ draft'.rows = w
  BY <1>3, <1>6, <1>7, <1>9, <1>10 DEF Drafts
<1>12. /\ cycle' \in Cycles
       /\ cycle'.at = "tasks" /\ cycle'.seen = cycle.seen \cup {i}
       /\ cycle'.items = cycle.items /\ cycle'.list = cycle.list /\ cycle'.todo = cycle.todo
  <2>1. NoItem \in Item
    BY NothingTyped
  <2>2. cycle' = [cycle EXCEPT !.at = "tasks", !.item = NoItem, !.found = None,
                               !.moved = FALSE, !.was = "none", !.seen = @ \cup {i}]
    BY DEF Writes, Done
  <2>3. QED
    BY <1>1, <2>1, <2>2 DEF Cycles, IdOrNone, RecordState
<1>13. View(i)' = r /\ \A j \in Ids \ {i} : View(j)' = View(j)
  BY <1>3, <1>8, <1>11 DEF View, Writes, SyncActs
<1>14. QED
  BY <1>7, <1>8, <1>11, <1>12, <1>13

LEMMA TypeCommit ==
  ASSUME TypeInv, StateInv, CommitCycle
  PROVE  TypeInv'
<1>1. \A i \in Ids : View(i) \in Rows /\ LastContent(i) \in Content /\ RowOK(View(i))
  BY RowsTyped, ViewsOK
<1>2. \A i \in Tracked : Miss(View(i)) \in Rows
  <2> SUFFICES ASSUME NEW i \in Ids, View(i).state \in {"active", "missing"}
               PROVE  Miss(View(i)) \in Rows
    BY DEF Tracked
  <2>1. PICK v \in Rows : v = View(i)
    BY <1>1
  <2>2. v.misses \in 0 .. Threshold /\ v.misses < Threshold
    BY <1>1, <2>1 DEF Rows, RowOK
  <2>3. v.misses + 1 \in 0 .. Threshold
    BY <2>2, BoundsAssumption
  <2>4. Miss(v) = [v EXCEPT !.misses = @ + 1,
                            !.state  = IF v.misses + 1 >= Threshold THEN "deleted" ELSE "missing"]
    BY DEF Miss
  <2>5. QED
    BY <2>1, <2>3, <2>4 DEF Rows, RecordState
<1>3. rec' \in [Ids -> Rows] /\ snap' \in [Ids -> Content]
  BY <1>1, <1>2 DEF CommitCycle
<1>4. queue' \in [GTasks -> IdOrNone]
  <2>1. draft.rows \in [GTasks -> IdOrNone] /\ queue \in [GTasks -> IdOrNone]
    BY DEF TypeInv, Drafts
  <2>2. QED
    BY <2>1 DEF CommitCycle
<1>5. draft' \in Drafts /\ cycle' \in Cycles
  BY NothingTyped DEF CommitCycle
<1>6. unseen' \in [Ids -> 0 .. Threshold]
  <2>1. unseen \in [Ids -> 0 .. Threshold]
    BY DEF TypeInv
  <2>2. \A i \in Ids : unseen[i] \in 0 .. Threshold /\ (unseen[i] < Threshold => unseen[i] + 1 \in 0 .. Threshold)
    BY <2>1, BoundsAssumption
  <2>3. 0 \in 0 .. Threshold
    BY BoundsAssumption
  <2>4. QED
    BY <2>2, <2>3 DEF CommitCycle
<1>7. UNCHANGED <<google, proposed, past, work, conf, used>>
  BY DEF CommitCycle
<1>8. QED
  BY <1>3, <1>4, <1>5, <1>6, <1>7 DEF TypeInv

LEMMA TypeStep ==
  ASSUME TypeInv, StateInv, PlaceInv, KnownInv, [Next]_vars
  PROVE  TypeInv'
<1>1. CASE UNCHANGED vars
  BY <1>1 DEF vars, dbVars, syncVars, TypeInv
<1>2. CASE UserActs
  BY <1>2 DEF UserActs, GoogleActs, UsedTyped, dbVars, syncVars, TypeInv
<1>3. CASE Imports
  BY <1>3 DEF Imports, Bystander, UsedTyped, TypeInv
<1>4. ASSUME NEW i \in Ids, NEW r \in Rows, Writes(i, r)
      PROVE  TypeInv'
  <2>1. draft' \in Drafts /\ cycle' \in Cycles
    BY <1>4, WriteIs
  <2>2. QED
    BY <1>4, <2>1 DEF Writes, SyncActs, UsedTyped, TypeInv
<1>5. CASE RollsBack
  BY <1>5, NothingTyped DEF RollsBack, SyncActs, UsedTyped, TypeInv
<1>6. ASSUME NEW g \in GTasks, Claims(g)
      PROVE  TypeInv'
  <2>1. work' \in Works
    <3>1. NoWork \in Works
      BY NothingTyped
    <3>2. queue[g] \in IdOrNone
      BY DEF TypeInv
    <3>3. work' = [NoWork EXCEPT !.at = "claimed", !.id = queue[g], !.src = g]
      BY <1>6 DEF Claims, Claim
    <3>4. QED
      BY <3>1, <3>2, <3>3 DEF Works, GTaskOrNone
  <2>2. queue' \in [GTasks -> IdOrNone]
    BY <1>6 DEF Claims, Claim, TypeInv, IdOrNone
  <2>3. UNCHANGED <<google, rec, snap, proposed, past, syncVars, conf>> /\ UsedTyped
    BY <1>6 DEF Claims, Claim, WorkOnly
  <2>4. QED
    BY <2>1, <2>2, <2>3 DEF UsedTyped, syncVars, TypeInv
<1>7. CASE Begins
  BY <1>7 DEF Begins, WorkActs, GoogleActs, UsedTyped, dbVars, TypeInv
<1>8. CASE Reads \/ Annotates
  <2>1. work' \in Works
    <3>1. work \in Works
      BY DEF TypeInv
    <3>2. PICK c \in Content, s \in SUBSET Content :
            \/ work' = [work EXCEPT !.at = "thinking", !.read = c, !.before = s]
            \/ work' = [work EXCEPT !.at = "annotated", !.read = c]
      BY <1>8 DEF Reads, Annotates
    <3>3. QED
      BY <3>1, <3>2 DEF Works
  <2>2. google' \in [GTasks -> Tasks]
    BY <1>8 DEF Reads, Annotates, GoogleActs, TypeInv
  <2>3. QED
    BY <1>8, <2>1, <2>2 DEF Reads, Annotates, WorkActs, UsedTyped, dbVars, TypeInv
<1>9. ASSUME NEW r \in Rows, RunEnds(work.id, r)
      PROVE  TypeInv'
  <2>1. PICK i \in Ids : i = work.id
    BY <1>9, WorksFor DEF RunEnds
  <2>2. rec' \in [Ids -> Rows] /\ proposed' \in SUBSET Ids
    BY <1>9, <2>1 DEF RunEnds, TypeInv
  <2>3. QED
    BY <1>9, <2>2, NothingTyped DEF RunEnds, WorkActs, UsedTyped, TypeInv
<1>10. ASSUME NEW i \in Ids, NEW m \in Lists, NEW c \in GTasks, NEW p \in BOOLEAN, Changes(i, m, c, p)
       PROVE  TypeInv'
  BY <1>10 DEF Changes, GoogleActs, UsedTyped, TypeInv
<1>11. ASSUME NEW r \in Rows, Settles(conf.id, r)
       PROVE  TypeInv'
  <2>1. rec' \in [Ids -> Rows] /\ proposed' \in SUBSET Ids
    BY <1>11 DEF Settles, TypeInv
  <2>2. QED
    BY <1>11, <2>1, NothingTyped DEF Settles, ConfActs, UsedTyped, TypeInv
<1>12. CASE Forgets
  BY <1>12, NothingTyped DEF Forgets, ConfActs, UsedTyped, TypeInv
<1>13. QED
  BY <1>1, <1>2, <1>3, <1>4, <1>5, <1>6, <1>7, <1>8, <1>9, <1>10, <1>11, <1>12,
     TypeScans, TypeCommit, NextShapes

------------------------------------------------------------------------------
(* States.                                                                 *)

LEMMA StateSame ==
  ASSUME StateInv, UNCHANGED <<rec, queue, proposed, cycle, draft, work, conf>>
  PROVE  StateInv'
<1>1. \A i \in Ids : View(i)' = View(i) /\ Exists(i)' = Exists(i)
  BY DEF View, Exists
<1>2. (\A i \in Ids : RowOK(rec'[i])) /\ WorkInv'
  BY DEF StateInv, WorkInv, Running, Adopted
<1>3. DraftInv'
  BY DEF StateInv, DraftInv, Exists, View, RowOK
<1>4. CycleInv'
  BY DEF StateInv, CycleInv, Located, Exists, View
<1>5. QED
  BY <1>2, <1>3, <1>4 DEF StateInv, RowOK

LEMMA StateImports ==
  ASSUME TypeInv, StateInv, Imports
  PROVE  StateInv'
<1>1. Bystander /\ \A i \in Ids : rec'[i] = rec[i] \/ Admitted(i, rec'[i])
  BY DEF Imports
<1>2. ASSUME NEW i \in Ids, rec[i].state # "none" \/ Exists(i)
      PROVE  rec'[i] = rec[i] /\ View(i)' = View(i) /\ Exists(i)'
  <2>1. rec'[i] = rec[i]
    BY <1>1, <1>2 DEF Admitted
  <2>2. View(i)' = View(i)
    BY <1>1, <2>1 DEF View, Bystander
  <2>3. Exists(i)
    BY <1>2, ViewsOK
  <2>4. QED
    BY <2>1, <2>2, <2>3 DEF Exists
<1>3. \A i \in Ids : RowOK(rec'[i])
  <2> SUFFICES ASSUME NEW i \in Ids PROVE RowOK(rec'[i])
    OBVIOUS
  <2>1. CASE rec'[i] = rec[i]
    BY <2>1 DEF StateInv
  <2>2. CASE Admitted(i, rec'[i])
    BY <2>2 DEF Admitted, RowOK
  <2>3. QED
    BY <1>1, <2>1, <2>2
<1>4. DraftInv'
  <2>1. \A i \in draft.dirty : i \in Ids /\ Exists(i)
    BY DEF StateInv, DraftInv, Exists, View, TypeInv, Drafts
  <2>2. \A g \in GTasks : draft.rows[g] # None => draft.rows[g] \in Ids
    BY DEF TypeInv, Drafts, IdOrNone
  <2>3. DraftInv
    BY DEF StateInv
  <2>4. \A i \in draft.dirty : rec'[i] = rec[i]
    BY <1>2, <2>1
  <2>5. \A g \in GTasks : draft.rows[g] # None => Exists(draft.rows[g])'
    BY <1>1, <1>2, <2>2, <2>3 DEF DraftInv, Bystander
  <2>6. UNCHANGED <<cycle, draft>>
    BY <1>1 DEF Bystander
  <2>7. QED
    BY <2>3, <2>4, <2>5, <2>6 DEF DraftInv, RowOK
<1>5. CycleInv'
  <2>1. CycleInv /\ UNCHANGED cycle
    BY <1>1 DEF StateInv, Bystander
  <2>2. Located => cycle.found \in Ids
    BY DEF TypeInv, Cycles, Located, IdOrNone
  <2>3. QED
    BY <1>2, <2>1, <2>2 DEF CycleInv, Located
<1>6. WorkInv'
  <2>1. WorkInv /\ UNCHANGED <<work, conf, queue, proposed, draft>>
    BY <1>1 DEF StateInv, Bystander
  <2>2. work.at # "idle" => work.id \in Ids
    BY WorksFor
  <2>3. \A g \in GTasks : queue[g] # None => queue[g] \in Ids
    BY DEF TypeInv, IdOrNone
  <2>4. proposed \subseteq Ids /\ (conf.at = "applied" => conf.id \in Ids)
    BY <2>1 DEF TypeInv, Confs, IdOrNone, WorkInv
  <2>5. QED
    BY <1>2, <2>1, <2>2, <2>3, <2>4 DEF WorkInv, Running, Adopted
<1>7. QED
  BY <1>3, <1>4, <1>5, <1>6 DEF StateInv, RowOK

LEMMA StateScans ==
  ASSUME TypeInv, StateInv, KnownInv, Scans
  PROVE  StateInv'
<1>1. UNCHANGED <<google, dbVars, work, conf, draft, unseen, used>>
  BY DEF Scans, Fetch, LookUp, SyncOnly
<1>2. CycleInv /\ DraftInv /\ cycle \in Cycles
  BY DEF StateInv, TypeInv
<1>3. \A i \in Ids : View(i)' = View(i) /\ Exists(i)' = Exists(i)
  BY <1>1 DEF View, Exists, dbVars
<1>5. ASSUME NEW l \in Lists, Fetch(l)
      PROVE  CycleInv' /\ cycle'.at # "off" /\ cycle'.seen = cycle.seen
  <2>1. /\ cycle'.at = "tasks" /\ cycle'.list = l /\ cycle'.seen = cycle.seen
        /\ \A it \in cycle'.items : it.gid \in GTasks
    BY <1>5, FetchIs
  <2>2. QED
    BY <2>1, NoneIs DEF CycleInv, Located
<1>6. ASSUME NEW it \in cycle.items, LookUp(it)
      PROVE  CycleInv' /\ cycle'.at # "off" /\ cycle'.seen = cycle.seen
  <2>1. PICK i \in Found(it) :
          cycle' = [cycle EXCEPT !.at = "apply", !.item = it, !.items = @ \ {it},
                            !.found = i, !.moved = i # None /\ Here(it) = {},
                            !.was = IF i = None THEN "none" ELSE View(i).state]
    BY <1>6 DEF LookUp
  <2>2. cycle.at = "tasks" /\ cycle.items # {} /\ it.gid # None /\ cycle.list \in Lists
    BY <1>2, <1>6 DEF LookUp, CycleInv
  <2>3. /\ cycle'.at = "apply" /\ cycle'.item = it /\ cycle'.items = cycle.items \ {it}
        /\ cycle'.found = i /\ cycle'.list = cycle.list /\ cycle'.seen = cycle.seen
        /\ cycle'.was = IF i = None THEN "none" ELSE View(i).state
    BY <1>2, <2>1 DEF Cycles
  <2>4. i # None => i \in Ids /\ Exists(i)
    BY DEF Found, Here, MovedRecords, Tracked, PointsTo, Exists
  <2>5. Located' => /\ Exists(i)'
                    /\ cycle'.was \in {"missing", "deleted"} => View(i)'.state # "unadopted"
    BY <1>3, <2>3, <2>4 DEF Located
  <2>6. (\A jt \in cycle'.items : jt.gid # None) /\ cycle'.item.gid # None
    BY <1>2, <2>2, <2>3 DEF CycleInv
  <2>7. CycleInv'
    BY <2>2, <2>3, <2>5, <2>6 DEF CycleInv
  <2>8. QED
    BY <2>3, <2>7
<1>7. CycleInv' /\ cycle'.at # "off" /\ cycle'.seen = cycle.seen
  BY <1>5, <1>6 DEF Scans
<1>8. DraftInv'
  <2>1. \A g \in GTasks : draft.rows[g] # None => draft.rows[g] \in Ids
    BY DEF TypeInv, Drafts, IdOrNone
  <2>2. QED
    BY <1>1, <1>2, <1>3, <1>7, <2>1 DEF DraftInv, RowOK, dbVars
<1>9. WorkInv' /\ \A i \in Ids : RowOK(rec'[i])
  BY <1>1 DEF StateInv, WorkInv, Running, Adopted, dbVars
<1>10. QED
  BY <1>7, <1>8, <1>9 DEF StateInv, RowOK

LEMMA StateWrites ==
  ASSUME TypeInv, StateInv, NEW i \in Ids, NEW r \in Rows, Writes(i, r)
  PROVE  StateInv'
<1>1. /\ draft'.dirty = draft.dirty \cup {i} /\ draft'.rec = [draft.rec EXCEPT ![i] = r]
      /\ \A g \in GTasks : draft'.rows[g] \in {draft.rows[g], i}
      /\ cycle'.at = "tasks" /\ cycle'.seen = cycle.seen \cup {i}
      /\ cycle'.items = cycle.items /\ cycle'.list = cycle.list
      /\ View(i)' = r
      /\ \A j \in Ids \ {i} : View(j)' = View(j)
  BY WriteIs
<1>2. /\ cycle.at = "apply" /\ UNCHANGED <<rec, queue, proposed, work, conf>>
      /\ RowOK(r) /\ r.state # "none" /\ r.misses = 0 /\ (Rewritten(i, r) \/ Recorded(i, r))
  BY DEF Writes, SyncActs
<1>3. /\ RowOK(View(i))
      /\ rec[i].state # "none" => Exists(i) /\ (rec[i].state = "unadopted" <=> View(i).state = "unadopted")
  BY ViewsOK
<1>4. DraftInv /\ CycleInv /\ WorkInv /\ draft \in Drafts
  BY DEF StateInv, TypeInv
<1>5. /\ rec[i].state # "none" => (rec[i].state = "unadopted" <=> r.state = "unadopted")
      /\ r.state = "deleted" => rec[i].state = "deleted"
      /\ ~LockedByWorker(i)
  <2>1. CASE Rewritten(i, r)
    <3>1. View(i).state = "deleted" => rec[i].state = "deleted"
      BY <1>4 DEF View, DraftInv
    <3>2. QED
      BY <1>3, <2>1, <3>1 DEF Rewritten
  <2>2. CASE Recorded(i, r)
    <3>1. rec[i].state = "none" /\ r.state # "deleted"
      BY <1>3, <2>2 DEF Recorded
    <3>2. QED
      BY <1>4, <3>1 DEF LockedByWorker, WorkInv
  <2>3. QED
    BY <1>2, <2>1, <2>2
<1>6. DraftInv'
  <2>1. draft'.rec[i] = r /\ \A j \in Ids \ {i} : draft'.rec[j] = draft.rec[j]
    BY <1>1, <1>4 DEF Drafts
  <2>2. draft.dirty \subseteq Ids
    BY <1>4 DEF Drafts
  <2>3. \A j \in draft'.dirty :
          /\ RowOK(draft'.rec[j]) /\ draft'.rec[j].state # "none" /\ draft'.rec[j].misses = 0
          /\ rec[j].state # "none" => (rec[j].state = "unadopted" <=> draft'.rec[j].state = "unadopted")
          /\ draft'.rec[j].state = "deleted" => rec[j].state = "deleted"
    BY <1>1, <1>2, <1>4, <1>5, <2>1, <2>2 DEF DraftInv
  <2>4. (\A g \in GTasks : draft.rows[g] # None => Exists(draft.rows[g]))'
    <3> SUFFICES ASSUME NEW g \in GTasks, draft'.rows[g] # None
                 PROVE  Exists(draft.rows[g])'
      OBVIOUS
    <3>1. CASE draft'.rows[g] = i
      BY <1>1, <1>2, <3>1 DEF Exists
    <3>2. CASE draft'.rows[g] # i
      <4>1. draft'.rows[g] = draft.rows[g] /\ draft.rows[g] \in Ids \ {i}
        BY <1>1, <1>4, <3>2 DEF Drafts, IdOrNone
      <4>2. QED
        BY <1>1, <1>4, <4>1 DEF DraftInv, Exists
    <3>3. QED
      BY <3>1, <3>2
  <2>5. draft'.dirty = cycle'.seen /\ cycle'.at # "off"
    BY <1>1, <1>4 DEF DraftInv
  <2>6. QED
    BY <1>2, <2>3, <2>4, <2>5 DEF DraftInv, RowOK
<1>7. CycleInv'
  BY <1>1, <1>2, <1>4 DEF CycleInv, Located
<1>8. WorkInv' /\ \A j \in Ids : RowOK(rec'[j])
  BY <1>1, <1>2, <1>4, <1>5 DEF StateInv, WorkInv, Running, Adopted, LockedByWorker
<1>9. QED
  BY <1>6, <1>7, <1>8 DEF StateInv, RowOK

LEMMA StateRollsBack ==
  ASSUME TypeInv, StateInv, RollsBack
  PROVE  StateInv'
<1>1. cycle' = NoCycle /\ draft' = NoDraft /\ UNCHANGED <<rec, queue, proposed, work, conf>>
  BY DEF RollsBack, SyncActs
<1>2. cycle'.at = "off" /\ cycle'.seen = {} /\ cycle'.items = {}
  BY <1>1 DEF NoCycle
<1>3. draft'.dirty = {} /\ \A g \in GTasks : draft'.rows[g] = None
  BY <1>1 DEF NoDraft
<1>4. DraftInv' /\ CycleInv'
  BY <1>1, <1>2, <1>3 DEF DraftInv, CycleInv, Located
<1>5. WorkInv' /\ \A i \in Ids : RowOK(rec'[i])
  BY <1>1, <1>3 DEF StateInv, WorkInv, Running, Adopted
<1>6. QED
  BY <1>4, <1>5 DEF StateInv, RowOK

\* What the commit of a cycle makes of a record: what the transaction has
\* written, or a miss.
Missed(i) ==
  /\ i \notin draft.dirty /\ rec[i].state \in {"active", "missing"}
  /\ rec'[i].list = rec[i].list /\ rec'[i].gid = rec[i].gid
  /\ rec'[i].misses = rec[i].misses + 1
  /\ \/ rec'[i].state = "deleted" /\ rec'[i].misses >= Threshold
     \/ rec'[i].state = "missing" /\ rec'[i].misses < Threshold

LEMMA CommitIs ==
  ASSUME TypeInv, StateInv, CommitCycle
  PROVE  /\ \A i \in Ids : rec'[i] = View(i) \/ Missed(i)
         /\ \A i \in Ids : View(i)' = rec'[i]
         /\ cycle' = NoCycle /\ draft' = NoDraft /\ UNCHANGED <<google, proposed, work, conf>>
         /\ \A g \in GTasks : queue'[g] \in {queue[g], draft.rows[g]}
         /\ rec' \in [Ids -> Rows]
<1>1. cycle' = NoCycle /\ draft' = NoDraft /\ UNCHANGED <<google, proposed, work, conf>>
  BY DEF CommitCycle
<1>2. \A g \in GTasks : queue'[g] \in {queue[g], draft.rows[g]}
  BY DEF CommitCycle
<1>3. \A i \in Ids : View(i)' = rec'[i]
  BY <1>1 DEF View, NoDraft
<1>4. ASSUME NEW i \in Ids, rec'[i] # View(i)
      PROVE  Missed(i)
  <2>1. i \in Tracked \ cycle.seen /\ rec'[i] = Miss(View(i))
    BY <1>4 DEF CommitCycle
  <2>2. i \notin draft.dirty /\ View(i) = rec[i]
    BY <2>1 DEF StateInv, DraftInv, View
  <2>3. PICK v \in Rows : v = rec[i]
    BY RowsTyped
  <2>4. v.state \in {"active", "missing"} /\ v.misses \in Nat
    BY <2>1, <2>2, <2>3 DEF Tracked, Rows
  <2>5. rec'[i] = [v EXCEPT !.misses = @ + 1,
                            !.state  = IF v.misses + 1 >= Threshold THEN "deleted" ELSE "missing"]
    BY <2>1, <2>2, <2>3 DEF Miss
  <2>6. /\ rec'[i].list = v.list /\ rec'[i].gid = v.gid /\ rec'[i].misses = v.misses + 1
        /\ rec'[i].state = IF v.misses + 1 >= Threshold THEN "deleted" ELSE "missing"
    BY <2>3, <2>5 DEF Rows
  <2>7. QED
    BY <2>2, <2>3, <2>4, <2>6, BoundsAssumption DEF Missed
<1>5. rec' \in [Ids -> Rows]
  BY TypeCommit DEF TypeInv
<1>6. QED
  BY <1>1, <1>2, <1>3, <1>4, <1>5

LEMMA StateCommit ==
  ASSUME TypeInv, StateInv, CommitCycle
  PROVE  StateInv'
<1>1. /\ \A i \in Ids : rec'[i] = View(i) \/ Missed(i)
      /\ cycle' = NoCycle /\ draft' = NoDraft /\ UNCHANGED <<google, proposed, work, conf>>
      /\ \A g \in GTasks : queue'[g] \in {queue[g], draft.rows[g]}
  BY CommitIs
<1>2. \A i \in Ids : /\ RowOK(rec[i]) /\ RowOK(View(i))
                     /\ rec[i].state # "none" => Exists(i) /\ (rec[i].state = "unadopted" <=> View(i).state = "unadopted")
  BY ViewsOK DEF StateInv
<1>3. \A i \in Ids : /\ RowOK(rec'[i])
                     /\ Exists(i) => rec'[i].state # "none"
                     /\ rec[i].state # "none" => /\ rec'[i].state # "none"
                                                 /\ rec'[i].state = "unadopted" <=> rec[i].state = "unadopted"
  <2> SUFFICES ASSUME NEW i \in Ids
               PROVE  /\ RowOK(rec'[i])
                      /\ Exists(i) => rec'[i].state # "none"
                      /\ rec[i].state # "none" => /\ rec'[i].state # "none"
                                                  /\ rec'[i].state = "unadopted" <=> rec[i].state = "unadopted"
    OBVIOUS
  <2>1. CASE rec'[i] = View(i)
    BY <1>2, <2>1 DEF Exists
  <2>2. CASE Missed(i)
    BY <1>2, <2>2 DEF Missed, RowOK
  <2>3. QED
    BY <1>1, <2>1, <2>2
<1>4. cycle'.at = "off" /\ cycle'.seen = {} /\ cycle'.items = {}
  BY <1>1 DEF NoCycle
<1>5. draft'.dirty = {} /\ \A g \in GTasks : draft'.rows[g] = None
  BY <1>1 DEF NoDraft
<1>6. DraftInv' /\ CycleInv'
  BY <1>1, <1>4, <1>5 DEF DraftInv, CycleInv, Located
<1>7. WorkInv'
  <2>1. WorkInv
    BY DEF StateInv
  <2>2. work.at # "idle" => work.id \in Ids
    BY WorksFor
  <2>3. proposed \subseteq Ids /\ (conf.at = "applied" => conf.id \in Ids)
    BY <2>1 DEF TypeInv, Confs, IdOrNone, WorkInv
  <2>4. \A g \in GTasks : queue'[g] # None => rec'[queue'[g]].state # "none"
    <3> SUFFICES ASSUME NEW g \in GTasks, queue'[g] # None
                 PROVE  rec'[queue'[g]].state # "none"
      OBVIOUS
    <3>1. queue[g] \in IdOrNone /\ draft.rows[g] \in IdOrNone
      BY DEF TypeInv, Drafts
    <3>2. queue'[g] \in Ids /\ (rec[queue'[g]].state # "none" \/ Exists(queue'[g]))
      BY <1>1, <2>1, <3>1 DEF WorkInv, StateInv, DraftInv, IdOrNone
    <3>3. QED
      BY <1>3, <3>2
  <2>5. QED
    BY <1>1, <1>3, <1>5, <2>1, <2>2, <2>3, <2>4 DEF WorkInv, Running, Adopted
<1>8. QED
  BY <1>3, <1>6, <1>7 DEF StateInv, RowOK

\* A record keeps its existence, and what the sync transaction or a look-up has
\* found of its adoption stays true, when the row of i becomes r.
LEMMA StateRow ==
  ASSUME TypeInv, StateInv, NEW i \in Ids, NEW r \in Rows, rec' = [rec EXCEPT ![i] = r],
         RowOK(r), Adopted(r), rec[i].state # "none",
         rec[i].state = "unadopted" => i \notin draft.dirty,
         r.state # "deleted" => rec[i].state # "deleted",
         UNCHANGED <<cycle, draft>>
  PROVE  /\ DraftInv' /\ CycleInv' /\ \A j \in Ids : RowOK(rec'[j])
         /\ rec'[i] = r /\ \A j \in Ids \ {i} : rec'[j] = rec[j]
<1>1. rec'[i] = r /\ \A j \in Ids \ {i} : rec'[j] = rec[j]
  BY DEF TypeInv
<1>2. \A j \in Ids : RowOK(rec'[j])
  BY <1>1 DEF StateInv
<1>3. \A j \in Ids : (rec'[j].state = "none" <=> rec[j].state = "none")
  BY <1>1 DEF Adopted
<1>4. \A j \in Ids : Exists(j) => Exists(j)'
  BY <1>1, <1>3 DEF Exists, View
<1>5. DraftInv /\ CycleInv /\ draft.dirty \subseteq Ids
  BY DEF StateInv, TypeInv, Drafts
<1>6. DraftInv'
  <2>1. \A g \in GTasks : draft.rows[g] # None => draft.rows[g] \in Ids
    BY DEF TypeInv, Drafts, IdOrNone
  <2>2. \A j \in draft.dirty :
          /\ rec'[j].state # "none" => (rec'[j].state = "unadopted" <=> draft.rec[j].state = "unadopted")
          /\ draft.rec[j].state = "deleted" => rec'[j].state = "deleted"
    BY <1>1, <1>5 DEF DraftInv, Adopted
  <2>3. QED
    BY <1>4, <1>5, <2>1, <2>2 DEF DraftInv, RowOK
<1>7. CycleInv'
  <2>1. Located => cycle.found \in Ids
    BY DEF TypeInv, Cycles, Located, IdOrNone
  <2>2. \A j \in Ids : View(j)' = View(j) \/ View(j)'.state # "unadopted"
    BY <1>1 DEF View, Adopted
  <2>3. QED
    BY <1>4, <1>5, <2>1, <2>2 DEF CycleInv, Located
<1>8. QED
  BY <1>1, <1>2, <1>6, <1>7

LEMMA StateRuns ==
  ASSUME TypeInv, StateInv,
         (\E g \in GTasks : Claims(g)) \/ Begins \/ Reads \/ Annotates \/ (\E r \in Rows : RunEnds(work.id, r))
  PROVE  StateInv'
<1>1. WorkInv /\ DraftInv /\ CycleInv /\ \A i \in Ids : RowOK(rec[i])
  BY DEF StateInv
<1>2. ASSUME UNCHANGED <<rec, cycle, draft>>, WorkInv'
      PROVE  StateInv'
  <2>1. \A i \in Ids : Exists(i)' = Exists(i) /\ View(i)' = View(i)
    BY <1>2 DEF Exists, View
  <2>2. \A g \in GTasks : draft.rows[g] # None => draft.rows[g] \in Ids
    BY DEF TypeInv, Drafts, IdOrNone
  <2>3. Located => cycle.found \in Ids
    BY DEF TypeInv, Cycles, Located, IdOrNone
  <2>4. DraftInv' /\ CycleInv'
    BY <1>1, <1>2, <2>1, <2>2, <2>3 DEF DraftInv, CycleInv, Located, RowOK
  <2>5. QED
    BY <1>1, <1>2, <2>4 DEF StateInv, RowOK
<1>3. ASSUME NEW g \in GTasks, Claims(g)
      PROVE  StateInv'
  <2>1. /\ work' = [NoWork EXCEPT !.at = "claimed", !.id = queue[g], !.src = g]
        /\ queue[g] # None /\ queue' = [queue EXCEPT ![g] = None]
        /\ UNCHANGED <<rec, proposed, cycle, draft, conf>>
    BY <1>3 DEF Claims, Claim, WorkOnly, syncVars
  <2>2. work'.at = "claimed" /\ work'.id = queue[g] /\ work'.src = g
    BY <2>1 DEF NoWork
  <2>3. \A h \in GTasks : queue'[h] # None => queue'[h] = queue[h]
    BY <2>1 DEF TypeInv
  <2>4. WorkInv'
    BY <1>1, <2>1, <2>2, <2>3, NoneIs DEF WorkInv, Running, Adopted
  <2>5. QED
    BY <1>2, <2>1, <2>4
<1>4. CASE Begins
  <2>1. rec[work.id].list \in Lists /\ rec[work.id].gid \in GTasks
    BY <1>1, <1>4, WorksFor DEF Begins, WorkInv, RowOK
  <2>2. WorkInv'
    BY <1>1, <1>4, <2>1, NoneIs DEF Begins, WorkActs, WorkInv, Running, Adopted, dbVars
  <2>3. QED
    BY <1>2, <1>4, <2>2 DEF Begins, WorkActs, dbVars
<1>5. CASE Reads \/ Annotates
  <2>1. /\ work'.at \in {"thinking", "annotated"} /\ Running
        /\ work'.id = work.id /\ work'.src = work.src /\ work'.list = work.list /\ work'.gid = work.gid
        /\ work'.adoption = work.adoption
    BY <1>5, WorksFor DEF Reads, Annotates, Works, Running
  <2>2. work.id \notin draft.dirty
    BY <1>1, <1>5 DEF Reads, Annotates, WorkInv
  <2>3. UNCHANGED <<rec, queue, proposed, cycle, draft, conf>>
    BY <1>5 DEF Reads, Annotates, WorkActs, dbVars
  <2>4. WorkInv'
    BY <1>1, <2>1, <2>2, <2>3 DEF WorkInv, Running, Adopted
  <2>5. QED
    BY <1>2, <2>3, <2>4
<1>6. ASSUME NEW r \in Rows, RunEnds(work.id, r)
      PROVE  StateInv'
  <2>1. PICK i \in Ids : i = work.id
    BY <1>6, WorksFor DEF RunEnds
  <2>2. /\ rec[i].state # "none" /\ RowOK(rec[i]) /\ rec[i] \in Rows
        /\ rec' = [rec EXCEPT ![i] = r] /\ UNCHANGED <<cycle, draft, conf>>
        /\ \/ r = rec[i]
           \/ /\ rec[i].state = "unadopted" /\ r.state \in {"active", "deleted"} /\ i \notin draft.dirty
              /\ r.list = rec[i].list /\ r.gid = rec[i].gid /\ r.misses = rec[i].misses
    BY <1>1, <1>6, <2>1, RowsTyped DEF RunEnds, WorkActs, WorkInv
  <2>3. /\ work'.at = "idle"
        /\ \A g \in GTasks : queue'[g] \in {queue[g], i}
        /\ proposed' = proposed \/ (proposed' = proposed \cup {i} /\ Adopted(r))
    BY <1>6, <2>1 DEF RunEnds, NoWork
  <2>4. CASE r = rec[i]
    <3>1. rec' = rec
      BY <2>2, <2>4 DEF TypeInv
    <3>2. WorkInv'
      BY <1>1, <2>2, <2>3, <2>4, <3>1 DEF WorkInv, Running, Adopted
    <3>3. QED
      BY <1>2, <2>2, <3>1, <3>2
  <2>5. CASE r # rec[i]
    <3>1. Adopted(r) /\ RowOK(r)
      <4>1. r.state \in {"active", "deleted"} /\ r.misses = 0
        BY <2>2, <2>5 DEF RowOK
      <4>2. QED
        BY <2>2, <2>5, <4>1, BoundsAssumption DEF RowOK, Adopted
    <3>2. /\ DraftInv' /\ CycleInv' /\ \A j \in Ids : RowOK(rec'[j])
          /\ rec'[i] = r /\ \A j \in Ids \ {i} : rec'[j] = rec[j]
      BY <2>2, <2>5, <3>1, StateRow
    <3>3. proposed \subseteq Ids /\ (conf.at = "applied" => conf.id \in Ids)
      BY <1>1 DEF TypeInv, Confs, IdOrNone, WorkInv
    <3>4. \A g \in GTasks : queue[g] # None => queue[g] \in Ids
      BY DEF TypeInv, IdOrNone
    <3>5. WorkInv'
      BY <1>1, <2>2, <2>3, <3>1, <3>2, <3>3, <3>4 DEF WorkInv, Running, Adopted
    <3>6. QED
      BY <3>2, <3>5 DEF StateInv, RowOK
  <2>6. QED
    BY <2>4, <2>5
<1>7. QED
  BY <1>3, <1>4, <1>5, <1>6

LEMMA StateReviews ==
  ASSUME TypeInv, StateInv,
         (\E i \in Ids : \E m \in Lists, c \in GTasks, p \in BOOLEAN : Changes(i, m, c, p))
         \/ (\E r \in Rows : Settles(conf.id, r)) \/ Forgets
  PROVE  StateInv'
<1>1. WorkInv /\ DraftInv /\ CycleInv /\ \A i \in Ids : RowOK(rec[i])
  BY DEF StateInv
<1>2. ASSUME UNCHANGED <<rec, queue, cycle, draft, work>>, WorkInv'
      PROVE  StateInv'
  <2>1. \A i \in Ids : Exists(i)' = Exists(i) /\ View(i)' = View(i)
    BY <1>2 DEF Exists, View
  <2>2. \A g \in GTasks : draft.rows[g] # None => draft.rows[g] \in Ids
    BY DEF TypeInv, Drafts, IdOrNone
  <2>3. Located => cycle.found \in Ids
    BY DEF TypeInv, Cycles, Located, IdOrNone
  <2>4. DraftInv' /\ CycleInv'
    BY <1>1, <1>2, <2>1, <2>2, <2>3 DEF DraftInv, CycleInv, Located, RowOK
  <2>5. QED
    BY <1>1, <1>2, <2>4 DEF StateInv, RowOK
<1>3. ASSUME NEW i \in Ids, NEW m \in Lists, NEW c \in GTasks, NEW p \in BOOLEAN, Changes(i, m, c, p)
      PROVE  StateInv'
  <2>1. UNCHANGED <<rec, queue, proposed, cycle, draft, work>>
    BY <1>3 DEF Changes
  <2>2. /\ conf'.id = i /\ conf'.list = m /\ conf'.gid = c /\ conf'.points = p
        /\ rec[i].state # "none" /\ (conf'.by = "user" => p /\ Adopted(rec[i]))
    BY <1>3 DEF Changes
  <2>3. WorkInv'
    BY <1>1, <2>1, <2>2, NoneIs DEF WorkInv, Running, Adopted
  <2>4. QED
    BY <1>2, <2>1, <2>3
<1>4. ASSUME NEW r \in Rows, Settles(conf.id, r)
      PROVE  StateInv'
  <2>1. PICK i \in Ids : i = conf.id
    BY <1>4 DEF Settles
  <2>2. /\ rec[i].state # "none" /\ Adopted(rec[i]) /\ Adopted(r) /\ i \notin draft.dirty
        /\ r.state = rec[i].state /\ r.misses = rec[i].misses
        /\ r.list \in Lists /\ r.gid \in GTasks /\ rec' = [rec EXCEPT ![i] = r]
        /\ UNCHANGED <<queue, cycle, draft, work>>
    <3>1. conf.gid \in GTaskOrNone
      BY DEF TypeInv, Confs
    <3>2. QED
      BY <1>1, <1>4, <2>1, <3>1 DEF Settles, ConfActs, WorkInv, Adopted, GTaskOrNone
  <2>3. conf'.at = "idle" /\ proposed' \subseteq proposed
    BY <1>4 DEF Settles, NoConfirm
  <2>4. RowOK(r)
    BY <1>1, <2>2 DEF RowOK
  <2>5. /\ DraftInv' /\ CycleInv' /\ \A j \in Ids : RowOK(rec'[j])
        /\ rec'[i] = r /\ \A j \in Ids \ {i} : rec'[j] = rec[j]
    BY <2>2, <2>4, StateRow
  <2>6. /\ proposed \subseteq Ids
        /\ \A g \in GTasks : queue[g] # None => queue[g] \in Ids
        /\ work.at # "idle" => work.id \in Ids
    BY WorksFor DEF TypeInv, IdOrNone
  <2>7. WorkInv'
    BY <1>1, <2>2, <2>3, <2>5, <2>6 DEF WorkInv, Running, Adopted
  <2>8. QED
    BY <2>5, <2>7 DEF StateInv, RowOK
<1>5. CASE Forgets
  <2>1. UNCHANGED <<rec, queue, cycle, draft, work>>
    BY <1>5 DEF Forgets, ConfActs
  <2>2. WorkInv'
    BY <1>1, <1>5, <2>1 DEF Forgets, WorkInv, Running, Adopted, NoConfirm
  <2>3. QED
    BY <1>2, <2>1, <2>2
<1>6. QED
  BY <1>3, <1>4, <1>5

LEMMA StateStep ==
  ASSUME TypeInv, StateInv, PlaceInv, KnownInv, [Next]_vars
  PROVE  StateInv'
<1>1. CASE UNCHANGED vars
  BY <1>1, StateSame DEF vars, dbVars, syncVars
<1>2. CASE UserActs
  BY <1>2, StateSame DEF UserActs, dbVars, syncVars
<1>3. QED
  BY <1>1, <1>2, NextShapes, StateImports, StateScans, StateWrites, StateRollsBack, StateCommit,
     StateRuns, StateReviews

------------------------------------------------------------------------------
(* Misses.                                                                 *)

LEMMA MissStep ==
  ASSUME TypeInv, StateInv, MissInv, PlaceInv, KnownInv, [Next]_vars
  PROVE  MissInv'
<1>1. rec \in [Ids -> Rows] /\ unseen \in [Ids -> 0 .. Threshold]
  BY DEF TypeInv
<1>2. ASSUME unseen' = unseen, \A i \in Ids : rec'[i].misses \in {0, rec[i].misses}
      PROVE  MissInv'
  BY <1>1, <1>2, BoundsAssumption DEF MissInv
<1>3. ASSUME unseen' = unseen, rec' = rec
      PROVE  MissInv'
  BY <1>3 DEF MissInv
<1>4. CASE Imports
  BY <1>2, <1>4 DEF Imports, Admitted, Bystander
<1>5. ASSUME NEW r \in Rows, RunEnds(work.id, r)
      PROVE  MissInv'
  <2>1. PICK i \in Ids : i = work.id
    BY <1>5, WorksFor DEF RunEnds
  <2>2. QED
    BY <1>1, <1>2, <1>5, <2>1 DEF RunEnds, WorkActs
<1>6. ASSUME NEW r \in Rows, Settles(conf.id, r)
      PROVE  MissInv'
  BY <1>1, <1>2, <1>6 DEF Settles, ConfActs
<1>7. CASE CommitCycle
  <2> SUFFICES ASSUME NEW i \in Ids
               PROVE  rec'[i].misses <= unseen'[i]
    BY DEF MissInv
  <2>1. unseen'[i] = IF i \in cycle.seen THEN 0
                     ELSE IF Exists(i) /\ unseen[i] < Threshold THEN unseen[i] + 1
                     ELSE unseen[i]
    BY <1>7 DEF CommitCycle
  <2>2. /\ cycle.seen = draft.dirty /\ RowOK(rec[i])
        /\ i \in draft.dirty => draft.rec[i].misses = 0
    BY DEF StateInv, DraftInv
  <2>3. rec[i].misses \in 0 .. Threshold /\ unseen[i] \in 0 .. Threshold /\ rec[i].misses <= unseen[i]
    BY <1>1 DEF Rows, MissInv
  <2>4. CASE i \in draft.dirty
    <3>1. rec'[i].misses = 0 /\ unseen'[i] = 0
      BY <1>7, <2>1, <2>2, <2>4, CommitIs DEF Missed, View
    <3>2. QED
      BY <3>1
  <2>5. CASE i \notin draft.dirty /\ rec'[i] = View(i)
    <3>1. rec'[i] = rec[i]
      BY <2>5 DEF View
    <3>2. QED
      BY <2>1, <2>2, <2>3, <2>5, <3>1
  <2>6. CASE Missed(i)
    <3>1. /\ Exists(i) /\ i \notin cycle.seen
          /\ rec'[i].misses = rec[i].misses + 1 /\ rec[i].misses < Threshold
      BY <2>2, <2>6 DEF Missed, RowOK, Exists, View
    <3>2. QED
      BY <2>1, <2>3, <3>1, BoundsAssumption
  <2>7. QED
    BY <1>7, <2>4, <2>5, <2>6, CommitIs
<1>8. QED
  <2>1. UserActs \/ Scans => unseen' = unseen /\ rec' = rec
    BY DEF UserActs, Scans, Fetch, LookUp, SyncOnly, dbVars, syncVars
  <2>2. (\E i \in Ids : \E r \in Rows : Writes(i, r)) \/ RollsBack => unseen' = unseen /\ rec' = rec
    BY DEF Writes, RollsBack, SyncActs
  <2>3. (\E g \in GTasks : Claims(g)) \/ Begins \/ Reads \/ Annotates => unseen' = unseen /\ rec' = rec
    BY DEF Claims, Claim, Begins, Reads, Annotates, WorkActs, WorkOnly, dbVars, syncVars
  <2>4. (\E i \in Ids : \E m \in Lists, c \in GTasks, p \in BOOLEAN : Changes(i, m, c, p)) \/ Forgets
        => unseen' = unseen /\ rec' = rec
    BY DEF Changes, Forgets, ConfActs
  <2>5. CASE UNCHANGED vars
    BY <1>3, <2>5 DEF vars, dbVars, syncVars
  <2>6. QED
    BY <1>3, <1>4, <1>5, <1>6, <1>7, <2>1, <2>2, <2>3, <2>4, <2>5, NextShapes

LEMMA DeletedStep ==
  ASSUME TypeInv, StateInv, MissInv, PlaceInv, KnownInv, Next,
         NEW i \in Ids, cycle.at # "off", cycle'.at = "off",
         rec[i].state # "deleted", rec'[i].state = "deleted"
  PROVE  unseen[i] >= Threshold - 1
<1>1. CASE CommitCycle
  <2>1. View(i).state # "deleted"
    BY DEF View, StateInv, DraftInv
  <2>2. Missed(i)
    BY <1>1, <2>1, CommitIs
  <2>3. rec[i].misses + 1 >= Threshold
    BY <2>2 DEF Missed
  <2>4. rec[i].misses \in 0 .. Threshold /\ unseen[i] \in 0 .. Threshold /\ rec[i].misses <= unseen[i]
    BY DEF TypeInv, Rows, MissInv
  <2>5. QED
    BY <2>3, <2>4, BoundsAssumption
<1>2. CASE RollsBack
  BY <1>2 DEF RollsBack, SyncActs
<1>3. ASSUME NEW j \in Ids, NEW r \in Rows, Writes(j, r)
      PROVE  FALSE
  BY <1>3, WriteIs
<1>4. ~Scans
  <2>1. cycle \in Cycles
    BY DEF TypeInv
  <2>2. ~\E l \in Lists : Fetch(l)
    BY FetchIs
  <2>3. ~\E it \in cycle.items : LookUp(it)
    BY <2>1 DEF LookUp, Cycles
  <2>4. QED
    BY <2>2, <2>3 DEF Scans
<1>5. cycle' # cycle
  OBVIOUS
<1>6. ~(UserActs \/ Imports \/ Forgets)
  BY <1>5 DEF UserActs, Imports, Forgets, Bystander, ConfActs, syncVars
<1>7. ~(Begins \/ Reads \/ Annotates \/ \E g \in GTasks : Claims(g))
  BY <1>5 DEF Claims, Claim, Begins, Reads, Annotates, WorkActs, WorkOnly, syncVars
<1>8. ~((\E r \in Rows : RunEnds(work.id, r)) \/ (\E r \in Rows : Settles(conf.id, r)))
  BY <1>5 DEF RunEnds, WorkActs, Settles, ConfActs
<1>9. ~\E j \in Ids : \E m \in Lists, c \in GTasks, p \in BOOLEAN : Changes(j, m, c, p)
  BY <1>5 DEF Changes
<1>10. QED
  BY <1>1, <1>2, <1>3, <1>4, <1>6, <1>7, <1>8, <1>9, NextShapes

------------------------------------------------------------------------------
(* Places.                                                                 *)

\* What the commit of a change in progress will do to a record that is not adopted.
ConfStays(i) == conf.at = "applied" /\ conf.points /\ conf.id = i => conf.list = rec[i].list

LEMMA PlaceSame ==
  ASSUME PlaceInv, UNCHANGED <<rec, cycle, draft, work>>,
         \A i \in Ids : rec[i].state = "unadopted" => ConfStays(i)'
  PROVE  PlaceInv'
<1>1. \A i \in Ids : View(i)' = View(i)
  BY DEF View
<1>2. QED
  BY <1>1 DEF PlaceInv, SamePlace, Located, Running, ConfStays

LEMMA PlaceImports ==
  ASSUME TypeInv, StateInv, PlaceInv, Imports
  PROVE  PlaceInv'
<1>1. /\ Bystander /\ \A i \in Ids : rec'[i] = rec[i] \/ Admitted(i, rec'[i])
      /\ \A i, j \in Ids : rec'[i] # rec[i] /\ rec'[j] # rec[j] /\ rec'[i].gid = rec'[j].gid => i = j
  BY DEF Imports
<1>2. \A i \in Ids : Admitted(i, rec'[i]) => i \notin draft.dirty
  BY DEF Admitted, Exists, View, StateInv, DraftInv
<1>3. \A i \in Ids : View(i)' = IF Admitted(i, rec'[i]) THEN rec'[i] ELSE View(i)
  BY <1>1, <1>2 DEF View, Bystander
<1>4. \A i, j \in Ids : SamePlace(rec'[i], rec'[j]) => i = j
  BY <1>1 DEF Admitted, PointsTo, SamePlace, PlaceInv
<1>5. \A i, j \in Ids : SamePlace(View(i)', View(j)') => i = j
  <2> SUFFICES ASSUME NEW i \in Ids, NEW j \in Ids, SamePlace(View(i)', View(j)'), i # j
               PROVE  FALSE
    OBVIOUS
  <2>1. CASE Admitted(i, rec'[i]) /\ Admitted(j, rec'[j])
    <3>1. SamePlace(rec'[i], rec'[j])
      BY <1>3, <2>1
    <3>2. QED
      BY <1>4, <3>1
  <2>2. CASE Admitted(i, rec'[i]) /\ ~Admitted(j, rec'[j])
    BY <1>3, <2>2 DEF Admitted, PointsTo, SamePlace
  <2>3. CASE ~Admitted(i, rec'[i]) /\ Admitted(j, rec'[j])
    BY <1>3, <2>3 DEF Admitted, PointsTo, SamePlace
  <2>4. CASE ~Admitted(i, rec'[i]) /\ ~Admitted(j, rec'[j])
    BY <1>3, <2>4 DEF PlaceInv
  <2>5. QED
    BY <2>1, <2>2, <2>3, <2>4
<1>6. ASSUME NEW i \in Ids, rec'[i].state = "unadopted"
      PROVE  /\ i \in draft'.dirty => draft'.rec[i].list = rec'[i].list
             /\ Located' /\ cycle'.found = i => ~cycle'.moved /\ cycle'.list = rec'[i].list
             /\ Running' /\ work'.id = i => work'.list = rec'[i].list
             /\ ConfStays(i)'
  <2>1. UNCHANGED <<cycle, draft, work, conf>>
    BY <1>1 DEF Bystander
  <2>2. CASE rec'[i] = rec[i]
    BY <1>6, <2>1, <2>2 DEF PlaceInv, Located, Running, ConfStays
  <2>3. CASE Admitted(i, rec'[i])
    <3>1. /\ i \notin draft.dirty /\ ~(Located /\ cycle.found = i) /\ ~(Running /\ work.id = i)
          /\ ~(conf.at = "applied" /\ conf.id = i)
      BY <1>2, <2>3 DEF Admitted, StateInv, CycleInv, WorkInv, Running
    <3>2. QED
      BY <2>1, <3>1 DEF Located, Running, ConfStays
  <2>4. QED
    BY <1>1, <2>2, <2>3
<1>7. QED
  BY <1>4, <1>5, <1>6 DEF PlaceInv, ConfStays

LEMMA PlaceScans ==
  ASSUME TypeInv, StateInv, PlaceInv, KnownInv, Scans
  PROVE  PlaceInv'
<1>1. UNCHANGED <<google, dbVars, work, conf, draft, unseen, used>>
  BY DEF Scans, Fetch, LookUp, SyncOnly
<1>2. \A i \in Ids : View(i)' = View(i)
  BY <1>1 DEF View, dbVars
<1>3. cycle \in Cycles
  BY DEF TypeInv
<1>4. ASSUME NEW i \in Ids, rec[i].state = "unadopted", Located', cycle'.found = i
      PROVE  ~cycle'.moved /\ cycle'.list = rec[i].list
  <2>2. ~\E l \in Lists : Fetch(l)
    BY <1>4, FetchIs DEF Located
  <2>3. PICK it \in cycle.items : LookUp(it)
    BY <2>2 DEF Scans
  <2>4. PICK f \in Found(it) :
          cycle' = [cycle EXCEPT !.at = "apply", !.item = it, !.items = @ \ {it},
                            !.found = f, !.moved = f # None /\ Here(it) = {},
                            !.was = IF f = None THEN "none" ELSE View(f).state]
    BY <2>3 DEF LookUp
  <2>5. f = i /\ cycle'.list = cycle.list /\ (cycle'.moved <=> (f # None /\ Here(it) = {}))
    BY <1>3, <1>4, <2>4 DEF Cycles
  <2>6. View(i).state = "unadopted"
    BY <1>4, ViewsOK
  <2>7. i \in Here(it)
    BY <2>4, <2>5, <2>6, NoneIs DEF Found, MovedRecords, Tracked
  <2>8. View(i).list = rec[i].list
    BY <1>4 DEF View, PlaceInv
  <2>9. QED
    BY <2>5, <2>7, <2>8 DEF Here, PointsTo
<1>5. QED
  BY <1>1, <1>2, <1>4 DEF PlaceInv, SamePlace, Running, dbVars

LEMMA PlaceWrites ==
  ASSUME TypeInv, StateInv, PlaceInv, NEW i \in Ids, NEW r \in Rows, Writes(i, r)
  PROVE  PlaceInv'
<1>1. /\ draft'.dirty = draft.dirty \cup {i} /\ draft'.rec = [draft.rec EXCEPT ![i] = r]
      /\ cycle'.at = "tasks" /\ View(i)' = r
      /\ \A j \in Ids \ {i} : View(j)' = View(j)
  BY WriteIs
<1>2. cycle.at = "apply" /\ UNCHANGED <<rec, work, conf>> /\ (Rewritten(i, r) \/ Recorded(i, r))
  BY DEF Writes, SyncActs
<1>3. ASSUME NEW j \in Ids \ {i}, r.list = View(j).list, r.gid = View(j).gid, Exists(j)
      PROVE  FALSE
  <2>1. CASE PlaceTaken(r.list, r.gid, i) /\ PlaceTaken(r.list, r.gid, None)
    <3>1. Rewritten(i, r) /\ r.list = View(i).list /\ r.gid = View(i).gid /\ Exists(i)
      BY <1>2, <2>1 DEF Rewritten, Recorded
    <3>2. SamePlace(View(i), View(j))
      BY <1>3, <3>1 DEF SamePlace, Exists
    <3>3. QED
      BY <3>2 DEF PlaceInv
  <2>2. PointsTo(View(j), r.list, r.gid)
    BY <1>3 DEF PointsTo, Exists
  <2>3. QED
    BY <2>1, <2>2, NoneIs DEF PlaceTaken
<1>4. \A j, k \in Ids : SamePlace(View(j)', View(k)') => j = k
  <2> SUFFICES ASSUME NEW j \in Ids, NEW k \in Ids, SamePlace(View(j)', View(k)'), j # k
               PROVE  FALSE
    OBVIOUS
  <2>1. CASE j = i
    BY <1>1, <1>3, <2>1 DEF SamePlace, Exists
  <2>2. CASE k = i
    BY <1>1, <1>3, <2>2 DEF SamePlace, Exists
  <2>3. CASE i \notin {j, k}
    BY <1>1, <2>3 DEF PlaceInv
  <2>4. QED
    BY <2>1, <2>2, <2>3
<1>5. ASSUME rec[i].state = "unadopted"
      PROVE  r.list = rec[i].list
  <2>1. View(i).state = "unadopted" /\ Exists(i) /\ View(i).list = rec[i].list
    BY <1>5, ViewsOK DEF PlaceInv, View
  <2>2. Rewritten(i, r) /\ Located
    BY <1>2, <2>1, NoneIs DEF Recorded, Rewritten, Located
  <2>3. ~cycle.moved /\ cycle.list = rec[i].list
    BY <1>5, <2>2 DEF PlaceInv, Rewritten
  <2>4. QED
    BY <2>1, <2>2, <2>3 DEF Rewritten
<1>6. draft'.rec[i] = r /\ \A j \in Ids \ {i} : draft'.rec[j] = draft.rec[j]
  BY <1>1 DEF TypeInv, Drafts
<1>7. ~Located'
  BY <1>1 DEF Located
<1>8. QED
  BY <1>1, <1>2, <1>4, <1>5, <1>6, <1>7 DEF PlaceInv, SamePlace, Running

LEMMA PlaceEnds ==
  ASSUME TypeInv, StateInv, PlaceInv, RollsBack \/ CommitCycle
  PROVE  PlaceInv'
<1>1. draft' = NoDraft /\ cycle' = NoCycle /\ UNCHANGED <<work, conf>>
  BY DEF RollsBack, SyncActs, CommitCycle
<1>2. \A i \in Ids : i \notin draft'.dirty /\ View(i)' = rec'[i] /\ ~Located'
  BY <1>1 DEF NoDraft, NoCycle, View, Located
<1>3. CASE RollsBack
  <2>1. rec' = rec
    BY <1>3 DEF RollsBack, SyncActs
  <2>2. QED
    BY <1>1, <1>2, <2>1 DEF PlaceInv, SamePlace, Running
<1>4. CASE CommitCycle
  <2>1. \A i \in Ids : /\ rec'[i].list = View(i).list /\ rec'[i].gid = View(i).gid
                       /\ rec'[i].state # "none" => Exists(i)
                       /\ rec'[i].state = "unadopted" => View(i).state = "unadopted"
    BY <1>4, CommitIs DEF Missed, View, Exists
  <2>2. \A i, j \in Ids : SamePlace(rec'[i], rec'[j]) => i = j
    BY <2>1 DEF SamePlace, Exists, PlaceInv
  <2>3. ASSUME NEW i \in Ids, rec'[i].state = "unadopted", rec[i].state # "none"
        PROVE  rec[i].state = "unadopted" /\ rec'[i].list = rec[i].list
    <3>1. rec[i].state = "unadopted"
      BY <2>1, <2>3, ViewsOK
    <3>2. QED
      BY <2>1, <3>1 DEF PlaceInv, View
  <2>4. ASSUME NEW i \in Ids, rec'[i].state = "unadopted"
        PROVE  /\ Running /\ work.id = i => work.list = rec'[i].list
               /\ conf.at = "applied" /\ conf.points /\ conf.id = i => conf.list = rec'[i].list
    BY <2>3, <2>4 DEF PlaceInv, StateInv, WorkInv, Running
  <2>5. QED
    BY <1>1, <1>2, <2>2, <2>4 DEF PlaceInv, Running
<1>5. QED
  BY <1>3, <1>4

LEMMA PlaceRuns ==
  ASSUME TypeInv, StateInv, PlaceInv,
         (\E g \in GTasks : Claims(g)) \/ Begins \/ Reads \/ Annotates \/ (\E r \in Rows : RunEnds(work.id, r))
  PROVE  PlaceInv'
<1>1. ASSUME UNCHANGED <<rec, cycle, draft, conf>>,
             (Running' /\ work'.id \in Ids /\ rec[work'.id].state = "unadopted") => work'.list = rec[work'.id].list
      PROVE  PlaceInv'
  <2>1. \A i \in Ids : View(i)' = View(i)
    BY <1>1 DEF View
  <2>2. QED
    BY <1>1, <2>1 DEF PlaceInv, SamePlace, Located
<1>2. ASSUME NEW g \in GTasks, Claims(g)
      PROVE  PlaceInv'
  <2>1. UNCHANGED <<rec, cycle, draft, conf>> /\ work' = [NoWork EXCEPT !.at = "claimed", !.id = queue[g], !.src = g]
    BY <1>2 DEF Claims, Claim, WorkOnly, syncVars
  <2>2. ~Running'
    BY <2>1 DEF Running, NoWork
  <2>3. QED
    BY <1>1, <2>1, <2>2
<1>3. CASE Begins
  BY <1>1, <1>3 DEF Begins, WorkActs, dbVars
<1>4. CASE Reads \/ Annotates
  <2>1. Running /\ work'.id = work.id /\ work'.list = work.list
    BY <1>4, WorksFor DEF Reads, Annotates, Works, Running
  <2>2. QED
    BY <1>1, <1>4, <2>1 DEF Reads, Annotates, WorkActs, dbVars, PlaceInv
<1>5. ASSUME NEW r \in Rows, RunEnds(work.id, r)
      PROVE  PlaceInv'
  <2>1. PICK i \in Ids : i = work.id
    BY <1>5, WorksFor DEF RunEnds
  <2>2. /\ r.list = rec[i].list /\ r.gid = rec[i].gid /\ r.state # "none"
        /\ r = rec[i] \/ r.state # "unadopted"
        /\ r = rec[i] \/ i \notin draft.dirty
        /\ rec[i].state # "none"
        /\ rec' = [rec EXCEPT ![i] = r] /\ UNCHANGED <<cycle, draft, conf>> /\ ~Running'
    BY <1>5, <2>1 DEF RunEnds, WorkActs, StateInv, WorkInv, NoWork, Running
  <2>3. rec'[i] = r /\ \A j \in Ids \ {i} : rec'[j] = rec[j]
    BY <2>2 DEF TypeInv
  <2>4. \A j \in Ids : /\ rec'[j].list = rec[j].list /\ rec'[j].gid = rec[j].gid
                       /\ rec'[j].state # "none" => rec[j].state # "none"
                       /\ rec'[j].state = "unadopted" => rec[j].state = "unadopted"
    BY <2>2, <2>3
  <2>5. \A j \in Ids : /\ View(j)'.list = View(j).list /\ View(j)'.gid = View(j).gid
                       /\ View(j)'.state # "none" => View(j).state # "none"
    BY <2>2, <2>4 DEF View
  <2>6. \A j, k \in Ids : /\ SamePlace(rec'[j], rec'[k]) => j = k
                          /\ SamePlace(View(j)', View(k)') => j = k
    BY <2>4, <2>5 DEF SamePlace, PlaceInv
  <2>7. QED
    BY <2>2, <2>4, <2>6 DEF PlaceInv, Located
<1>6. QED
  BY <1>2, <1>3, <1>4, <1>5

LEMMA PlaceSettles ==
  ASSUME TypeInv, StateInv, PlaceInv, NEW r \in Rows, Settles(conf.id, r)
  PROVE  PlaceInv'
<1>1. PICK i \in Ids : i = conf.id
  BY DEF Settles
<1>2. /\ rec' = [rec EXCEPT ![i] = r] /\ UNCHANGED <<cycle, draft, work>>
      /\ i \notin draft.dirty /\ r.state # "unadopted" /\ conf'.at = "idle"
      /\ \A j \in Ids \ {i} : ~PointsTo(View(j), r.list, r.gid) /\ ~PointsTo(rec[j], r.list, r.gid)
  BY <1>1 DEF Settles, ConfActs, StateInv, WorkInv, Adopted, NoConfirm
<1>3. rec'[i] = r /\ \A j \in Ids \ {i} : rec'[j] = rec[j]
  BY <1>2 DEF TypeInv
<1>4. View(i)' = r /\ \A j \in Ids \ {i} : View(j)' = View(j)
  BY <1>2, <1>3 DEF View
<1>5. \A j, k \in Ids : /\ SamePlace(rec'[j], rec'[k]) => j = k
                        /\ SamePlace(View(j)', View(k)') => j = k
  BY <1>2, <1>3, <1>4 DEF SamePlace, PointsTo, PlaceInv
<1>6. QED
  BY <1>2, <1>3, <1>5 DEF PlaceInv, Located, Running

LEMMA PlaceStep ==
  ASSUME TypeInv, StateInv, PlaceInv, KnownInv, [Next]_vars
  PROVE  PlaceInv'
<1>1. CASE UNCHANGED vars
  BY <1>1, PlaceSame DEF vars, dbVars, syncVars, PlaceInv, ConfStays
<1>2. CASE UserActs
  BY <1>2, PlaceSame DEF UserActs, dbVars, syncVars, PlaceInv, ConfStays
<1>3. ASSUME NEW i \in Ids, NEW m \in Lists, NEW c \in GTasks, NEW p \in BOOLEAN, Changes(i, m, c, p)
      PROVE  PlaceInv'
  <2>1. /\ UNCHANGED <<rec, cycle, draft, work>>
        /\ conf'.id = i /\ conf'.list = m /\ conf'.points = p
        /\ p => m = rec[i].list \/ Adopted(rec[i])
    BY <1>3 DEF Changes
  <2>2. \A j \in Ids : rec[j].state = "unadopted" => ConfStays(j)'
    BY <2>1 DEF ConfStays, Adopted
  <2>3. QED
    BY <2>1, <2>2, PlaceSame
<1>4. CASE Forgets
  <2>1. UNCHANGED <<rec, cycle, draft, work>> /\ (conf' = conf \/ conf'.at = "idle")
    BY <1>4 DEF Forgets, ConfActs, NoConfirm
  <2>2. \A j \in Ids : rec[j].state = "unadopted" => ConfStays(j)'
    BY <2>1 DEF ConfStays, PlaceInv
  <2>3. QED
    BY <2>1, <2>2, PlaceSame
<1>5. QED
  BY <1>1, <1>2, <1>3, <1>4, NextShapes, PlaceImports, PlaceScans, PlaceWrites, PlaceEnds, PlaceRuns,
     PlaceSettles

------------------------------------------------------------------------------
(* What is known of a record.                                              *)

LEMMA UnknownIs ==
  ASSUME TypeInv, StateInv, NEW i \in Ids, ~Exists(i), NEW g \in GTasks
  PROVE  ~Knows(i, g) /\ i \notin draft.dirty
<1>1. rec[i].state = "none"
  BY ViewsOK
<1>2. i \notin draft.dirty
  BY DEF Exists, View, StateInv, DraftInv
<1>3. QED
  BY <1>1, <1>2 DEF Knows, StateInv, CycleInv, WorkInv, Running, Adopted

LEMMA ViewKnown ==
  ASSUME TypeInv, StateInv, NEW i \in Ids, Exists(i), NEW g \in GTasks, View(i).gid = g
  PROVE  Knows(i, g)
BY DEF Knows, View, Exists

\* The record i is known to have the tasks it had, or is new and has one task.
KnownStays(i) == \A g \in GTasks : Knows(i, g)' => Knows(i, g)
KnownFirst(i) == \E h \in GTasks : Taken(h) /\ \A g \in GTasks : ~Knows(i, g) /\ (Knows(i, g)' => g = h)

LEMMA KnownKeeps ==
  ASSUME TypeInv, StateInv, KnownInv, GoogleKeeps,
         \A i \in Ids : KnownStays(i) \/ KnownFirst(i),
         \A it \in cycle'.items : it \in cycle.items \/ (it.gid \in GTasks /\ Taken(it.gid)),
         cycle'.at = "apply" => cycle'.item.gid \in GTasks /\ Taken(cycle'.item.gid),
         conf' = conf \/ conf'.at # "applied" \/ ~conf'.points,
         \A i \in Ids, g \in GTasks : rec'[i].state = "unadopted" /\ Knows(i, g)' => g = rec'[i].gid
  PROVE  KnownInv'
<1>1. \A g \in GTasks : /\ Taken(g) => Taken(g)' /\ (Alive(g)' => Alive(g))
                        /\ Alive(g)' => Placed(g)'
  BY DEF GoogleKeeps
<1>2. \A g \in GTasks : (Alive(g) => Placed(g))'
  BY <1>1
<1>3. \A i \in Ids, g \in GTasks : Knows(i, g)' => Taken(g) /\ Taken(g)' /\ (Alive(g)' => Alive(g))
  BY <1>1 DEF KnownInv, KnownStays, KnownFirst
<1>4. ASSUME NEW it \in cycle'.items
      PROVE  google'[it.gid].title # 0
  <2>1. it.gid \in GTasks /\ Taken(it.gid)
    <3>1. it \in cycle.items => it.gid \in GTasks
      BY DEF TypeInv, Cycles, Item, GTaskOrNone, StateInv, CycleInv
    <3>2. QED
      BY <3>1 DEF KnownInv
  <2>2. QED
    BY <1>1, <2>1 DEF Taken
<1>5. cycle'.at = "apply" => google'[cycle'.item.gid].title # 0
  BY <1>1 DEF Taken
<1>6. \A i \in Ids, g, h \in GTasks : Knows(i, g)' /\ Knows(i, h)' /\ Alive(g)' /\ Alive(h)' => g = h
  BY <1>3 DEF KnownInv, KnownStays, KnownFirst
<1>7. ASSUME conf'.at = "applied", conf'.points, NEW g \in GTasks, Knows(conf.id, g)'
      PROVE  g = conf'.gid \/ ~Alive(g)'
  <2>1. conf' = conf /\ conf.id \in Ids /\ conf.gid \in GTasks
    BY <1>7 DEF TypeInv, Confs, IdOrNone, GTaskOrNone, StateInv, WorkInv
  <2>2. PICK i \in Ids : i = conf.id
    BY <2>1
  <2>3. Knows(i, g)' /\ Knows(i, conf.gid)
    BY <1>7, <2>1, <2>2 DEF Knows
  <2>4. Knows(i, g)
    BY <2>1, <2>3 DEF KnownStays, KnownFirst
  <2>5. QED
    BY <1>3, <1>7, <2>1, <2>2, <2>3, <2>4 DEF KnownInv
<1>8. QED
  BY <1>2, <1>3, <1>4, <1>5, <1>6, <1>7 DEF KnownInv, Taken

\* Nobody but Google has changed what is known.
LEMMA KnownSame ==
  ASSUME TypeInv, StateInv, KnownInv, GoogleKeeps,
         UNCHANGED <<rec, cycle, draft, work>>, conf' = conf \/ conf'.at # "applied" \/ ~conf'.points
  PROVE  KnownInv'
<1>1. \A i \in Ids : KnownStays(i)
  BY DEF KnownStays, Knows, Located, Running
<1>2. \A i \in Ids, g \in GTasks : rec'[i].state = "unadopted" /\ Knows(i, g)' => g = rec'[i].gid
  BY <1>1 DEF KnownInv, KnownStays
<1>3. cycle.at = "apply" => cycle.item.gid \in GTasks /\ Taken(cycle.item.gid)
  BY DEF KnownInv, StateInv, CycleInv, TypeInv, Cycles, Item, GTaskOrNone
<1>4. QED
  BY <1>1, <1>2, <1>3, KnownKeeps

LEMMA KnownImports ==
  ASSUME TypeInv, StateInv, KnownInv, Imports
  PROVE  KnownInv'
<1>1. Bystander /\ \A i \in Ids : rec'[i] = rec[i] \/ Admitted(i, rec'[i])
  BY DEF Imports
<1>2. GoogleKeeps
  BY <1>1, GoogleRests DEF Bystander
<1>3. ASSUME NEW i \in Ids, rec'[i] = rec[i]
      PROVE  /\ KnownStays(i)
             /\ \A g \in GTasks : rec'[i].state = "unadopted" /\ Knows(i, g)' => g = rec'[i].gid
  <2>1. KnownStays(i)
    BY <1>1, <1>3 DEF KnownStays, Knows, Bystander, Located, Running
  <2>2. QED
    BY <1>3, <2>1 DEF KnownStays, KnownInv
<1>4. ASSUME NEW i \in Ids, Admitted(i, rec'[i])
      PROVE  /\ KnownFirst(i)
             /\ \A g \in GTasks : rec'[i].state = "unadopted" /\ Knows(i, g)' => g = rec'[i].gid
  <2>1. PICK h \in GTasks : h = rec'[i].gid /\ Taken(h)
    BY <1>4 DEF Admitted, KnownInv, Placed
  <2>2. \A g \in GTasks : ~Knows(i, g)
    BY <1>4, UnknownIs DEF Admitted
  <2>3. \A g \in GTasks : Knows(i, g)' => g = h
    BY <1>1, <2>1, <2>2 DEF Knows, Bystander, Located, Running
  <2>4. QED
    BY <2>1, <2>2, <2>3 DEF KnownFirst
<1>5. cycle.at = "apply" => cycle.item.gid \in GTasks /\ Taken(cycle.item.gid)
  BY DEF KnownInv, StateInv, CycleInv, TypeInv, Cycles, Item, GTaskOrNone
<1>6. QED
  BY <1>1, <1>2, <1>3, <1>4, <1>5, KnownKeeps DEF Bystander

LEMMA KnownScans ==
  ASSUME TypeInv, StateInv, KnownInv, Scans
  PROVE  KnownInv' /\ \A i \in Ids : KnownStays(i)
<1>1. UNCHANGED <<google, dbVars, work, conf, draft, unseen, used>>
  BY DEF Scans, Fetch, LookUp, SyncOnly
<1>2. GoogleKeeps
  BY <1>1, GoogleRests
<1>3. cycle \in Cycles
  BY DEF TypeInv
<1>4. ASSUME ~Located', cycle'.at # "apply",
             \A it \in cycle'.items : it \in cycle.items \/ (it.gid \in GTasks /\ Taken(it.gid))
      PROVE  KnownInv' /\ \A i \in Ids : KnownStays(i)
  <2>1. \A i \in Ids : KnownStays(i)
    BY <1>1, <1>4 DEF KnownStays, Knows, Running, dbVars
  <2>2. \A i \in Ids, g \in GTasks : rec'[i].state = "unadopted" /\ Knows(i, g)' => g = rec'[i].gid
    BY <1>1, <2>1 DEF KnownInv, KnownStays, dbVars
  <2>3. QED
    BY <1>1, <1>2, <1>4, <2>1, <2>2, KnownKeeps
<1>6. ASSUME NEW l \in Lists, Fetch(l)
      PROVE  KnownInv' /\ \A i \in Ids : KnownStays(i)
  <2>1. cycle'.at = "tasks" /\ \A it \in cycle'.items : it.gid \in GTasks /\ Taken(it.gid)
    BY <1>6, FetchIs
  <2>2. QED
    BY <1>4, <2>1 DEF Located
<1>7. ASSUME NEW it \in cycle.items, LookUp(it)
      PROVE  KnownInv' /\ \A i \in Ids : KnownStays(i)
  <2>1. PICK f \in Found(it) :
          cycle' = [cycle EXCEPT !.at = "apply", !.item = it, !.items = @ \ {it},
                            !.found = f, !.moved = f # None /\ Here(it) = {},
                            !.was = IF f = None THEN "none" ELSE View(f).state]
    BY <1>7 DEF LookUp
  <2>2. cycle'.item = it /\ cycle'.items = cycle.items \ {it} /\ cycle'.found = f
    BY <1>3, <2>1 DEF Cycles
  <2>3. it.gid \in GTasks /\ Taken(it.gid)
    BY <1>3 DEF Cycles, Item, GTaskOrNone, StateInv, CycleInv, KnownInv
  <2>4. f # None => f \in Ids /\ Exists(f) /\ View(f).gid = it.gid
    BY DEF Found, Here, MovedRecords, Tracked, PointsTo, Exists
  <2>5. \A i \in Ids : KnownStays(i)
    <3> SUFFICES ASSUME NEW i \in Ids, NEW g \in GTasks, Knows(i, g)'
                 PROVE  Knows(i, g)
      BY DEF KnownStays
    <3>1. CASE f = i /\ f # None /\ it.gid = g
      BY <2>4, <3>1, ViewKnown
    <3>2. CASE ~(f = i /\ f # None /\ it.gid = g)
      BY <1>1, <2>2, <3>2 DEF Knows, Located, Running, dbVars
    <3>3. QED
      BY <3>1, <3>2
  <2>6. \A i \in Ids, g \in GTasks : rec'[i].state = "unadopted" /\ Knows(i, g)' => g = rec'[i].gid
    BY <1>1, <2>5 DEF KnownInv, KnownStays, dbVars
  <2>7. QED
    BY <1>1, <1>2, <2>2, <2>3, <2>5, <2>6, KnownKeeps
<1>8. QED
  BY <1>6, <1>7 DEF Scans

LEMMA KnownWrites ==
  ASSUME TypeInv, StateInv, KnownInv, NEW i \in Ids, NEW r \in Rows, Writes(i, r)
  PROVE  /\ KnownInv'
         /\ \A j \in Ids : KnownStays(j) \/ ~Exists(j)
<1>1. /\ draft'.dirty = draft.dirty \cup {i} /\ draft'.rec = [draft.rec EXCEPT ![i] = r]
      /\ cycle'.at = "tasks" /\ cycle'.items = cycle.items /\ ~Located'
  BY WriteIs DEF Located
<1>2. /\ cycle.at = "apply" /\ UNCHANGED <<google, rec, work, conf>>
      /\ Rewritten(i, r) \/ Recorded(i, r)
  BY DEF Writes, SyncActs
<1>3. GoogleKeeps
  BY <1>2, GoogleRests
<1>4. draft'.rec[i] = r /\ \A j \in Ids \ {i} : draft'.rec[j] = draft.rec[j]
  BY <1>1 DEF TypeInv, Drafts
<1>5. \A j \in Ids, g \in GTasks : Knows(j, g)' => Knows(j, g) \/ (j = i /\ g = r.gid)
  BY <1>1, <1>2, <1>4 DEF Knows, Running
<1>6. KnownStays(i) \/ (KnownFirst(i) /\ ~Exists(i) /\ rec[i].state = "none")
  <2>1. CASE Rewritten(i, r)
    <3>1. Exists(i) /\ cycle.found = i /\ (r.gid = View(i).gid \/ r.gid = cycle.item.gid)
      BY <2>1 DEF Rewritten
    <3>2. \A g \in GTasks : g = r.gid => Knows(i, g)
      <4> SUFFICES ASSUME NEW g \in GTasks, g = r.gid
                   PROVE  Knows(i, g)
        OBVIOUS
      <4>1. CASE g = View(i).gid
        BY <3>1, <4>1, ViewKnown
      <4>2. CASE g = cycle.item.gid
        BY <1>2, <3>1, <4>2, NoneIs DEF Knows, Located
      <4>3. QED
        BY <3>1, <4>1, <4>2
    <3>3. QED
      BY <1>5, <3>2 DEF KnownStays
  <2>2. CASE Recorded(i, r)
    <3>1. PICK h \in GTasks : h = r.gid /\ Taken(h)
      BY <1>2, <2>2 DEF Recorded, KnownInv, StateInv, CycleInv, TypeInv, Cycles, Item, GTaskOrNone
    <3>2. \A g \in GTasks : ~Knows(i, g)
      BY <2>2, UnknownIs DEF Recorded
    <3>3. rec[i].state = "none" /\ ~Exists(i)
      BY <2>2, ViewsOK DEF Recorded
    <3>4. QED
      BY <1>5, <3>1, <3>2, <3>3 DEF KnownFirst
  <2>3. QED
    BY <1>2, <2>1, <2>2
<1>7. \A j \in Ids \ {i} : KnownStays(j)
  BY <1>5 DEF KnownStays
<1>8. \A j \in Ids, g \in GTasks : rec'[j].state = "unadopted" /\ Knows(j, g)' => g = rec'[j].gid
  BY <1>2, <1>6, <1>7 DEF KnownInv, KnownStays
<1>9. KnownInv'
  BY <1>1, <1>2, <1>3, <1>6, <1>7, <1>8, KnownKeeps
<1>10. QED
  BY <1>6, <1>7, <1>9

LEMMA KnownEnds ==
  ASSUME TypeInv, StateInv, KnownInv, RollsBack \/ CommitCycle
  PROVE  KnownInv' /\ \A i \in Ids : KnownStays(i)
<1>1. draft' = NoDraft /\ cycle' = NoCycle /\ UNCHANGED <<google, work, conf>>
  BY DEF RollsBack, SyncActs, CommitCycle
<1>2. cycle'.at = "off" /\ cycle'.items = {} /\ draft'.dirty = {} /\ ~Located'
  BY <1>1 DEF NoDraft, NoCycle, Located
<1>3. GoogleKeeps
  BY <1>1, GoogleRests
<1>4. CASE RollsBack
  <2>1. rec' = rec
    BY <1>4 DEF RollsBack, SyncActs
  <2>2. \A i \in Ids : KnownStays(i)
    BY <1>1, <1>2, <2>1 DEF KnownStays, Knows, Running
  <2>3. \A i \in Ids, g \in GTasks : rec'[i].state = "unadopted" /\ Knows(i, g)' => g = rec'[i].gid
    BY <2>1, <2>2 DEF KnownInv, KnownStays
  <2>4. QED
    BY <1>1, <1>2, <1>3, <2>2, <2>3, KnownKeeps
<1>5. CASE CommitCycle
  <2>1. \A i \in Ids : /\ rec'[i].gid = View(i).gid
                       /\ rec'[i].state # "none" => Exists(i)
                       /\ rec'[i].state = "unadopted" => View(i).state = "unadopted"
    BY <1>5, CommitIs DEF Missed, View, Exists
  <2>2. ASSUME NEW i \in Ids, NEW g \in GTasks, Knows(i, g)'
        PROVE  Knows(i, g)
    <3>1. CASE rec'[i].state # "none" /\ rec'[i].gid = g
      BY <2>1, <3>1, ViewKnown
    <3>2. CASE ~(rec'[i].state # "none" /\ rec'[i].gid = g)
      BY <1>1, <1>2, <2>2, <3>2 DEF Knows, Running
    <3>3. QED
      BY <3>1, <3>2
  <2>3. ASSUME NEW i \in Ids, NEW g \in GTasks, rec'[i].state = "unadopted", Knows(i, g)'
        PROVE  g = rec'[i].gid
    <3>1. CASE rec[i].state = "none"
      <4>1. ~(Running /\ work.id = i) /\ ~(conf.at = "applied" /\ conf.id = i)
        BY <3>1 DEF StateInv, WorkInv, Running, Adopted
      <4>2. QED
        BY <1>1, <1>2, <2>3, <4>1 DEF Knows, Running
    <3>2. CASE rec[i].state # "none"
      <4>1. rec[i].state = "unadopted" /\ Exists(i)
        BY <2>1, <2>3, <3>2, ViewsOK
      <4>2. View(i).gid \in GTasks
        BY <4>1, ViewsOK DEF RowOK, Exists
      <4>3. View(i).gid = rec[i].gid /\ g = rec[i].gid
        BY <2>2, <2>3, <4>1, <4>2, ViewKnown DEF KnownInv
      <4>4. QED
        BY <2>1, <4>3
    <3>3. QED
      BY <3>1, <3>2
  <2>4. \A i \in Ids : KnownStays(i)
    BY <2>2 DEF KnownStays
  <2>5. QED
    BY <1>1, <1>2, <1>3, <2>3, <2>4, KnownKeeps
<1>6. QED
  BY <1>4, <1>5

LEMMA KnownRuns ==
  ASSUME TypeInv, StateInv, KnownInv,
         (\E g \in GTasks : Claims(g)) \/ Begins \/ Reads \/ Annotates \/ (\E r \in Rows : RunEnds(work.id, r))
  PROVE  KnownInv' /\ \A i \in Ids : KnownStays(i)
<1>1. cycle.at = "apply" => cycle.item.gid \in GTasks /\ Taken(cycle.item.gid)
  BY DEF KnownInv, StateInv, CycleInv, TypeInv, Cycles, Item, GTaskOrNone
<1>2. ASSUME GoogleKeeps, UNCHANGED <<cycle, conf>>, \A i \in Ids : KnownStays(i),
             \A i \in Ids : rec'[i] = rec[i] \/ rec'[i].state # "unadopted"
      PROVE  KnownInv'
  <2>1. \A i \in Ids, g \in GTasks : rec'[i].state = "unadopted" /\ Knows(i, g)' => g = rec'[i].gid
    BY <1>2 DEF KnownInv, KnownStays
  <2>2. QED
    BY <1>1, <1>2, <2>1, KnownKeeps
<1>3. ASSUME NEW g \in GTasks, Claims(g)
      PROVE  KnownInv' /\ \A i \in Ids : KnownStays(i)
  <2>1. /\ UNCHANGED <<google, rec, cycle, draft, conf>>
        /\ work' = [NoWork EXCEPT !.at = "claimed", !.id = queue[g], !.src = g]
    BY <1>3 DEF Claims, Claim, WorkOnly, syncVars
  <2>2. ~Running'
    BY <2>1 DEF Running, NoWork
  <2>3. \A i \in Ids : KnownStays(i)
    BY <2>1, <2>2 DEF KnownStays, Knows, Located
  <2>4. QED
    BY <1>2, <2>1, <2>3, GoogleRests
<1>4. CASE Begins
  <2>1. UNCHANGED <<rec, cycle, draft, conf>> /\ GoogleKeeps
    BY <1>4 DEF Begins, WorkActs, GoogleActs, dbVars
  <2>2. work'.id = work.id /\ work'.gid = rec[work.id].gid /\ rec[work.id].state # "none"
    BY <1>4 DEF Begins, StateInv, WorkInv
  <2>3. \A i \in Ids : KnownStays(i)
    BY <2>1, <2>2 DEF KnownStays, Knows, Located
  <2>4. QED
    BY <1>2, <2>1, <2>3
<1>5. CASE Reads \/ Annotates
  <2>1. UNCHANGED <<rec, cycle, draft, conf>> /\ GoogleKeeps
    BY <1>5, GoogleRests DEF Reads, Annotates, WorkActs, GoogleActs, dbVars
  <2>2. work'.id = work.id /\ work'.gid = work.gid /\ Running
    BY <1>5, WorksFor DEF Reads, Annotates, Works, Running
  <2>3. \A i \in Ids : KnownStays(i)
    BY <2>1, <2>2 DEF KnownStays, Knows, Located
  <2>4. QED
    BY <1>2, <2>1, <2>3
<1>6. ASSUME NEW r \in Rows, RunEnds(work.id, r)
      PROVE  KnownInv' /\ \A i \in Ids : KnownStays(i)
  <2>1. PICK i \in Ids : i = work.id
    BY <1>6, WorksFor DEF RunEnds
  <2>2. /\ r.gid = rec[i].gid /\ rec[i].state # "none" /\ (r = rec[i] \/ r.state # "unadopted")
        /\ rec' = [rec EXCEPT ![i] = r] /\ UNCHANGED <<google, cycle, draft, conf>> /\ ~Running'
    BY <1>6, <2>1 DEF RunEnds, WorkActs, StateInv, WorkInv, NoWork, Running
  <2>3. rec'[i] = r /\ \A j \in Ids \ {i} : rec'[j] = rec[j]
    BY <2>2 DEF TypeInv
  <2>4. \A j \in Ids : KnownStays(j)
    <3> SUFFICES ASSUME NEW j \in Ids, NEW g \in GTasks, Knows(j, g)'
                 PROVE  Knows(j, g)
      BY DEF KnownStays
    <3>1. rec'[j].gid = rec[j].gid /\ (rec'[j].state # "none" => rec[j].state # "none")
      BY <2>2, <2>3
    <3>2. QED
      BY <2>2, <3>1 DEF Knows, Located
  <2>5. QED
    BY <1>2, <2>2, <2>3, <2>4, GoogleRests
<1>7. QED
  BY <1>3, <1>4, <1>5, <1>6

LEMMA KnownSettles ==
  ASSUME TypeInv, StateInv, KnownInv, NEW r \in Rows, Settles(conf.id, r)
  PROVE  KnownInv' /\ \A i \in Ids : KnownStays(i)
<1>1. PICK i \in Ids : i = conf.id
  BY DEF Settles
<1>2. /\ conf.at = "applied" /\ conf.points /\ r.gid = conf.gid /\ r.state # "unadopted" /\ conf'.at = "idle"
      /\ rec' = [rec EXCEPT ![i] = r] /\ UNCHANGED <<google, cycle, draft, work>>
  BY <1>1 DEF Settles, ConfActs, StateInv, WorkInv, Adopted, NoConfirm
<1>3. rec'[i] = r /\ \A j \in Ids \ {i} : rec'[j] = rec[j]
  BY <1>2 DEF TypeInv
<1>4. \A j \in Ids : KnownStays(j)
  BY <1>1, <1>2, <1>3 DEF KnownStays, Knows, Located, Running
<1>5. \A j \in Ids, g \in GTasks : rec'[j].state = "unadopted" /\ Knows(j, g)' => g = rec'[j].gid
  BY <1>2, <1>3, <1>4 DEF KnownInv, KnownStays
<1>6. cycle.at = "apply" => cycle.item.gid \in GTasks /\ Taken(cycle.item.gid)
  BY DEF KnownInv, StateInv, CycleInv, TypeInv, Cycles, Item, GTaskOrNone
<1>7. QED
  BY <1>2, <1>4, <1>5, <1>6, KnownKeeps, GoogleRests

\* A move adds the copy to what is known of the record, and the original is gone.
LEMMA KnownMoves ==
  ASSUME TypeInv, StateInv, KnownInv, NEW i \in Ids, NEW l \in Lists, NEW c \in GTasks,
         Changes(i, l, c, TRUE)
  PROVE  /\ KnownInv'
         /\ \A j \in Ids \ {i} : KnownStays(j)
<1>1. /\ conf.at = "idle" /\ rec[i].state # "none" /\ Alive(rec[i].gid) /\ GoogleKeeps
      /\ \/ c = rec[i].gid
         \/ Adopted(rec[i]) /\ ~Taken(c) /\ Taken(c)' /\ google'[rec[i].gid].status = "absent"
      /\ UNCHANGED <<rec, cycle, draft, work>>
  BY DEF Changes, GoogleActs
<1>2. conf'.at = "applied" /\ conf'.id = i /\ conf'.gid = c /\ conf'.points
  BY DEF Changes
<1>3. rec[i].gid \in GTasks
  BY <1>1 DEF StateInv, RowOK
<1>4. \A j \in Ids, g \in GTasks : Knows(j, g)' => Knows(j, g) \/ (j = i /\ g = c)
  BY <1>1, <1>2 DEF Knows, Located, Running
<1>5. Knows(i, rec[i].gid)
  BY <1>1 DEF Knows
<1>6. \A g \in GTasks : /\ Taken(g) => Taken(g)' /\ (Alive(g)' => Alive(g))
                        /\ Alive(g)' => Placed(g)'
  BY <1>1 DEF GoogleKeeps
<1>7. \A g \in GTasks : Knows(i, g)' => g = c \/ ~Alive(g)'
  <2> SUFFICES ASSUME NEW g \in GTasks, Knows(i, g)', g # c, Alive(g)'
               PROVE  FALSE
    OBVIOUS
  <2>1. Knows(i, g)
    BY <1>4
  <2>2. Taken(g) /\ Alive(g)
    BY <1>6, <2>1 DEF KnownInv
  <2>3. g = rec[i].gid
    BY <1>1, <1>3, <1>5, <2>1, <2>2 DEF KnownInv
  <2>4. QED
    BY <1>1, <2>3 DEF Alive
<1>8. \A j \in Ids, g \in GTasks : Knows(j, g)' => Taken(g)'
  BY <1>1, <1>4, <1>5, <1>6 DEF KnownInv
<1>9. \A j \in Ids, g, h \in GTasks : Knows(j, g)' /\ Knows(j, h)' /\ Alive(g)' /\ Alive(h)' => g = h
  <2> SUFFICES ASSUME NEW j \in Ids, NEW g \in GTasks, NEW h \in GTasks,
                      Knows(j, g)', Knows(j, h)', Alive(g)', Alive(h)'
               PROVE  g = h
    OBVIOUS
  <2>1. CASE j = i
    BY <1>7, <2>1
  <2>2. CASE j # i
    BY <1>4, <1>6, <2>2 DEF KnownInv
  <2>3. QED
    BY <2>1, <2>2
<1>10. \A j \in Ids, g \in GTasks : rec'[j].state = "unadopted" /\ Knows(j, g)' => g = rec'[j].gid
  BY <1>1, <1>3, <1>4 DEF KnownInv, Adopted
<1>11. \A g \in GTasks : (Alive(g) => Placed(g))'
  BY <1>6
<1>12. \A it \in cycle'.items : google'[it.gid].title # 0
  <2>1. \A it \in cycle.items : it.gid \in GTasks
    BY DEF TypeInv, Cycles, Item, GTaskOrNone, StateInv, CycleInv
  <2>2. QED
    BY <1>1, <1>6, <2>1 DEF KnownInv, Taken
<1>13. cycle'.at = "apply" => google'[cycle'.item.gid].title # 0
  <2>1. cycle.at = "apply" => cycle.item.gid \in GTasks
    BY DEF TypeInv, Cycles, Item, GTaskOrNone, StateInv, CycleInv
  <2>2. QED
    BY <1>1, <1>6, <2>1 DEF KnownInv, Taken
<1>14. \A g \in GTasks : Knows(conf.id, g)' => g = conf'.gid \/ ~Alive(g)'
  <2> SUFFICES ASSUME NEW g \in GTasks, Knows(conf.id, g)'
               PROVE  g = conf'.gid \/ ~Alive(g)'
    OBVIOUS
  <2>1. Knows(i, g)'
    BY <1>2
  <2>2. QED
    BY <1>2, <1>7, <2>1
<1>15. KnownInv'
  BY <1>8, <1>9, <1>10, <1>11, <1>12, <1>13, <1>14 DEF KnownInv, Taken
<1>16. QED
  BY <1>4, <1>15 DEF KnownStays

LEMMA KnownChanges ==
  ASSUME TypeInv, StateInv, KnownInv, NEW i \in Ids, NEW l \in Lists, NEW c \in GTasks,
         NEW p \in BOOLEAN, Changes(i, l, c, p)
  PROVE  KnownInv'
<1>1. CASE p
  BY <1>1, KnownMoves
<1>2. CASE ~p
  <2>1. conf.at = "idle" /\ conf'.points = FALSE /\ GoogleKeeps /\ UNCHANGED <<rec, cycle, draft, work>>
    BY <1>2 DEF Changes, GoogleActs
  <2>2. QED
    BY <2>1, KnownSame
<1>3. QED
  BY <1>1, <1>2

LEMMA KnownStep ==
  ASSUME TypeInv, StateInv, PlaceInv, KnownInv, [Next]_vars
  PROVE  KnownInv'
<1>1. CASE UNCHANGED vars
  BY <1>1, KnownSame, GoogleRests DEF vars, dbVars, syncVars
<1>2. CASE UserActs
  BY <1>2, KnownSame DEF UserActs, GoogleActs, dbVars, syncVars
<1>3. CASE Forgets
  BY <1>3, KnownSame, GoogleRests DEF Forgets, ConfActs, NoConfirm
<1>4. QED
  BY <1>1, <1>2, <1>3, NextShapes, KnownImports, KnownScans, KnownWrites, KnownEnds, KnownRuns,
     KnownSettles, KnownChanges

------------------------------------------------------------------------------
(* The task of a record.                                                   *)

\* Where a record points changes at the commit of a cycle or of a confirmation.
GidMoves(i) ==
  \/ rec'[i].gid = rec[i].gid
  \/ CommitCycle /\ i \in draft.dirty /\ rec'[i].gid = draft.rec[i].gid
  \/ i = conf.id /\ rec'[i].gid = conf.gid /\ \E r \in Rows : Settles(conf.id, r)

LEMMA GidStep ==
  ASSUME TypeInv, StateInv, PlaceInv, KnownInv, Next, NEW i \in Ids, rec[i].state # "none"
  PROVE  rec'[i].state # "none" /\ GidMoves(i)
<1>1. ASSUME rec' = rec
      PROVE  rec'[i].state # "none" /\ GidMoves(i)
  BY <1>1 DEF GidMoves
<1>2. CASE Imports
  <2>1. rec'[i] = rec[i]
    BY <1>2 DEF Imports, Admitted
  <2>2. QED
    BY <2>1 DEF GidMoves
<1>3. CASE CommitCycle
  <2>1. Exists(i) /\ (rec'[i] = View(i) \/ Missed(i))
    BY <1>3, ViewsOK, CommitIs
  <2>2. QED
    BY <1>3, <2>1 DEF GidMoves, Missed, View, Exists
<1>4. ASSUME NEW r \in Rows, RunEnds(work.id, r)
      PROVE  rec'[i].state # "none" /\ GidMoves(i)
  <2>1. PICK w \in Ids : w = work.id
    BY <1>4, WorksFor DEF RunEnds
  <2>2. r.gid = rec[w].gid /\ r.state # "none" /\ rec' = [rec EXCEPT ![w] = r]
    BY <1>4, <2>1 DEF RunEnds, StateInv, WorkInv
  <2>3. rec'[i].gid = rec[i].gid /\ rec'[i].state # "none"
    BY <2>2 DEF TypeInv
  <2>4. QED
    BY <2>3 DEF GidMoves
<1>5. ASSUME NEW r \in Rows, Settles(conf.id, r)
      PROVE  rec'[i].state # "none" /\ GidMoves(i)
  <2>1. PICK c \in Ids : c = conf.id
    BY <1>5 DEF Settles
  <2>2. r.gid = conf.gid /\ r.state = rec[c].state /\ rec' = [rec EXCEPT ![c] = r]
    BY <1>5, <2>1 DEF Settles
  <2>3. rec'[i].state # "none" /\ (rec'[i].gid = rec[i].gid \/ (i = conf.id /\ rec'[i].gid = conf.gid))
    BY <2>1, <2>2 DEF TypeInv
  <2>4. QED
    BY <1>5, <2>3 DEF GidMoves
<1>6. QED
  <2>1. UserActs \/ Scans => rec' = rec
    BY DEF UserActs, Scans, Fetch, LookUp, SyncOnly, dbVars
  <2>2. (\E j \in Ids : \E r \in Rows : Writes(j, r)) \/ RollsBack => rec' = rec
    BY DEF Writes, RollsBack, SyncActs
  <2>3. (\E g \in GTasks : Claims(g)) \/ Begins \/ Reads \/ Annotates => rec' = rec
    BY DEF Claims, Claim, Begins, Reads, Annotates, dbVars
  <2>4. (\E j \in Ids : \E m \in Lists, c \in GTasks, p \in BOOLEAN : Changes(j, m, c, p)) \/ Forgets => rec' = rec
    BY DEF Changes, Forgets
  <2>5. QED
    BY <1>1, <1>2, <1>3, <1>4, <1>5, <2>1, <2>2, <2>3, <2>4, NextShapes

\* What a step may do to the proposals, the run and the tasks.
Effects ==
  /\ GoogleKeeps
  /\ \A i \in proposed' \ proposed : /\ i = work.id /\ work.at = "annotated"
                                      /\ UNCHANGED google /\ rec'[i].gid = rec[i].gid
  /\ work'.at = "annotated" => work' = work \/ Annotates
  /\ \A g \in GTasks : Taken(g) =>
       \/ google'[g].env = google[g].env
       \/ Annotates /\ g = work.gid
       \/ Begins /\ g = rec[work.id].gid /\ rec[work.id].state = "unadopted"
       \/ AdminStep \/ \E h \in GTasks : EditTask(h)

LEMMA EffectsIs ==
  ASSUME TypeInv, StateInv, PlaceInv, KnownInv, Next
  PROVE  Effects
<1>1. UNCHANGED google => GoogleKeeps
  BY GoogleRests
<1>2. UserActs => Effects
  BY DEF UserActs, GoogleActs, EnvelopesStay, Effects, dbVars
<1>3. Imports \/ Scans => Effects
  BY <1>1 DEF Imports, Bystander, Scans, Fetch, LookUp, SyncOnly, dbVars, Effects
<1>4. (\E i \in Ids : \E r \in Rows : Writes(i, r)) \/ RollsBack \/ CommitCycle => Effects
  BY <1>1 DEF Writes, RollsBack, SyncActs, CommitCycle, Effects
<1>5. ASSUME NEW g \in GTasks, Claims(g)
      PROVE  Effects
  BY <1>1, <1>5 DEF Claims, Claim, WorkOnly, NoWork, Effects
<1>6. Begins => Effects
  BY DEF Begins, GoogleActs, WorkActs, dbVars, Effects
<1>7. Reads => Effects
  <2>1. Reads => work'.at = "thinking"
    BY WorksFor DEF Reads, Works
  <2>2. QED
    BY <1>1, <2>1 DEF Reads, WorkActs, dbVars, Effects
<1>8. Annotates => Effects
  BY DEF Annotates, GoogleActs, WorkActs, dbVars, Effects
<1>9. ASSUME NEW r \in Rows, RunEnds(work.id, r)
      PROVE  Effects
  <2>1. PICK w \in Ids : w = work.id
    BY <1>9, WorksFor DEF RunEnds
  <2>2. rec'[w].gid = rec[w].gid
    BY <1>9, <2>1 DEF RunEnds, TypeInv
  <2>3. QED
    BY <1>1, <1>9, <2>1, <2>2 DEF RunEnds, WorkActs, NoWork, Effects
<1>10. ASSUME NEW i \in Ids, NEW m \in Lists, NEW c \in GTasks, NEW p \in BOOLEAN, Changes(i, m, c, p)
       PROVE  Effects
  BY <1>10 DEF Changes, GoogleActs, EnvelopesStay, Effects
<1>11. ASSUME NEW r \in Rows, Settles(conf.id, r)
       PROVE  Effects
  BY <1>1, <1>11 DEF Settles, ConfActs, Effects
<1>12. Forgets => Effects
  BY <1>1 DEF Forgets, ConfActs, Effects
<1>13. QED
  BY <1>2, <1>3, <1>4, <1>5, <1>6, <1>7, <1>8, <1>9, <1>10, <1>11, <1>12, NextShapes

\* What a step may do to the transaction, the look-up, the run and new records.
Courses ==
  /\ draft' = draft \/ draft'.dirty = {} \/ \E i \in Ids : \E r \in Rows : Writes(i, r)
  /\ Located' => Scans \/ UNCHANGED <<cycle, draft>>
  /\ Running' => work' = work \/ ((Begins \/ Reads \/ Annotates) /\ rec' = rec)
  /\ \A i \in Ids : Exists(i) /\ rec[i].state = "none" /\ rec'[i].state # "none" => draft'.dirty = {}

LEMMA CoursesIs ==
  ASSUME TypeInv, StateInv, PlaceInv, KnownInv, Next
  PROVE  Courses
<1>1. UserActs => Courses
  BY DEF UserActs, Courses, dbVars, syncVars
<1>2. Imports => Courses
  <2>1. Imports => \A i \in Ids : Exists(i) => rec'[i] = rec[i]
    BY DEF Imports, Admitted
  <2>2. QED
    BY <2>1 DEF Imports, Bystander, Courses
<1>3. Scans => Courses
  BY DEF Scans, Fetch, LookUp, SyncOnly, dbVars, Courses
<1>4. ASSUME NEW i \in Ids, NEW r \in Rows, Writes(i, r)
      PROVE  Courses
  <2>1. ~Located'
    BY <1>4, WriteIs DEF Located
  <2>2. QED
    BY <1>4, <2>1 DEF Writes, SyncActs, Courses
<1>5. RollsBack \/ CommitCycle => Courses
  <2>1. RollsBack \/ CommitCycle => draft'.dirty = {} /\ ~Located' /\ work' = work
    BY DEF RollsBack, CommitCycle, SyncActs, NoDraft, NoCycle, Located
  <2>2. QED
    BY <2>1 DEF Courses
<1>6. ASSUME NEW g \in GTasks, Claims(g)
      PROVE  Courses
  <2>1. ~Running' /\ UNCHANGED <<rec, cycle, draft>>
    BY <1>6 DEF Claims, Claim, WorkOnly, syncVars, NoWork, Running
  <2>2. QED
    BY <2>1 DEF Courses
<1>7. Begins \/ Reads \/ Annotates => Courses
  BY DEF Begins, Reads, Annotates, WorkActs, dbVars, Courses
<1>8. ASSUME NEW r \in Rows, RunEnds(work.id, r)
      PROVE  Courses
  <2>1. PICK w \in Ids : w = work.id
    BY <1>8, WorksFor DEF RunEnds
  <2>2. /\ rec[w].state # "none" /\ rec' = [rec EXCEPT ![w] = r]
        /\ UNCHANGED <<cycle, draft>> /\ ~Running'
    BY <1>8, <2>1 DEF RunEnds, WorkActs, NoWork, Running, StateInv, WorkInv
  <2>3. \A i \in Ids : rec[i].state = "none" => rec'[i] = rec[i]
    BY <2>2 DEF TypeInv
  <2>4. QED
    BY <2>2, <2>3 DEF Courses
<1>9. ASSUME NEW i \in Ids, NEW m \in Lists, NEW c \in GTasks, NEW p \in BOOLEAN, Changes(i, m, c, p)
      PROVE  Courses
  BY <1>9 DEF Changes, Courses
<1>10. ASSUME NEW r \in Rows, Settles(conf.id, r)
       PROVE  Courses
  <2>1. PICK c \in Ids : c = conf.id
    BY <1>10 DEF Settles
  <2>2. r.state = rec[c].state /\ rec' = [rec EXCEPT ![c] = r] /\ UNCHANGED <<cycle, draft, work>>
    BY <1>10, <2>1 DEF Settles, ConfActs
  <2>3. \A i \in Ids : rec'[i].state = rec[i].state
    BY <2>2 DEF TypeInv
  <2>4. QED
    BY <2>2, <2>3 DEF Courses
<1>11. Forgets => Courses
  BY DEF Forgets, ConfActs, Courses
<1>12. QED
  BY <1>1, <1>2, <1>3, <1>4, <1>5, <1>6, <1>7, <1>8, <1>9, <1>10, <1>11, NextShapes

LEMMA PointerStep ==
  ASSUME TypeInv, StateInv, PlaceInv, KnownInv, PointerInv, Next
  PROVE  PointerInv'
<1>1. Effects /\ Courses
  BY EffectsIs, CoursesIs
<1>2. \A g \in GTasks : Taken(g) /\ Alive(g)' => Alive(g)
  BY <1>1 DEF Effects, GoogleKeeps
<1>3. \A i \in Ids : rec[i].state # "none" => rec'[i].state # "none" /\ GidMoves(i)
  BY GidStep
<1>4. draft.dirty \subseteq Ids /\ \A i \in draft.dirty : draft.rec[i].gid \in GTasks /\ Exists(i)
  BY DEF TypeInv, Drafts, StateInv, DraftInv, RowOK, Exists, View
\* The tasks of the transaction's records.
<1>5. ASSUME NEW i \in draft'.dirty, rec'[i].state # "none", Alive(draft.rec[i].gid)'
      PROVE  draft'.rec[i].gid = rec'[i].gid
  <2>1. ~CommitCycle
    BY <1>5 DEF CommitCycle, NoDraft
  <2>2. ASSUME NEW j \in Ids, NEW r \in Rows, Writes(j, r)
        PROVE  draft'.rec[i].gid = rec'[i].gid
    <3>1. /\ draft'.dirty = draft.dirty \cup {j} /\ draft'.rec = [draft.rec EXCEPT ![j] = r]
          /\ UNCHANGED <<google, rec>> /\ draft.rec \in [Ids -> Rows] /\ cycle.at = "apply"
      BY <2>2, WriteIs DEF Writes, SyncActs, TypeInv, Drafts
    <3>2. /\ i \in Ids /\ (i # j => i \in draft.dirty /\ draft'.rec[i] = draft.rec[i])
          /\ (i = j => draft'.rec[i] = r)
      BY <1>4, <3>1
    <3>3. \A h \in GTasks : i \in draft.dirty /\ h = draft.rec[i].gid /\ Alive(h) => h = rec[i].gid
      BY <1>5, <3>1 DEF PointerInv
    <3>4. CASE i # j
      BY <1>4, <1>5, <3>1, <3>2, <3>3, <3>4 DEF Alive
    <3>5. CASE i = j
      <4>1. Exists(i)
        BY <1>5, <3>1, <3>2, ViewsOK
      <4>2. Rewritten(i, r) /\ Located
        <5>1. Rewritten(i, r)
          BY <2>2, <3>5, <4>1 DEF Writes, Recorded
        <5>2. QED
          BY <3>1, <3>2, <5>1, NoneIs DEF Rewritten, Located
      <4>3. Alive(r.gid)
        BY <1>5, <3>1, <3>2, <3>5 DEF Alive
      <4>4. r.gid = View(i).gid
        BY <4>2, <4>3 DEF Rewritten, PointerInv
      <4>5. r.gid \in GTasks
        BY <3>2, <4>1, <4>4, ViewsOK DEF RowOK, Exists
      <4>6. r.gid = rec[i].gid
        BY <3>3, <4>3, <4>4, <4>5 DEF View
      <4>7. QED
        BY <3>1, <3>2, <3>5, <4>6
    <3>6. QED
      BY <3>4, <3>5
  <2>3. CASE draft' = draft
    <3>1. i \in draft.dirty /\ i \in Ids /\ rec[i].state # "none"
      BY <1>1, <1>4, <1>5, <2>3 DEF Courses
    <3>2. rec'[i].gid = rec[i].gid
      BY <1>3, <2>1, <3>1 DEF GidMoves, Settles
    <3>3. PICK h \in GTasks : h = draft.rec[i].gid
      BY <1>4, <3>1
    <3>4. Alive(h)
      <4>1. Taken(h)
        BY <3>1, <3>3 DEF KnownInv, Knows
      <4>2. QED
        BY <1>2, <1>5, <2>3, <3>3, <4>1 DEF Alive
    <3>5. QED
      BY <2>3, <3>1, <3>2, <3>3, <3>4 DEF PointerInv
  <2>4. QED
    BY <1>1, <1>5, <2>2, <2>3 DEF Courses
\* The look-up.
<1>6. ASSUME Located', Alive(cycle.item.gid)'
      PROVE  View(cycle.found)'.gid = cycle'.item.gid
  <2>1. CASE Scans
    <3>1. UNCHANGED <<rec, draft>> /\ cycle \in Cycles
      BY <2>1 DEF Scans, Fetch, LookUp, SyncOnly, dbVars, TypeInv
    <3>2. ~\E l \in Lists : Fetch(l)
      BY <1>6, FetchIs DEF Located
    <3>3. PICK it \in cycle.items : LookUp(it)
      BY <2>1, <3>2 DEF Scans
    <3>4. PICK f \in Found(it) :
            cycle' = [cycle EXCEPT !.at = "apply", !.item = it, !.items = @ \ {it},
                              !.found = f, !.moved = f # None /\ Here(it) = {},
                              !.was = IF f = None THEN "none" ELSE View(f).state]
      BY <3>3 DEF LookUp
    <3>5. cycle'.item = it /\ cycle'.found = f
      BY <3>1, <3>4 DEF Cycles
    <3>6. View(f).gid = it.gid
      BY <1>6, <3>5 DEF Located, Found, Here, MovedRecords, PointsTo
    <3>7. View(f)' = View(f)
      BY <3>1 DEF View
    <3>8. QED
      BY <3>5, <3>6, <3>7
  <2>2. CASE UNCHANGED <<cycle, draft>>
    <3>1. PICK f \in Ids : f = cycle.found
      BY <1>6, <2>2 DEF Located, TypeInv, Cycles, IdOrNone
    <3>2. PICK g \in GTasks : g = cycle.item.gid
      BY <1>6, <2>2 DEF Located, StateInv, CycleInv, TypeInv, Cycles, Item, GTaskOrNone
    <3>3. Located /\ Exists(f) /\ Alive(g)
      <4>1. Located /\ Exists(f) /\ Taken(g)
        BY <1>6, <2>2, <3>1, <3>2 DEF Located, StateInv, CycleInv, KnownInv
      <4>2. QED
        BY <1>2, <1>6, <2>2, <3>2, <4>1 DEF Alive
    <3>4. View(f).gid = g
      BY <3>1, <3>2, <3>3 DEF PointerInv
    <3>5. CASE f \in draft.dirty
      <4>1. View(f)' = View(f)
        BY <2>2, <3>5 DEF View
      <4>2. QED
        BY <2>2, <3>1, <3>2, <3>4, <4>1
    <3>6. CASE f \notin draft.dirty
      <4>1. rec[f].state # "none" /\ rec[f].gid = g /\ View(f)' = rec'[f]
        BY <2>2, <3>3, <3>4, <3>6 DEF View, Exists
      <4>2. CASE \E r \in Rows : f = conf.id /\ Settles(conf.id, r)
        <5>1. conf.at = "applied" /\ conf.points /\ rec'[f].gid = conf.gid
          BY <4>2 DEF Settles, TypeInv
        <5>2. Knows(conf.id, g)
          BY <3>1, <3>2, <3>3, <4>2 DEF Knows
        <5>3. g = conf.gid
          BY <3>3, <5>1, <5>2 DEF KnownInv
        <5>4. QED
          BY <2>2, <3>1, <3>2, <4>1, <5>1, <5>3
      <4>3. CASE ~\E r \in Rows : f = conf.id /\ Settles(conf.id, r)
        <5>1. rec'[f].gid = g
          BY <1>3, <3>6, <4>1, <4>3 DEF GidMoves
        <5>2. QED
          BY <2>2, <3>1, <3>2, <4>1, <5>1
      <4>4. QED
        BY <4>2, <4>3
    <3>7. QED
      BY <3>5, <3>6
  <2>3. QED
    BY <1>1, <1>6, <2>1, <2>2 DEF Courses
\* The run.
<1>7. ASSUME work'.at \in {"thinking", "annotated"}, Alive(rec[work.id].gid)'
      PROVE  work'.gid = rec'[work'.id].gid
  <2>1. PICK w \in Ids : w = work.id /\ rec[w].state # "none" /\ Running
    BY <1>1, <1>7, WorksFor DEF Courses, Begins, Reads, Annotates, Running, StateInv, WorkInv
  <2>2. work'.id = w /\ work'.gid = work.gid
    BY <1>1, <1>7, <2>1, WorksFor DEF Courses, Begins, Reads, Annotates, Works, Running
  <2>3. PICK g \in GTasks : g = work.gid /\ Knows(w, g)
    BY <2>1, WorksFor DEF Knows
  <2>4. CASE Reads
    <3>1. Alive(g) /\ UNCHANGED <<google, rec>>
      BY <2>3, <2>4 DEF Reads, dbVars
    <3>2. PICK h \in GTasks : h = rec[w].gid /\ Knows(w, h)
      BY <2>1 DEF Knows, StateInv, RowOK
    <3>3. Alive(h)
      BY <1>7, <2>2, <3>1, <3>2 DEF Alive
    <3>4. g = h
      BY <2>3, <3>1, <3>2, <3>3 DEF KnownInv
    <3>5. QED
      BY <2>2, <2>3, <3>1, <3>2, <3>4
  <2>5. CASE ~Reads
    <3>1. work.at \in {"thinking", "annotated"}
      BY <1>1, <1>7, <2>5, <2>1 DEF Courses, Begins, Annotates, Running
    <3>2. w \notin draft.dirty /\ LockedByWorker(w)
      BY <2>1, <3>1 DEF StateInv, WorkInv, LockedByWorker
    <3>3. rec'[w].gid = rec[w].gid
      BY <1>3, <2>1, <3>2 DEF GidMoves, Settles
    <3>4. PICK h \in GTasks : h = rec[w].gid
      BY <2>1 DEF StateInv, RowOK
    <3>5. Alive(h)
      <4>1. Taken(h)
        BY <2>1, <3>4 DEF KnownInv, Knows
      <4>2. QED
        BY <1>2, <1>7, <2>2, <3>3, <3>4, <4>1 DEF Alive
    <3>6. work.gid = rec[w].gid
      BY <2>1, <3>1, <3>4, <3>5 DEF PointerInv
    <3>7. QED
      BY <2>2, <3>3, <3>6
  <2>6. QED
    BY <2>4, <2>5
<1>8. ASSUME work'.at = "annotated"
      PROVE  work'.read.env = work'.id
  <2>1. CASE Annotates
    BY <2>1, WorksFor DEF Annotates, Works
  <2>2. CASE ~Annotates
    BY <1>1, <1>8, <2>2 DEF Effects, PointerInv
  <2>3. QED
    BY <2>1, <2>2
<1>9. QED
  BY <1>5, <1>6, <1>7, <1>8 DEF PointerInv

------------------------------------------------------------------------------
(* The theorems.                                                           *)

LEMMA InitInv == Init => Inv
<1> SUFFICES ASSUME Init PROVE Inv
  OBVIOUS
<1>1. PICK l \in Lists, adopted \in BOOLEAN :
        LET known == adopted /\ Ids # {}
            task  == IF known THEN [NewTask(l) EXCEPT !.env = 1] ELSE NewTask(l)
        IN  /\ google = [g \in GTasks |-> IF g = 1 THEN task ELSE NoTask]
            /\ rec = [i \in Ids |-> IF known /\ i = 1
                       THEN [state |-> "active", list |-> l, gid |-> 1, misses |-> 0]
                       ELSE NoRecord]
            /\ snap = [i \in Ids |-> IF known /\ i = 1
                        THEN [list |-> l, title |-> 1, form |-> 1, notes |-> 1, env |-> 1]
                        ELSE NoContent]
            /\ past = [i \in Ids |-> IF known /\ i = 1 /\ "rollback" \in Requests
                        THEN {[list |-> k, title |-> 1, form |-> 1, notes |-> 1, env |-> 1] :
                                k \in Lists \ {l}}
                        ELSE {}]
  BY DEF Init
<1>2. /\ queue = [g \in GTasks |-> None] /\ proposed = {}
      /\ cycle = NoCycle /\ draft = NoDraft /\ unseen = [i \in Ids |-> 0]
      /\ work = NoWork /\ conf = NoConfirm /\ used = [ops |-> 0, faults |-> 0, runs |-> 0]
  BY DEF Init
<1>3. 1 \in GTasks /\ (Ids # {} => 1 \in Ids)
  BY BoundsAssumption DEF GTasks, Ids
<1>4. PICK t \in Tasks : /\ google = [g \in GTasks |-> IF g = 1 THEN t ELSE NoTask]
                         /\ t.status = "open" /\ t.title # 0 /\ t.list \in Lists
  <2>1. NewTask(l) \in Tasks
    BY BoundsAssumption DEF NewTask, Tasks, GoogleState, ListOrNone, IdOrNone, Forms
  <2>2. Ids # {} => [NewTask(l) EXCEPT !.env = 1] \in Tasks
    BY <1>3, <2>1 DEF Tasks, IdOrNone
  <2>3. PICK t : /\ google = [g \in GTasks |-> IF g = 1 THEN t ELSE NoTask]
                 /\ t = NewTask(l) \/ (Ids # {} /\ t = [NewTask(l) EXCEPT !.env = 1])
    BY <1>1
  <2>4. t \in Tasks /\ t.status = "open" /\ t.title # 0 /\ t.list \in Lists
    BY <2>1, <2>2, <2>3 DEF NewTask
  <2>5. QED
    BY <2>3, <2>4
<1>5. PICK r \in Rows : /\ \A i \in Ids : rec[i] = NoRecord \/ (i = 1 /\ rec[i] = r)
                        /\ r.state = "active" /\ r.list \in Lists /\ r.gid = 1 /\ r.misses = 0
                        /\ rec \in [Ids -> Rows]
  <2>1. PICK r : r = [state |-> "active", list |-> l, gid |-> 1, misses |-> 0]
    OBVIOUS
  <2>2. r \in Rows /\ r.state = "active" /\ r.list \in Lists /\ r.gid = 1 /\ r.misses = 0
    BY <1>3, <2>1, BoundsAssumption DEF Rows, RecordState, ListOrNone, GTaskOrNone
  <2>3. \A i \in Ids : rec[i] = NoRecord \/ (i = 1 /\ rec[i] = r)
    BY <1>1, <2>1
  <2>4. rec \in [Ids -> Rows]
    BY <1>1, <2>1, <2>2, NothingTyped
  <2>5. QED
    BY <2>2, <2>3, <2>4
<1>6. snap \in [Ids -> Content] /\ past \in [Ids -> SUBSET Content]
  <2>1. \A i \in Ids, k \in Lists :
          i = 1 => [list |-> k, title |-> 1, form |-> 1, notes |-> 1, env |-> 1] \in Content
    BY BoundsAssumption DEF Content, Forms
  <2>2. snap \in [Ids -> Content]
    BY <1>1, <2>1, NothingTyped
  <2>3. \A i \in Ids : past[i] \in SUBSET Content
    BY <1>1, <2>1
  <2>4. past \in [Ids -> SUBSET Content]
    BY <1>1, <2>3
  <2>5. QED
    BY <2>2, <2>4
<1>7. TypeInv
  <2>1. google \in [GTasks -> Tasks]
    BY <1>4, NothingTyped
  <2>2. /\ queue \in [GTasks -> IdOrNone] /\ proposed \in SUBSET Ids
        /\ unseen \in [Ids -> 0 .. Threshold]
        /\ used \in [ops : Nat, faults : Nat, runs : Nat]
    BY <1>2, BoundsAssumption DEF IdOrNone
  <2>3. QED
    BY <1>2, <1>5, <1>6, <2>1, <2>2, NothingTyped DEF TypeInv
<1>8. /\ cycle.at = "off" /\ cycle.seen = {} /\ cycle.items = {}
      /\ draft.dirty = {} /\ \A g \in GTasks : draft.rows[g] = None
  BY <1>2 DEF NoCycle, NoDraft
<1>9. work.at = "idle" /\ conf.at = "idle"
  BY <1>2 DEF NoWork, NoConfirm
<1>10. \A i \in Ids : RowOK(rec[i]) /\ rec[i].state \in {"none", "active"} /\ View(i) = rec[i]
  BY <1>3, <1>5, <1>8, BoundsAssumption DEF RowOK, NoRecord, View
<1>11. StateInv
  <2>1. DraftInv
    BY <1>2, <1>8 DEF DraftInv
  <2>2. CycleInv
    BY <1>8 DEF CycleInv, Located
  <2>3. WorkInv
    BY <1>2, <1>9 DEF WorkInv, Running
  <2>4. QED
    BY <1>10, <2>1, <2>2, <2>3 DEF StateInv
<1>12. MissInv
  BY <1>2, <1>5 DEF MissInv, NoRecord
<1>13. PlaceInv
  BY <1>5, <1>10 DEF PlaceInv, SamePlace, NoRecord
<1>14. \A i \in Ids, g \in GTasks : Knows(i, g) => g = 1
  BY <1>5, <1>8, <1>9 DEF Knows, Located, Running, NoRecord
<1>15. KnownInv
  <2>1. \A g \in GTasks : Alive(g) => Placed(g)
    BY <1>4 DEF Alive, Placed, Taken, NoTask
  <2>2. \A g \in GTasks : g = 1 => Taken(g)
    BY <1>4 DEF Taken
  <2>3. QED
    BY <1>8, <1>9, <1>10, <1>14, <2>1, <2>2 DEF KnownInv
<1>16. PointerInv
  BY <1>8, <1>9 DEF PointerInv, Located
<1>17. QED
  BY <1>7, <1>11, <1>12, <1>13, <1>15, <1>16 DEF Inv

LEMMA InvStep == Inv /\ [Next]_vars => Inv'
<1> SUFFICES ASSUME Inv, [Next]_vars PROVE Inv'
  OBVIOUS
<1>1. TypeInv' /\ StateInv' /\ MissInv' /\ PlaceInv' /\ KnownInv'
  BY TypeStep, StateStep, MissStep, PlaceStep, KnownStep DEF Inv
<1>2. CASE Next
  BY <1>1, <1>2, PointerStep DEF Inv
<1>3. CASE UNCHANGED vars
  <2>1. \A i \in Ids : View(i)' = View(i)
    BY <1>3 DEF View, vars, dbVars, syncVars
  <2>2. PointerInv'
    BY <1>3, <2>1 DEF Inv, PointerInv, vars, dbVars, syncVars, Located, Alive, View
  <2>3. QED
    BY <1>1, <2>2 DEF Inv
<1>4. QED
  BY <1>2, <1>3

LEMMA AlwaysInv == Spec => []Inv
BY InitInv, InvStep, PTL DEF Spec

\* Records, drafts, cycles, runs and confirmations keep their types, and only
\* records that exist have a proposal.
THEOREM TypeCorrect == Spec => []TypeOK
<1>1. Inv => TypeOK
  <2> SUFFICES ASSUME Inv PROVE TypeOK
    OBVIOUS
  <2>1. proposed \subseteq Records
    BY DEF Inv, TypeInv, StateInv, WorkInv, Adopted, Records
  <2>2. cycle \in Cycles /\ draft \in Drafts /\ work \in Works /\ conf \in Confs
    BY DEF Inv, TypeInv
  <2>3. QED
    BY <2>1, <2>2 DEF Inv, TypeInv, TypeOK, Tasks, Rows, IdOrNone, GTaskOrNone, Cycles, Drafts, Works, Confs
<1>2. QED
  BY <1>1, AlwaysInv, PTL

\* _detect_missing: a cycle marks a record DELETED only after Threshold completed
\* cycles in a row that have not seen it, for any threshold.
THEOREM DeletionsWaitForTheThreshold == Spec => DeletedNeedsConsecutiveMisses
<1>1. Inv /\ [Next]_vars =>
        [\A i \in Ids : /\ cycle.at # "off" /\ cycle'.at = "off"
                        /\ rec[i].state # "deleted" /\ rec'[i].state = "deleted"
                        => unseen[i] >= Threshold - 1]_vars
  BY DeletedStep DEF Inv
<1>2. QED
  BY <1>1, AlwaysInv, PTL DEF Spec, DeletedNeedsConsecutiveMisses

\* While its proposal is undecided the task of a record keeps the name the worker
\* has given it, whatever cycles, runs, confirmations and moves come in between,
\* unless a second record claims the task or the user, an edit or a rollback of the
\* admin takes the name away.
THEOREM ProposalsCarryTheirId == Spec => ProposedTasksCarryTheirId
<1> DEFINE Excused(i) == IF i \in proposed THEN ~Names(i) \/ AdminStep \/ \E g \in GTasks : EditTask(g)
                                         ELSE google[work.gid].env # work.read.env
           Carries(i) == \/ google'[rec'[i].gid].status = "absent"
                         \/ Names(i)' \/ HasDouble(i)' \/ Excused(i)
<1>1. ASSUME Inv, Next, NEW i \in proposed'
      PROVE  Carries(i)
  <2> SUFFICES ASSUME google'[rec'[i].gid].status # "absent", ~HasDouble(i)', ~Excused(i)
               PROVE  google'[rec'[i].gid].env = i
    BY DEF Names
  <2>1. Effects
    BY <1>1, EffectsIs DEF Inv
  <2>2. CASE i \in proposed
    <3>1. Names(i) /\ ~AdminStep /\ ~\E g \in GTasks : EditTask(g)
      BY <2>2
    <3>2. i \in Ids /\ Adopted(rec[i]) /\ rec[i].state # "none"
      BY <1>1, <2>2 DEF Inv, TypeInv, StateInv, WorkInv, Adopted
    <3>3. PICK g \in GTasks : g = rec[i].gid /\ Taken(g)
      BY <1>1, <3>2 DEF Inv, StateInv, RowOK, KnownInv, Knows
    <3>4. rec'[i].gid = g
      <4>1. ~\E r \in Rows : i = conf.id /\ Settles(conf.id, r)
        BY <1>1, <3>1 DEF Settles
      <4>2. GidMoves(i)
        BY <1>1, <3>2, GidStep DEF Inv
      <4>3. CASE CommitCycle /\ i \in draft.dirty /\ rec'[i].gid = draft.rec[i].gid
        <5>1. google' = google
          BY <4>3 DEF CommitCycle
        <5>2. QED
          BY <1>1, <3>2, <3>3, <4>3, <5>1 DEF Inv, PointerInv, Alive
      <4>4. QED
        BY <3>3, <4>1, <4>2, <4>3 DEF GidMoves
    <3>5. ASSUME NEW j \in Ids, j # i, rec'[j].state # "none"
          PROVE  rec'[j].gid # g /\ google'[g].env # j
      BY <3>4, <3>5 DEF HasDouble, Records
    <3>6. CASE google'[g].env = google[g].env
      BY <3>1, <3>3, <3>4, <3>6 DEF Names
    <3>7. CASE Annotates /\ g = work.gid
      <4>1. google'[g].env = work.id /\ rec' = rec /\ Running
        BY <3>7 DEF Annotates, dbVars, Running
      <4>2. work.id \in Ids /\ rec[work.id].state # "none"
        BY <1>1, <4>1, WorksFor DEF Inv, StateInv, WorkInv, Running
      <4>3. QED
        BY <3>4, <3>5, <4>1, <4>2
    <3>8. CASE Begins /\ g = rec[work.id].gid /\ rec[work.id].state = "unadopted"
      <4>1. work.id \in Ids /\ work.id # i /\ rec' = rec
        BY <1>1, <3>2, <3>8, WorksFor DEF Inv, Begins, dbVars, Adopted
      <4>2. QED
        BY <3>5, <3>8, <4>1
    <3>9. QED
      BY <2>1, <3>1, <3>3, <3>6, <3>7, <3>8 DEF Effects
  <2>3. CASE i \notin proposed
    <3>1. /\ i = work.id /\ work.at = "annotated" /\ google' = google /\ rec'[i].gid = rec[i].gid
          /\ google[work.gid].env = work.read.env
      BY <1>1, <2>1, <2>3 DEF Effects
    <3>2. work.read.env = i /\ work.gid = rec[i].gid
      BY <1>1, <3>1 DEF Inv, PointerInv, Alive
    <3>3. QED
      BY <3>1, <3>2
  <2>4. QED
    BY <2>2, <2>3
<1>2. Inv /\ [Next]_vars =>
        [\A i \in proposed' :
           \/ google'[rec'[i].gid].status = "absent"
           \/ Names(i)' \/ HasDouble(i)'
           \/ IF i \in proposed
                THEN ~Names(i) \/ AdminStep \/ \E g \in GTasks : EditTask(g)
                ELSE google[work.gid].env # work.read.env]_vars
  BY <1>1
<1>3. QED
  BY <1>2, AlwaysInv, PTL DEF Spec, ProposedTasksCarryTheirId

\* An IntegrityError of the sync is never a dispute of two records about one
\* place: it is the envelope of a new task, or a look-up that has gone stale.
THEOREM ConflictsAreDuplicates == Spec => OnlyDuplicatesBlockSync
<1> DEFINE e == cycle.item.content.env
           Cause == \/ cycle.found \notin Found(cycle.item)
                    \/ /\ cycle.found = None /\ e # None
                       /\ View(e).state \in {"deleted", "unadopted"} \/ View(e).gid # cycle.item.gid
<1>1. Inv /\ Conflict => Cause
  <2> SUFFICES ASSUME Inv, Conflict, cycle.found \in Found(cycle.item)
               PROVE  /\ cycle.found = None /\ e # None
                      /\ View(e).state \in {"deleted", "unadopted"} \/ View(e).gid # cycle.item.gid
    OBVIOUS
  <2>1. ~PlaceTaken(cycle.list, cycle.item.gid, cycle.found)
    <3> SUFFICES ASSUME NEW j \in Ids \ {cycle.found}, PointsTo(View(j), cycle.list, cycle.item.gid)
                 PROVE  FALSE
      BY DEF PlaceTaken
    <3>1. j \in Here(cycle.item)
      BY DEF Here
    <3>2. cycle.found \in Here(cycle.item)
      BY <3>1 DEF Found
    <3>3. SamePlace(View(j), View(cycle.found)) /\ cycle.found \in Ids
      BY <3>2 DEF Here, PointsTo, SamePlace
    <3>4. QED
      BY <3>3 DEF Inv, PlaceInv
  <2>2. cycle.found = None /\ e # None /\ Exists(e)
    BY <2>1 DEF Conflict
  <2>3. e \in Ids
    BY <2>2 DEF Inv, TypeInv, Cycles, Item, Content
  <2>4. MovedRecords(cycle.item.gid) = {}
    BY <2>2, NoneIs DEF Found, Here, MovedRecords, Tracked
  <2>5. View(e).state \notin {"active", "missing"} \/ View(e).gid # cycle.item.gid
    BY <2>3, <2>4 DEF MovedRecords, Tracked
  <2>6. View(e) \in Rows
    BY <2>3, RowsTyped DEF Inv
  <2>7. View(e).state \in {"unadopted", "deleted"} \/ View(e).gid # cycle.item.gid
    BY <2>2, <2>5, <2>6 DEF Exists, Rows, RecordState
  <2>8. QED
    BY <2>2, <2>7
<1>2. Inv /\ [Next]_vars => [Conflict /\ cycle'.at = "off" => Cause]_vars
  BY <1>1
<1>3. QED
  BY <1>2, AlwaysInv, PTL DEF Spec, OnlyDuplicatesBlockSync

==============================================================================
