--------------------------- MODULE TaskEditsProofs ---------------------------
(* Theorems about TaskEdits, for any number of overlapping operations, of  *)
(* lists, titles, faults and changes by the user.                          *)
EXTENDS TaskEdits, NotesCodecProofs

------------------------------------------------------------------------------
(* The inductive invariant.                                                *)

Touching  == {"confirm", "edit", "rewrite", "rollback"}
Deciding  == {"confirm", "discard"}
Kinds     == Touching \cup {"idle", "discard", "propose"}

GTasks    == [live : BOOLEAN, list : Lists \cup {None}, title : Nat, notes : Notes, updated : Nat]
States    == [list : Lists \cup {None}, title : Nat, notes : Notes, updated : Nat]
Pointers  == [list : Lists, gid : Gids, status : {"awaiting_review", "applied", "discarded"}]
Proposals == [title : Titles, dest : Lists]
Sessions  == [open : BOOLEAN, prop : Proposals]
Bounds    == [ops : Nat, proposals : Nat, user : Nat, faults : Nat]

Revisions  == [op : Kinds \cup {"annotate"}, no : Nat, before : States, after : States,
               from : Lists \cup {None}, gid : Gids \cup {None}, ok : BOOLEAN, began : Nat]
Operations == [kind : Kinds, at : {"idle", "read", "patched", "called"},
               list : Lists \cup {None}, gid : Gids \cup {None},
               prop : [title : Nat, dest : Lists \cup {None}], notes : Notes,
               before : States, after : States, moved : BOOLEAN, ok : BOOLEAN,
               no : Nat, began : Nat]

\* How far an operation is, when n revisions are committed.
OpOK(o, n) ==
  /\ o.kind = "idle" => o = NoOp
  /\ o.kind = "idle" <=> o.at = "idle"
  /\ o.kind \in Touching <=> o.gid # None
  /\ o.gid # None => o.list # None
  /\ o.kind = "confirm" => o.prop.dest # None
  /\ o.kind = "propose" => o.prop \in Proposals
  /\ o.kind \in {"discard", "propose"} => o.at = "read"
  /\ o.at = "patched" => o.kind = "edit" /\ o.prop.dest # None
  /\ o.at = "called" \/ o.kind = "discard" => o.no >= 1
  /\ o.no <= n + 1 /\ o.began <= n

TypeInv ==
  /\ task \in [Gids -> GTasks] /\ clock \in Nat
  /\ \A g \in Gids : task[g].updated <= clock
  /\ record \in Pointers /\ session \in Sessions /\ snapshot \in States
  /\ revs \in Seq(Revisions) /\ Len(revs) >= 1
  /\ \A k \in DOMAIN revs : revs[k].no \in 1 .. k
  /\ ops \in [Procs -> Operations]
  /\ \A p \in Procs : OpOK(ops[p], Len(revs))
  /\ used \in Bounds

\* Whoever knows a Google task knows the list it is in, or was in last.
PlaceInv ==
  /\ task[record.gid].list = record.list /\ task[record.gid].title # None
  /\ \A p \in Procs : ops[p].gid # None =>
       task[ops[p].gid].list = ops[p].list /\ task[ops[p].gid].title # None

(***************************************************************************)
(* Of the tasks that the record or an operation points at at most one      *)
(* lives: a copy is only known to the operation that has deleted its       *)
(* original.                                                               *)
(***************************************************************************)
Known == {record.gid} \cup {ops[p].gid : p \in Procs}

LiveInv ==
  /\ \A g, h \in Known \cap Gids : task[g].live /\ task[h].live => g = h
  /\ \E g \in Gids : task[g].live

Rollbacks == {k \in DOMAIN revs : revs[k].op = "rollback"}

\* There is one rollback at a time, and what it starts from, as well as the
\* task that is left, is as recent as what the rollbacks before it have left.
RollInv ==
  /\ \A p, q \in Procs : RollingBack(p) /\ RollingBack(q) => p = q
  /\ \A p \in Procs : RollingBack(p) =>
       \A k \in Rollbacks : revs[k].after.updated <= ops[p].before.updated
  /\ \A g \in Known \cap Gids : task[g].live =>
       /\ \A k \in Rollbacks : revs[k].after.updated <= task[g].updated
       /\ \A p \in Procs : RollingBack(p) /\ ops[p].at = "called" =>
            ops[p].after.updated <= task[g].updated

Decisions == {k \in DOMAIN revs : revs[k].op \in Deciding}

\* After a decision nobody begins another one.
DecisionInv ==
  \A k \in Decisions :
    /\ ~session.open
    /\ \A p \in Procs : ops[p].kind \in Deciding => ops[p].began < k

\* The state s says how the task t is, but for its list.
Tells(s, t) == s.title = t.title /\ s.notes = t.notes /\ s.updated = t.updated

\* The task g is as a revision says, or as one that is still to be committed
\* will; or the edit that changed it last is not yet done with it.
Recorded(g) ==
  \/ \E k \in DOMAIN revs : revs[k].gid = g /\ Tells(revs[k].after, task[g])
  \/ \E p \in Procs : /\ ops[p].gid = g
                      /\ \/ ops[p].at = "called" /\ Tells(ops[p].after, task[g])
                         \/ ops[p].at = "patched"

ChangeInv ==
  used.faults = 0 /\ used.user = 0 => \A g \in Gids : task[g].live => Recorded(g)

\* The commit of the operation o writes the place of its task to the record.
Places(o) ==
  o.at = "called" /\ (o.kind = "confirm" \/ (o.kind \in {"edit", "rollback"} /\ o.moved))

Serial == \A k \in DOMAIN revs : revs[k].began = k - 1

\* The task that lives is the one the record points at, or the copy of an
\* operation that has still to commit.
Owned ==
  \A g \in Gids : task[g].live =>
    g = record.gid \/ \E p \in Procs : ops[p].gid = g /\ Places(ops[p])

\* An operation that was not overtaken by a commit knows the task of the record
\* or a copy of its own.
NotOvertaken ==
  \A p \in Procs :
    ops[p].began = Len(revs) /\ ops[p].gid \notin {None, record.gid} =>
      /\ Places(ops[p]) /\ task[ops[p].gid].live
      /\ \A q \in Procs \ {p} : ops[q].gid # ops[p].gid

SerialInv == used.faults = 0 /\ Serial => Owned /\ NotOvertaken

\* The notes an edit writes are those of the form it was made from.
FormInv ==
  \A p \in Procs : At(p, "edit", "read") =>
    \/ ops[p].notes = Format(Me, UserNotes(ops[p].before.notes))
    \/ Parse(ops[p].before.notes) = NoId

Inv ==
  TypeInv /\ PlaceInv /\ LiveInv /\ RollInv /\ DecisionInv /\ ChangeInv /\ SerialInv /\ FormInv

------------------------------------------------------------------------------
(* What the operators of TaskEdits return.                                 *)

LEMMA GidsAre ==
  /\ Gids \subseteq Nat /\ None \notin Gids /\ 1 \in Gids
  /\ MaxOps \in Nat
BY EditsAssumption DEF Gids, None

LEMMA NoNotes == <<>> \in Notes
BY DEF Notes, Ordered

LEMMA NoOpTyped == NoOp \in Operations /\ \A n \in Nat : OpOK(NoOp, n)
BY NoNotes DEF NoOp, Operations, Kinds, Touching, NoProposal, NoState, States, OpOK, None

LEMMA StateTyped ==
  ASSUME TypeInv, NEW g \in Gids
  PROVE  /\ State(g) \in States
         /\ State(g).list = task[g].list /\ Tells(State(g), task[g])
BY DEF TypeInv, GTasks, State, States, Tells

\* The next number is one more than the largest, which is at most the number of
\* revisions.
LEMMA NextNoTyped ==
  ASSUME TypeInv
  PROVE  NextNo \in 1 .. Len(revs) + 1
<1> DEFINE nos == {revs[k].no : k \in DOMAIN revs}
<1>1. PICK n \in Nat : n = Len(revs) /\ n >= 1 /\ DOMAIN revs = 1 .. n
  BY DEF TypeInv
<1>2. nos \subseteq 1 .. n /\ nos # {}
  <2>1. \A k \in 1 .. n : revs[k].no \in 1 .. n
    BY <1>1 DEF TypeInv
  <2>2. 1 \in 1 .. n
    BY <1>1
  <2>3. QED
    BY <1>1, <2>1, <2>2
<1>3. \E m \in nos : \A x \in nos : m >= x
  <2> DEFINE gaps == {n - x : x \in nos}
  <2>1. gaps \in SUBSET Nat /\ gaps # {}
    <3> HIDE DEF nos
    <3>1. \A x \in nos : x \in 1 .. n /\ n - x \in Nat
      BY <1>2
    <3>2. gaps \subseteq Nat
      BY <3>1
    <3>3. PICK x \in nos : TRUE
      BY <1>2
    <3>4. n - x \in gaps
      BY <3>3
    <3>5. QED
      BY <3>2, <3>4
  <2>2. PICK d \in gaps : \A e \in gaps : d <= e
    <3> HIDE DEF gaps
    <3>1. QED
      BY <2>1, LeastElement
  <2>3. PICK m \in nos : d = n - m
    BY <2>2
  <2>4. \A x \in nos : n - m <= n - x
    BY <2>2, <2>3
  <2>5. \A x \in nos : m >= x
    <3> HIDE DEF nos
    <3>1. QED
      BY <1>2, <2>4
  <2>6. QED
    BY <2>5
<1>4. PICK m \in nos : m = Max(nos)
  <2> HIDE DEF nos
  <2>1. QED
    BY <1>3 DEF Max
<1>5. m \in 1 .. n
  BY <1>2
<1>6. NextNo = 1 + m
  BY <1>4 DEF NextNo
<1>7. QED
  BY <1>1, <1>5, <1>6

\* A move finds a Google task that has never been used.
LEMMA CopyIsFree ==
  ASSUME NEW c \in Gids, task[c].title = None
  PROVE  Copy \in Gids /\ task[Copy].title = None
<1> DEFINE free == {g \in Gids : task[g].title = None}
<1>1. free \in SUBSET Nat /\ free # {}
  BY GidsAre
<1>2. PICK m \in free : \A k \in free : m <= k
  <2> HIDE DEF free
  <2>1. QED
    BY <1>1, LeastElement
<1>3. \A h \in 1 .. m - 1 : h \in Gids /\ h \notin free
  BY <1>2, GidsAre DEF Gids
<1>4. \E g \in Gids : task[g].title = None /\ \A h \in 1 .. g - 1 : task[h].title # None
  BY <1>2, <1>3
<1>5. QED
  BY <1>4 DEF Copy

LEMMA PatchedTyped ==
  ASSUME NEW t \in GTasks, NEW title \in Nat, NEW notes \in Notes, t.title # None
  PROVE  LET u == Patched(t, title, notes)
         IN  /\ u \in GTasks /\ u.live = t.live /\ u.list = t.list /\ u.title # None
BY DEF Patched, GTasks

LEMMA EditedNotesTyped ==
  ASSUME NEW seen \in Notes, NEW blank \in BOOLEAN
  PROVE  EditedNotes(seen, blank) \in Notes
<1>1. UserNotes(seen) \in Notes
  BY UserNotesTyped
<1>2. Format(Me, UserNotes(seen)) \in Notes
  BY <1>1, FormatTyped DEF Me
<1>3. QED
  BY <1>2, NoNotes DEF EditedNotes

------------------------------------------------------------------------------
(* What Google does with a patch and with a move.                          *)

\* The task g, which lives, is changed where it is.
PatchesTask(g) ==
  /\ task[g].live
  /\ clock' = clock + 1 /\ task' \in [Gids -> GTasks]
  /\ \A h \in Gids \ {g} : task'[h] = task[h]
  /\ task'[g].live /\ task'[g].list = task[g].list /\ task'[g].title # None
  /\ task'[g].updated = clock + 1

\* c becomes a copy of g, which lives and now is deleted or not.
MovesTask(g, c, l, deleted) ==
  /\ task[g].live /\ g # c /\ c \in Gids /\ task[c].title = None
  /\ clock' = clock + 1 /\ task' \in [Gids -> GTasks]
  /\ \A h \in Gids \ {g, c} : task'[h] = task[h]
  /\ task'[g] = [task[g] EXCEPT !.live = ~deleted]
  /\ task'[c].live /\ task'[c].list = l /\ task'[c].title # None
  /\ task'[c].updated = clock + 1

LEMMA PatchDoes ==
  ASSUME TypeInv, NEW g \in Gids, NEW t \in GTasks, task[g].live,
         t.live = task[g].live, t.list = task[g].list, t.title # None, Patch(g, t)
  PROVE  PatchesTask(g) /\ task'[g].title = t.title /\ task'[g].notes = t.notes
<1>1. PICK now \in Nat : now = clock + 1
  BY DEF TypeInv
<1>2. PICK u : u = [t EXCEPT !.updated = now]
  OBVIOUS
<1>3. /\ u \in GTasks /\ u.live = t.live /\ u.list = t.list /\ u.title = t.title
      /\ u.notes = t.notes /\ u.updated = clock + 1
  BY <1>2, <1>1 DEF GTasks
<1>4. task' = [task EXCEPT ![g] = u] /\ clock' = clock + 1
  BY <1>2, <1>1 DEF Patch
<1>5. QED
  BY <1>3, <1>4 DEF TypeInv, PatchesTask

LEMMA MoveDoes ==
  ASSUME TypeInv, NEW g \in Gids, NEW t \in GTasks, NEW l \in Lists, NEW deleted \in BOOLEAN,
         task[g].live, task[g].title # None, t.live, t.title # None, Move(g, l, t, deleted)
  PROVE  /\ MovesTask(g, Copy, l, deleted)
         /\ task'[Copy].title = t.title /\ task'[Copy].notes = t.notes
<1>1. PICK c : c = Copy /\ c \in Gids /\ task[c].title = None
  BY CopyIsFree DEF Move
<1>2. PICK now \in Nat : now = clock + 1
  BY DEF TypeInv
<1>3. PICK u : u = [t EXCEPT !.list = l, !.updated = now]
  OBVIOUS
<1>4. /\ u \in GTasks /\ u.live = t.live /\ u.list = l /\ u.title = t.title
      /\ u.notes = t.notes /\ u.updated = clock + 1
  BY <1>3, <1>2 DEF GTasks
<1>5. PICK v : v = [task[g] EXCEPT !.live = ~deleted]
  OBVIOUS
<1>6. v \in GTasks
  BY <1>5 DEF GTasks, TypeInv
<1>7. c # g
  BY <1>1
<1>8. task' = [task EXCEPT ![c] = u, ![g] = v] /\ clock' = clock + 1
  BY <1>1, <1>3, <1>5, <1>7, <1>2 DEF Move, TypeInv
<1>9. /\ task' \in [Gids -> GTasks] /\ task'[c] = u /\ task'[g] = v
      /\ \A h \in Gids \ {g, c} : task'[h] = task[h]
  BY <1>1, <1>4, <1>6, <1>7, <1>8 DEF TypeInv
<1>10. QED
  BY <1>1, <1>4, <1>5, <1>7, <1>8, <1>9 DEF MovesTask

------------------------------------------------------------------------------
(* The steps.  Seven shapes cover every action.                            *)

Faulty == used.faults < MaxFaults /\ used'.faults = used.faults + 1 /\ used'.user = used.user

NoFault == used'.faults = used.faults /\ used'.user = used.user

Becomes(p, n) == ops' = [ops EXCEPT ![p] = n] /\ n \in Operations

\* An operation reads the database, and what the record points at.
Begins(p, n) ==
  /\ UNCHANGED <<google, db>> /\ used' \in Bounds /\ NoFault
  /\ ops[p] = NoOp /\ Becomes(p, n)
  /\ n.at = "read" /\ n.began = Len(revs) /\ OpOK(n, Len(revs))
  /\ n.kind \in Touching => n.gid = record.gid /\ n.list = record.list
  /\ n.kind \in Deciding => session.open
  /\ n.kind = "edit" => \/ n.notes = Format(Me, UserNotes(n.before.notes))
                        \/ Parse(n.before.notes) = NoId
  /\ n.kind = "rollback" =>
       LockFree /\ task[record.gid].live /\ n.before.updated = task[record.gid].updated

\* It calls Google.  The task is as it was, patched, or moved, in which case
\* the operation goes on with the copy unless the original is still there.
Calls(p, n) ==
  LET o == ops[p]
  IN  /\ UNCHANGED db /\ used' \in Bounds /\ (Faulty \/ NoFault)
      /\ o.at \in {"read", "patched"} /\ o.kind \in Touching /\ Becomes(p, n)
      /\ n.kind = o.kind /\ n.began = o.began /\ OpOK(n, Len(revs))
      /\ n.at \in {"patched", "called"}
      /\ n.kind = "rollback" => n.at = "called" /\ n.before = o.before /\ NoFault
      /\ \/ /\ UNCHANGED google
            /\ n.gid = o.gid /\ n.list = o.list /\ n.at = "called" /\ n.kind # "rollback"
            /\ NoFault => ~task[o.gid].live \/ Tells(n.after, task[o.gid])
         \/ /\ PatchesTask(o.gid)
            /\ n.gid = o.gid /\ n.list = o.list
            /\ n.at = "called" => Tells(n.after, task'[o.gid])
         \/ /\ MovesTask(o.gid, n.gid, n.list, TRUE)
            /\ Places(n)
            /\ NoFault => Tells(n.after, task'[n.gid])
         \/ /\ \E c \in Gids, l \in Lists : MovesTask(o.gid, c, l, FALSE)
            /\ n.gid = o.gid /\ n.list = o.list /\ Faulty

\* It ends without a commit.
Ends(p) ==
  /\ UNCHANGED db /\ used' \in Bounds
  /\ ops[p] # NoOp /\ Becomes(p, NoOp)
  /\ \/ UNCHANGED google /\ ops[p].at = "read" /\ NoFault
     \/ UNCHANGED google /\ Faulty
     \/ /\ \E c \in Gids, l \in Lists, deleted \in BOOLEAN : MovesTask(ops[p].gid, c, l, deleted)
        /\ ops[p].kind = "rollback" /\ Faulty

\* It commits a revision; the record is placed where the operation is, or left.
Commits(p, r) ==
  LET o == ops[p]
  IN  /\ UNCHANGED <<google, snapshot, used>> /\ Becomes(p, NoOp)
      /\ o.at = "called" \/ (o.kind = "discard" /\ o.at = "read")
      /\ revs' = Append(revs, r) /\ r \in Revisions
      /\ r.op = o.kind /\ r.no = o.no /\ r.gid = o.gid /\ r.began = o.began
      /\ Tells(r.after, o.after) /\ r.before.updated = o.before.updated
      /\ session' \in Sessions
      /\ session'.open = (session.open /\ o.kind \notin Deciding)
      /\ record' \in Pointers
      /\ \/ record'.gid = record.gid /\ record'.list = record.list /\ ~Places(o)
         \/ record'.gid = o.gid /\ record'.list = o.list /\ o.kind \in Touching

\* A new proposal.
Proposes(p) ==
  /\ UNCHANGED <<google, record, revs, snapshot, used>>
  /\ ops[p].kind = "propose" /\ Becomes(p, NoOp)
  /\ session' \in Sessions /\ session'.open = session.open

UserChanges ==
  /\ PatchesTask(record.gid) /\ UNCHANGED <<db, ops>>
  /\ used' \in Bounds /\ used'.user = used.user + 1 /\ used'.faults = used.faults

SnapshotChanges ==
  UNCHANGED <<google, record, session, revs, ops, used>> /\ snapshot' \in States

Steps ==
  \/ \E p \in Procs : \/ \E n \in Operations : Begins(p, n) \/ Calls(p, n)
                      \/ \E r \in Revisions : Commits(p, r)
                      \/ Ends(p) \/ Proposes(p)
  \/ UserChanges \/ SnapshotChanges

LEMMA FaultIs ==
  ASSUME TypeInv, Fault
  PROVE  Faulty /\ used' \in Bounds
<1>1. used \in Bounds
  BY DEF TypeInv
<1>2. QED
  BY <1>1 DEF Fault, Faulty, Bounds

LEMMA OpTyped ==
  ASSUME TypeInv, NEW p \in Procs
  PROVE  /\ ops[p] \in Operations /\ OpOK(ops[p], Len(revs))
         /\ ops[p].kind \in Touching => ops[p].gid \in Gids /\ ops[p].list \in Lists
BY GidsAre DEF TypeInv, OpOK, Operations

\* Every begin records that an operation is begun and what it has read.
LEMMA BeginIs ==
  ASSUME TypeInv, NEW p \in Procs, NEW o \in Operations, Reads(p, o), used' \in Bounds, NoFault,
         o.kind # "idle", o.kind \in Touching <=> o.gid # None,
         o.kind \in Touching => o.gid = record.gid /\ o.list = record.list,
         o.kind = "confirm" => o.prop.dest # None,
         o.kind = "propose" => o.prop \in Proposals,
         o.kind = "discard" => o.no >= 1,
         o.no <= Len(revs) + 1,
         o.kind \in Deciding => session.open,
         o.kind = "edit" => \/ o.notes = Format(Me, UserNotes(o.before.notes))
                            \/ Parse(o.before.notes) = NoId,
         o.kind = "rollback" =>
           LockFree /\ task[record.gid].live /\ o.before.updated = task[record.gid].updated
  PROVE  \E n \in Operations : Begins(p, n)
<1>1. PICK m \in Nat : m = Len(revs)
  BY DEF TypeInv
<1>2. PICK n : n = [o EXCEPT !.at = "read", !.began = m]
  OBVIOUS
<1>3. /\ n \in Operations /\ n.at = "read" /\ n.began = m /\ n.kind = o.kind /\ n.gid = o.gid
      /\ n.list = o.list /\ n.prop = o.prop /\ n.notes = o.notes /\ n.before = o.before
      /\ n.no = o.no
  BY <1>1, <1>2 DEF Operations
<1>4. Becomes(p, n) /\ ops[p] = NoOp /\ UNCHANGED <<google, db>>
  BY <1>1, <1>2, <1>3 DEF Reads, Becomes
<1>5. record.list # None
  BY EditsAssumption DEF TypeInv, Pointers
<1>6. OpOK(n, m)
  BY <1>1, <1>3, <1>5 DEF OpOK, Touching
<1>7. Begins(p, n)
  BY <1>1, <1>3, <1>4, <1>6 DEF Begins
<1>8. QED
  BY <1>3, <1>7

LEMMA HereIs ==
  ASSUME TypeInv, NEW o \in Operations
  PROVE  LET h == Here(o)
         IN  /\ h \in Operations /\ h.list = record.list /\ h.gid = record.gid
             /\ h.kind = o.kind /\ h.prop = o.prop /\ h.notes = o.notes /\ h.before = o.before
             /\ h.no = o.no
BY DEF Here, TypeInv, Pointers, Operations

LEMMA NoOpIs ==
  /\ NoOp \in Operations
  /\ NoOp.gid = None /\ NoOp.no = 0 /\ NoOp.prop = NoProposal
BY NoOpTyped DEF NoOp

LEMMA BegunIs ==
  ASSUME TypeInv, NEW p \in Procs, NEW o \in Operations, Begin(p, o)
  PROVE  Reads(p, o) /\ used' \in Bounds /\ NoFault
BY DEF Begin, TypeInv, Bounds, NoFault

\* The actions that begin an operation.
LEMMA ActionsBegin ==
  ASSUME TypeInv, NEW p \in Procs,
         \/ BeginConfirm(p) \/ BeginDiscard(p) \/ BeginProposalEdit(p)
         \/ BeginAdminEdit(p) \/ BeginRewrite(p) \/ BeginRollback(p)
  PROVE  \E n \in Operations : Begins(p, n)
<1> DEFINE Props == [title : Nat, dest : Lists \cup {None}]
<1>1. /\ NoOp \in Operations /\ NoOp.gid = None /\ NoOp.no = 0 /\ Len(revs) \in Nat
      /\ record.gid # None
  BY NoOpIs, GidsAre DEF TypeInv, Pointers
<1>2. CASE BeginConfirm(p)
  <2>1. PICK o : o = [NoOp EXCEPT !.kind = "confirm", !.prop = session.prop]
    OBVIOUS
  <2>2. session.prop \in Props /\ session.prop.dest # None
    BY EditsAssumption DEF TypeInv, Sessions, Proposals
  <2>3. o \in Operations /\ o.kind = "confirm" /\ o.prop = session.prop /\ o.no = 0
    BY <1>1, <2>1, <2>2 DEF Operations, Kinds, Touching
  <2>4. PICK h : h = Here(o)
    OBVIOUS
  <2>5. /\ h \in Operations /\ h.list = record.list /\ h.gid = record.gid
        /\ h.kind = "confirm" /\ h.prop = session.prop /\ h.no = 0
    BY <2>3, <2>4, HereIs
  <2>6. session.open /\ Begin(p, h)
    BY <1>2, <2>1, <2>4 DEF BeginConfirm
  <2>7. QED
    BY <1>1, <2>2, <2>5, <2>6, BegunIs, BeginIs DEF Touching
<1>3. CASE BeginDiscard(p)
  <2>1. PICK m \in Nat : m = NextNo /\ m \in 1 .. Len(revs) + 1
    BY <1>1, NextNoTyped
  <2>2. PICK o : o = [NoOp EXCEPT !.kind = "discard", !.no = m]
    OBVIOUS
  <2>3. o \in Operations /\ o.kind = "discard" /\ o.no = m /\ o.gid = None
    BY <1>1, <2>2 DEF Operations, Kinds, Touching
  <2>4. session.open /\ Begin(p, o)
    BY <1>3, <2>1, <2>2 DEF BeginDiscard
  <2>5. QED
    BY <1>1, <2>1, <2>3, <2>4, BegunIs, BeginIs DEF Touching
<1>4. CASE BeginProposalEdit(p)
  <2>1. PICK prop \in [title : Titles, dest : Lists] :
               /\ used' = [used EXCEPT !.proposals = @ + 1]
               /\ Reads(p, [NoOp EXCEPT !.kind = "propose", !.prop = prop])
    BY <1>4 DEF BeginProposalEdit
  <2>2. PICK o : o = [NoOp EXCEPT !.kind = "propose", !.prop = prop]
    OBVIOUS
  <2>3. prop \in Props /\ prop \in Proposals
    BY EditsAssumption DEF Proposals
  <2>4. o \in Operations /\ o.kind = "propose" /\ o.prop = prop /\ o.no = 0 /\ o.gid = None
    BY <1>1, <2>2, <2>3 DEF Operations, Kinds, Touching
  <2>5. used' \in Bounds /\ NoFault
    BY <2>1 DEF TypeInv, Bounds, NoFault
  <2>6. session.open /\ Reads(p, o)
    BY <1>4, <2>1, <2>2 DEF BeginProposalEdit
  <2>7. QED
    BY <1>1, <2>3, <2>4, <2>5, <2>6, BeginIs DEF Touching, Deciding
<1>5. CASE BeginAdminEdit(p)
  <2>1. PICK title \in Titles \cup {None}, dest \in (Lists \ {record.list}) \cup {None} :
          Begin(p, Here([NoOp EXCEPT
            !.kind = "edit", !.prop = [title |-> title, dest |-> dest], !.before = snapshot,
            !.notes = EditedNotes(snapshot.notes, title = None /\ dest = None)]))
    BY <1>5 DEF BeginAdminEdit
  <2>2. PICK prop \in Props : prop = [title |-> title, dest |-> dest]
    <3>1. title \in Nat /\ dest \in Lists \cup {None}
      BY EditsAssumption DEF None
    <3>2. [title |-> title, dest |-> dest] \in Props
      BY <3>1
    <3>3. QED
      BY <3>2
  <2>3. PICK blank \in BOOLEAN : blank = (title = None /\ dest = None)
    OBVIOUS
  <2>4. snapshot \in States /\ snapshot.notes \in Notes
    BY DEF TypeInv, States
  <2>5. PICK notes \in Notes : notes = EditedNotes(snapshot.notes, blank)
    BY <2>4, EditedNotesTyped
  <2>6. notes = Format(Me, UserNotes(snapshot.notes)) \/ Parse(snapshot.notes) = NoId
    BY <2>5 DEF EditedNotes
  <2>7. PICK o : o = [NoOp EXCEPT !.kind = "edit", !.prop = prop, !.before = snapshot,
                                  !.notes = notes]
    OBVIOUS
  <2>8. /\ o \in Operations /\ o.kind = "edit" /\ o.no = 0 /\ o.before = snapshot
        /\ o.notes = notes
    BY <1>1, <2>4, <2>7 DEF Operations, Kinds, Touching
  <2>9. PICK h : h = Here(o)
    OBVIOUS
  <2>10. /\ h \in Operations /\ h.list = record.list /\ h.gid = record.gid
         /\ h.kind = "edit" /\ h.no = 0 /\ h.notes = notes /\ h.before = snapshot
    BY <2>8, <2>9, HereIs
  <2>11. Begin(p, h)
    BY <2>1, <2>2, <2>3, <2>5, <2>7, <2>9
  <2>12. QED
    BY <1>1, <2>6, <2>10, <2>11, BegunIs, BeginIs DEF Touching, Deciding
<1>6. CASE BeginRewrite(p)
  <2>1. PICK title \in Titles :
          Begin(p, Here([NoOp EXCEPT !.kind = "rewrite", !.before = snapshot,
                                     !.prop = [title |-> title, dest |-> None]]))
    BY <1>6 DEF BeginRewrite
  <2>2. PICK prop \in Props : prop = [title |-> title, dest |-> None]
    BY EditsAssumption
  <2>3. PICK o : o = [NoOp EXCEPT !.kind = "rewrite", !.before = snapshot, !.prop = prop]
    OBVIOUS
  <2>4. o \in Operations /\ o.kind = "rewrite" /\ o.no = 0
    BY <1>1, <2>3 DEF Operations, Kinds, Touching, TypeInv
  <2>5. PICK h : h = Here(o)
    OBVIOUS
  <2>6. /\ h \in Operations /\ h.list = record.list /\ h.gid = record.gid
        /\ h.kind = "rewrite" /\ h.no = 0
    BY <2>4, <2>5, HereIs
  <2>7. Begin(p, h)
    BY <2>1, <2>2, <2>3, <2>5
  <2>8. QED
    BY <1>1, <2>6, <2>7, BegunIs, BeginIs DEF Touching, Deciding
<1>7. CASE BeginRollback(p)
  <2>1. PICK g \in Gids : g = record.gid
    BY DEF TypeInv, Pointers
  <2>2. PICK before : before = State(g) /\ before \in States /\ before.updated = task[g].updated
    BY <2>1, StateTyped DEF Tells
  <2>3. PICK o : o = [NoOp EXCEPT !.kind = "rollback", !.before = before]
    OBVIOUS
  <2>4. o \in Operations /\ o.kind = "rollback" /\ o.no = 0 /\ o.before = before
    BY <1>1, <2>2, <2>3 DEF Operations, Kinds, Touching
  <2>5. PICK h : h = Here(o)
    OBVIOUS
  <2>6. /\ h \in Operations /\ h.list = record.list /\ h.gid = record.gid
        /\ h.kind = "rollback" /\ h.no = 0 /\ h.before = before
    BY <2>4, <2>5, HereIs
  <2>7. Begin(p, h) /\ LockFree /\ task[record.gid].live
    BY <1>7, <2>1, <2>2, <2>3, <2>5 DEF BeginRollback, There
  <2>8. QED
    BY <1>1, <2>1, <2>2, <2>6, <2>7, BegunIs, BeginIs DEF Touching, Deciding
<1>8. QED
  BY <1>2, <1>3, <1>4, <1>5, <1>6, <1>7

\* An operation that has made its calls goes on as it was told to.
LEMMA CalledIs ==
  ASSUME TypeInv, NEW p \in Procs, NEW o \in Operations, Called(p, o),
         ops[p].kind \in Touching, o.kind = ops[p].kind, o.began = ops[p].began,
         o.gid # None, o.list # None, o.kind = "confirm" => o.prop.dest # None
  PROVE  \E n \in Operations :
           /\ Becomes(p, n) /\ n.at = "called" /\ OpOK(n, Len(revs))
           /\ n.kind = o.kind /\ n.gid = o.gid /\ n.list = o.list /\ n.before = o.before
           /\ n.after = o.after /\ n.moved = o.moved /\ n.began = o.began
<1>1. PICK m \in Nat : m = Len(revs)
  BY DEF TypeInv
<1>2. PICK no \in Nat : no = NextNo /\ 1 <= no /\ no <= m + 1
  <2>1. NextNo \in 1 .. m + 1
    BY <1>1, NextNoTyped
  <2>2. QED
    BY <2>1
<1>3. PICK n : n = [o EXCEPT !.at = "called", !.no = no]
  OBVIOUS
<1>4. /\ n \in Operations /\ n.at = "called" /\ n.no = no
      /\ n.kind = o.kind /\ n.gid = o.gid /\ n.list = o.list /\ n.before = o.before
      /\ n.after = o.after /\ n.moved = o.moved /\ n.began = o.began /\ n.prop = o.prop
  BY <1>1, <1>2, <1>3 DEF Operations
<1>5. Becomes(p, n)
  BY <1>2, <1>3, <1>4 DEF Called, Becomes
<1>6. ops[p].began <= m
  BY <1>1, OpTyped DEF OpOK
<1>7. OpOK(n, m)
  BY <1>2, <1>4, <1>6 DEF OpOK, Touching
<1>8. QED
  BY <1>1, <1>4, <1>5, <1>7

\* What an operation that has not called Google yet knows of its task.
LEMMA TaskOf ==
  ASSUME TypeInv, PlaceInv, NEW p \in Procs, ops[p].kind \in Touching
  PROVE  /\ ops[p] \in Operations /\ ops[p].gid \in Gids /\ ops[p].list \in Lists
         /\ ops[p].gid # None /\ ops[p].list # None
         /\ task[ops[p].gid] \in GTasks /\ task[ops[p].gid].title # None
         /\ task[ops[p].gid].list = ops[p].list
<1>1. ops[p].gid \in Gids /\ ops[p].gid # None
  BY OpTyped, GidsAre
<1>2. QED
  BY <1>1, OpTyped, EditsAssumption DEF TypeInv, PlaceInv

LEMMA ConfirmIsACall ==
  ASSUME TypeInv, PlaceInv, NEW p \in Procs, ConfirmCalls(p)
  PROVE  \E n \in Operations : Calls(p, n)
<1> DEFINE o       == ops[p]
           t       == task[o.gid]
           renamed == Patched(t, o.prop.title, <<>>)
           called(g, l, title, at) ==
             Called(p, [o EXCEPT !.gid = g, !.list = l, !.before = State(o.gid),
                                 !.after = [list |-> l, title |-> title, notes |-> t.notes,
                                            updated |-> at]])
<1>1. o.kind = "confirm" /\ o.at = "read" /\ t.live /\ UNCHANGED db
  BY DEF ConfirmCalls, At, There
<1>2. /\ o \in Operations /\ o.gid \in Gids /\ o.list \in Lists /\ t \in GTasks
      /\ t.title # None /\ o.prop.dest \in Lists /\ o.prop.title \in Nat
      /\ clock \in Nat /\ clock + 1 \in Nat /\ t.list = o.list
  <2>1. o.kind \in Touching
    BY <1>1 DEF Touching
  <2>2. o.prop.dest \in Lists
    BY <1>1, OpTyped DEF OpOK, Operations
  <2>3. QED
    BY <2>1, <2>2, TaskOf DEF TypeInv, Operations
<1>3. /\ renamed \in GTasks /\ renamed.live /\ renamed.title # None /\ renamed.notes = t.notes
      /\ renamed.title \in Nat /\ renamed.list = t.list
  BY <1>1, <1>2, NoNotes, PatchedTyped DEF Patched, GTasks
<1>4. t.title \in Nat /\ t.updated \in Nat /\ t.notes \in Notes
  BY <1>2 DEF GTasks
<1>5. ASSUME NEW g \in Gids, NEW l \in Lists, NEW title \in Nat, NEW at \in Nat,
             called(g, l, title, at)
      PROVE  \E n \in Operations :
               /\ Becomes(p, n) /\ n.at = "called" /\ OpOK(n, Len(revs))
               /\ n.kind = "confirm" /\ n.gid = g /\ n.list = l /\ n.began = o.began
               /\ n.after.title = title /\ n.after.notes = t.notes /\ n.after.updated = at
  <2>1. PICK before : before = State(o.gid) /\ before \in States
    BY <1>2, StateTyped
  <2>2. PICK after : after = [list |-> l, title |-> title, notes |-> t.notes, updated |-> at]
    OBVIOUS
  <2>3. /\ after \in States /\ after.title = title /\ after.notes = t.notes
        /\ after.updated = at
    BY <1>4, <2>2 DEF States
  <2>4. PICK c : c = [o EXCEPT !.gid = g, !.list = l, !.before = before, !.after = after]
    OBVIOUS
  <2>5. /\ c \in Operations /\ c.gid = g /\ c.list = l /\ c.after = after /\ c.kind = o.kind
        /\ c.began = o.began /\ c.prop = o.prop
    BY <1>2, <2>1, <2>3, <2>4 DEF Operations
  <2>6. Called(p, c)
    BY <1>5, <2>1, <2>2, <2>4
  <2>7. g # None /\ l # None /\ o.prop.dest # None
    BY <1>2, GidsAre, EditsAssumption
  <2>8. o.kind \in Touching
    BY <1>1 DEF Touching
  <2>9. PICK n \in Operations :
           /\ Becomes(p, n) /\ n.at = "called" /\ OpOK(n, Len(revs))
           /\ n.kind = c.kind /\ n.gid = c.gid /\ n.list = c.list /\ n.before = c.before
           /\ n.after = c.after /\ n.moved = c.moved /\ n.began = c.began
    BY <2>5, <2>6, <2>7, <2>8, CalledIs
  <2>10. QED
    BY <1>1, <2>3, <2>5, <2>9
<1>6. UNCHANGED used => NoFault /\ used' \in Bounds
  BY DEF NoFault, TypeInv
<1>7. CASE /\ o.prop.dest # o.list
           /\ Move(o.gid, o.prop.dest, renamed, TRUE)
           /\ called(Copy, o.prop.dest, renamed.title, clock + 1) /\ UNCHANGED used
  <2>1. PICK c \in Gids : c = Copy
    BY <1>7, CopyIsFree DEF Move
  <2>2. /\ MovesTask(o.gid, c, o.prop.dest, TRUE)
        /\ task'[c].title = renamed.title /\ task'[c].notes = renamed.notes
    BY <1>1, <1>2, <1>3, <1>7, <2>1, MoveDoes
  <2>3. task'[c].updated = clock + 1
    BY <2>2 DEF MovesTask
  <2>4. PICK n \in Operations :
               /\ Becomes(p, n) /\ n.at = "called" /\ OpOK(n, Len(revs))
               /\ n.kind = "confirm" /\ n.gid = c /\ n.list = o.prop.dest /\ n.began = o.began
               /\ n.after.title = renamed.title /\ n.after.notes = t.notes
               /\ n.after.updated = clock + 1
    <3> HIDE DEF called
    <3>1. QED
      BY <1>2, <1>3, <1>5, <1>7, <2>1
  <2>5. Places(n) /\ Tells(n.after, task'[n.gid])
    BY <1>3, <2>2, <2>3, <2>4 DEF Places, Tells
  <2>6. Calls(p, n)
    BY <1>1, <1>6, <1>7, <2>2, <2>4, <2>5 DEF Calls, Touching
  <2>7. QED
    BY <2>6
<1>8. CASE /\ o.prop.dest # o.list
           /\ Fault /\ Move(o.gid, o.prop.dest, t, TRUE)
           /\ called(Copy, o.prop.dest, t.title, clock + 1)
  <2>1. PICK c \in Gids : c = Copy
    BY <1>8, CopyIsFree DEF Move
  <2>2. /\ MovesTask(o.gid, c, o.prop.dest, TRUE)
        /\ task'[c].title = t.title /\ task'[c].notes = t.notes
    BY <1>1, <1>2, <1>8, <2>1, MoveDoes
  <2>3. task'[c].updated = clock + 1
    BY <2>2 DEF MovesTask
  <2>4. PICK n \in Operations :
               /\ Becomes(p, n) /\ n.at = "called" /\ OpOK(n, Len(revs))
               /\ n.kind = "confirm" /\ n.gid = c /\ n.list = o.prop.dest /\ n.began = o.began
               /\ n.after.title = t.title /\ n.after.notes = t.notes
               /\ n.after.updated = clock + 1
    <3> HIDE DEF called
    <3>1. QED
      BY <1>2, <1>4, <1>5, <1>8, <2>1
  <2>5. Places(n) /\ Tells(n.after, task'[n.gid])
    BY <2>2, <2>3, <2>4 DEF Places, Tells
  <2>6. Calls(p, n)
    BY <1>1, <1>8, <2>2, <2>4, <2>5, FaultIs DEF Calls, Touching
  <2>7. QED
    BY <2>6
<1>9. CASE /\ o.prop.dest # o.list
           /\ Fault
           /\ Move(o.gid, o.prop.dest, t, FALSE) \/ Untouched
           /\ called(o.gid, o.list, t.title, t.updated)
  <2>1. PICK n \in Operations :
               /\ Becomes(p, n) /\ n.at = "called" /\ OpOK(n, Len(revs))
               /\ n.kind = "confirm" /\ n.gid = o.gid /\ n.list = o.list /\ n.began = o.began
               /\ n.after.title = t.title /\ n.after.notes = t.notes
               /\ n.after.updated = t.updated
    <3> HIDE DEF called
    <3>1. QED
      BY <1>2, <1>4, <1>5, <1>9
  <2>2. \/ \E c \in Gids, l \in Lists : MovesTask(o.gid, c, l, FALSE)
        \/ UNCHANGED google
    <3>1. CASE Move(o.gid, o.prop.dest, t, FALSE)
      <4>1. PICK c \in Gids : c = Copy
        BY <3>1, CopyIsFree DEF Move
      <4>2. MovesTask(o.gid, c, o.prop.dest, FALSE)
        BY <1>1, <1>2, <3>1, <4>1, MoveDoes
      <4>3. QED
        BY <1>2, <4>2
    <3>2. QED
      BY <1>9, <3>1 DEF Untouched
  <2>3. Tells(n.after, t)
    BY <2>1 DEF Tells
  <2>4. Calls(p, n)
    BY <1>1, <1>9, <2>1, <2>2, <2>3, FaultIs DEF Calls, Touching
  <2>5. QED
    BY <2>4
<1>10. CASE /\ o.prop.dest = o.list /\ t.title # o.prop.title
            /\ Patch(o.gid, renamed)
            /\ called(o.gid, o.list, renamed.title, clock + 1) /\ UNCHANGED used
  <2>1. PICK n \in Operations :
               /\ Becomes(p, n) /\ n.at = "called" /\ OpOK(n, Len(revs))
               /\ n.kind = "confirm" /\ n.gid = o.gid /\ n.list = o.list /\ n.began = o.began
               /\ n.after.title = renamed.title /\ n.after.notes = t.notes
               /\ n.after.updated = clock + 1
    <3> HIDE DEF called
    <3>1. QED
      BY <1>2, <1>3, <1>5, <1>10
  <2>2. /\ PatchesTask(o.gid) /\ task'[o.gid].title = renamed.title
        /\ task'[o.gid].notes = t.notes
    BY <1>1, <1>2, <1>3, <1>10, PatchDoes
  <2>3. Tells(n.after, task'[o.gid])
    BY <2>1, <2>2 DEF Tells, PatchesTask
  <2>4. Calls(p, n)
    BY <1>1, <1>6, <1>10, <2>1, <2>2, <2>3 DEF Calls, Touching
  <2>5. QED
    BY <2>4
<1>11. CASE /\ o.prop.dest = o.list
            /\ Untouched /\ called(o.gid, o.list, t.title, t.updated)
            /\ Fault \/ UNCHANGED used
  <2>1. PICK n \in Operations :
               /\ Becomes(p, n) /\ n.at = "called" /\ OpOK(n, Len(revs))
               /\ n.kind = "confirm" /\ n.gid = o.gid /\ n.list = o.list /\ n.began = o.began
               /\ n.after.title = t.title /\ n.after.notes = t.notes
               /\ n.after.updated = t.updated
    <3> HIDE DEF called
    <3>1. QED
      BY <1>2, <1>4, <1>5, <1>11
  <2>2. Tells(n.after, t)
    BY <2>1 DEF Tells
  <2>3. Calls(p, n)
    BY <1>1, <1>6, <1>11, <2>1, <2>2, FaultIs DEF Calls, Touching, Untouched
  <2>4. QED
    BY <2>3
<1>12. QED
  BY <1>7, <1>8, <1>9, <1>10, <1>11 DEF ConfirmCalls

LEMMA EditIs ==
  ASSUME TypeInv, PlaceInv, NEW p \in Procs, ops[p].kind = "edit"
  PROVE  LET o == ops[p]
         IN  /\ Edited(o) \in GTasks /\ Edited(o).live = task[o.gid].live
             /\ Edited(o).list = o.list /\ Edited(o).title # None
<1> DEFINE o == ops[p]
<1>1. PICK u : u = Patched(task[o.gid], o.prop.title, <<>>)
  OBVIOUS
<1>2. o \in Operations /\ task[o.gid] \in GTasks /\ task[o.gid].title # None
      /\ task[o.gid].list = o.list
  BY TaskOf DEF Touching
<1>3. o.prop.title \in Nat /\ o.notes \in Notes
  BY <1>2 DEF Operations
<1>4. u \in GTasks /\ u.live = task[o.gid].live /\ u.list = o.list /\ u.title # None
  BY <1>1, <1>2, <1>3, NoNotes, PatchedTyped
<1>5. Edited(o) = [u EXCEPT !.notes = o.notes]
  BY <1>1 DEF Edited
<1>6. QED
  BY <1>3, <1>4, <1>5 DEF GTasks

LEMMA IntendedTyped ==
  ASSUME NEW o \in Operations, NEW notes \in Notes
  PROVE  Intended(o, notes) \in States
<1>1. o.before \in States /\ o.prop.title \in Nat
  BY DEF Operations
<1>2. QED
  BY <1>1 DEF Intended, Patched, States

LEMMA AdminEditPatchIsACall ==
  ASSUME TypeInv, PlaceInv, NEW p \in Procs, AdminEditPatches(p)
  PROVE  \E n \in Operations : Calls(p, n)
<1> DEFINE o == ops[p]
<1>1. o.kind = "edit" /\ o.at = "read" /\ UNCHANGED db /\ o.kind \in Touching
  BY DEF AdminEditPatches, At, Touching
<1>2. /\ o \in Operations /\ o.gid \in Gids /\ o.list \in Lists /\ task[o.gid] \in GTasks
      /\ task[o.gid].title # None /\ task[o.gid].list = o.list /\ clock + 1 \in Nat
      /\ o.gid # None /\ o.list # None
  BY <1>1, TaskOf DEF TypeInv
<1>3. PICK t \in GTasks : t = Edited(o) /\ t.live = task[o.gid].live /\ t.list = o.list
                          /\ t.title # None
  BY <1>1, EditIs
<1>4. UNCHANGED used => NoFault /\ used' \in Bounds
  BY DEF NoFault, TypeInv
<1>5. ASSUME task[o.gid].live, Patch(o.gid, t)
      PROVE  /\ PatchesTask(o.gid) /\ task'[o.gid].title = t.title
             /\ task'[o.gid].notes = t.notes /\ task'[o.gid].updated = clock + 1
  <2>1. /\ PatchesTask(o.gid) /\ task'[o.gid].title = t.title
        /\ task'[o.gid].notes = t.notes
    BY <1>2, <1>3, <1>5, PatchDoes
  <2>2. QED
    BY <2>1 DEF PatchesTask
<1>6. CASE /\ There(o.gid, o.list) /\ Patch(o.gid, Edited(o)) /\ UNCHANGED used
           /\ EditMoves(o) /\ ops' = [ops EXCEPT ![p].at = "patched"]
  <2>1. PICK n : n = [o EXCEPT !.at = "patched"]
    OBVIOUS
  <2>2. /\ n \in Operations /\ n.at = "patched" /\ n.gid = o.gid /\ n.list = o.list
        /\ n.kind = "edit" /\ n.began = o.began /\ n.prop = o.prop /\ n.no = o.no
    BY <1>1, <1>2, <2>1 DEF Operations
  <2>3. Becomes(p, n)
    BY <1>6, <2>1, <2>2 DEF Becomes, TypeInv
  <2>4. OpOK(n, Len(revs))
    BY <1>1, <1>2, <1>6, <2>2, OpTyped DEF OpOK, EditMoves, Touching
  <2>5. task[o.gid].live /\ PatchesTask(o.gid)
    BY <1>3, <1>5, <1>6 DEF There
  <2>6. Calls(p, n)
    BY <1>1, <1>4, <1>6, <2>2, <2>3, <2>4, <2>5 DEF Calls, Touching
  <2>7. QED
    BY <2>2, <2>6
<1>7. CASE /\ There(o.gid, o.list) /\ Patch(o.gid, Edited(o)) /\ UNCHANGED used
           /\ EditDone(p, o, Edited(o))
  <2>1. PICK now \in Nat : now = clock + 1
    BY <1>2
  <2>2. PICK after : after = [list |-> o.list, title |-> t.title, notes |-> t.notes,
                              updated |-> now]
    OBVIOUS
  <2>3. /\ after \in States /\ after.title = t.title /\ after.notes = t.notes
        /\ after.updated = now
    BY <1>2, <1>3, <2>2 DEF States, GTasks
  <2>4. PICK c : c = [o EXCEPT !.after = after]
    OBVIOUS
  <2>5. /\ c \in Operations /\ c.gid = o.gid /\ c.list = o.list /\ c.after = after
        /\ c.kind = "edit" /\ c.began = o.began
    BY <1>1, <1>2, <2>3, <2>4 DEF Operations
  <2>6. Called(p, c)
    BY <1>3, <1>7, <2>1, <2>2, <2>4 DEF EditDone
  <2>7. PICK n \in Operations :
           /\ Becomes(p, n) /\ n.at = "called" /\ OpOK(n, Len(revs))
           /\ n.kind = c.kind /\ n.gid = c.gid /\ n.list = c.list /\ n.before = c.before
           /\ n.after = c.after /\ n.moved = c.moved /\ n.began = c.began
    BY <1>1, <1>2, <2>5, <2>6, CalledIs
  <2>8. PatchesTask(o.gid) /\ Tells(n.after, task'[o.gid])
    BY <1>3, <1>5, <1>7, <2>1, <2>3, <2>5, <2>7 DEF There, Tells
  <2>9. Calls(p, n)
    BY <1>1, <1>4, <1>7, <2>5, <2>7, <2>8 DEF Calls
  <2>10. QED
    BY <2>9
<1>8. CASE Untouched /\ EditFailed(p, o) /\ (Fault \/ (~There(o.gid, o.list) /\ UNCHANGED used))
  <2>0. PICK a \in States : a = Intended(o, o.notes)
    BY <1>2, IntendedTyped DEF Operations
  <2>1. PICK c : c = [o EXCEPT !.ok = FALSE, !.after = a]
    OBVIOUS
  <2>2. /\ c \in Operations /\ c.gid = o.gid /\ c.list = o.list
        /\ c.kind = "edit" /\ c.began = o.began
    BY <1>1, <1>2, <2>1 DEF Operations
  <2>3. Called(p, c)
    BY <1>8, <2>0, <2>1 DEF EditFailed
  <2>4. PICK n \in Operations :
           /\ Becomes(p, n) /\ n.at = "called" /\ OpOK(n, Len(revs))
           /\ n.kind = c.kind /\ n.gid = c.gid /\ n.list = c.list /\ n.before = c.before
           /\ n.after = c.after /\ n.moved = c.moved /\ n.began = c.began
    BY <1>1, <1>2, <2>2, <2>3, CalledIs
  <2>5. used' \in Bounds /\ (Faulty \/ NoFault) /\ (NoFault => ~task[o.gid].live)
    BY <1>2, <1>4, <1>8, FaultIs DEF There, Faulty, NoFault, TypeInv, Bounds
  <2>6. Calls(p, n)
    BY <1>1, <1>8, <2>2, <2>4, <2>5 DEF Calls, Untouched
  <2>7. QED
    BY <2>6
<1>9. QED
  BY <1>6, <1>7, <1>8 DEF AdminEditPatches

LEMMA AdminEditMoveIsACall ==
  ASSUME TypeInv, PlaceInv, NEW p \in Procs, AdminEditMoves(p)
  PROVE  \E n \in Operations : Calls(p, n)
<1> DEFINE o     == ops[p]
           dest  == o.prop.dest
           moved == [o EXCEPT !.gid = Copy, !.list = dest, !.moved = TRUE]
<1>1. o.kind = "edit" /\ o.at = "patched" /\ UNCHANGED db /\ o.kind \in Touching
  BY DEF AdminEditMoves, At, Touching
<1>2. /\ o \in Operations /\ o.gid \in Gids /\ o.list \in Lists /\ task[o.gid] \in GTasks
      /\ task[o.gid].title # None /\ task[o.gid].list = o.list /\ clock + 1 \in Nat
      /\ o.gid # None /\ o.list # None /\ dest \in Lists /\ dest # None
  <2>1. dest \in Lists /\ dest # None
    BY <1>1, OpTyped DEF OpOK, Operations
  <2>2. QED
    BY <1>1, <2>1, TaskOf DEF TypeInv
<1>3. PICK t \in GTasks : /\ t = IF o.prop.title = None THEN task[o.gid] ELSE Edited(o)
                          /\ t.live = task[o.gid].live /\ t.title # None
  BY <1>1, <1>2, EditIs
<1>4. UNCHANGED used => NoFault /\ used' \in Bounds
  BY DEF NoFault, TypeInv
<1>5. CASE /\ There(o.gid, o.list) /\ Move(o.gid, dest, t, TRUE)
           /\ EditDone(p, moved, t) /\ UNCHANGED used
  <2>1. PICK c \in Gids : c = Copy
    BY <1>5, CopyIsFree DEF Move
  <2>2. MovesTask(o.gid, c, dest, TRUE) /\ task'[c].title = t.title /\ task'[c].notes = t.notes
    BY <1>2, <1>3, <1>5, <2>1, MoveDoes DEF There
  <2>3. PICK now \in Nat : now = clock + 1 /\ now = task'[c].updated
    BY <1>2, <2>2 DEF MovesTask
  <2>4. PICK after : after = [list |-> dest, title |-> t.title, notes |-> t.notes,
                              updated |-> now]
    OBVIOUS
  <2>5. /\ after \in States /\ after.title = t.title /\ after.notes = t.notes
        /\ after.updated = now
    BY <1>2, <1>3, <2>4 DEF States, GTasks
  <2>6. PICK m : m = [o EXCEPT !.gid = c, !.list = dest, !.moved = TRUE]
    OBVIOUS
  <2>7. m.list = dest
    BY <1>2, <2>6 DEF Operations
  <2>8. PICK w : w = [m EXCEPT !.after = after]
    OBVIOUS
  <2>9. /\ w \in Operations /\ w.gid = c /\ w.list = dest /\ w.after = after /\ w.moved = TRUE
        /\ w.kind = "edit" /\ w.began = o.began
    BY <1>1, <1>2, <2>1, <2>5, <2>6, <2>8 DEF Operations
  <2>10. Called(p, w)
    BY <1>5, <2>1, <2>3, <2>4, <2>6, <2>7, <2>8 DEF EditDone
  <2>11. PICK n \in Operations :
           /\ Becomes(p, n) /\ n.at = "called" /\ OpOK(n, Len(revs))
           /\ n.kind = w.kind /\ n.gid = w.gid /\ n.list = w.list /\ n.before = w.before
           /\ n.after = w.after /\ n.moved = w.moved /\ n.began = w.began
    <3>1. w.gid # None /\ w.list # None
      BY <1>2, <2>1, <2>9, GidsAre
    <3>2. QED
      BY <1>1, <2>9, <2>10, <3>1, CalledIs
  <2>12. Places(n) /\ Tells(n.after, task'[n.gid])
    BY <2>2, <2>3, <2>5, <2>9, <2>11 DEF Places, Tells
  <2>13. Calls(p, n)
    BY <1>1, <1>4, <1>5, <2>2, <2>9, <2>11, <2>12 DEF Calls
  <2>14. QED
    BY <2>13
<1>6. CASE /\ There(o.gid, o.list) /\ Fault
           /\ Move(o.gid, dest, task[o.gid], TRUE) /\ EditFailed(p, moved)
  <2>1. PICK c \in Gids : c = Copy
    BY <1>6, CopyIsFree DEF Move
  <2>2. MovesTask(o.gid, c, dest, TRUE)
    BY <1>2, <1>6, <2>1, MoveDoes DEF There
  <2>3. PICK m : m = [o EXCEPT !.gid = c, !.list = dest, !.moved = TRUE]
    OBVIOUS
  <2>a. PICK a \in States : a = Intended(m, m.notes)
    <3>1. m \in Operations
      BY <1>2, <2>1, <2>3 DEF Operations
    <3>2. QED
      BY <3>1, IntendedTyped DEF Operations
  <2>4. PICK w : w = [m EXCEPT !.ok = FALSE, !.after = a]
    OBVIOUS
  <2>5. /\ w \in Operations /\ w.gid = c /\ w.list = dest /\ w.moved = TRUE
        /\ w.kind = "edit" /\ w.began = o.began
    BY <1>1, <1>2, <2>1, <2>3, <2>4 DEF Operations
  <2>6. Called(p, w)
    BY <1>6, <2>a, <2>1, <2>3, <2>4 DEF EditFailed
  <2>7. PICK n \in Operations :
           /\ Becomes(p, n) /\ n.at = "called" /\ OpOK(n, Len(revs))
           /\ n.kind = w.kind /\ n.gid = w.gid /\ n.list = w.list /\ n.before = w.before
           /\ n.after = w.after /\ n.moved = w.moved /\ n.began = w.began
    <3>1. w.gid # None /\ w.list # None
      BY <1>2, <2>1, <2>5, GidsAre
    <3>2. QED
      BY <1>1, <2>5, <2>6, <3>1, CalledIs
  <2>8. Faulty /\ used' \in Bounds /\ ~NoFault
    BY <1>6, FaultIs DEF Faulty, NoFault, TypeInv, Bounds
  <2>9. Places(n)
    BY <2>5, <2>7 DEF Places
  <2>10. Calls(p, n)
    BY <1>1, <2>2, <2>5, <2>7, <2>8, <2>9 DEF Calls
  <2>11. QED
    BY <2>10
<1>7. CASE /\ EditFailed(p, o)
           /\ \/ There(o.gid, o.list) /\ Fault /\ Move(o.gid, dest, task[o.gid], FALSE)
              \/ Untouched /\ Fault
              \/ Untouched /\ ~There(o.gid, o.list) /\ UNCHANGED used
  <2>0. PICK a \in States : a = Intended(o, o.notes)
    BY <1>2, IntendedTyped DEF Operations
  <2>1. PICK w : w = [o EXCEPT !.ok = FALSE, !.after = a]
    OBVIOUS
  <2>2. /\ w \in Operations /\ w.gid = o.gid /\ w.list = o.list
        /\ w.kind = "edit" /\ w.began = o.began
    BY <1>1, <1>2, <2>1 DEF Operations
  <2>3. Called(p, w)
    BY <1>7, <2>0, <2>1 DEF EditFailed
  <2>4. PICK n \in Operations :
           /\ Becomes(p, n) /\ n.at = "called" /\ OpOK(n, Len(revs))
           /\ n.kind = w.kind /\ n.gid = w.gid /\ n.list = w.list /\ n.before = w.before
           /\ n.after = w.after /\ n.moved = w.moved /\ n.began = w.began
    BY <1>1, <1>2, <2>2, <2>3, CalledIs
  <2>5. \/ Fault /\ \E c \in Gids, l \in Lists : MovesTask(o.gid, c, l, FALSE)
        \/ UNCHANGED google
    <3>1. CASE There(o.gid, o.list) /\ Fault /\ Move(o.gid, dest, task[o.gid], FALSE)
      <4>1. PICK c \in Gids : c = Copy
        BY <3>1, CopyIsFree DEF Move
      <4>2. MovesTask(o.gid, c, dest, FALSE)
        BY <1>2, <3>1, <4>1, MoveDoes DEF There
      <4>3. QED
        BY <1>2, <3>1, <4>2
    <3>2. QED
      BY <1>7, <3>1 DEF Untouched
  <2>6. used' \in Bounds /\ (Faulty \/ NoFault) /\ (NoFault => ~task[o.gid].live)
        /\ (Fault => Faulty)
    <3>1. CASE Fault
      BY <3>1, FaultIs DEF Faulty, NoFault, TypeInv, Bounds
    <3>2. CASE ~There(o.gid, o.list) /\ UNCHANGED used /\ ~Fault
      BY <1>2, <1>4, <3>2 DEF There
    <3>3. QED
      BY <1>7, <3>1, <3>2
  <2>7. Calls(p, n)
    BY <1>1, <2>2, <2>4, <2>5, <2>6 DEF Calls
  <2>8. QED
    BY <2>7
<1>8. QED
  BY <1>3, <1>5, <1>6, <1>7 DEF AdminEditMoves

LEMMA RewriteIsACall ==
  ASSUME TypeInv, PlaceInv, NEW p \in Procs, RewriteCalls(p)
  PROVE  \E n \in Operations : Calls(p, n)
<1> DEFINE o == ops[p]
<1>1. o.kind = "rewrite" /\ o.at = "read" /\ UNCHANGED db /\ o.kind \in Touching
  BY DEF RewriteCalls, At, Touching
<1>2. /\ o \in Operations /\ o.gid \in Gids /\ o.list \in Lists /\ task[o.gid] \in GTasks
      /\ task[o.gid].title # None /\ task[o.gid].list = o.list /\ clock + 1 \in Nat
      /\ o.gid # None /\ o.list # None /\ o.prop.title \in Nat
  BY <1>1, TaskOf DEF TypeInv, Operations
<1>3. PICK t \in GTasks : t = Patched(task[o.gid], o.prop.title, <<>>)
                          /\ t.live = task[o.gid].live /\ t.list = o.list /\ t.title # None
  BY <1>2, NoNotes, PatchedTyped
<1>4. UNCHANGED used => NoFault /\ used' \in Bounds
  BY DEF NoFault, TypeInv
<1>5. CASE /\ There(o.gid, o.list) /\ Patch(o.gid, t) /\ UNCHANGED used
           /\ Called(p, [o EXCEPT !.after = [list |-> o.list, title |-> t.title,
                                             notes |-> t.notes, updated |-> clock + 1]])
  <2>1. PICK now \in Nat : now = clock + 1
    BY <1>2
  <2>2. PICK after : after = [list |-> o.list, title |-> t.title, notes |-> t.notes,
                              updated |-> now]
    OBVIOUS
  <2>3. /\ after \in States /\ after.title = t.title /\ after.notes = t.notes
        /\ after.updated = now
    BY <1>2, <1>3, <2>2 DEF States, GTasks
  <2>4. PICK c : c = [o EXCEPT !.after = after]
    OBVIOUS
  <2>5. /\ c \in Operations /\ c.gid = o.gid /\ c.list = o.list /\ c.after = after
        /\ c.kind = "rewrite" /\ c.began = o.began
    BY <1>1, <1>2, <2>3, <2>4 DEF Operations
  <2>6. Called(p, c)
    BY <1>5, <2>1, <2>2, <2>4
  <2>7. PICK n \in Operations :
           /\ Becomes(p, n) /\ n.at = "called" /\ OpOK(n, Len(revs))
           /\ n.kind = c.kind /\ n.gid = c.gid /\ n.list = c.list /\ n.before = c.before
           /\ n.after = c.after /\ n.moved = c.moved /\ n.began = c.began
    BY <1>1, <1>2, <2>5, <2>6, CalledIs
  <2>8. /\ PatchesTask(o.gid) /\ task'[o.gid].title = t.title /\ task'[o.gid].notes = t.notes
    BY <1>2, <1>3, <1>5, PatchDoes DEF There
  <2>9. Tells(n.after, task'[o.gid])
    BY <2>1, <2>3, <2>5, <2>7, <2>8 DEF Tells, PatchesTask
  <2>10. Calls(p, n)
    BY <1>1, <1>4, <1>5, <2>5, <2>7, <2>8, <2>9 DEF Calls
  <2>11. QED
    BY <2>10
<1>6. CASE /\ Untouched
           /\ Called(p, [o EXCEPT !.ok = FALSE, !.after = Intended(o, o.before.notes)])
           /\ Fault \/ (~There(o.gid, o.list) /\ UNCHANGED used)
  <2>0. PICK a \in States : a = Intended(o, o.before.notes)
    BY <1>2, IntendedTyped DEF Operations, States
  <2>1. PICK c : c = [o EXCEPT !.ok = FALSE, !.after = a]
    OBVIOUS
  <2>2. /\ c \in Operations /\ c.gid = o.gid /\ c.list = o.list
        /\ c.kind = "rewrite" /\ c.began = o.began
    BY <1>1, <1>2, <2>1 DEF Operations
  <2>3. Called(p, c)
    BY <1>6, <2>0, <2>1
  <2>4. PICK n \in Operations :
           /\ Becomes(p, n) /\ n.at = "called" /\ OpOK(n, Len(revs))
           /\ n.kind = c.kind /\ n.gid = c.gid /\ n.list = c.list /\ n.before = c.before
           /\ n.after = c.after /\ n.moved = c.moved /\ n.began = c.began
    BY <1>1, <1>2, <2>2, <2>3, CalledIs
  <2>5. used' \in Bounds /\ (Faulty \/ NoFault) /\ (NoFault => ~task[o.gid].live)
    BY <1>2, <1>4, <1>6, FaultIs DEF There, Faulty, NoFault, TypeInv, Bounds
  <2>6. Calls(p, n)
    BY <1>1, <1>6, <2>2, <2>4, <2>5 DEF Calls, Untouched
  <2>7. QED
    BY <2>6
<1>7. QED
  BY <1>3, <1>5, <1>6 DEF RewriteCalls

\* A rollback that fails between its calls ends where it is.
LEMMA RollbackIsACall ==
  ASSUME TypeInv, PlaceInv, NEW p \in Procs, NEW k \in DOMAIN revs, RollbackCalls(p, k)
  PROVE  (\E n \in Operations : Calls(p, n)) \/ Ends(p)
<1> DEFINE o        == ops[p]
           target   == revs[k].before
           dest     == IF target.list = None THEN o.list ELSE target.list
           restored == Patched(task[o.gid], target.title, target.notes)
           done(g)  == Called(p, [o EXCEPT !.gid = g, !.list = dest, !.moved = dest # o.list,
                                !.prop.dest = revs[k].from,
                                !.after = [list |-> dest, title |-> restored.title,
                                           notes |-> restored.notes, updated |-> clock + 1]])
<1>1. o.kind = "rollback" /\ o.at = "read" /\ UNCHANGED db /\ o.kind \in Touching
      /\ task[o.gid].live
  BY DEF RollbackCalls, At, Touching, There
<1>2. /\ o \in Operations /\ o.gid \in Gids /\ o.list \in Lists /\ task[o.gid] \in GTasks
      /\ task[o.gid].title # None /\ task[o.gid].list = o.list /\ clock + 1 \in Nat
      /\ o.gid # None /\ o.list # None
  BY <1>1, TaskOf DEF TypeInv
<1>3. revs[k] \in Revisions /\ target \in States /\ revs[k].from \in Lists \cup {None}
  <2>1. revs[k] \in Revisions
    BY DEF TypeInv
  <2>2. QED
    BY <2>1 DEF Revisions
<1>4. target.title \in Nat /\ target.notes \in Notes /\ target.list \in Lists \cup {None}
  BY <1>3 DEF States
<1>5. PICK d \in Lists : d = dest
  BY <1>2, <1>4
<1>6. PICK t \in GTasks : t = restored /\ t.live = task[o.gid].live /\ t.list = o.list
                          /\ t.title # None
  <2>1. /\ restored \in GTasks /\ restored.live = task[o.gid].live
        /\ restored.list = task[o.gid].list /\ restored.title # None
    BY <1>2, <1>4, PatchedTyped
  <2>2. QED
    BY <1>2, <2>1
<1>7. UNCHANGED used => NoFault /\ used' \in Bounds
  BY DEF NoFault, TypeInv
<1>8. ASSUME NEW g \in Gids, done(g)
      PROVE  \E n \in Operations :
               /\ Becomes(p, n) /\ n.at = "called" /\ OpOK(n, Len(revs))
               /\ n.kind = "rollback" /\ n.gid = g /\ n.list = d /\ n.before = o.before
               /\ n.began = o.began /\ n.moved = (d # o.list)
               /\ n.after.title = t.title /\ n.after.notes = t.notes
               /\ n.after.updated = clock + 1
  <2>1. PICK now \in Nat : now = clock + 1
    BY <1>2
  <2>2. PICK after : after = [list |-> d, title |-> t.title, notes |-> t.notes,
                              updated |-> now]
    OBVIOUS
  <2>3. /\ after \in States /\ after.title = t.title /\ after.notes = t.notes
        /\ after.updated = now
    BY <1>6, <2>2 DEF States, GTasks
  <2>4. PICK moved \in BOOLEAN : moved = (d # o.list)
    OBVIOUS
  <2>5. PICK prop : prop = [o.prop EXCEPT !.dest = revs[k].from]
    OBVIOUS
  <2>6. prop \in [title : Nat, dest : Lists \cup {None}]
    BY <1>2, <1>3, <2>5 DEF Operations
  <2>7. PICK c : c = [o EXCEPT !.gid = g, !.list = d, !.moved = moved, !.prop = prop,
                               !.after = after]
    OBVIOUS
  <2>8. /\ c \in Operations /\ c.gid = g /\ c.list = d /\ c.after = after /\ c.moved = moved
        /\ c.kind = "rollback" /\ c.began = o.began /\ c.before = o.before
    BY <1>1, <1>2, <1>8, <2>3, <2>6, <2>7 DEF Operations
  <2>9. c = [o EXCEPT !.gid = g, !.list = d, !.moved = moved, !.prop.dest = revs[k].from,
                      !.after = after]
    BY <1>2, <2>5, <2>7 DEF Operations
  <2>10. Called(p, c)
    BY <1>5, <1>6, <1>8, <2>1, <2>2, <2>4, <2>9
  <2>11. c.gid # None /\ c.list # None
    BY <1>8, <2>8, GidsAre, EditsAssumption
  <2>12. PICK n \in Operations :
           /\ Becomes(p, n) /\ n.at = "called" /\ OpOK(n, Len(revs))
           /\ n.kind = c.kind /\ n.gid = c.gid /\ n.list = c.list /\ n.before = c.before
           /\ n.after = c.after /\ n.moved = c.moved /\ n.began = c.began
    BY <1>1, <2>8, <2>10, <2>11, CalledIs
  <2>13. QED
    BY <2>1, <2>3, <2>4, <2>8, <2>12
<1>9. CASE dest = o.list /\ Patch(o.gid, restored) /\ done(o.gid) /\ UNCHANGED used
  <2>1. PICK n \in Operations :
               /\ Becomes(p, n) /\ n.at = "called" /\ OpOK(n, Len(revs))
               /\ n.kind = "rollback" /\ n.gid = o.gid /\ n.list = d /\ n.before = o.before
               /\ n.began = o.began /\ n.moved = (d # o.list)
               /\ n.after.title = t.title /\ n.after.notes = t.notes
               /\ n.after.updated = clock + 1
    <3> HIDE DEF done
    <3>1. QED
      BY <1>2, <1>8, <1>9
  <2>2. /\ PatchesTask(o.gid) /\ task'[o.gid].title = t.title /\ task'[o.gid].notes = t.notes
    BY <1>1, <1>2, <1>6, <1>9, PatchDoes
  <2>3. Tells(n.after, task'[o.gid])
    BY <2>1, <2>2 DEF Tells, PatchesTask
  <2>4. Calls(p, n)
    BY <1>1, <1>5, <1>7, <1>9, <2>1, <2>2, <2>3 DEF Calls
  <2>5. QED
    BY <2>4
<1>10. CASE dest # o.list /\ Move(o.gid, dest, restored, TRUE) /\ done(Copy) /\ UNCHANGED used
  <2>1. PICK c \in Gids : c = Copy
    BY <1>10, CopyIsFree DEF Move
  <2>2. PICK n \in Operations :
               /\ Becomes(p, n) /\ n.at = "called" /\ OpOK(n, Len(revs))
               /\ n.kind = "rollback" /\ n.gid = c /\ n.list = d /\ n.before = o.before
               /\ n.began = o.began /\ n.moved = (d # o.list)
               /\ n.after.title = t.title /\ n.after.notes = t.notes
               /\ n.after.updated = clock + 1
    <3> HIDE DEF done
    <3>1. QED
      BY <1>8, <1>10, <2>1
  <2>3. /\ MovesTask(o.gid, c, d, TRUE)
        /\ task'[c].title = t.title /\ task'[c].notes = t.notes
    BY <1>1, <1>2, <1>5, <1>6, <1>10, <2>1, MoveDoes
  <2>4. Tells(n.after, task'[c])
    BY <2>2, <2>3 DEF Tells, MovesTask
  <2>5. Places(n)
    BY <1>5, <1>10, <2>2 DEF Places
  <2>6. Calls(p, n)
    BY <1>1, <1>7, <1>10, <2>2, <2>3, <2>4, <2>5 DEF Calls
  <2>7. QED
    BY <2>6
<1>11. CASE /\ dest # o.list /\ Fault /\ Gone(p)
            /\ \E deleted \in BOOLEAN : Move(o.gid, dest, task[o.gid], deleted)
  <2>1. PICK c \in Gids : c = Copy
    BY <1>11, CopyIsFree DEF Move
  <2>2. PICK deleted \in BOOLEAN : MovesTask(o.gid, c, d, deleted)
    BY <1>1, <1>2, <1>5, <1>11, <2>1, MoveDoes
  <2>3. Becomes(p, NoOp) /\ ops[p] # NoOp
    BY <1>1, <1>11, NoOpTyped DEF Becomes, Gone, NoOp
  <2>4. Ends(p)
    BY <1>1, <1>11, <2>2, <2>3, FaultIs DEF Ends
  <2>5. QED
    BY <2>4
<1>12. QED
  BY <1>9, <1>10, <1>11 DEF RollbackCalls

LEMMA ActionsEnd ==
  ASSUME TypeInv, NEW p \in Procs, Dies(p) \/ ConfirmRefused(p) \/ RollbackRefused(p)
  PROVE  Ends(p)
<1>1. UNCHANGED google /\ UNCHANGED db /\ Becomes(p, NoOp)
  BY NoOpTyped DEF Dies, ConfirmRefused, RollbackRefused, Gone, Becomes
<1>2. CASE Dies(p)
  BY <1>1, <1>2, FaultIs DEF Dies, Ends
<1>3. CASE ConfirmRefused(p) \/ RollbackRefused(p)
  <2>1. ops[p].at = "read" /\ UNCHANGED used
    BY <1>3 DEF ConfirmRefused, RollbackRefused, At
  <2>2. ops[p] # NoOp /\ NoFault /\ used' \in Bounds
    BY <2>1 DEF NoOp, NoFault, TypeInv
  <2>3. QED
    BY <1>1, <2>1, <2>2 DEF Ends
<1>4. QED
  BY <1>2, <1>3

LEMMA RevisionIs ==
  ASSUME NEW o \in Operations, NEW op \in Kinds
  PROVE  LET r == Revision(o, op)
         IN  /\ r \in Revisions /\ r.op = op /\ r.no = o.no /\ r.gid = o.gid /\ r.began = o.began
             /\ r.before = o.before /\ r.after = o.after
<1>1. PICK r : r = Revision(o, op)
  OBVIOUS
<1>2. o.before \in States /\ o.before.list \in Lists \cup {None}
  BY DEF Operations, States
<1>3. QED
  BY <1>1, <1>2 DEF Revision, Revisions, Operations

LEMMA ConfirmCommits ==
  ASSUME TypeInv, NEW p \in Procs, CommitConfirm(p)
  PROVE  \E r \in Revisions : Commits(p, r)
<1> DEFINE o == ops[p]
<1>1. /\ o.kind = "confirm" /\ o.at = "called" /\ UNCHANGED <<google, snapshot, used>>
      /\ record' = [list |-> o.list, gid |-> o.gid, status |-> "applied"]
      /\ session' = [session EXCEPT !.open = FALSE]
  BY DEF CommitConfirm, At
<1>2. o \in Operations /\ o.gid \in Gids /\ o.list \in Lists
  BY <1>1, OpTyped DEF Touching
<1>3. PICK v : v = Revision(o, "confirm")
  OBVIOUS
<1>4. /\ v \in Revisions /\ v.op = "confirm" /\ v.no = o.no /\ v.gid = o.gid
      /\ v.began = o.began /\ v.before = o.before /\ v.after = o.after
  <2>1. "confirm" \in Kinds
    BY DEF Kinds, Touching
  <2>2. QED
    BY <1>2, <1>3, <2>1, RevisionIs
<1>5. PICK b : b = Payload(v.before)
  OBVIOUS
<1>6. PICK a : a = Payload(v.after)
  OBVIOUS
<1>7. /\ a \in States /\ b \in States /\ b.updated = o.before.updated /\ Tells(a, o.after)
  <2>1. v.before \in States /\ v.after \in States
    BY <1>4 DEF Revisions
  <2>2. QED
    BY <1>4, <1>5, <1>6, <2>1 DEF Payload, States, Tells
<1>8. PICK r : r = [v EXCEPT !.before = b, !.after = a]
  OBVIOUS
<1>9. /\ r \in Revisions /\ r.op = "confirm" /\ r.no = o.no /\ r.gid = o.gid
      /\ r.began = o.began /\ r.before = b /\ r.after = a
  BY <1>4, <1>7, <1>8 DEF Revisions
<1>10. revs' = Append(revs, r)
  <2>1. r = [v EXCEPT !.before = Payload(@), !.after = Payload(@)]
    BY <1>4, <1>5, <1>6, <1>8 DEF Revisions
  <2>2. QED
    BY <1>3, <2>1 DEF CommitConfirm
<1>11. Becomes(p, NoOp)
  BY NoOpTyped DEF CommitConfirm, Gone, Becomes
<1>12. session' \in Sessions /\ session'.open = FALSE
  BY <1>1 DEF TypeInv, Sessions
<1>13. record' \in Pointers /\ record'.gid = o.gid /\ record'.list = o.list
  BY <1>1, <1>2 DEF Pointers
<1>14. Commits(p, r)
  BY <1>1, <1>7, <1>9, <1>10, <1>11, <1>12, <1>13 DEF Commits, Deciding, Touching
<1>15. QED
  BY <1>9, <1>14

LEMMA DiscardCommits ==
  ASSUME TypeInv, NEW p \in Procs, CommitDiscard(p)
  PROVE  \E r \in Revisions : Commits(p, r)
<1> DEFINE o == ops[p]
<1>1. /\ o.kind = "discard" /\ o.at = "read" /\ UNCHANGED <<google, snapshot, used>>
      /\ record' = [record EXCEPT !.status = "discarded"]
      /\ session' = [session EXCEPT !.open = FALSE]
      /\ revs' = Append(revs, Revision(o, "discard"))
  BY DEF CommitDiscard, At
<1>2. PICK r : r = Revision(o, "discard")
  OBVIOUS
<1>3. /\ r \in Revisions /\ r.op = "discard" /\ r.no = o.no /\ r.gid = o.gid
      /\ r.began = o.began /\ r.before = o.before /\ r.after = o.after
  <2>1. "discard" \in Kinds
    BY DEF Kinds
  <2>2. QED
    BY <1>2, <2>1, OpTyped, RevisionIs
<1>4. Becomes(p, NoOp)
  BY NoOpTyped DEF CommitDiscard, Gone, Becomes
<1>5. session' \in Sessions /\ session'.open = FALSE
  BY <1>1 DEF TypeInv, Sessions
<1>6. record' \in Pointers /\ record'.gid = record.gid /\ record'.list = record.list
  BY <1>1 DEF TypeInv, Pointers
<1>7. ~Places(o) /\ Tells(r.after, o.after)
  BY <1>1, <1>3 DEF Places, Tells
<1>8. Commits(p, r)
  BY <1>1, <1>2, <1>3, <1>4, <1>5, <1>6, <1>7 DEF Commits, Deciding
<1>9. QED
  BY <1>3, <1>8

\* The admin's commits write the place of the task, or leave the record alone.
LEMMA AdminCommits ==
  ASSUME TypeInv, NEW p \in Procs,
         CommitAdminEdit(p) \/ CommitRewrite(p) \/ CommitRollback(p)
  PROVE  \E r \in Revisions : Commits(p, r)
<1> DEFINE o == ops[p]
<1>1. /\ o.kind \in {"edit", "rewrite", "rollback"} /\ o.at = "called"
      /\ UNCHANGED <<google, session, snapshot, used>>
      /\ revs' = Append(revs, Revision(o, o.kind))
  BY DEF CommitAdminEdit, CommitRewrite, CommitRollback, At
<1>2. \/ record' = record /\ ~Places(o)
      \/ record' = [record EXCEPT !.list = o.list, !.gid = o.gid]
  BY DEF CommitAdminEdit, CommitRewrite, CommitRollback, At, Places
<1>3. o \in Operations /\ o.gid \in Gids /\ o.list \in Lists /\ o.kind \in Touching
  BY <1>1, OpTyped DEF Touching
<1>4. PICK r : r = Revision(o, o.kind)
  OBVIOUS
<1>5. /\ r \in Revisions /\ r.op = o.kind /\ r.no = o.no /\ r.gid = o.gid
      /\ r.began = o.began /\ r.before = o.before /\ r.after = o.after
  <2>1. o.kind \in Kinds
    BY <1>3 DEF Kinds
  <2>2. QED
    BY <1>3, <1>4, <2>1, RevisionIs
<1>6. Becomes(p, NoOp)
  BY NoOpTyped DEF CommitAdminEdit, CommitRewrite, CommitRollback, Gone, Becomes
<1>7. /\ session' \in Sessions /\ o.kind \notin Deciding
      /\ session'.open = (session.open /\ o.kind \notin Deciding)
  BY <1>1 DEF TypeInv, Sessions, Deciding
<1>8. /\ record' \in Pointers
      /\ \/ record'.gid = record.gid /\ record'.list = record.list /\ ~Places(o)
         \/ record'.gid = o.gid /\ record'.list = o.list
  BY <1>2, <1>3 DEF TypeInv, Pointers
<1>9. Tells(r.after, o.after)
  BY <1>5 DEF Tells
<1>10. Commits(p, r)
  BY <1>1, <1>3, <1>4, <1>5, <1>6, <1>7, <1>8, <1>9 DEF Commits
<1>11. QED
  BY <1>5, <1>10

LEMMA ProposalCommits ==
  ASSUME TypeInv, NEW p \in Procs, CommitProposalEdit(p)
  PROVE  Proposes(p)
<1>1. ops[p].kind = "propose" /\ ops[p].prop \in Proposals
  BY OpTyped DEF CommitProposalEdit, At, OpOK
<1>2. session' = [session EXCEPT !.prop = ops[p].prop]
  BY DEF CommitProposalEdit
<1>3. session' \in Sessions /\ session'.open = session.open
  BY <1>1, <1>2 DEF TypeInv, Sessions
<1>4. QED
  BY <1>1, <1>3, NoOpTyped DEF CommitProposalEdit, Proposes, Gone, Becomes

\* Whatever the user does to the notes, they stay what notes can be.
LEMMA NotesStayNotes ==
  ASSUME NEW notes \in Notes
  PROVE  /\ [k \in DOMAIN notes |->
               IF notes[k].kind = "env" THEN Broken(notes[k].v) ELSE notes[k]] \in Notes
         /\ Append(notes, Text(2)) \in Notes
<1>1. notes \in Seq(Segment) /\ Ordered(notes)
  BY DEF Notes
<1>2. PICK n \in Nat : n = Len(notes) /\ DOMAIN notes = 1 .. n
  BY <1>1
<1>3. PICK cut : cut = [k \in 1 .. n |->
                          IF notes[k].kind = "env" THEN Broken(notes[k].v) ELSE notes[k]]
  OBVIOUS
<1>4. \A k \in 1 .. n : cut[k] \in Segment /\ cut[k].kind # "env"
  <2>1. ASSUME NEW k \in 1 .. n
        PROVE  cut[k] \in Segment /\ cut[k].kind # "env"
    <3>1. notes[k] \in Segment
      BY <1>1, <1>2
    <3>2. cut[k] = IF notes[k].kind = "env" THEN Broken(notes[k].v) ELSE notes[k]
      BY <1>3
    <3>3. QED
      BY <3>1, <3>2 DEF Segment, Broken
  <2>2. QED
    BY <2>1
<1>5. cut \in [1 .. n -> Segment]
  BY <1>3, <1>4
<1>6. cut \in Seq(Segment) /\ DOMAIN cut = 1 .. n
  BY <1>2, <1>5, SeqDef
<1>7. cut \in Notes
  BY <1>4, <1>6 DEF Notes, Ordered
<1>8. PICK added \in Segment : added = Text(2) /\ added.kind = "text"
  <2>1. Text(2) \in Segment /\ Text(2).kind = "text"
    BY DEF Text, Segment
  <2>2. QED
    BY <2>1
<1>9. PICK longer : longer = Append(notes, added)
  OBVIOUS
<1>10. /\ longer \in Seq(Segment) /\ DOMAIN longer = 1 .. n + 1 /\ longer[n + 1] = added
       /\ \A k \in 1 .. n : longer[k] = notes[k]
  BY <1>1, <1>2, <1>9, AppendProperties
<1>11. ASSUME NEW j \in 1 .. n + 1, NEW k \in 1 .. n + 1, j < k, longer[j].kind = "env"
       PROVE  longer[k].kind # "start"
  <2>1. CASE k = n + 1
    BY <1>8, <1>10, <2>1
  <2>2. CASE k # n + 1
    BY <1>1, <1>2, <1>10, <1>11, <2>2 DEF Ordered
  <2>3. QED
    BY <2>1, <2>2
<1>12. longer \in Notes
  BY <1>10, <1>11 DEF Notes, Ordered
<1>13. QED
  BY <1>2, <1>3, <1>7, <1>8, <1>9, <1>12

LEMMA UserChangesIt ==
  ASSUME TypeInv, PlaceInv, UserEdits
  PROVE  UserChanges
<1> DEFINE g == record.gid
           t == task[g]
           cut == [k \in DOMAIN t.notes |->
                     IF t.notes[k].kind = "env" THEN Broken(t.notes[k].v) ELSE t.notes[k]]
<1>1. g \in Gids /\ t \in GTasks /\ t.live /\ t.title # None /\ UNCHANGED <<db, ops>>
  BY DEF TypeInv, Pointers, PlaceInv, UserEdits
<1>2. t.notes \in Notes
  BY <1>1 DEF GTasks
<1>3. /\ used' \in Bounds /\ used'.user = used.user + 1 /\ used'.faults = used.faults
  BY DEF UserEdits, TypeInv, Bounds
<1>4. CASE \E title \in Titles \ {t.title} : Patch(g, [t EXCEPT !.title = title])
  <2>1. PICK title \in Titles : Patch(g, [t EXCEPT !.title = title])
    BY <1>4
  <2>2. PICK u : u = [t EXCEPT !.title = title]
    OBVIOUS
  <2>3. title \in Nat /\ title # None
    BY EditsAssumption DEF None
  <2>4. u \in GTasks /\ u.live = t.live /\ u.list = t.list /\ u.title # None
    BY <1>1, <2>2, <2>3 DEF GTasks
  <2>5. PatchesTask(g)
    BY <1>1, <2>1, <2>2, <2>4, PatchDoes
  <2>6. QED
    BY <1>1, <1>3, <2>5 DEF UserChanges
<1>5. ASSUME NEW notes \in Notes, Patch(g, [t EXCEPT !.notes = notes])
      PROVE  UserChanges
  <2>1. PICK u : u = [t EXCEPT !.notes = notes]
    OBVIOUS
  <2>2. u \in GTasks /\ u.live = t.live /\ u.list = t.list /\ u.title # None
    BY <1>1, <2>1 DEF GTasks
  <2>3. PatchesTask(g)
    BY <1>1, <1>5, <2>1, <2>2, PatchDoes
  <2>4. QED
    BY <1>1, <1>3, <2>3 DEF UserChanges
<1>6. CASE Patch(g, [t EXCEPT !.notes = Append(@, Text(2))])
  <2>1. PICK notes \in Notes : notes = Append(t.notes, Text(2))
    BY <1>2, NotesStayNotes
  <2>2. Patch(g, [t EXCEPT !.notes = notes])
    BY <1>1, <1>6, <2>1 DEF GTasks
  <2>3. QED
    BY <1>5, <2>2
<1>7. CASE /\ Parse(t.notes) # NoId
           /\ Patch(g, [t EXCEPT !.notes = [k \in DOMAIN @ |->
                          IF @[k].kind = "env" THEN Broken(@[k].v) ELSE @[k]]])
  <2>1. PICK notes \in Notes : notes = cut
    BY <1>2, <1>7, NotesStayNotes
  <2>2. Patch(g, [t EXCEPT !.notes = notes])
    BY <1>1, <1>7, <2>1 DEF GTasks
  <2>3. QED
    BY <1>5, <2>2
<1>8. QED
  BY <1>4, <1>6, <1>7 DEF UserEdits

LEMMA SyncIs ==
  ASSUME TypeInv, SyncSeesTask
  PROVE  SnapshotChanges
<1>1. record.gid \in Gids
  BY DEF TypeInv, Pointers
<1>2. QED
  BY <1>1, StateTyped DEF SyncSeesTask, SnapshotChanges

LEMMA NextSteps ==
  ASSUME TypeInv, PlaceInv, Next
  PROVE  Steps
<1>1. CASE UserEdits
  BY <1>1, UserChangesIt DEF Steps
<1>2. CASE SyncSeesTask
  BY <1>2, SyncIs DEF Steps
<1>3. ASSUME NEW p \in Procs,
             \/ BeginConfirm(p) \/ BeginDiscard(p) \/ BeginProposalEdit(p)
             \/ BeginAdminEdit(p) \/ BeginRewrite(p) \/ BeginRollback(p)
      PROVE  Steps
  BY <1>3, ActionsBegin DEF Steps
<1>4. ASSUME NEW p \in Procs,
             ConfirmCalls(p) \/ AdminEditPatches(p) \/ AdminEditMoves(p) \/ RewriteCalls(p)
      PROVE  Steps
  <2>1. \E n \in Operations : Calls(p, n)
    BY <1>4, ConfirmIsACall, AdminEditPatchIsACall, AdminEditMoveIsACall, RewriteIsACall
  <2>2. QED
    BY <2>1 DEF Steps
<1>5. ASSUME NEW p \in Procs, NEW k \in DOMAIN revs, RollbackCalls(p, k)
      PROVE  Steps
  <2>1. (\E n \in Operations : Calls(p, n)) \/ Ends(p)
    BY <1>5, RollbackIsACall
  <2>2. QED
    BY <2>1 DEF Steps
<1>6. ASSUME NEW p \in Procs, Dies(p) \/ ConfirmRefused(p) \/ RollbackRefused(p)
      PROVE  Steps
  BY <1>6, ActionsEnd DEF Steps
<1>7. ASSUME NEW p \in Procs,
             \/ CommitConfirm(p) \/ CommitDiscard(p)
             \/ CommitAdminEdit(p) \/ CommitRewrite(p) \/ CommitRollback(p)
      PROVE  Steps
  <2>1. \E r \in Revisions : Commits(p, r)
    BY <1>7, ConfirmCommits, DiscardCommits, AdminCommits
  <2>2. QED
    BY <2>1 DEF Steps
<1>8. ASSUME NEW p \in Procs, CommitProposalEdit(p)
      PROVE  Steps
  BY <1>8, ProposalCommits DEF Steps
<1>9. QED
  BY <1>1, <1>2, <1>3, <1>4, <1>5, <1>6, <1>7, <1>8 DEF Next

------------------------------------------------------------------------------
(* What every step does to Google's tasks and to the operations.           *)

LEMMA OpsAre ==
  ASSUME TypeInv, NEW p \in Procs, NEW n, Becomes(p, n)
  PROVE  /\ ops' \in [Procs -> Operations] /\ n \in Operations /\ ops'[p] = n
         /\ \A q \in Procs \ {p} : ops'[q] = ops[q]
BY DEF TypeInv, Becomes

LEMMA IdleKnowsNothing ==
  /\ NoOp.gid = None /\ NoOp.at = "idle" /\ NoOp.kind = "idle"
  /\ ~Places(NoOp)
BY DEF NoOp, Places

\* One task is patched or moved, or none.
GoogleChanges ==
  \/ UNCHANGED google
  \/ \E g \in Gids : PatchesTask(g) \/ \E c, l, deleted : MovesTask(g, c, l, deleted)

LEMMA StepsOfGoogle ==
  ASSUME TypeInv, Steps
  PROVE  GoogleChanges
<1>1. ASSUME NEW p \in Procs, NEW n \in Operations, Calls(p, n)
      PROVE  GoogleChanges
  <2>1. ops[p].gid \in Gids
    BY <1>1, OpTyped DEF Calls
  <2>2. QED
    BY <1>1, <2>1 DEF Calls, GoogleChanges
<1>2. ASSUME NEW p \in Procs, Ends(p)
      PROVE  GoogleChanges
  <2>1. CASE ops[p].kind = "rollback"
    <3>1. ops[p].gid \in Gids
      BY <2>1, OpTyped DEF Touching
    <3>2. QED
      BY <1>2, <3>1 DEF Ends, GoogleChanges
  <2>2. CASE ops[p].kind # "rollback"
    BY <1>2, <2>2 DEF Ends, GoogleChanges
  <2>3. QED
    BY <2>1, <2>2
<1>3. CASE UserChanges
  BY <1>3 DEF UserChanges, TypeInv, Pointers, GoogleChanges
<1>4. CASE UNCHANGED google
  BY <1>4 DEF GoogleChanges
<1>5. QED
  BY <1>1, <1>2, <1>3, <1>4 DEF Steps, Begins, Commits, Proposes, SnapshotChanges, google

\* Time goes on, and a task stays where it is for as long as it exists.
LEMMA GoogleSteps ==
  ASSUME TypeInv, Steps
  PROVE  /\ task' \in [Gids -> GTasks] /\ clock' \in Nat /\ clock <= clock'
         /\ \A g \in Gids : task'[g].updated <= clock'
         /\ \A g \in Gids : task[g].title # None =>
              /\ task'[g].list = task[g].list /\ task'[g].title # None
              /\ task[g].updated <= task'[g].updated
<1>1. task \in [Gids -> GTasks] /\ clock \in Nat /\ \A g \in Gids : task[g].updated <= clock
  BY DEF TypeInv
<1>2. \A g \in Gids : task[g].updated \in Nat
  BY <1>1 DEF GTasks
<1>3. ASSUME NEW g \in Gids, PatchesTask(g)
      PROVE  /\ task' \in [Gids -> GTasks] /\ clock' \in Nat /\ clock <= clock'
             /\ \A h \in Gids : task'[h].updated <= clock'
             /\ \A h \in Gids : task[h].title # None =>
                  /\ task'[h].list = task[h].list /\ task'[h].title # None
                  /\ task[h].updated <= task'[h].updated
  BY <1>1, <1>2, <1>3 DEF PatchesTask
<1>4. ASSUME NEW g \in Gids, NEW c, NEW l, NEW deleted, MovesTask(g, c, l, deleted)
      PROVE  /\ task' \in [Gids -> GTasks] /\ clock' \in Nat /\ clock <= clock'
             /\ \A h \in Gids : task'[h].updated <= clock'
             /\ \A h \in Gids : task[h].title # None =>
                  /\ task'[h].list = task[h].list /\ task'[h].title # None
                  /\ task[h].updated <= task'[h].updated
  <2>1. task'[g].updated = task[g].updated /\ task'[g].list = task[g].list
        /\ task'[g].title = task[g].title
    BY <1>1, <1>4 DEF MovesTask, GTasks
  <2>2. /\ task' \in [Gids -> GTasks] /\ clock' = clock + 1 /\ c \in Gids
        /\ task[c].title = None /\ task'[c].updated = clock + 1
        /\ \A h \in Gids \ {g, c} : task'[h] = task[h]
    BY <1>4 DEF MovesTask
  <2>3. \A h \in Gids : task'[h].updated <= clock + 1
    BY <1>1, <1>2, <2>1, <2>2
  <2>4. QED
    BY <1>1, <1>2, <2>1, <2>2, <2>3
<1>5. CASE UNCHANGED google
  BY <1>1, <1>2, <1>5 DEF google
<1>6. QED
  BY <1>3, <1>4, <1>5, StepsOfGoogle DEF GoogleChanges

LEMMA TypeStep ==
  ASSUME TypeInv, Steps
  PROVE  TypeInv'
<1> PICK m \in Nat : m = Len(revs) /\ m >= 1 /\ DOMAIN revs = 1 .. m
  BY DEF TypeInv
<1>1. /\ task' \in [Gids -> GTasks] /\ clock' \in Nat
      /\ \A g \in Gids : task'[g].updated <= clock'
  BY GoogleSteps
<1>2. /\ \A q \in Procs : OpOK(ops[q], m) /\ OpOK(ops[q], m + 1)
      /\ OpOK(NoOp, m) /\ OpOK(NoOp, m + 1)
  <2>1. ASSUME NEW q \in Procs
        PROVE  OpOK(ops[q], m) /\ OpOK(ops[q], m + 1)
    <3>1. ops[q] \in Operations /\ OpOK(ops[q], m)
      BY OpTyped
    <3>2. ops[q].no \in Nat /\ ops[q].began \in Nat
      BY <3>1 DEF Operations
    <3>3. QED
      BY <3>1, <3>2 DEF OpOK
  <2>2. QED
    BY <2>1, NoOpTyped
<1>3. ASSUME UNCHANGED db, used' \in Bounds, NEW p \in Procs, NEW n, Becomes(p, n), OpOK(n, m)
      PROVE  TypeInv'
  <2>1. /\ record' \in Pointers /\ session' \in Sessions /\ snapshot' \in States
        /\ revs' \in Seq(Revisions) /\ Len(revs') = m /\ revs' = revs
    BY <1>3 DEF TypeInv, db
  <2>2. \A k \in DOMAIN revs' : revs'[k].no \in 1 .. k
    BY <2>1 DEF TypeInv
  <2>3. ops' \in [Procs -> Operations] /\ \A q \in Procs : OpOK(ops'[q], m)
    BY <1>2, <1>3, OpsAre
  <2>4. QED
    BY <1>1, <1>3, <2>1, <2>2, <2>3 DEF TypeInv
<1>4. ASSUME NEW p \in Procs, NEW n \in Operations, Begins(p, n) \/ Calls(p, n)
      PROVE  TypeInv'
  BY <1>3, <1>4 DEF Begins, Calls
<1>5. ASSUME NEW p \in Procs, Ends(p)
      PROVE  TypeInv'
  BY <1>2, <1>3, <1>5 DEF Ends
<1>6. ASSUME NEW p \in Procs, NEW r \in Revisions, Commits(p, r)
      PROVE  TypeInv'
  <2>1. /\ record' \in Pointers /\ session' \in Sessions /\ snapshot' \in States
        /\ used' \in Bounds
    BY <1>6 DEF TypeInv, Commits
  <2>2. /\ revs' \in Seq(Revisions) /\ Len(revs') = m + 1 /\ DOMAIN revs' = 1 .. m + 1
        /\ revs'[m + 1] = r /\ \A k \in 1 .. m : revs'[k] = revs[k]
    BY <1>6, AppendProperties DEF Commits, TypeInv
  <2>3. r.no \in 1 .. m + 1
    <3>1. ops[p] \in Operations /\ OpOK(ops[p], m) /\ r.no = ops[p].no
      BY <1>6, OpTyped DEF Commits
    <3>2. ops[p].at = "called" \/ ops[p].kind = "discard"
      BY <1>6 DEF Commits
    <3>3. QED
      BY <3>1, <3>2 DEF OpOK, Operations
  <2>4. \A k \in DOMAIN revs' : revs'[k].no \in 1 .. k
    BY <2>2, <2>3 DEF TypeInv
  <2>5. ops' \in [Procs -> Operations] /\ \A q \in Procs : OpOK(ops'[q], m + 1)
    BY <1>2, <1>6, OpsAre DEF Commits
  <2>6. QED
    BY <1>1, <2>1, <2>2, <2>4, <2>5 DEF TypeInv
<1>7. ASSUME NEW p \in Procs, Proposes(p)
      PROVE  TypeInv'
  <2>1. /\ record' \in Pointers /\ session' \in Sessions /\ snapshot' \in States
        /\ revs' = revs /\ used' \in Bounds
    BY <1>7 DEF TypeInv, Proposes
  <2>2. ops' \in [Procs -> Operations] /\ \A q \in Procs : OpOK(ops'[q], m)
    BY <1>2, <1>7, OpsAre DEF Proposes
  <2>3. QED
    BY <1>1, <2>1, <2>2 DEF TypeInv
<1>8. CASE UserChanges
  BY <1>1, <1>8 DEF TypeInv, UserChanges, db
<1>9. CASE SnapshotChanges
  BY <1>1, <1>9 DEF TypeInv, SnapshotChanges
<1>10. QED
  BY <1>4, <1>5, <1>6, <1>7, <1>8, <1>9 DEF Steps

------------------------------------------------------------------------------
(* Where the tasks are, and which of them live.                            *)

LEMMA CopyIsUnknown ==
  ASSUME TypeInv, PlaceInv, NEW c \in Gids, task[c].title = None
  PROVE  c \notin Known
BY GidsAre DEF PlaceInv, Known

LEMMA PlaceStep ==
  ASSUME TypeInv, PlaceInv, Steps
  PROVE  PlaceInv'
<1>1. \A g \in Gids : task[g].title # None =>
        task'[g].list = task[g].list /\ task'[g].title # None
  BY GoogleSteps
<1>2. /\ record.gid \in Gids /\ record.list \in Lists
      /\ task[record.gid].list = record.list /\ task[record.gid].title # None
  BY DEF TypeInv, Pointers, PlaceInv
<1>3. \A q \in Procs : ops[q].gid # None =>
        /\ ops[q].gid \in Gids
        /\ task[ops[q].gid].list = ops[q].list /\ task[ops[q].gid].title # None
  <2>1. ASSUME NEW q \in Procs, ops[q].gid # None
        PROVE  ops[q].gid \in Gids
    BY <2>1, OpTyped DEF Operations
  <2>2. QED
    BY <2>1 DEF PlaceInv
<1>4. ASSUME UNCHANGED db, NEW p \in Procs, NEW n, Becomes(p, n),
             n.gid # None => task'[n.gid].list = n.list /\ task'[n.gid].title # None
      PROVE  PlaceInv'
  <2>1. record' = record
    BY <1>4 DEF db
  <2>2. \A q \in Procs : ops'[q].gid # None =>
          task'[ops'[q].gid].list = ops'[q].list /\ task'[ops'[q].gid].title # None
    BY <1>1, <1>3, <1>4, OpsAre
  <2>3. QED
    BY <1>1, <1>2, <2>1, <2>2 DEF PlaceInv
<1>5. ASSUME NEW p \in Procs, NEW n \in Operations, Begins(p, n)
      PROVE  PlaceInv'
  <2>1. n.gid # None => n.gid = record.gid /\ n.list = record.list
    BY <1>5 DEF Begins, OpOK
  <2>2. QED
    BY <1>1, <1>2, <1>4, <1>5, <2>1 DEF Begins
<1>6. ASSUME NEW p \in Procs, NEW n \in Operations, Calls(p, n)
      PROVE  PlaceInv'
  <2>1. ops[p].gid # None
    BY <1>6, OpTyped, GidsAre DEF Calls
  <2>2. \/ n.gid = ops[p].gid /\ n.list = ops[p].list
        \/ task'[n.gid].list = n.list /\ task'[n.gid].title # None
    BY <1>6 DEF Calls, MovesTask
  <2>3. QED
    BY <1>1, <1>3, <1>4, <1>6, <2>1, <2>2 DEF Calls
<1>7. ASSUME NEW p \in Procs, Ends(p)
      PROVE  PlaceInv'
  BY <1>4, <1>7, IdleKnowsNothing DEF Ends
<1>8. ASSUME NEW p \in Procs, Becomes(p, NoOp),
             \/ record'.gid = record.gid /\ record'.list = record.list
             \/ record'.gid = ops[p].gid /\ record'.list = ops[p].list /\ ops[p].gid # None
      PROVE  PlaceInv'
  <2>1. task'[record'.gid].list = record'.list /\ task'[record'.gid].title # None
    BY <1>1, <1>2, <1>3, <1>8
  <2>2. \A q \in Procs : ops'[q].gid # None =>
          task'[ops'[q].gid].list = ops'[q].list /\ task'[ops'[q].gid].title # None
    BY <1>1, <1>3, <1>8, OpsAre, IdleKnowsNothing
  <2>3. QED
    BY <2>1, <2>2 DEF PlaceInv
<1>9. ASSUME NEW p \in Procs, NEW r \in Revisions, Commits(p, r)
      PROVE  PlaceInv'
  <2>1. ops[p].kind \in Touching => ops[p].gid # None
    BY OpTyped, GidsAre
  <2>2. QED
    BY <1>8, <1>9, <2>1 DEF Commits
<1>10. ASSUME NEW p \in Procs, Proposes(p)
       PROVE  PlaceInv'
  BY <1>8, <1>10 DEF Proposes
<1>11. CASE UserChanges \/ SnapshotChanges
  <2>1. record' = record /\ ops' = ops
    BY <1>11 DEF UserChanges, SnapshotChanges, db
  <2>2. QED
    BY <1>1, <1>2, <1>3, <2>1 DEF PlaceInv
<1>12. QED
  BY <1>5, <1>6, <1>7, <1>9, <1>10, <1>11 DEF Steps

\* A task lives, and of those that are known none comes to life.
LEMMA KnownLives ==
  ASSUME TypeInv, PlaceInv, LiveInv, GoogleChanges
  PROVE  /\ \A g \in Known \cap Gids : task'[g].live => task[g].live
         /\ \E g \in Gids : task'[g].live
<1>1. CASE UNCHANGED google
  BY <1>1 DEF google, LiveInv
<1>2. ASSUME NEW g \in Gids, PatchesTask(g)
      PROVE  /\ \A h \in Known \cap Gids : task'[h].live => task[h].live
             /\ \E h \in Gids : task'[h].live
  BY <1>2 DEF PatchesTask
<1>3. ASSUME NEW g \in Gids, NEW c, NEW l, NEW deleted, MovesTask(g, c, l, deleted)
      PROVE  /\ \A h \in Known \cap Gids : task'[h].live => task[h].live
             /\ \E h \in Gids : task'[h].live
  <2>1. c \in Gids /\ task[c].title = None
    BY <1>3 DEF MovesTask
  <2>2. c \notin Known
    BY <2>1, CopyIsUnknown
  <2>3. QED
    BY <1>3, <2>1, <2>2 DEF MovesTask
<1>4. QED
  BY <1>1, <1>2, <1>3 DEF GoogleChanges

\* The task that lives among the known ones is never older than the one before.
Succeeds ==
  \A g \in Known' \cap Gids : task'[g].live =>
    \E h \in Known \cap Gids : task[h].live /\ task[h].updated <= task'[g].updated

LEMMA LiveStep ==
  ASSUME TypeInv, PlaceInv, LiveInv, Steps
  PROVE  LiveInv' /\ Succeeds
<1> DEFINE Fewer == Known' \cap Gids \subseteq Known
<1>1. /\ \A g \in Known \cap Gids : task'[g].live => task[g].live
      /\ \E g \in Gids : task'[g].live
  BY StepsOfGoogle, KnownLives
<1>2. \A g \in Known \cap Gids : task[g].updated <= task'[g].updated
  <2>1. \A g \in Known \cap Gids : task[g].title # None
    BY GidsAre DEF Known, PlaceInv
  <2>2. QED
    BY <2>1, GoogleSteps
<1>3. ASSUME Fewer
      PROVE  LiveInv' /\ Succeeds
  <2>1. \A g \in Known' \cap Gids : task'[g].live => g \in Known \cap Gids /\ task[g].live
    BY <1>1, <1>3
  <2>2. Succeeds
    BY <1>2, <2>1 DEF Succeeds
  <2>3. \A g, h \in Known' \cap Gids : task'[g].live /\ task'[h].live => g = h
    BY <2>1 DEF LiveInv
  <2>4. QED
    BY <1>1, <2>2, <2>3 DEF LiveInv
<1>4. ASSUME NEW p \in Procs, NEW n, Becomes(p, n), record' = record
      PROVE  \A g \in Known' \cap Gids : g \in Known \/ g = n.gid
  BY <1>4, OpsAre DEF Known
<1>5. ASSUME NEW p \in Procs, Becomes(p, NoOp),
             record' = record \/ record'.gid \in {record.gid, ops[p].gid}
      PROVE  Fewer
  <2>1. ASSUME NEW q \in Procs, ops'[q].gid \in Gids
        PROVE  ops'[q].gid \in Known
    BY <1>5, <2>1, OpsAre, IdleKnowsNothing, GidsAre DEF Known
  <2>2. record'.gid \in Known
    BY <1>5 DEF Known
  <2>3. QED
    BY <2>1, <2>2 DEF Known
<1>6. ASSUME NEW p \in Procs, NEW n \in Operations, Begins(p, n)
      PROVE  Fewer
  <2>1. n.gid \in Gids => n.gid = record.gid
    BY <1>6, GidsAre DEF Begins, OpOK
  <2>2. record' = record /\ Becomes(p, n)
    BY <1>6 DEF Begins, db
  <2>3. record.gid \in Known
    BY DEF Known
  <2>4. QED
    BY <1>4, <2>1, <2>2, <2>3
<1>7. ASSUME NEW p \in Procs, NEW n \in Operations, Calls(p, n)
      PROVE  LiveInv' /\ Succeeds
  <2>1. record' = record /\ Becomes(p, n) /\ ops[p].gid \in Known /\ ops[p].gid \in Gids
    BY <1>7, OpTyped DEF Calls, db, Known
  <2>2. CASE n.gid = ops[p].gid
    BY <1>3, <1>4, <2>1, <2>2
  <2>3. CASE MovesTask(ops[p].gid, n.gid, n.list, TRUE)
    <3> DEFINE g == ops[p].gid
    <3>1. /\ n.gid \in Gids /\ n.gid # g /\ task[g].live /\ ~task'[g].live
          /\ task[n.gid].title = None /\ task'[n.gid].updated = clock + 1
      <4>1. task[g] \in GTasks /\ task'[g] = [task[g] EXCEPT !.live = ~TRUE]
        BY <2>1, <2>3 DEF MovesTask, TypeInv
      <4>2. ~task'[g].live
        BY <4>1 DEF GTasks
      <4>3. QED
        BY <2>3, <4>2 DEF MovesTask
    <3>2. \A h \in Known' \cap Gids : task'[h].live => h = n.gid
      <4>1. \A h \in Known' \cap Gids : h \in Known \/ h = n.gid
        BY <1>4, <2>1
      <4>2. ASSUME NEW h \in Known \cap Gids, task'[h].live
            PROVE  FALSE
        <5>1. task[h].live
          BY <1>1, <4>2
        <5>2. h = g
          BY <2>1, <3>1, <5>1 DEF LiveInv
        <5>3. QED
          BY <3>1, <4>2, <5>2
      <4>3. QED
        BY <4>1, <4>2
    <3>3. task[g].updated <= clock + 1
      BY <2>1 DEF TypeInv, GTasks
    <3>4. Succeeds
      BY <2>1, <3>1, <3>2, <3>3 DEF Succeeds
    <3>5. QED
      BY <1>1, <3>2, <3>4 DEF LiveInv
  <2>4. QED
    BY <1>7, <2>2, <2>3 DEF Calls
<1>8. ASSUME NEW p \in Procs, Ends(p) \/ Proposes(p)
      PROVE  Fewer
  BY <1>5, <1>8 DEF Ends, Proposes, db
<1>9. ASSUME NEW p \in Procs, NEW r \in Revisions, Commits(p, r)
      PROVE  Fewer
  BY <1>5, <1>9 DEF Commits
<1>10. CASE UserChanges \/ SnapshotChanges
  <2>1. record' = record /\ ops' = ops
    BY <1>10 DEF UserChanges, SnapshotChanges, db
  <2>2. Fewer
    BY <2>1 DEF Known
  <2>3. QED
    BY <1>3, <2>2
<1>11. QED
  BY <1>3, <1>6, <1>7, <1>8, <1>9, <1>10 DEF Steps

------------------------------------------------------------------------------
(* Rollbacks.                                                              *)

LEMMA TimesTyped ==
  ASSUME TypeInv
  PROVE  /\ \A k \in DOMAIN revs : revs[k].after.updated \in Nat /\ revs[k].before.updated \in Nat
         /\ \A q \in Procs : ops[q].after.updated \in Nat /\ ops[q].before.updated \in Nat
         /\ \A g \in Gids : task[g].updated \in Nat
<1>1. ASSUME NEW k \in DOMAIN revs
      PROVE  revs[k].after.updated \in Nat /\ revs[k].before.updated \in Nat
  <2>1. revs[k] \in Revisions
    BY DEF TypeInv
  <2>2. revs[k].after \in States /\ revs[k].before \in States
    BY <2>1 DEF Revisions
  <2>3. QED
    BY <2>2 DEF States
<1>2. ASSUME NEW q \in Procs
      PROVE  ops[q].after.updated \in Nat /\ ops[q].before.updated \in Nat
  <2>1. ops[q].after \in States /\ ops[q].before \in States
    BY OpTyped DEF Operations
  <2>2. QED
    BY <2>1 DEF States
<1>3. \A g \in Gids : task[g].updated \in Nat
  BY DEF TypeInv, GTasks
<1>4. QED
  BY <1>1, <1>2, <1>3

\* A commit adds one revision.
LEMMA Appended ==
  ASSUME TypeInv, NEW r \in Revisions, revs' = Append(revs, r)
  PROVE  \E m \in Nat :
           /\ m = Len(revs) /\ DOMAIN revs = 1 .. m
           /\ Len(revs') = m + 1 /\ DOMAIN revs' = 1 .. m + 1 /\ revs'[m + 1] = r
           /\ \A k \in 1 .. m : revs'[k] = revs[k]
<1>1. revs \in Seq(Revisions)
  BY DEF TypeInv
<1>2. PICK m \in Nat : m = Len(revs) /\ DOMAIN revs = 1 .. m
  BY <1>1
<1>3. /\ Len(revs') = m + 1 /\ DOMAIN revs' = 1 .. m + 1 /\ revs'[m + 1] = r
      /\ \A k \in 1 .. m : revs'[k] = revs[k]
  BY <1>1, <1>2, AppendProperties
<1>4. QED
  BY <1>2, <1>3

LEMMA RollStep ==
  ASSUME TypeInv, PlaceInv, LiveInv, RollInv, Steps
  PROVE  RollInv'
<1>1. LiveInv' /\ Succeeds /\ TypeInv'
  BY LiveStep, TypeStep
<1>2. /\ \A k \in DOMAIN revs : revs[k].after.updated \in Nat
      /\ \A q \in Procs : ops[q].after.updated \in Nat
      /\ \A g \in Gids : task[g].updated \in Nat /\ task'[g].updated \in Nat
  <2>1. \A g \in Gids : task'[g].updated \in Nat
    BY <1>1 DEF TypeInv, GTasks
  <2>2. QED
    BY <2>1, TimesTyped
<1>3. \A g \in Known' \cap Gids : task'[g].live =>
        /\ \A k \in Rollbacks : revs[k].after.updated <= task'[g].updated
        /\ \A q \in Procs : RollingBack(q) /\ ops[q].at = "called" =>
             ops[q].after.updated <= task'[g].updated
  <2>1. ASSUME NEW g \in Known' \cap Gids, task'[g].live
        PROVE  /\ \A k \in Rollbacks : revs[k].after.updated <= task'[g].updated
               /\ \A q \in Procs : RollingBack(q) /\ ops[q].at = "called" =>
                    ops[q].after.updated <= task'[g].updated
    <3>1. PICK h \in Known \cap Gids : task[h].live /\ task[h].updated <= task'[g].updated
      BY <1>1, <2>1 DEF Succeeds
    <3>2. /\ \A k \in Rollbacks : revs[k].after.updated <= task[h].updated
          /\ \A q \in Procs : RollingBack(q) /\ ops[q].at = "called" =>
               ops[q].after.updated <= task[h].updated
      BY <3>1 DEF RollInv
    <3>3. \A k \in Rollbacks : k \in DOMAIN revs
      BY DEF Rollbacks
    <3>4. QED
      BY <1>2, <3>1, <3>2, <3>3
  <2>2. QED
    BY <2>1
<1>4. ASSUME revs' = revs, NEW p \in Procs, NEW n, Becomes(p, n),
             n.kind = "rollback" =>
               /\ \A q \in Procs \ {p} : ~RollingBack(q)
               /\ \A k \in Rollbacks : revs[k].after.updated <= n.before.updated
               /\ n.at = "called" => \A g \in Known' \cap Gids :
                                       task'[g].live => n.after.updated <= task'[g].updated
      PROVE  RollInv'
  <2>1. Rollbacks' = Rollbacks
    BY <1>4 DEF Rollbacks
  <2>2. ops'[p] = n /\ \A q \in Procs \ {p} : ops'[q] = ops[q]
    BY <1>4, OpsAre
  <2>3. \A q, s \in Procs : ops'[q].kind = "rollback" /\ ops'[s].kind = "rollback" => q = s
    BY <1>4, <2>2 DEF RollInv, RollingBack
  <2>4. \A q \in Procs : ops'[q].kind = "rollback" =>
          \A k \in Rollbacks : revs[k].after.updated <= ops'[q].before.updated
    BY <1>4, <2>2 DEF RollInv, RollingBack
  <2>5. \A g \in Known' \cap Gids : task'[g].live =>
          /\ \A k \in Rollbacks : revs[k].after.updated <= task'[g].updated
          /\ \A q \in Procs : ops'[q].kind = "rollback" /\ ops'[q].at = "called" =>
               ops'[q].after.updated <= task'[g].updated
    BY <1>3, <1>4, <2>2 DEF RollingBack
  <2>6. QED
    BY <1>4, <2>1, <2>3, <2>4, <2>5 DEF RollInv, RollingBack
<1>5. ASSUME NEW p \in Procs, NEW n \in Operations, Begins(p, n)
      PROVE  RollInv'
  <2>1. revs' = revs /\ Becomes(p, n) /\ n.at = "read"
    BY <1>5 DEF Begins, db
  <2>2. ASSUME n.kind = "rollback"
        PROVE  /\ \A q \in Procs \ {p} : ~RollingBack(q)
               /\ \A k \in Rollbacks : revs[k].after.updated <= n.before.updated
    <3>1. LockFree /\ task[record.gid].live /\ n.before.updated = task[record.gid].updated
      BY <1>5, <2>2 DEF Begins
    <3>2. record.gid \in Known \cap Gids
      BY DEF Known, TypeInv, Pointers
    <3>3. QED
      BY <3>1, <3>2 DEF LockFree, RollInv
  <2>3. QED
    BY <1>4, <2>1, <2>2
<1>6. ASSUME NEW p \in Procs, NEW n \in Operations, Calls(p, n)
      PROVE  RollInv'
  <2>1. revs' = revs /\ Becomes(p, n) /\ n.kind = ops[p].kind
    BY <1>6 DEF Calls, db
  <2>2. ASSUME n.kind = "rollback"
        PROVE  /\ \A q \in Procs \ {p} : ~RollingBack(q)
               /\ \A k \in Rollbacks : revs[k].after.updated <= n.before.updated
    <3>1. RollingBack(p) /\ n.before = ops[p].before
      BY <1>6, <2>1, <2>2 DEF RollingBack, Calls
    <3>2. QED
      BY <3>1 DEF RollInv
  <2>3. ASSUME n.kind = "rollback", NEW g \in Known' \cap Gids, task'[g].live
        PROVE  n.after.updated <= task'[g].updated
    <3>1. n.at = "called" /\ NoFault /\ ~Faulty
      BY <1>6, <2>3 DEF Calls, NoFault, Faulty, TypeInv, Bounds
    <3>2. task'[n.gid].live /\ Tells(n.after, task'[n.gid]) /\ n.gid \in Gids
      <4>1. ops[p].gid \in Gids
        BY <1>6, OpTyped DEF Calls
      <4>2. QED
        BY <1>6, <2>3, <3>1, <4>1 DEF Calls, PatchesTask, MovesTask
    <3>3. n.gid \in Known' \cap Gids
      BY <2>1, <3>2, OpsAre DEF Known
    <3>4. g = n.gid
      BY <1>1, <2>3, <3>2, <3>3 DEF LiveInv
    <3>5. QED
      BY <1>2, <3>2, <3>4 DEF Tells
  <2>4. QED
    BY <1>4, <2>1, <2>2, <2>3
<1>7. ASSUME NEW p \in Procs, Ends(p) \/ Proposes(p)
      PROVE  RollInv'
  <2>1. revs' = revs /\ Becomes(p, NoOp)
    BY <1>7 DEF Ends, Proposes, db
  <2>2. QED
    BY <1>4, <2>1, IdleKnowsNothing
<1>8. ASSUME NEW p \in Procs, NEW r \in Revisions, Commits(p, r)
      PROVE  RollInv'
  <2>1. PICK m \in Nat : /\ m = Len(revs) /\ DOMAIN revs = 1 .. m
                         /\ DOMAIN revs' = 1 .. m + 1 /\ revs'[m + 1] = r
                         /\ \A k \in 1 .. m : revs'[k] = revs[k]
    BY <1>8, Appended DEF Commits
  <2>2. ops'[p] = NoOp /\ \A q \in Procs \ {p} : ops'[q] = ops[q]
    BY <1>8, OpsAre DEF Commits
  <2>3. \A k \in Rollbacks' : \/ k \in Rollbacks /\ revs'[k] = revs[k]
                              \/ k = m + 1 /\ r.op = "rollback"
    BY <2>1 DEF Rollbacks
  <2>4. r.op = "rollback" => /\ RollingBack(p) /\ ops[p].at = "called"
                             /\ r.after.updated = ops[p].after.updated
    BY <1>8 DEF Commits, RollingBack, Tells
  <2>5. \A q \in Procs : ops'[q].kind = "rollback" => q # p /\ RollingBack(q)
    BY <2>2, IdleKnowsNothing DEF RollingBack
  <2>6. \A q, s \in Procs : ops'[q].kind = "rollback" /\ ops'[s].kind = "rollback" => q = s
    BY <2>5 DEF RollInv
  <2>7. \A q \in Procs : ops'[q].kind = "rollback" =>
          \A k \in Rollbacks' : revs'[k].after.updated <= ops'[q].before.updated
    BY <2>2, <2>3, <2>4, <2>5 DEF RollInv
  <2>8. \A g \in Known' \cap Gids : task'[g].live =>
          /\ \A k \in Rollbacks' : revs'[k].after.updated <= task'[g].updated
          /\ \A q \in Procs : ops'[q].kind = "rollback" /\ ops'[q].at = "called" =>
               ops'[q].after.updated <= task'[g].updated
    BY <1>3, <2>1, <2>2, <2>3, <2>4, <2>5
  <2>9. QED
    BY <2>6, <2>7, <2>8 DEF RollInv, RollingBack
<1>9. CASE UserChanges \/ SnapshotChanges
  <2>1. revs' = revs /\ ops' = ops
    BY <1>9 DEF UserChanges, SnapshotChanges, db
  <2>2. Rollbacks' = Rollbacks
    BY <2>1 DEF Rollbacks
  <2>3. QED
    BY <1>3, <2>1, <2>2 DEF RollInv, RollingBack
<1>10. QED
  BY <1>5, <1>6, <1>7, <1>8, <1>9 DEF Steps

------------------------------------------------------------------------------
(* Decisions, forms, and what the revisions say of the past.               *)

\* What the revisions say of each other.
HistoryInv == RollbacksAreSerial /\ SecondDecisionOverlaps

LEMMA DecisionStep ==
  ASSUME TypeInv, DecisionInv, Steps
  PROVE  DecisionInv'
<1>1. ASSUME revs' = revs, NEW p \in Procs, NEW n, Becomes(p, n),
             session'.open = session.open,
             n.kind \in Deciding => \/ session.open
                                    \/ n.kind = ops[p].kind /\ n.began = ops[p].began
      PROVE  DecisionInv'
  <2>1. Decisions' = Decisions
    BY <1>1 DEF Decisions
  <2>2. ops'[p] = n /\ \A q \in Procs \ {p} : ops'[q] = ops[q]
    BY <1>1, OpsAre
  <2>3. \A k \in Decisions : \A q \in Procs : ops'[q].kind \in Deciding => ops'[q].began < k
    BY <1>1, <2>2 DEF DecisionInv
  <2>4. QED
    BY <1>1, <2>1, <2>3 DEF DecisionInv
<1>2. ASSUME NEW p \in Procs, NEW n \in Operations, Begins(p, n) \/ Calls(p, n)
      PROVE  DecisionInv'
  BY <1>1, <1>2 DEF Begins, Calls, db
<1>3. ASSUME NEW p \in Procs, Ends(p) \/ Proposes(p)
      PROVE  DecisionInv'
  <2>1. NoOp.kind \notin Deciding
    BY IdleKnowsNothing DEF Deciding
  <2>2. revs' = revs /\ Becomes(p, NoOp) /\ session'.open = session.open
    BY <1>3 DEF Ends, Proposes, db
  <2>3. QED
    BY <1>1, <2>1, <2>2
<1>4. ASSUME NEW p \in Procs, NEW r \in Revisions, Commits(p, r)
      PROVE  DecisionInv'
  <2>1. PICK m \in Nat : /\ m = Len(revs) /\ DOMAIN revs = 1 .. m
                         /\ DOMAIN revs' = 1 .. m + 1 /\ revs'[m + 1] = r
                         /\ \A k \in 1 .. m : revs'[k] = revs[k]
    BY <1>4, Appended DEF Commits
  <2>2. ops'[p] = NoOp /\ \A q \in Procs \ {p} : ops'[q] = ops[q]
    BY <1>4, OpsAre DEF Commits
  <2>3. \A k \in Decisions' : k \in Decisions \/ (k = m + 1 /\ ops[p].kind \in Deciding)
    BY <1>4, <2>1 DEF Decisions, Commits
  <2>4. \A q \in Procs : ops'[q].kind \in Deciding =>
          ops'[q] = ops[q] /\ ops[q].began \in Nat /\ ops[q].began <= m
    <3>1. \A q \in Procs : ops[q].began \in Nat /\ ops[q].began <= m
      BY <2>1, OpTyped DEF OpOK, Operations
    <3>2. QED
      BY <2>2, <3>1, IdleKnowsNothing DEF Deciding
  <2>5. \A k \in Decisions' : ~session'.open
    BY <1>4, <2>3 DEF Commits, DecisionInv
  <2>6. \A k \in Decisions' : \A q \in Procs : ops'[q].kind \in Deciding => ops'[q].began < k
    BY <2>1, <2>3, <2>4 DEF DecisionInv
  <2>7. QED
    BY <2>5, <2>6 DEF DecisionInv
<1>5. CASE UserChanges \/ SnapshotChanges
  <2>1. revs' = revs /\ ops' = ops /\ session' = session
    BY <1>5 DEF UserChanges, SnapshotChanges, db
  <2>2. QED
    BY <2>1 DEF DecisionInv, Decisions
<1>6. QED
  BY <1>2, <1>3, <1>4, <1>5 DEF Steps

LEMMA HistoryStep ==
  ASSUME TypeInv, RollInv, DecisionInv, HistoryInv, Steps
  PROVE  HistoryInv'
<1>1. CASE revs' = revs
  BY <1>1 DEF HistoryInv, RollbacksAreSerial, SecondDecisionOverlaps
<1>2. ASSUME NEW p \in Procs, NEW r \in Revisions, Commits(p, r)
      PROVE  HistoryInv'
  <2>1. PICK m \in Nat : /\ m = Len(revs) /\ DOMAIN revs = 1 .. m
                         /\ DOMAIN revs' = 1 .. m + 1 /\ revs'[m + 1] = r
                         /\ \A k \in 1 .. m : revs'[k] = revs[k]
    BY <1>2, Appended DEF Commits
  <2>2. \A i \in 1 .. m : revs[i].op = "rollback" /\ r.op = "rollback" =>
          r.before.updated >= revs[i].after.updated
    <3>1. r.op = "rollback" => RollingBack(p) /\ r.before.updated = ops[p].before.updated
      BY <1>2 DEF Commits, RollingBack
    <3>2. \A i \in 1 .. m : revs[i].op = "rollback" => i \in Rollbacks
      BY <2>1 DEF Rollbacks
    <3>3. \A i \in 1 .. m : revs[i].after.updated \in Nat /\ ops[p].before.updated \in Nat
      BY <2>1, TimesTyped
    <3>4. QED
      BY <3>1, <3>2, <3>3 DEF RollInv
  <2>3. \A i \in 1 .. m : {revs[i].op, r.op} \subseteq Deciding => r.began < i
    <3>1. r.op = ops[p].kind /\ r.began = ops[p].began
      BY <1>2 DEF Commits
    <3>2. QED
      BY <2>1, <3>1 DEF DecisionInv, Decisions
  <2>4. ASSUME NEW i \in 1 .. m + 1, NEW j \in 1 .. m + 1, i < j
        PROVE  /\ revs'[i].op = "rollback" /\ revs'[j].op = "rollback" =>
                    revs'[j].before.updated >= revs'[i].after.updated
               /\ {revs'[i].op, revs'[j].op} \subseteq Deciding => revs'[j].began < i
    <3>1. i \in 1 .. m
      BY <2>4
    <3>2. CASE j = m + 1
      BY <2>1, <2>2, <2>3, <3>1, <3>2
    <3>3. CASE j # m + 1
      <4>1. j \in 1 .. m
        BY <3>3
      <4>2. QED
        BY <2>1, <2>4, <3>1, <4>1 DEF HistoryInv, RollbacksAreSerial, SecondDecisionOverlaps,
                                      Deciding
    <3>4. QED
      BY <3>2, <3>3
  <2>5. QED
    BY <2>1, <2>4 DEF HistoryInv, RollbacksAreSerial, SecondDecisionOverlaps, Deciding
<1>3. QED
  BY <1>1, <1>2 DEF Steps, Begins, Calls, Ends, Proposes, UserChanges, SnapshotChanges, db

LEMMA FormStep ==
  ASSUME TypeInv, FormInv, Steps
  PROVE  FormInv'
<1> DEFINE Formed(o) == o.kind = "edit" /\ o.at = "read" =>
                          \/ o.notes = Format(Me, UserNotes(o.before.notes))
                          \/ Parse(o.before.notes) = NoId
<1>1. \A q \in Procs : Formed(ops[q])
  BY DEF FormInv, At
<1>2. ASSUME NEW p \in Procs, NEW n, Becomes(p, n), Formed(n)
      PROVE  FormInv'
  <2>1. \A q \in Procs : Formed(ops'[q])
    <3>1. ops'[p] = n /\ \A q \in Procs \ {p} : ops'[q] = ops[q]
      BY <1>2, OpsAre
    <3> HIDE DEF Formed
    <3>2. QED
      BY <1>1, <1>2, <3>1
  <2>2. QED
    BY <2>1 DEF FormInv, At
<1>3. ASSUME NEW p \in Procs, NEW n \in Operations, Begins(p, n) \/ Calls(p, n)
      PROVE  FormInv'
  BY <1>2, <1>3 DEF Begins, Calls
<1>4. ASSUME NEW p \in Procs, Becomes(p, NoOp)
      PROVE  FormInv'
  BY <1>2, <1>4, IdleKnowsNothing
<1>5. CASE ops' = ops
  BY <1>5 DEF FormInv, At
<1>6. QED
  BY <1>3, <1>4, <1>5 DEF Steps, Ends, Commits, Proposes, UserChanges, SnapshotChanges

------------------------------------------------------------------------------
(* What is on record.                                                      *)

LEMMA ChangeStep ==
  ASSUME TypeInv, ChangeInv, Steps
  PROVE  ChangeInv'
<1> USE DEF Recorded
<1> SUFFICES ASSUME used'.faults = 0, used'.user = 0, NEW g \in Gids, task'[g].live
             PROVE  Recorded(g)'
  BY DEF ChangeInv
<1>1. ~Faulty /\ (NoFault => used.faults = 0 /\ used.user = 0)
  BY DEF Faulty, NoFault, TypeInv, Bounds
<1>2. used.faults = 0 /\ used.user = 0 /\ task[g].live => Recorded(g)
  BY DEF ChangeInv
<1>3. ASSUME revs' = revs, NEW p \in Procs, NEW n, Becomes(p, n), NoFault,
             task'[g] = task[g], ops[p].gid # g \/ ops[p].at \notin {"called", "patched"}
      PROVE  Recorded(g)'
  <2>1. Recorded(g)
    BY <1>1, <1>2, <1>3
  <2>2. \A q \in Procs \ {p} : ops'[q] = ops[q]
    BY <1>3, OpsAre
  <2>3. CASE \E k \in DOMAIN revs : revs[k].gid = g /\ Tells(revs[k].after, task[g])
    BY <1>3, <2>3 DEF Tells
  <2>4. CASE \E q \in Procs : /\ ops[q].gid = g
                              /\ \/ ops[q].at = "called" /\ Tells(ops[q].after, task[g])
                                 \/ ops[q].at = "patched"
    <3>1. PICK q \in Procs : /\ ops[q].gid = g
                             /\ \/ ops[q].at = "called" /\ Tells(ops[q].after, task[g])
                                \/ ops[q].at = "patched"
      BY <2>4
    <3>2. ops'[q] = ops[q]
      BY <1>3, <2>2, <3>1
    <3>3. QED
      BY <1>3, <3>1, <3>2 DEF Tells
  <2>5. QED
    BY <2>1, <2>3, <2>4
<1>4. ASSUME NEW p \in Procs, NEW n \in Operations, Begins(p, n)
      PROVE  Recorded(g)'
  <2>1. /\ revs' = revs /\ Becomes(p, n) /\ NoFault /\ task'[g] = task[g]
        /\ ops[p].at \notin {"called", "patched"}
    BY <1>4, IdleKnowsNothing DEF Begins, db, google
  <2>2. QED
    BY <1>3, <2>1
<1>5. ASSUME NEW p \in Procs, NEW n \in Operations, Calls(p, n)
      PROVE  Recorded(g)'
  <2>1. /\ revs' = revs /\ Becomes(p, n) /\ NoFault /\ ops[p].gid \in Gids /\ ops'[p] = n
        /\ n.at \in {"patched", "called"}
    BY <1>1, <1>5, OpTyped, OpsAre DEF Calls, db
  <2>2. CASE n.gid = g /\ (n.at = "called" => Tells(n.after, task'[g]))
    BY <2>1, <2>2 DEF Tells
  <2>3. CASE g # ops[p].gid /\ task'[g] = task[g]
    BY <1>3, <2>1, <2>3
  <2>4. CASE UNCHANGED google
    <3>1. task'[g] = task[g]
      BY <2>4 DEF google
    <3>2. clock' # clock + 1
      BY <2>4 DEF google, TypeInv
    <3>3. g = ops[p].gid => n.gid = g /\ Tells(n.after, task[g])
      BY <1>5, <2>1, <3>1, <3>2 DEF Calls, PatchesTask, MovesTask
    <3>4. QED
      BY <2>2, <2>3, <3>1, <3>3
  <2>5. CASE PatchesTask(ops[p].gid) /\ n.gid = ops[p].gid /\
             (n.at = "called" => Tells(n.after, task'[ops[p].gid]))
    <3>1. g # ops[p].gid => task'[g] = task[g]
      BY <2>5 DEF PatchesTask
    <3>2. QED
      BY <2>2, <2>3, <2>5, <3>1
  <2>6. CASE MovesTask(ops[p].gid, n.gid, n.list, TRUE) /\ Tells(n.after, task'[n.gid])
    <3>1. g # ops[p].gid
      <4>1. task[ops[p].gid] \in GTasks
        BY <2>1 DEF TypeInv
      <4>2. QED
        BY <2>6, <4>1 DEF MovesTask, GTasks
    <3>2. g # n.gid => task'[g] = task[g]
      BY <2>6, <3>1 DEF MovesTask
    <3>3. QED
      BY <2>2, <2>3, <2>6, <3>1, <3>2
  <2>7. QED
    BY <1>1, <1>5, <2>1, <2>4, <2>5, <2>6 DEF Calls
<1>6. ASSUME NEW p \in Procs, Ends(p)
      PROVE  Recorded(g)'
  <2>1. /\ revs' = revs /\ Becomes(p, NoOp) /\ NoFault /\ task'[g] = task[g]
        /\ ops[p].at \notin {"called", "patched"}
    BY <1>1, <1>6 DEF Ends, db, google
  <2>2. QED
    BY <1>3, <2>1
<1>7. ASSUME NEW p \in Procs, NEW r \in Revisions, Commits(p, r)
      PROVE  Recorded(g)'
  <2>1. PICK m \in Nat : /\ m = Len(revs) /\ DOMAIN revs = 1 .. m
                         /\ DOMAIN revs' = 1 .. m + 1 /\ revs'[m + 1] = r
                         /\ \A k \in 1 .. m : revs'[k] = revs[k]
    BY <1>7, Appended DEF Commits
  <2>2. task'[g] = task[g] /\ used' = used
    BY <1>7 DEF Commits, google
  <2>3. Recorded(g)
    BY <1>2, <2>2
  <2>4. \A q \in Procs \ {p} : ops'[q] = ops[q]
    BY <1>7, OpsAre DEF Commits
  <2>5. CASE \E k \in DOMAIN revs : revs[k].gid = g /\ Tells(revs[k].after, task[g])
    <3>1. PICK k \in 1 .. m : revs[k].gid = g /\ Tells(revs[k].after, task[g])
      BY <2>1, <2>5
    <3>2. k \in DOMAIN revs' /\ revs'[k] = revs[k]
      BY <2>1
    <3>3. QED
      BY <2>2, <3>1, <3>2 DEF Tells
  <2>6. ASSUME NEW q \in Procs, ops[q].gid = g,
               \/ ops[q].at = "called" /\ Tells(ops[q].after, task[g])
               \/ ops[q].at = "patched"
        PROVE  Recorded(g)'
    <3>1. CASE q = p
      <4>1. r.gid = g /\ Tells(r.after, task[g])
        BY <1>7, <2>6, <3>1 DEF Commits, Tells
      <4>2. m + 1 \in DOMAIN revs' /\ revs'[m + 1] = r
        BY <2>1
      <4>3. QED
        BY <2>2, <4>1, <4>2 DEF Tells
    <3>2. CASE q # p
      BY <2>2, <2>4, <2>6, <3>2 DEF Tells
    <3>3. QED
      BY <3>1, <3>2
  <2>7. QED
    BY <2>3, <2>5, <2>6
<1>8. ASSUME NEW p \in Procs, Proposes(p)
      PROVE  Recorded(g)'
  <2>1. /\ revs' = revs /\ Becomes(p, NoOp) /\ NoFault /\ task'[g] = task[g]
        /\ ops[p].at \notin {"called", "patched"}
    BY <1>8, OpTyped DEF Proposes, google, NoFault, OpOK
  <2>2. QED
    BY <1>3, <2>1
<1>9. CASE UserChanges
  BY <1>9 DEF UserChanges, TypeInv, Bounds
<1>10. CASE SnapshotChanges
  BY <1>2, <1>10 DEF SnapshotChanges, google, Tells
<1>11. QED
  BY <1>4, <1>5, <1>6, <1>7, <1>8, <1>9, <1>10 DEF Steps

------------------------------------------------------------------------------
(* The record and its task.                                                *)

LEMMA SerialStep ==
  ASSUME TypeInv, PlaceInv, LiveInv, SerialInv, Steps
  PROVE  SerialInv'
<1> USE DEF Owned, NotOvertaken
<1> SUFFICES ASSUME used'.faults = 0, Serial'
             PROVE  Owned' /\ NotOvertaken'
  BY DEF SerialInv
<1>1. ~Faulty /\ (used'.faults = used.faults => used.faults = 0)
  BY DEF Faulty, TypeInv, Bounds
<1>2. used.faults = 0 /\ Serial => Owned /\ NotOvertaken
  BY DEF SerialInv
<1>3. revs' = revs => Serial
  BY DEF Serial
<1>4. ASSUME revs' = revs, record' = record, used'.faults = used.faults,
             \A g \in Gids : task'[g].live = task[g].live, NEW p \in Procs, NEW n, Becomes(p, n),
             ~Places(ops[p]),
             \/ n.gid \in {None, record.gid}
             \/ n.gid = ops[p].gid /\ n.began = ops[p].began
      PROVE  Owned' /\ NotOvertaken'
  <2>1. Owned /\ NotOvertaken
    BY <1>1, <1>2, <1>3, <1>4
  <2>2. ops'[p] = n /\ \A q \in Procs \ {p} : ops'[q] = ops[q]
    BY <1>4, OpsAre
  <2>3. Owned'
    <3>1. ASSUME NEW g \in Gids, task'[g].live
          PROVE  g = record.gid \/ \E q \in Procs : ops'[q].gid = g /\ Places(ops'[q])
      <4>1. task[g].live
        BY <1>4, <3>1
      <4>2. CASE g = record.gid
        BY <4>2
      <4>3. ASSUME NEW q \in Procs, ops[q].gid = g, Places(ops[q])
            PROVE  ops'[q].gid = g /\ Places(ops'[q])
        <5>1. ops'[q] = ops[q]
          BY <1>4, <2>2, <4>3
        <5>2. QED
          BY <4>3, <5>1
      <4>4. QED
        BY <2>1, <4>1, <4>2, <4>3
    <3>2. QED
      BY <1>4, <3>1
  <2>4. ASSUME NEW q \in Procs, ops'[q].began = Len(revs), ops'[q].gid \notin {None, record.gid}
        PROVE  /\ Places(ops'[q]) /\ task'[ops'[q].gid].live
               /\ \A s \in Procs \ {q} : ops'[s].gid # ops'[q].gid
    <3>1. q # p
      BY <1>4, <2>1, <2>2, <2>4
    <3>2. ops'[q] = ops[q]
      BY <2>2, <3>1
    <3>3. /\ Places(ops[q]) /\ task[ops[q].gid].live
          /\ \A s \in Procs \ {q} : ops[s].gid # ops[q].gid
      BY <2>1, <2>4, <3>2
    <3>4. ops[q].gid \in Gids
      BY <2>4, <3>2, OpTyped DEF Operations
    <3>5. \A s \in Procs \ {q} : ops'[s].gid # ops[q].gid
      BY <1>4, <2>2, <2>4, <3>1, <3>2, <3>3
    <3>6. QED
      BY <1>4, <3>2, <3>3, <3>4, <3>5
  <2>5. QED
    BY <1>4, <2>3, <2>4
<1>5. ASSUME NEW p \in Procs, NEW n \in Operations, Begins(p, n)
      PROVE  Owned' /\ NotOvertaken'
  <2>1. n.gid \in {None, record.gid}
    BY <1>5 DEF Begins, OpOK
  <2>2. /\ revs' = revs /\ record' = record /\ used'.faults = used.faults /\ Becomes(p, n)
        /\ task' = task /\ ~Places(ops[p])
    BY <1>5, IdleKnowsNothing DEF Begins, db, google, NoFault
  <2>3. QED
    BY <1>4, <2>1, <2>2
<1>6. ASSUME NEW p \in Procs, NEW n \in Operations, Calls(p, n)
      PROVE  Owned' /\ NotOvertaken'
  <2>1. /\ revs' = revs /\ record' = record /\ Becomes(p, n)
        /\ used'.faults = used.faults /\ ~Places(ops[p]) /\ n.began = ops[p].began
        /\ ops[p].gid \in Gids
    BY <1>1, <1>6, OpTyped DEF Calls, db, NoFault, Places
  <2>2. CASE UNCHANGED google /\ n.gid = ops[p].gid
    BY <1>4, <2>1, <2>2 DEF google
  <2>3. CASE PatchesTask(ops[p].gid) /\ n.gid = ops[p].gid
    <3>1. \A g \in Gids : task'[g].live = task[g].live
      <4>1. task[ops[p].gid].live \in BOOLEAN /\ task'[ops[p].gid].live \in BOOLEAN
        BY <2>1, <2>3 DEF TypeInv, GTasks, PatchesTask
      <4>2. QED
        BY <2>3, <4>1 DEF PatchesTask
    <3>2. QED
      BY <1>4, <2>1, <2>3, <3>1
  <2>4. CASE MovesTask(ops[p].gid, n.gid, n.list, TRUE) /\ Places(n)
    <3> DEFINE o == ops[p]
               c == n.gid
    <3>1. /\ task[o.gid].live /\ ~task'[o.gid].live /\ c \in Gids /\ task[c].title = None
          /\ \A g \in Gids \ {o.gid, c} : task'[g] = task[g]
          /\ task'[c].live
      <4>1. task[o.gid] \in GTasks
        BY <2>1 DEF TypeInv
      <4>2. QED
        BY <2>4, <4>1 DEF MovesTask, GTasks
    <3>2. c # record.gid /\ c # None /\ \A q \in Procs : ops[q].gid # c
      BY <3>1, CopyIsUnknown, GidsAre DEF Known
    <3>3. ops'[p] = n /\ \A q \in Procs \ {p} : ops'[q] = ops[q]
      BY <2>1, OpsAre
    <3>4. Owned /\ NotOvertaken
      BY <1>1, <1>2, <1>3, <2>1
    <3>5. ASSUME NEW g \in Gids, task'[g].live
          PROVE  g = record.gid \/ \E q \in Procs : ops'[q].gid = g /\ Places(ops'[q])
      <4>1. CASE g = c
        BY <2>4, <3>3, <4>1
      <4>2. CASE g # c
        <5>1. task[g].live /\ g # o.gid
          BY <3>1, <3>5, <4>2
        <5>2. CASE g = record.gid
          BY <5>2
        <5>3. ASSUME NEW q \in Procs, ops[q].gid = g, Places(ops[q])
              PROVE  ops'[q].gid = g /\ Places(ops'[q])
          <6>1. ops'[q] = ops[q]
            BY <3>3, <5>1, <5>3
          <6>2. QED
            BY <5>3, <6>1
        <5>4. QED
          BY <3>4, <5>1, <5>2, <5>3
      <4>3. QED
        BY <4>1, <4>2
    <3>6. ASSUME NEW q \in Procs, ops'[q].began = Len(revs),
                 ops'[q].gid \notin {None, record.gid}
          PROVE  /\ Places(ops'[q]) /\ task'[ops'[q].gid].live
                 /\ \A s \in Procs \ {q} : ops'[s].gid # ops'[q].gid
      <4>1. CASE q = p
        BY <2>4, <3>1, <3>2, <3>3, <4>1
      <4>2. CASE q # p
        <5>1. ops'[q] = ops[q]
          BY <3>3, <4>2
        <5>2. /\ Places(ops[q]) /\ task[ops[q].gid].live
              /\ \A s \in Procs \ {q} : ops[s].gid # ops[q].gid
          BY <3>4, <3>6, <5>1
        <5>3. ops[q].gid \in Gids /\ ops[q].gid # o.gid /\ ops[q].gid # c
          BY <3>2, <3>6, <4>2, <5>1, <5>2, OpTyped DEF Operations
        <5>4. task'[ops[q].gid].live
          BY <3>1, <5>2, <5>3
        <5>5. \A s \in Procs \ {q} : ops'[s].gid # ops[q].gid
          BY <3>3, <5>2, <5>3
        <5>6. QED
          BY <5>1, <5>2, <5>4, <5>5
      <4>3. QED
        BY <4>1, <4>2
    <3>7. QED
      BY <2>1, <3>5, <3>6
  <2>5. QED
    BY <1>1, <1>6, <2>2, <2>3, <2>4 DEF Calls
<1>7. ASSUME NEW p \in Procs, Ends(p) \/ Proposes(p)
      PROVE  Owned' /\ NotOvertaken'
  <2>1. ops[p].kind = "propose" => ops[p].at = "read"
    BY OpTyped DEF OpOK
  <2>2. /\ revs' = revs /\ record' = record /\ used'.faults = used.faults /\ Becomes(p, NoOp)
        /\ task' = task /\ ~Places(ops[p])
    BY <1>1, <1>7, <2>1 DEF Ends, Proposes, db, google, NoFault, Places
  <2>3. QED
    BY <1>4, <2>2, IdleKnowsNothing
<1>8. ASSUME NEW p \in Procs, NEW r \in Revisions, Commits(p, r)
      PROVE  Owned' /\ NotOvertaken'
  <2> DEFINE o == ops[p]
  <2>1. PICK m \in Nat : /\ m = Len(revs) /\ DOMAIN revs = 1 .. m
                         /\ DOMAIN revs' = 1 .. m + 1 /\ revs'[m + 1] = r
                         /\ Len(revs') = m + 1
                         /\ \A k \in 1 .. m : revs'[k] = revs[k]
    BY <1>8, Appended DEF Commits
  <2>2. Serial /\ o.began = m
    <3>1. \A k \in 1 .. m + 1 : revs'[k].began = k - 1
      BY <2>1 DEF Serial
    <3>2. \A k \in 1 .. m : revs[k].began = k - 1
      BY <2>1, <3>1
    <3>3. r.began = m
      BY <2>1, <3>1
    <3>4. QED
      BY <1>8, <2>1, <3>2, <3>3 DEF Serial, Commits
  <2>3. Owned /\ NotOvertaken /\ task' = task
    BY <1>1, <1>2, <1>8, <2>2 DEF Commits, google
  <2>4. ops'[p] = NoOp /\ \A q \in Procs \ {p} : ops'[q] = ops[q]
    BY <1>8, OpsAre DEF Commits
  <2>5. \A q \in Procs : ops'[q].began # m + 1
    <3>1. \A q \in Procs : ops[q].began \in Nat /\ ops[q].began <= m
      BY <2>1, OpTyped DEF OpOK, Operations
    <3>2. NoOp.began = 0
      BY DEF NoOp
    <3>3. QED
      BY <2>1, <2>4, <3>1, <3>2
  <2>6. ASSUME NEW g \in Gids, task[g].live
        PROVE  g = record'.gid \/ \E q \in Procs : ops'[q].gid = g /\ Places(ops'[q])
    <3>1. CASE \E q \in Procs \ {p} : ops[q].gid = g /\ Places(ops[q])
      BY <2>4, <3>1
    <3>2. CASE g = record.gid
      <4>1. CASE record'.gid = record.gid
        BY <3>2, <4>1
      <4>2. CASE record'.gid = o.gid /\ o.kind \in Touching /\ o.gid # record.gid
        <5>1. o.gid \in Gids /\ o.gid # None
          BY <4>2, OpTyped, GidsAre
        <5>2. task[o.gid].live
          BY <2>1, <2>2, <2>3, <4>2, <5>1
        <5>3. {o.gid, record.gid} \subseteq Known \cap Gids
          BY <2>6, <3>2, <5>1 DEF Known
        <5>4. o.gid = record.gid
          BY <2>6, <3>2, <5>2, <5>3 DEF LiveInv
        <5>5. QED
          BY <4>2, <5>4
      <4>3. QED
        BY <1>8, <4>1, <4>2 DEF Commits
    <3>3. CASE o.gid = g /\ Places(o)
      BY <1>8, <3>3 DEF Commits
    <3>4. QED
      BY <2>3, <2>6, <3>1, <3>2, <3>3
  <2>7. QED
    BY <2>1, <2>3, <2>5, <2>6
<1>9. CASE UserChanges \/ SnapshotChanges
  <2>1. /\ revs' = revs /\ record' = record /\ ops' = ops
        /\ used'.faults = used.faults
    BY <1>9 DEF UserChanges, SnapshotChanges, db
  <2>2. \A g \in Gids : task'[g].live = task[g].live
    <3>1. CASE SnapshotChanges
      BY <3>1 DEF SnapshotChanges, google
    <3>2. CASE UserChanges
      <4>1. PatchesTask(record.gid) /\ record.gid \in Gids
        BY <3>2 DEF UserChanges, TypeInv, Pointers
      <4>2. task[record.gid].live \in BOOLEAN /\ task'[record.gid].live \in BOOLEAN
        BY <4>1 DEF TypeInv, GTasks, PatchesTask
      <4>3. QED
        BY <4>1, <4>2 DEF PatchesTask
    <3>3. QED
      BY <1>9, <3>1, <3>2
  <2>3. Owned /\ NotOvertaken
    BY <1>1, <1>2, <1>3, <2>1
  <2>4. \A q \in Procs : ops[q].gid # None => ops[q].gid \in Gids
    BY OpTyped DEF Operations
  <2>5. QED
    BY <2>1, <2>2, <2>3, <2>4
<1>10. QED
  BY <1>5, <1>6, <1>7, <1>8, <1>9 DEF Steps

------------------------------------------------------------------------------
(* The invariant holds in every state.                                     *)

LEMMA InitInv == Init => Inv /\ HistoryInv
<1> SUFFICES ASSUME Init PROVE Inv /\ HistoryInv
  OBVIOUS
<1>1. PICK notes : notes = <<Text(1), Envelope(Me)>>
  OBVIOUS
<1>2. notes \in Notes
  <2>1. Text(1) \in Segment /\ Envelope(Me) \in Segment /\ Text(1).kind # "env"
    BY DEF Text, Envelope, Segment, Me
  <2>2. notes \in Seq(Segment) /\ DOMAIN notes = 1 .. 2 /\ notes[1].kind # "env"
    BY <1>1, <2>1
  <2>3. QED
    BY <2>2 DEF Notes, Ordered
<1>3. PICK first, none :
        /\ first.live /\ first.title = 1 /\ first.notes = notes /\ first.updated = 2
        /\ first \in GTasks /\ first.list = record.list
        /\ none \in GTasks /\ ~none.live /\ none.updated = 0
        /\ task = [g \in Gids |-> IF g = 1 THEN first ELSE none]
        /\ clock = 2 /\ record \in Pointers /\ record.gid = 1
        /\ session \in Sessions /\ session.open
  <2>1. PICK l \in Lists, dest \in Lists, proposed \in Titles :
          /\ task = [g \in Gids |-> IF g = 1
                    THEN [live |-> TRUE, list |-> l, title |-> 1,
                          notes |-> <<Text(1), Envelope(Me)>>, updated |-> 2]
                    ELSE [live |-> FALSE, list |-> None, title |-> None, notes |-> <<>>,
                          updated |-> 0]]
          /\ clock = 2
          /\ record = [list |-> l, gid |-> 1, status |-> "awaiting_review"]
          /\ session = [open |-> TRUE, prop |-> [title |-> proposed, dest |-> dest]]
    BY Zenon DEF Init
  <2>2. PICK first : first = [live |-> TRUE, list |-> l, title |-> 1, notes |-> notes,
                              updated |-> 2]
    OBVIOUS
  <2>3. PICK none : none = [live |-> FALSE, list |-> None, title |-> None, notes |-> <<>>,
                            updated |-> 0]
    OBVIOUS
  <2>4. /\ first \in GTasks /\ first.live /\ first.title = 1 /\ first.notes = notes
        /\ first.updated = 2 /\ first.list = l
    BY <1>2, <2>2 DEF GTasks
  <2>5. none \in GTasks /\ ~none.live /\ none.updated = 0
    BY <2>3, NoNotes DEF GTasks, None
  <2>6. /\ record \in Pointers /\ record.gid = 1 /\ record.list = l
        /\ session \in Sessions /\ session.open
    BY <2>1, GidsAre DEF Pointers, Sessions, Proposals
  <2>7. task = [g \in Gids |-> IF g = 1 THEN first ELSE none]
    BY <1>1, <2>1, <2>2, <2>3
  <2>8. QED
    BY <2>1, <2>4, <2>5, <2>6, <2>7
<1>4. /\ task \in [Gids -> GTasks] /\ task[1] = first
      /\ \A g \in Gids : (task[g].live <=> g = 1) /\ task[g].updated <= clock
  BY <1>3, GidsAre
<1>5. State(1) \in States /\ Tells(State(1), task[1]) /\ snapshot = State(1)
  <2>1. snapshot = State(1)
    BY DEF Init
  <2>2. QED
    BY <1>4, <2>1, GidsAre DEF State, States, Tells, GTasks
<1>6. PICK r \in Revisions : /\ revs = <<r>> /\ r.op = "annotate" /\ r.no = 1 /\ r.gid = 1
                             /\ r.after = State(1) /\ r.began = 0
  <2>1. PICK l \in Lists :
          revs = <<[op |-> "annotate", no |-> 1,
                    before |-> [list |-> None, title |-> 1, notes |-> notes, updated |-> 1],
                    after |-> State(1), from |-> l, gid |-> 1, ok |-> TRUE, began |-> 0]>>
    BY <1>1 DEF Init
  <2>2. PICK raw : raw = [list |-> None, title |-> 1, notes |-> notes, updated |-> 1]
    OBVIOUS
  <2>3. raw \in States
    BY <1>2, <2>2 DEF States
  <2>4. PICK r : r = [op |-> "annotate", no |-> 1, before |-> raw,
                      after |-> State(1), from |-> l, gid |-> 1, ok |-> TRUE, began |-> 0]
    OBVIOUS
  <2>5. /\ r \in Revisions /\ r.op = "annotate" /\ r.no = 1 /\ r.gid = 1
        /\ r.after = State(1) /\ r.began = 0
    BY <1>5, <2>3, <2>4, GidsAre DEF Revisions
  <2>6. QED
    BY <2>1, <2>2, <2>4, <2>5
<1>7. /\ revs \in Seq(Revisions) /\ Len(revs) = 1 /\ DOMAIN revs = {1} /\ revs[1] = r
  BY <1>6
<1>8. ops = [p \in Procs |-> NoOp] /\ used \in Bounds
  BY DEF Init, Bounds
<1>9. \A p \in Procs : /\ ops[p] = NoOp /\ ops[p].gid = None /\ ops[p].kind = "idle"
                       /\ ops[p].at = "idle"
  BY <1>8, IdleKnowsNothing
<1>10. TypeInv
  <2>1. \A k \in DOMAIN revs : revs[k].no \in 1 .. k
    BY <1>6, <1>7
  <2>2. ops \in [Procs -> Operations] /\ \A p \in Procs : OpOK(ops[p], Len(revs))
    BY <1>7, <1>8, NoOpTyped
  <2>3. QED
    BY <1>3, <1>4, <1>5, <1>7, <1>8, <2>1, <2>2 DEF TypeInv
<1>11. PlaceInv
  BY <1>3, <1>4, <1>9 DEF PlaceInv, None
<1>12. LiveInv
  BY <1>4, GidsAre DEF LiveInv
<1>13. RollInv
  BY <1>6, <1>7, <1>9 DEF RollInv, RollingBack, Rollbacks
<1>14. DecisionInv
  BY <1>6, <1>7 DEF DecisionInv, Decisions, Deciding
<1>15. ChangeInv
  BY <1>4, <1>5, <1>6, <1>7 DEF ChangeInv, Recorded
<1>16. SerialInv
  BY <1>3, <1>4, <1>9 DEF SerialInv, Owned, NotOvertaken
<1>17. FormInv
  BY <1>9 DEF FormInv, At
<1>18. HistoryInv
  BY <1>7 DEF HistoryInv, RollbacksAreSerial, SecondDecisionOverlaps
<1>19. QED
  BY <1>10, <1>11, <1>12, <1>13, <1>14, <1>15, <1>16, <1>17, <1>18 DEF Inv

LEMMA InvStep == Inv /\ HistoryInv /\ [Next]_vars => (Inv /\ HistoryInv)'
<1> SUFFICES ASSUME Inv, HistoryInv, [Next]_vars PROVE (Inv /\ HistoryInv)'
  OBVIOUS
<1>1. CASE Next
  <2>1. Steps
    BY <1>1, NextSteps DEF Inv
  <2>2. TypeInv' /\ PlaceInv'
    BY <2>1, TypeStep, PlaceStep DEF Inv
  <2>3. LiveInv' /\ RollInv'
    BY <2>1, LiveStep, RollStep DEF Inv
  <2>4. DecisionInv' /\ HistoryInv'
    BY <2>1, DecisionStep, HistoryStep DEF Inv
  <2>5. ChangeInv' /\ SerialInv'
    BY <2>1, ChangeStep, SerialStep DEF Inv
  <2>6. FormInv'
    BY <2>1, FormStep DEF Inv
  <2>7. QED
    BY <2>2, <2>3, <2>4, <2>5, <2>6 DEF Inv
<1>2. CASE UNCHANGED vars
  BY <1>2 DEF vars, google, db, Inv, TypeInv, PlaceInv, LiveInv, RollInv, DecisionInv, ChangeInv,
              SerialInv, FormInv, HistoryInv, RollbacksAreSerial, SecondDecisionOverlaps,
              Known, Rollbacks, Decisions, Serial, RollingBack, Recorded, Owned, NotOvertaken, At
<1>3. QED
  BY <1>1, <1>2

LEMMA AlwaysInv == Spec => [](Inv /\ HistoryInv)
BY InitInv, InvStep, PTL DEF Spec

------------------------------------------------------------------------------
(* The theorems.                                                           *)

\* Every revision has a number that no revision after it needs to skip, every
\* task is in a list or gone, and no task is from the future.
THEOREM TypeCorrect == Spec => []TypeOK
<1>1. Inv => TypeOK
  <2> SUFFICES ASSUME TypeInv PROVE TypeOK
    BY DEF Inv
  <2>1. \A g \in Gids : task[g].list \in Lists \cup {None} /\ task[g].updated \in 0 .. clock
    BY DEF TypeInv, GTasks
  <2>2. /\ record.list \in Lists /\ record.gid \in Gids
        /\ record.status \in {"awaiting_review", "applied", "discarded"}
    BY DEF TypeInv, Pointers
  <2>3. session.prop \in [title : Titles, dest : Lists]
    BY DEF TypeInv, Sessions, Proposals
  <2>4. \A p \in Procs : ops[p].at \in {"idle", "read", "patched", "called"}
    BY OpTyped DEF Operations
  <2>5. \A k \in DOMAIN revs : revs[k].no \in 1 .. k
    BY DEF TypeInv
  <2>6. QED
    BY <2>1, <2>2, <2>3, <2>4, <2>5 DEF TypeOK
<1>2. QED
  BY <1>1, AlwaysInv, PTL

\* However many admins roll a task back at the same time, each rollback starts
\* from what the one before it has left, although the lock row is deleted before
\* the transaction commits.
THEOREM RollbacksDoNotOverlap == Spec => []RollbacksAreSerial
<1>1. HistoryInv => RollbacksAreSerial
  BY DEF HistoryInv
<1>2. QED
  BY <1>1, AlwaysInv, PTL

\* Whoever looks at a task after its decision is committed cannot decide it.
THEOREM DecidedOnce == Spec => []SecondDecisionOverlaps
<1>1. HistoryInv => SecondDecisionOverlaps
  BY DEF HistoryInv
<1>2. QED
  BY <1>1, AlwaysInv, PTL

\* Without failures the task in Google is, when nobody is busy with it, as one of
\* the revisions says, in whatever order the operations have come.
THEOREM ChangesAreOnRecord == Spec => []EveryChangeIsOnRecord
<1>1. Inv => EveryChangeIsOnRecord
  <2> SUFFICES ASSUME Inv, Quiet, used.user = 0, NEW g \in Gids, task[g].live
               PROVE  \E k \in DOMAIN revs : revs[k].gid = g
                                             /\ Payload(revs[k].after) = Payload(State(g))
    BY DEF EveryChangeIsOnRecord
  <2>1. TypeInv /\ ChangeInv
    BY DEF Inv
  <2>2. \A p \in Procs : ops[p].at = "idle"
    BY IdleKnowsNothing DEF Quiet
  <2>3. PICK k \in DOMAIN revs : revs[k].gid = g /\ Tells(revs[k].after, task[g])
    BY <2>1, <2>2 DEF Quiet, ChangeInv, Recorded
  <2>4. revs[k].after \in States
    <3>1. revs[k] \in Revisions
      BY <2>1 DEF TypeInv
    <3>2. QED
      BY <3>1 DEF Revisions
  <2>5. State(g) \in States /\ Tells(State(g), task[g])
    BY <2>1, StateTyped
  <2>6. Payload(revs[k].after) = Payload(State(g))
    BY <2>3, <2>4, <2>5 DEF Payload, Tells, States
  <2>7. QED
    BY <2>3, <2>6
<1>2. QED
  BY <1>1, AlwaysInv, PTL

\* Operations that do not overlap and do not fail neither double the task nor
\* lose it from the record.
THEOREM SerialEditsAreSafe == Spec => []SerialEditsKeepTheTask
<1>1. Inv => SerialEditsKeepTheTask
  <2> SUFFICES ASSUME Inv, Quiet, Serial
               PROVE  /\ {g \in Gids : task[g].live} = {record.gid}
                      /\ task[record.gid].list = record.list
    BY DEF SerialEditsKeepTheTask, Serial
  <2>1. \A p \in Procs : ~Places(ops[p])
    BY IdleKnowsNothing DEF Quiet
  <2>2. \A g \in Gids : task[g].live => g = record.gid
    BY <2>1 DEF Inv, SerialInv, Owned, Quiet
  <2>3. \E g \in Gids : task[g].live
    BY DEF Inv, LiveInv
  <2>4. task[record.gid].list = record.list
    BY DEF Inv, PlaceInv
  <2>5. QED
    BY <2>2, <2>3, <2>4
<1>2. QED
  BY <1>1, AlwaysInv, PTL

\* The edit form, made from a snapshot that still is the present, keeps every
\* text the user wrote and leaves an envelope that names the task, whatever else
\* goes on meanwhile.
THEOREM EditsKeepTexts == Spec => EditsKeepUserText
<1> DEFINE Kept(p) ==
       LET seen == ops[p].before.notes
           now  == task'[ops'[p].gid].notes
       IN  /\ At(p, "edit", "read") /\ ~At(p, "edit", "read")' /\ ops'[p] # NoOp /\ ops'[p].ok
           /\ seen = task[ops[p].gid].notes /\ Parse(seen) = Me
           => Texts(now) = Texts(seen) /\ Parse(now) = Me
<1>1. ASSUME Inv, NEW p \in Procs, AdminEditPatches(p)
      PROVE  Kept(p)
  <2> DEFINE o    == ops[p]
             seen == o.before.notes
  <2> SUFFICES ASSUME ops'[p].ok, Parse(seen) = Me
               PROVE  /\ Texts(task'[ops'[p].gid].notes) = Texts(seen)
                      /\ Parse(task'[ops'[p].gid].notes) = Me
    OBVIOUS
  <2>1. TypeInv /\ PlaceInv /\ o.kind = "edit" /\ o.at = "read"
    BY <1>1 DEF Inv, AdminEditPatches, At
  <2>2. o \in Operations /\ o.gid \in Gids /\ task[o.gid] \in GTasks
    BY <2>1, TaskOf DEF Touching
  <2>3. seen \in Notes /\ Me \in Nat /\ Me # NoId
    BY <2>2 DEF Operations, States, Me, NoId
  <2>4. o.notes = Format(Me, UserNotes(seen))
    BY <1>1, <2>1, <2>3 DEF Inv, FormInv, At
  <2>5. PICK u \in Notes : u = UserNotes(seen) /\ NoneCutOff(u) /\ Texts(u) = Texts(seen)
    BY <2>3, ParsedIsWhole, UserNotesTyped, UserNotesKeepTexts
  <2>6. Texts(o.notes) = Texts(seen) /\ Parse(o.notes) = Me
    BY <2>3, <2>4, <2>5, FormatKeepsTexts
  <2>7. ~EditFailed(p, o)
    <3>1. ASSUME EditFailed(p, o)
          PROVE  FALSE
      <4>1. PICK no, a : ops' = [ops EXCEPT ![p] = [[o EXCEPT !.ok = FALSE, !.after = a] EXCEPT
                                                   !.at = "called", !.no = no]]
        BY <3>1 DEF EditFailed, Called
      <4>2. ops'[p].ok = FALSE
        BY <2>1, <2>2, <4>1 DEF TypeInv, Operations
      <4>3. QED
        BY <4>2
    <3>2. QED
      BY <3>1
  <2>8. /\ There(o.gid, o.list) /\ Patch(o.gid, Edited(o))
        /\ IF EditMoves(o) THEN ops' = [ops EXCEPT ![p].at = "patched"]
           ELSE EditDone(p, o, Edited(o))
    BY <1>1, <2>7 DEF AdminEditPatches
  <2>9. ops'[p].gid = o.gid
    <3>1. CASE ops' = [ops EXCEPT ![p].at = "patched"]
      BY <2>1, <2>2, <3>1 DEF TypeInv, Operations
    <3>2. CASE EditDone(p, o, Edited(o))
      <4>1. PICK no, after : ops' = [ops EXCEPT ![p] = [[o EXCEPT !.after = after] EXCEPT
                                                          !.at = "called", !.no = no]]
        BY <3>2 DEF EditDone, Called
      <4>2. QED
        BY <2>1, <2>2, <4>1 DEF TypeInv, Operations
    <3>3. QED
      BY <2>8, <3>1, <3>2
  <2>10. task'[o.gid].notes = o.notes
    <3>1. PICK t \in GTasks : t = Edited(o) /\ t.live = task[o.gid].live /\ t.list = o.list
                              /\ t.title # None
      BY <2>1, EditIs
    <3>2. t.notes = o.notes
      <4>1. PICK v : v = Patched(task[o.gid], o.prop.title, <<>>)
        OBVIOUS
      <4>2. v \in GTasks
        BY <2>1, <2>2, <4>1, NoNotes, TaskOf, PatchedTyped DEF Operations, Touching
      <4>3. QED
        BY <3>1, <4>1, <4>2 DEF Edited, GTasks
    <3>3. task'[o.gid].notes = t.notes
      <4>1. task[o.gid].live /\ task[o.gid].list = o.list /\ Patch(o.gid, t)
        BY <2>1, <2>8, <3>1, TaskOf DEF There, Touching
      <4>2. QED
        BY <2>1, <2>2, <3>1, <4>1, PatchDoes
    <3>4. QED
      BY <3>2, <3>3
  <2>11. QED
    BY <2>6, <2>9, <2>10
<1>2. ASSUME Inv, Next, NEW p \in Procs, ~AdminEditPatches(p)
      PROVE  Kept(p)
  <2> SUFFICES ASSUME At(p, "edit", "read"), ~At(p, "edit", "read")', ops'[p] # NoOp
               PROVE  FALSE
    OBVIOUS
  <2>1. TypeInv /\ PlaceInv /\ ops[p].kind = "edit" /\ ops[p].at = "read"
    BY <1>2 DEF Inv, At
  <2>2. ops'[p] # ops[p]
    BY <2>1 DEF At
  <2>3. ASSUME NEW q \in Procs, NEW n, Becomes(q, n)
        PROVE  q = p /\ n # NoOp
    BY <2>1, <2>2, <2>3, OpsAre
  <2>4. ASSUME NEW q \in Procs,
               \/ BeginConfirm(q) \/ BeginDiscard(q) \/ BeginProposalEdit(q)
               \/ BeginAdminEdit(q) \/ BeginRewrite(q) \/ BeginRollback(q)
        PROVE  FALSE
    <3>1. PICK n \in Operations : Begins(q, n)
      BY <2>1, <2>4, ActionsBegin
    <3>2. q = p /\ ops[q].at = "idle"
      BY <2>3, <3>1, IdleKnowsNothing DEF Begins
    <3>3. QED
      BY <2>1, <3>2
  <2>5. ASSUME NEW q \in Procs,
               ConfirmCalls(q) \/ AdminEditPatches(q) \/ AdminEditMoves(q) \/ RewriteCalls(q)
        PROVE  FALSE
    <3>1. PICK n \in Operations : Calls(q, n)
      BY <2>1, <2>5, ConfirmIsACall, AdminEditPatchIsACall, AdminEditMoveIsACall, RewriteIsACall
    <3>2. q = p
      BY <2>3, <3>1 DEF Calls
    <3>3. QED
      BY <1>2, <2>1, <2>5, <3>2 DEF ConfirmCalls, AdminEditMoves, RewriteCalls, At
  <2>6. ASSUME NEW q \in Procs, NEW k \in DOMAIN revs, RollbackCalls(q, k)
        PROVE  FALSE
    <3>1. (\E n \in Operations : Calls(q, n)) \/ Ends(q)
      BY <2>1, <2>6, RollbackIsACall
    <3>2. q = p
      BY <2>3, <3>1 DEF Calls, Ends
    <3>3. QED
      BY <2>1, <2>6, <3>2 DEF RollbackCalls, At
  <2>7. ASSUME NEW q \in Procs, Dies(q) \/ ConfirmRefused(q) \/ RollbackRefused(q)
        PROVE  FALSE
    BY <2>1, <2>3, <2>7, ActionsEnd DEF Ends
  <2>8. ASSUME NEW q \in Procs,
               \/ CommitConfirm(q) \/ CommitDiscard(q)
               \/ CommitAdminEdit(q) \/ CommitRewrite(q) \/ CommitRollback(q)
        PROVE  FALSE
    <3>1. PICK r \in Revisions : Commits(q, r)
      BY <2>1, <2>8, ConfirmCommits, DiscardCommits, AdminCommits
    <3>2. QED
      BY <2>3, <3>1 DEF Commits
  <2>9. ASSUME NEW q \in Procs, CommitProposalEdit(q)
        PROVE  FALSE
    BY <2>1, <2>3, <2>9, ProposalCommits DEF Proposes
  <2>10. ~UserEdits /\ ~SyncSeesTask
    BY <2>2 DEF UserEdits, SyncSeesTask
  <2>11. QED
    BY <1>2, <2>4, <2>5, <2>6, <2>7, <2>8, <2>9, <2>10 DEF Next
<1>3. ASSUME UNCHANGED vars, NEW p \in Procs
      PROVE  Kept(p)
  BY <1>3 DEF vars, At
<1>4. Inv /\ [Next]_vars => \A p \in Procs : Kept(p)
  <2> HIDE DEF Kept
  <2>1. QED
    BY <1>1, <1>2, <1>3
<1>5. QED
  BY <1>4, AlwaysInv, PTL DEF Spec, EditsKeepUserText

==============================================================================
