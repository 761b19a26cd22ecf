----------------------------- MODULE ProjectSync -----------------------------
(***************************************************************************)
(* The projects that mirror the task lists of Google                       *)
(* (project_sync_service.py), synced by run_sync, run_project_sync and a   *)
(* button of the admin panel, which can overlap.                           *)
(*                                                                         *)
(* A cycle fetches the lists and then works on the database in one         *)
(* transaction at READ COMMITTED.  Its reads take no lock: they see what   *)
(* is committed and what the cycle itself has written.  A write locks its  *)
(* row until the end of the transaction, waits for a cycle that holds the  *)
(* row or the slug it needs, and changes only the columns whose value the  *)
(* cycle has read as a different one, in the row as it is by then.  A step *)
(* is one statement.                                                       *)
(***************************************************************************)
EXTENDS Naturals, Sequences, Functions

CONSTANTS
  ListOrder,   \* ids of the task lists, in the order in which Google gives them
  Names,       \* names the user gives them, numbered in the order of list_all
  Slugs,
  SlugOf,      \* slugify: the slug of each name
  PrefixOf,    \* the first characters of each list's id
  Cycles,      \* sync cycles that can overlap
  MaxRenames,  \* bound: changes of the lists by the user
  MaxFaults    \* bound: cycles that fail on the way

None  == 0
Lists == Range(ListOrder)

ASSUME ProjectsAssumption ==
  /\ ListOrder \in Seq(Lists) /\ IsInjective(ListOrder) /\ SlugOf \in [Names -> Slugs]
  /\ Lists # {} /\ Names # {} /\ Names \subseteq Nat /\ {None} \cap (Names \cup Lists) = {}
  /\ MaxRenames \in Nat /\ MaxFaults \in Nat

VARIABLES
  lists,    \* the name of each list in Google, None without it
  project,  \* the rows of the table, as committed
  cycle,    \* where each cycle is, what it has fetched, read and written
  edits,    \* consumed bounds
  faults

syncVars == <<lists, project, cycle, edits, faults>>

\* A row is named by its list and by the cycle that has inserted it.  No index
\* keeps google_tasklist_id unique; but a cycle that has inserted a project for
\* a list finds it from then on, and inserts no other.
Ids       == Lists \X Cycles
ListOf(i) == i[1]

Plain(s)       == [base |-> s, suffix |-> None]
Suffixed(s, l) == [base |-> s, suffix |-> PrefixOf[l]]

NoProject == [name |-> None, slug |-> Plain(None), active |-> FALSE]

Steps == {"none", "look_up", "look_up_slug", "touch", "rename", "insert", "deactivate"}

\* done: lists the loop has finished; target: the project it works on; due: the
\* columns to change there; draft: the rows it has written; gone: the projects
\* still to be deactivated; alone: no other cycle has committed since the fetch.
NoCycle ==
  [step |-> "none", seen |-> [l \in Lists |-> None], done |-> {},
   target |-> <<None, None>>, due |-> {}, slug |-> Plain(None),
   draft |-> << >>, gone |-> {}, alone |-> TRUE]

SyncInit ==
  /\ lists   \in [Lists -> Names \cup {None}]
  /\ project = [i \in Ids |-> NoProject]
  /\ cycle   = [c \in Cycles |-> NoCycle]
  /\ edits   = 0
  /\ faults  = 0

------------------------------------------------------------------------------
(* What a cycle sees, and whom it must wait for.                           *)

Projects(p, l) == {i \in Ids : ListOf(i) = l /\ p[i] # NoProject}

Wrote(c) == DOMAIN cycle[c].draft

View(c) == [i \in Ids |-> IF i \in Wrote(c) THEN cycle[c].draft[i] ELSE project[i]]

\* The list the loop comes to next.
IsNext(c, l) ==
  /\ cycle[c].seen[l] # None /\ l \notin cycle[c].done
  /\ \E i \in DOMAIN ListOrder :
       /\ ListOrder[i] = l
       /\ \A j \in 1 .. i - 1 :
            cycle[c].seen[ListOrder[j]] # None => ListOrder[j] \in cycle[c].done

LoopEnds(c) == \A l \in Lists : cycle[c].seen[l] # None => l \in cycle[c].done

\* scalar_one_or_none finds several.
Ambiguous(p, l) == \E i, j \in Projects(p, l) : i # j

\* The unique index on the slug, over inactive projects too: an entry that
\* another cycle has written or overwritten is undecided until that cycle ends.
Undecided(d, slug) ==
  \E i \in Wrote(d) : slug \in {project[i].slug, cycle[d].draft[i].slug}

Held(c, slug) == \E i \in Ids \ {cycle[c].target} : View(c)[i].slug = slug

\* The project to be deactivated next.
First(c) == CHOOSE i \in cycle[c].gone :
              \A j \in cycle[c].gone : View(c)[i].name <= View(c)[j].name

\* Whom the statement c is about to execute waits for.
WaitsFor(c) ==
  {d \in Cycles \ {c} :
     CASE cycle[c].step = "touch"                -> cycle[c].target \in Wrote(d)
       [] cycle[c].step \in {"rename", "insert"} -> Undecided(d, cycle[c].slug)
       [] cycle[c].step = "deactivate"           -> cycle[c].gone # {} /\ First(c) \in Wrote(d)
       [] OTHER                                  -> FALSE}

Write(c, i, row) ==
  [k \in Wrote(c) \cup {i} |-> IF k = i THEN row ELSE cycle[c].draft[k]]

Goto(c, next) == cycle' = [cycle EXCEPT ![c] = next]

------------------------------------------------------------------------------

\* The user adds, renames or deletes a list; the id of a deleted one does not
\* come back.
EditLists ==
  /\ edits < MaxRenames /\ edits' = edits + 1
  /\ \E l \in Lists, n \in Names \cup {None} :
       /\ n # lists[l]
       /\ lists[l] = None => /\ Projects(project, l) = {}
                             /\ \A c \in Cycles : cycle[c].seen[l] = None
       /\ lists' = [lists EXCEPT ![l] = n]
  /\ UNCHANGED <<project, cycle, faults>>

\* list_tasklists
FetchLists(c) ==
  /\ cycle[c].step = "none"
  /\ Goto(c, [NoCycle EXCEPT !.step = "look_up", !.seen = lists])
  /\ UNCHANGED <<lists, project, edits, faults>>

\* Mutant: a project that was deactivated is not activated again.
DueNameOnly(row, name) == IF row.name # name THEN {"name"} ELSE {}

\* The columns a cycle changes in a project it has read.
Due(row, name) ==
  (IF row.active THEN {} ELSE {"is_active"}) \cup (IF row.name # name THEN {"name"} ELSE {})

\* get_by_google_tasklist_id
LookUp(c) ==
  /\ cycle[c].step = "look_up"
  /\ \E l \in Lists :
       /\ IsNext(c, l)
       /\ LET found == Projects(View(c), l)
              name  == cycle[c].seen[l]
          IN  \/ /\ found = {}
                 /\ Goto(c, [cycle[c] EXCEPT !.step = "look_up_slug", !.target = <<l, c>>,
                                             !.slug = Plain(SlugOf[name])])
              \/ \E i \in found :
                   /\ ~Ambiguous(View(c), l)
                   /\ Goto(c, [cycle[c] EXCEPT !.step = "touch", !.target = i,
                                               !.slug = Plain(SlugOf[name]),
                                               !.due = Due(View(c)[i], name)])
  /\ UNCHANGED <<lists, project, edits, faults>>

\* get_by_slug: a new project evades a slug that is taken, once.
LookUpSlug(c) ==
  LET q == cycle[c]
  IN  /\ q.step = "look_up_slug"
      /\ Goto(c, [q EXCEPT !.step = "insert",
                           !.slug = IF Held(c, q.slug)
                                      THEN Suffixed(q.slug.base, ListOf(q.target)) ELSE q.slug])
      /\ UNCHANGED <<lists, project, edits, faults>>

\* The loop has finished with the target: it shows the list's name.
Finished(c, row) ==
  [cycle[c] EXCEPT !.step = "look_up", !.target = NoCycle.target, !.slug = NoCycle.slug,
                   !.due = {}, !.done = @ \cup {ListOf(cycle[c].target)},
                   !.draft = Write(c, cycle[c].target, row)]

\* last_seen_at is written in any case, and with it the row is locked.
Touch(c) ==
  LET q   == cycle[c]
      row == [View(c)[q.target] EXCEPT !.active = @ \/ "is_active" \in q.due]
  IN  /\ q.step = "touch" /\ WaitsFor(c) = {}
      /\ Goto(c, IF "name" \in q.due
                   THEN [q EXCEPT !.step = "rename", !.draft = Write(c, q.target, row)]
                   ELSE Finished(c, row))
      /\ UNCHANGED <<lists, project, edits, faults>>

\* A project that is renamed does not evade a slug that is taken.
Rename(c) ==
  LET q    == cycle[c]
      name == q.seen[ListOf(q.target)]
  IN  /\ q.step = "rename" /\ WaitsFor(c) = {} /\ ~Held(c, q.slug)
      /\ Goto(c, Finished(c, [View(c)[q.target] EXCEPT !.name = name, !.slug = q.slug]))
      /\ UNCHANGED <<lists, project, edits, faults>>

Insert(c) ==
  LET q    == cycle[c]
      name == q.seen[ListOf(q.target)]
  IN  /\ q.step = "insert" /\ WaitsFor(c) = {} /\ ~Held(c, q.slug)
      /\ Goto(c, Finished(c, [name |-> name, slug |-> q.slug, active |-> TRUE]))
      /\ UNCHANGED <<lists, project, edits, faults>>

\* list_all: the active projects whose list was not seen.
ListAll(c) ==
  /\ cycle[c].step = "look_up" /\ LoopEnds(c)
  /\ Goto(c, [cycle[c] EXCEPT
       !.step = "deactivate",
       !.gone = {i \in Ids : View(c)[i].active /\ cycle[c].seen[ListOf(i)] = None}])
  /\ UNCHANGED <<lists, project, edits, faults>>

Deactivate(c) ==
  /\ cycle[c].step = "deactivate" /\ cycle[c].gone # {} /\ WaitsFor(c) = {}
  /\ Goto(c, [cycle[c] EXCEPT
       !.gone = @ \ {First(c)},
       !.draft = Write(c, First(c), [View(c)[First(c)] EXCEPT !.active = FALSE])])
  /\ UNCHANGED <<lists, project, edits, faults>>

CommitProjects(c) ==
  /\ cycle[c].step = "deactivate" /\ cycle[c].gone = {}
  /\ project' = View(c)
  /\ cycle' = [d \in Cycles |-> IF d = c THEN NoCycle
                                ELSE IF cycle[d].step = "none" THEN cycle[d]
                                ELSE [cycle[d] EXCEPT !.alone = FALSE]]
  /\ UNCHANGED <<lists, edits, faults>>

\* The transaction is rolled back, and run_sync ends before the tasks are synced.
RollBack(c) == Goto(c, NoCycle) /\ UNCHANGED <<lists, project, edits>>

\* MultipleResultsFound and IntegrityError
Refused(c) ==
  /\ \/ /\ cycle[c].step = "look_up"
        /\ \E l \in Lists : IsNext(c, l) /\ Ambiguous(View(c), l)
     \/ /\ cycle[c].step \in {"rename", "insert"} /\ WaitsFor(c) = {}
        /\ Held(c, cycle[c].slug)
  /\ RollBack(c) /\ UNCHANGED faults

\* The database ends a circle of cycles that wait for each other.
DeadlockDetected(c) ==
  /\ \E ring \in SUBSET Cycles :
       /\ c \in ring
       /\ \A d \in ring : /\ WaitsFor(d) \cap ring # {}
                          /\ \E e \in ring : d \in WaitsFor(e)
  /\ RollBack(c) /\ UNCHANGED faults

ProjectSyncFails(c) ==
  /\ cycle[c].step # "none"
  /\ faults < MaxFaults /\ faults' = faults + 1
  /\ RollBack(c)

CycleStep(c) ==
  \/ FetchLists(c) \/ LookUp(c) \/ LookUpSlug(c) \/ Touch(c) \/ Rename(c) \/ Insert(c)
  \/ ListAll(c) \/ Deactivate(c) \/ CommitProjects(c) \/ Refused(c) \/ DeadlockDetected(c)

SyncNext == EditLists \/ \E c \in Cycles : CycleStep(c) \/ ProjectSyncFails(c)

SyncSpec == SyncInit /\ [][SyncNext]_syncVars

\* The scheduler goes on starting cycles, and the database hands a row or a slug
\* that is set free to the cycle that has waited for it, not to the next one.
SyncFairness == \A c \in Cycles : SF_syncVars(CycleStep(c))

------------------------------------------------------------------------------
(* Properties.                                                             *)

\* A list has one project, which is active and has the list's name; a list that
\* is gone has none that is active.
Mirrored(p, l, name) ==
  IF name = None
    THEN \A i \in Projects(p, l) : ~p[i].active
    ELSE /\ Projects(p, l) # {} /\ ~Ambiguous(p, l)
         /\ \A i \in Projects(p, l) : p[i].active /\ p[i].name = name

Agree(p, names) == \A l \in Lists : Mirrored(p, l, names[l])

\* A cycle leaves all the projects as it has fetched their lists, unless another
\* cycle commits between its fetch and its commit: cycles that merely overlap,
\* hold rows it must wait for, and fail, leave no trace in what it reads one by
\* one and writes one by one.  Where another does commit in between, the two can
\* leave a mixture, and two projects of one list.
ProjectsShowOneFetch ==
  [][\A c \in Cycles : CommitProjects(c) /\ cycle[c].alone
                         => Agree(project', cycle[c].seen)]_syncVars

\* A list that is not mirrored has two projects, or asks for a slug that the
\* project of another list has, or that another list asks for in vain too.
Blocked ==
  \E l \in Lists :
    /\ lists[l] # None /\ ~Mirrored(project, l, lists[l])
    /\ \/ Ambiguous(project, l)
       \/ \E i \in Ids \ Projects(project, l) :
            project[i].slug \in {Plain(SlugOf[lists[l]]), Suffixed(SlugOf[lists[l]], l)}
       \/ \E m \in Lists \ {l} : /\ lists[m] # None /\ ~Mirrored(project, m, lists[m])
                                 /\ SlugOf[lists[m]] = SlugOf[lists[l]]

\* When the user leaves the lists alone the projects come to agree with them,
\* though cycles overlap, mix their fetches, fail, and wait for each other; only
\* a second project of a list, or a slug that two of them claim, keeps them from
\* it, and then for ever.
ProjectsCatchUp == <>[]Agree(project, lists) \/ <>[]Blocked

==============================================================================
