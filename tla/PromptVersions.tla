--------------------------- MODULE PromptVersions ---------------------------
(***************************************************************************)
(* The prompt versions of one project: prompt_versioning_service.py as the *)
(* pages of the admin panel call it (admin_ui.py).  A request reads the    *)
(* versions, twice, and commits what follows from what it has read; other  *)
(* requests commit in between.                                             *)
(*                                                                         *)
(* The session writes only attributes whose value has changed since it     *)
(* read them: to set is_active on a version that it has read as active     *)
(* writes nothing.  No page calls deactivate_version.                      *)
(***************************************************************************)
EXTENDS Naturals, FiniteSets

CONSTANTS
  Requests,   \* requests that can overlap
  MaxVersions \* bound: versions of the project

ASSUME VersionsAssumption == IsFiniteSet(Requests) /\ MaxVersions \in Nat

Nobody == 0

VARIABLES
  versions,   \* is_active of each version, by version_no
  request,    \* what each request has read
  overlapped  \* two requests have been under way at once

versionVars == <<versions, request, overlapped>>

Ops     == {"create", "activate", "edit", "draft"}
Active  == {v \in DOMAIN versions : versions[v]}

Idle == [op |-> "none", target |-> Nobody, was |-> FALSE, current |-> Nobody,
         no |-> Nobody, looked |-> FALSE]

VersionsInit ==
  /\ versions   = << >>
  /\ request    = [r \in Requests |-> Idle]
  /\ overlapped = FALSE

------------------------------------------------------------------------------

\* The request adds a version.
Adds(q) == q.op \in Ops \ {"activate"}

\* get_next_version_no
NextNo == Cardinality(DOMAIN versions) + 1

\* The first read: the version in the address, or for a draft the active one.
\* get_active_for_project fails when there are several.
Begin(r, op) ==
  /\ request[r] = Idle
  /\ op # "activate" =>
       Cardinality(DOMAIN versions \cup {q \in Requests : Adds(request[q])}) < MaxVersions
  /\ \E v \in CASE op = "create" -> {Nobody}
                [] op = "draft"  -> IF Active = {} THEN {Nobody} ELSE Active
                [] OTHER         -> DOMAIN versions :
       /\ op = "draft" => Cardinality(Active) < 2
       /\ request' = [request EXCEPT ![r] =
            [Idle EXCEPT !.op = op, !.target = v, !.no = NextNo,
                         !.was = v # Nobody /\ versions[v]]]
  /\ overlapped' = (overlapped \/ \E q \in Requests \ {r} : request[q] # Idle)
  /\ UNCHANGED versions

\* The active version; the edit of an active version has by then switched that
\* one off, the edit of an inactive one does not ask.
Look(r) ==
  LET q    == request[r]
      seen == Active \ (IF q.op = "edit" THEN {q.target} ELSE {})
      asks == q.op = "edit" => q.was
  IN  /\ q # Idle /\ ~q.looked
      /\ asks => Cardinality(seen) < 2
      /\ \E v \in IF ~asks \/ seen = {} THEN {Nobody} ELSE seen :
           request' = [request EXCEPT ![r].current = v, ![r].looked = TRUE]
      /\ UNCHANGED <<versions, overlapped>>

\* scalar_one_or_none finds several active versions: the page fails.
LookFails(r) ==
  /\ request[r] # Idle /\ ~request[r].looked
  /\ Cardinality(Active \ (IF request[r].op = "edit" THEN {request[r].target} ELSE {})) > 1
  /\ request[r].op = "edit" => request[r].was
  /\ request' = [request EXCEPT ![r] = Idle]
  /\ UNCHANGED <<versions, overlapped>>

\* Mutant: activating a version leaves the other one as it is.
OffOnlyEdited(q) == IF q.op = "edit" /\ q.was THEN {q.target} ELSE {}

\* The versions a request switches off, those it switches on after that, and
\* what it adds.
Off(q) ==
  (IF q.op = "activate" /\ q.current = q.target THEN {} ELSE {q.current})
    \cup (IF q.op = "edit" /\ q.was THEN {q.target} ELSE {})

\* Mutant: the draft does not give way to the version that was active.
OnActivated(q) == IF q.op = "activate" /\ ~q.was THEN {q.target} ELSE {}

\* The draft switches the active version back on.
On(q) ==
  CASE q.op = "activate" -> IF q.was THEN {} ELSE {q.target}
    [] q.op = "draft"    -> IF q.current = q.target THEN {q.target} ELSE {}
    [] OTHER             -> {}
AddsActive(q) == q.op = "create" \/ (q.op = "edit" /\ q.was)

Written(q, no) ==
  [v \in DOMAIN versions \cup (IF Adds(q) THEN {no} ELSE {}) |->
     IF v \notin DOMAIN versions THEN AddsActive(q)
     ELSE v \in On(q) \/ (versions[v] /\ v \notin Off(q))]

\* The number is read before the insert, at the latest now; a number that has
\* been taken violates the unique index and nothing is written.
CommitVersion(r) ==
  LET q == request[r]
  IN  /\ q.looked
      /\ versions' = Written(q, NextNo)
      /\ request' = [request EXCEPT ![r] = Idle]
      /\ UNCHANGED overlapped

NumberTaken(r) ==
  /\ request[r].looked
  /\ Adds(request[r]) /\ request[r].no \in DOMAIN versions
  /\ request' = [request EXCEPT ![r] = Idle]
  /\ UNCHANGED <<versions, overlapped>>

VersionsNext ==
  \E r \in Requests :
    \/ \E op \in Ops : Begin(r, op)
    \/ Look(r) \/ LookFails(r) \/ CommitVersion(r) \/ NumberTaken(r)

VersionsSpec == VersionsInit /\ [][VersionsNext]_versionVars

------------------------------------------------------------------------------
(* Properties.                                                             *)

\* Requests that have always come one after the other never leave two active
\* versions, on which every later create, activation and draft would fail.
OneActiveUnlessOverlapped == ~overlapped => Cardinality(Active) <= 1

\* Nor does one of them take the active version away without another in its
\* place: drafts, edits and activations hand it over.
ActiveIsHandedOver ==
  [][~overlapped' /\ Active # {} => Active' # {}]_versionVars

==============================================================================
