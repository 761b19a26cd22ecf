---------------------------- MODULE ProjectsProofs ----------------------------
(* Theorems about PromptVersions and ProjectSync, for any number of        *)
(* requests and versions, of lists, names and cycles.                      *)
EXTENDS PromptVersions, ProjectSync, Induction

------------------------------------------------------------------------------
(* Types.  The versions are numbered without a gap, even when numbers that *)
(* overlapping requests have read collide.                                 *)

Read == [op : Ops \cup {"none"}, target : Nat, was : BOOLEAN, current : Nat,
         no : Nat, looked : BOOLEAN]

Numbered == \E n \in Nat : DOMAIN versions = 1 .. n /\ versions \in [1 .. n -> BOOLEAN]

TypeInv ==
  /\ Numbered
  /\ request \in [Requests -> Read]
  /\ overlapped \in BOOLEAN

(***************************************************************************)
(* While the requests come one after the other, the only one under way     *)
(* knows the versions as they are.                                         *)
(***************************************************************************)
Knows(q, known, active) ==
  LET seen == active \ (IF q.op = "edit" THEN {q.target} ELSE {})
      asks == q.op = "edit" => q.was
  IN  /\ q.op \in Ops
      /\ q.op \in {"activate", "edit"} => q.target \in known
      /\ q.op = "create" => q.target = Nobody
      /\ q.op = "draft" => q.target \in active \/ (q.target = Nobody /\ active = {})
      /\ q.was = (q.target \in active)
      /\ q.looked => \/ asks /\ q.current \in seen
                     \/ ~asks /\ q.current = Nobody
                     \/ seen = {} /\ q.current = Nobody

AtMostOneActive == \A u, v \in Active : u = v

SerialInv ==
  ~overlapped =>
    /\ AtMostOneActive
    /\ \A r, s \in Requests : request[r] # Idle /\ request[s] # Idle => r = s
    /\ \A r \in Requests : request[r] # Idle => Knows(request[r], DOMAIN versions, Active)

Inv == TypeInv /\ SerialInv

LEMMA NextIsFree ==
  ASSUME NEW n \in Nat, DOMAIN versions = 1 .. n
  PROVE  NextNo = n + 1
<1>1. Cardinality(1 .. n) = n
  BY FS_Interval
<1>2. QED
  BY <1>1 DEF NextNo

LEMMA IdleTyped == Idle \in Read
BY DEF Idle, Read, Nobody

LEMMA InvInit == VersionsInit => Inv
<1> SUFFICES ASSUME VersionsInit PROVE Inv
  OBVIOUS
<1>1. DOMAIN versions = 1 .. 0 /\ versions \in [1 .. 0 -> BOOLEAN]
  BY DEF VersionsInit
<1>2. TypeInv
  BY <1>1, IdleTyped DEF VersionsInit, TypeInv, Numbered
<1>3. Active = {}
  BY <1>1 DEF Active
<1>4. SerialInv
  BY <1>3 DEF VersionsInit, SerialInv, AtMostOneActive
<1>5. QED
  BY <1>2, <1>4 DEF Inv

\* A request that ends without a commit leaves what the others know.
LEMMA EndStep ==
  ASSUME Inv, NEW r \in Requests, request' = [request EXCEPT ![r] = Idle],
         UNCHANGED <<versions, overlapped>>
  PROVE  Inv'
<1>1. TypeInv'
  BY IdleTyped DEF Inv, TypeInv, Numbered
<1>2. Active' = Active
  BY DEF Active
<1>3. \A s \in Requests : request'[s] = IF s = r THEN Idle ELSE request[s]
  BY DEF Inv, TypeInv
<1>4. SerialInv'
  BY <1>2, <1>3 DEF Inv, SerialInv, AtMostOneActive
<1>5. QED
  BY <1>1, <1>4 DEF Inv

\* When nobody else is under way, a request that begins sees what there is.
LEMMA BeginStep ==
  ASSUME Inv, NEW r \in Requests, NEW op \in Ops, Begin(r, op)
  PROVE  Inv'
<1>1. PICK v : /\ v \in (CASE op = "create" -> {Nobody}
                           [] op = "draft"  -> IF Active = {} THEN {Nobody} ELSE Active
                           [] OTHER         -> DOMAIN versions)
               /\ request' = [request EXCEPT ![r] =
                    [Idle EXCEPT !.op = op, !.target = v, !.no = NextNo,
                                 !.was = v # Nobody /\ versions[v]]]
  BY DEF Begin
<1>2. PICK n \in Nat : DOMAIN versions = 1 .. n /\ versions \in [1 .. n -> BOOLEAN]
  BY DEF Inv, TypeInv, Numbered
<1>3. NextNo \in Nat
  BY <1>2, NextIsFree
<1>4. v \in Nat /\ (v = Nobody \/ v \in DOMAIN versions)
  BY <1>1, <1>2 DEF Active, Nobody, Ops
<1>5. PICK q : q = [Idle EXCEPT !.op = op, !.target = v, !.no = NextNo,
                                !.was = v # Nobody /\ versions[v]]
  OBVIOUS
<1>6. /\ q.op = op /\ q.target = v /\ q.no = NextNo /\ q.looked = FALSE /\ q.current = Nobody
      /\ q.was = (v \in Active)
  <2>1. Nobody \notin DOMAIN versions
    BY <1>2 DEF Nobody
  <2>2. (v # Nobody /\ versions[v]) <=> v \in Active
    BY <1>2, <1>4, <2>1 DEF Active
  <2>3. QED
    BY <1>5, <2>2 DEF Idle
<1>7. q \in Read
  BY <1>3, <1>4, <1>5, <1>2 DEF Idle, Read, Nobody
<1>8. request' = [request EXCEPT ![r] = q] /\ UNCHANGED versions
      /\ overlapped' = (overlapped \/ \E s \in Requests \ {r} : request[s] # Idle)
  BY <1>1, <1>5 DEF Begin
<1>9. TypeInv'
  BY <1>2, <1>7, <1>8 DEF Inv, TypeInv, Numbered
<1>10. SerialInv'
  <2> SUFFICES ASSUME ~overlapped'
               PROVE  /\ AtMostOneActive'
                      /\ \A s, t \in Requests : request'[s] # Idle /\ request'[t] # Idle => s = t
                      /\ \A s \in Requests : request'[s] # Idle => Knows(request'[s], DOMAIN versions', Active')
    BY DEF SerialInv
  <2>1. ~overlapped /\ \A s \in Requests \ {r} : request[s] = Idle
    BY <1>8
  <2>2. \A s \in Requests : request'[s] = IF s = r THEN q ELSE request[s]
    BY <1>8 DEF Inv, TypeInv
  <2>3. Active' = Active /\ DOMAIN versions' = DOMAIN versions
    BY <1>8 DEF Active
  <2>4. Knows(q, DOMAIN versions, Active)
    BY <1>1, <1>6, <1>4 DEF Knows, Ops, Active
  <2>5. Knows(q, DOMAIN versions', Active')
    BY <2>3, <2>4 DEF Knows
  <2>6. QED
    BY <2>1, <2>2, <2>3, <2>5 DEF Inv, SerialInv, AtMostOneActive
<1>11. QED
  BY <1>9, <1>10 DEF Inv

LEMMA LookStep ==
  ASSUME Inv, NEW r \in Requests, Look(r)
  PROVE  Inv'
<1>1. PICK q : q = request[r]
  OBVIOUS
<1> DEFINE seen == Active \ (IF q.op = "edit" THEN {q.target} ELSE {})
           asks == q.op = "edit" => q.was
<1>2. PICK v : /\ v \in IF ~asks \/ seen = {} THEN {Nobody} ELSE seen
               /\ request' = [request EXCEPT ![r].current = v, ![r].looked = TRUE]
  BY <1>1 DEF Look
<1>3. PICK p : p = [q EXCEPT !.current = v, !.looked = TRUE]
  OBVIOUS
<1>4. q \in Read /\ q # Idle /\ UNCHANGED <<versions, overlapped>>
  BY <1>1 DEF Look, Inv, TypeInv
<1>5. v \in Nat
  BY <1>2 DEF Active, Nobody, Inv, TypeInv, Numbered
<1>6. /\ p \in Read /\ p.op = q.op /\ p.target = q.target /\ p.was = q.was
      /\ p.current = v /\ p.looked = TRUE
  BY <1>3, <1>4, <1>5 DEF Read
<1>7. request' = [request EXCEPT ![r] = p]
  BY <1>1, <1>2, <1>3 DEF Inv, TypeInv
<1>8. TypeInv'
  BY <1>4, <1>6, <1>7 DEF Inv, TypeInv, Numbered
<1>9. SerialInv'
  <2> SUFFICES ASSUME ~overlapped'
               PROVE  /\ AtMostOneActive'
                      /\ \A s, t \in Requests : request'[s] # Idle /\ request'[t] # Idle => s = t
                      /\ \A s \in Requests : request'[s] # Idle => Knows(request'[s], DOMAIN versions', Active')
    BY DEF SerialInv
  <2>1. ~overlapped /\ \A s \in Requests \ {r} : request[s] = Idle
    BY <1>1, <1>4 DEF Inv, SerialInv
  <2>2. \A s \in Requests : request'[s] = IF s = r THEN p ELSE request[s]
    BY <1>7 DEF Inv, TypeInv
  <2>3. Active' = Active /\ DOMAIN versions' = DOMAIN versions
    BY <1>4 DEF Active
  <2>4. Knows(q, DOMAIN versions, Active)
    BY <1>1, <1>4, <2>1 DEF Inv, SerialInv
  <2>5. Knows(p, DOMAIN versions, Active)
    <3>1. \/ asks /\ v \in seen
          \/ ~asks /\ v = Nobody
          \/ seen = {} /\ v = Nobody
      BY <1>2
    <3>2. QED
      BY <1>6, <2>4, <3>1 DEF Knows
  <2>6. Knows(p, DOMAIN versions', Active')
    BY <2>3, <2>5 DEF Knows
  <2>7. QED
    BY <2>1, <2>2, <2>3, <2>6 DEF Inv, SerialInv, AtMostOneActive
<1>10. QED
  BY <1>8, <1>9 DEF Inv

\* What a request writes that knows the versions: at most one is active again,
\* and one is when one was.
LEMMA CommitHandsOver ==
  ASSUME Inv, NEW r \in Requests, CommitVersion(r), ~overlapped
  PROVE  AtMostOneActive' /\ (Active # {} => Active' # {})
<1>1. PICK q : q = request[r]
  OBVIOUS
<1>2. PICK n \in Nat : DOMAIN versions = 1 .. n /\ versions \in [1 .. n -> BOOLEAN]
  BY DEF Inv, TypeInv, Numbered
<1>3. NextNo = n + 1
  BY <1>2, NextIsFree
<1>4. n + 1 \notin DOMAIN versions /\ Nobody \notin DOMAIN versions /\ Nobody # n + 1
  BY <1>2 DEF Nobody
<1>5. q.looked /\ q \in Read /\ versions' = Written(q, n + 1)
  BY <1>1, <1>3 DEF CommitVersion, Inv, TypeInv
<1>6. AtMostOneActive /\ Knows(q, DOMAIN versions, Active)
  BY <1>1, <1>5 DEF Inv, SerialInv, Idle
<1>7. Active' = (IF Adds(q) /\ AddsActive(q) THEN {n + 1} ELSE {})
                 \cup {v \in DOMAIN versions : v \in On(q) \/ (v \in Active /\ v \notin Off(q))}
  <2>1. DOMAIN versions' = DOMAIN versions \cup (IF Adds(q) THEN {n + 1} ELSE {})
    BY <1>5 DEF Written
  <2>2. \A v \in DOMAIN versions' :
          versions'[v] = IF v \notin DOMAIN versions THEN AddsActive(q)
                         ELSE v \in On(q) \/ (versions[v] /\ v \notin Off(q))
    BY <1>5, <2>1 DEF Written
  <2>3. QED
    BY <1>2, <1>4, <2>1, <2>2 DEF Active
<1>8. CASE q.op = "create"
  <2>1. /\ Adds(q) /\ AddsActive(q) /\ On(q) = {}
        /\ Off(q) = {q.current}
    BY <1>8, <1>5 DEF Adds, AddsActive, On, Off, Ops, Read
  <2>2. \A v \in Active : v = q.current
    BY <1>5, <1>6, <1>8 DEF Knows, AtMostOneActive
  <2>3. Active' = {n + 1}
    BY <1>7, <2>1, <2>2
  <2>4. QED
    BY <2>3 DEF AtMostOneActive
<1>9. CASE q.op = "activate"
  <2>1. ~Adds(q) /\ q.target \in DOMAIN versions /\ q.target # Nobody
    BY <1>4, <1>6, <1>9 DEF Adds, Ops, Knows
  <2>2. CASE q.was
    <3>1. q.target \in Active /\ q.current = q.target
      BY <1>5, <1>6, <1>9, <2>2 DEF Knows, AtMostOneActive
    <3>2. On(q) = {} /\ Off(q) = {}
      BY <1>9, <2>2, <3>1 DEF On, Off
    <3>3. Active' = Active
      BY <1>7, <2>1, <3>2 DEF Active
    <3>4. QED
      BY <1>6, <3>3 DEF AtMostOneActive
  <2>3. CASE ~q.was
    <3>1. q.target \notin Active /\ (q.current \in Active \/ (q.current = Nobody /\ Active = {}))
      BY <1>5, <1>6, <1>9, <2>3 DEF Knows
    <3>2. q.current # q.target
      BY <2>1, <3>1
    <3>3. On(q) = {q.target} /\ Off(q) = {q.current}
      BY <1>9, <2>3, <3>2 DEF On, Off
    <3>4. \A v \in Active : v \in Off(q)
      BY <1>6, <3>1, <3>3 DEF AtMostOneActive
    <3>5. Active' = {q.target}
      BY <1>7, <2>1, <3>3, <3>4
    <3>6. QED
      BY <3>5 DEF AtMostOneActive
  <2>4. QED
    BY <2>2, <2>3, <1>5 DEF Read
<1>10. CASE q.op = "edit"
  <2>1. Adds(q) /\ q.target \in DOMAIN versions /\ On(q) = {}
    BY <1>6, <1>10 DEF Adds, Ops, Knows, On
  <2>2. CASE q.was
    <3>1. q.target \in Active /\ q.target \in Off(q) /\ AddsActive(q)
      BY <1>6, <1>10, <2>2 DEF Knows, Off, AddsActive
    <3>2. \A v \in Active : v \in Off(q)
      BY <1>6, <3>1 DEF AtMostOneActive
    <3>3. Active' = {n + 1}
      BY <1>7, <2>1, <3>1, <3>2
    <3>4. QED
      BY <3>3 DEF AtMostOneActive
  <2>3. CASE ~q.was
    <3>1. q.current = Nobody
      BY <1>5, <1>6, <1>10, <2>3 DEF Knows
    <3>2. Off(q) = {Nobody} /\ ~AddsActive(q)
      BY <1>10, <2>3, <3>1 DEF Off, AddsActive
    <3>3. Active' = Active
      BY <1>4, <1>7, <2>1, <3>2 DEF Active
    <3>4. QED
      BY <1>6, <3>3 DEF AtMostOneActive
  <2>4. QED
    BY <2>2, <2>3, <1>5 DEF Read
<1>11. CASE q.op = "draft"
  <2>1. Adds(q) /\ ~AddsActive(q) /\ Off(q) = {q.current}
    BY <1>11 DEF Adds, Ops, AddsActive, Off
  <2>2. q.current = q.target /\ (q.target \in Active \/ (q.target = Nobody /\ Active = {}))
    BY <1>5, <1>6, <1>11 DEF Knows, AtMostOneActive
  <2>3. On(q) = {q.target}
    BY <1>11, <2>2 DEF On
  <2>4. Active' = Active
    BY <1>4, <1>6, <1>7, <2>1, <2>2, <2>3 DEF Active, AtMostOneActive
  <2>5. QED
    BY <1>6, <2>4 DEF AtMostOneActive
<1>12. QED
  BY <1>6, <1>8, <1>9, <1>10, <1>11 DEF Knows, Ops

LEMMA CommitStep ==
  ASSUME Inv, NEW r \in Requests, CommitVersion(r)
  PROVE  Inv'
<1>1. PICK n \in Nat : DOMAIN versions = 1 .. n /\ versions \in [1 .. n -> BOOLEAN]
  BY DEF Inv, TypeInv, Numbered
<1>2. NextNo = n + 1
  BY <1>1, NextIsFree
<1>3. PICK q : q = request[r]
  OBVIOUS
<1>4. q \in Read /\ q # Idle /\ UNCHANGED overlapped
  BY <1>3 DEF CommitVersion, Inv, TypeInv, Idle
<1>5. Numbered'
  <2>1. AddsActive(q) \in BOOLEAN
    BY <1>4 DEF AddsActive, Read
  <2>2. versions' = Written(q, n + 1)
    BY <1>2, <1>3 DEF CommitVersion
  <2>3. \A S : Written(q, n + 1) \in [DOMAIN versions \cup (IF Adds(q) THEN {n + 1} ELSE {})
                                        -> BOOLEAN]
    BY <2>1, <1>1 DEF Written
  <2>4. 1 .. n \cup {n + 1} = 1 .. n + 1
    BY <1>1
  <2>5. CASE Adds(q)
    <3>1. DOMAIN versions' = 1 .. n + 1 /\ versions' \in [1 .. n + 1 -> BOOLEAN]
      BY <1>1, <2>2, <2>3, <2>4, <2>5
    <3>2. QED
      BY <3>1 DEF Numbered
  <2>6. CASE ~Adds(q)
    <3>1. DOMAIN versions' = 1 .. n /\ versions' \in [1 .. n -> BOOLEAN]
      BY <1>1, <2>2, <2>3, <2>6
    <3>2. QED
      BY <3>1 DEF Numbered
  <2>7. QED
    BY <2>5, <2>6
<1>6. request' = [request EXCEPT ![r] = Idle]
  BY DEF CommitVersion
<1>7. TypeInv'
  BY <1>4, <1>5, <1>6, IdleTyped DEF Inv, TypeInv
<1>8. SerialInv'
  <2> SUFFICES ASSUME ~overlapped'
               PROVE  /\ AtMostOneActive'
                      /\ \A s \in Requests : request'[s] = Idle
    BY DEF SerialInv
  <2>1. ~overlapped
    BY <1>4
  <2>2. \A s \in Requests \ {r} : request[s] = Idle
    BY <1>3, <1>4, <2>1 DEF Inv, SerialInv
  <2>3. QED
    BY <1>6, <2>1, <2>2, CommitHandsOver DEF Inv, TypeInv
<1>9. QED
  BY <1>7, <1>8 DEF Inv

LEMMA InvStep == Inv /\ [VersionsNext]_versionVars => Inv'
<1> SUFFICES ASSUME Inv, [VersionsNext]_versionVars PROVE Inv'
  OBVIOUS
<1>1. CASE UNCHANGED versionVars
  BY <1>1 DEF versionVars, Inv, TypeInv, Numbered, SerialInv, AtMostOneActive, Knows, Active
<1>2. ASSUME NEW r \in Requests,
             (\E op \in Ops : Begin(r, op)) \/ Look(r) \/ LookFails(r) \/ CommitVersion(r)
               \/ NumberTaken(r)
      PROVE  Inv'
  BY <1>2, BeginStep, LookStep, EndStep, CommitStep DEF LookFails, NumberTaken
<1>3. QED
  BY <1>1, <1>2 DEF VersionsNext

LEMMA AlwaysInv == VersionsSpec => []Inv
BY InvInit, InvStep, PTL DEF VersionsSpec

\* As long as the requests of the admin panel come one after the other, at most
\* one version of the prompt is active, whatever was read and committed.
THEOREM OneVersionIsActive == VersionsSpec => []OneActiveUnlessOverlapped
<1>1. Inv => OneActiveUnlessOverlapped
  <2> SUFFICES ASSUME Inv, ~overlapped PROVE Cardinality(Active) <= 1
    BY DEF OneActiveUnlessOverlapped
  <2>1. CASE Active = {}
    BY <2>1, FS_EmptySet
  <2>2. CASE Active # {}
    <3>1. PICK a : a \in Active
      BY <2>2
    <3>2. Active = {a}
      BY <3>1 DEF Inv, SerialInv, AtMostOneActive
    <3>3. QED
      BY <3>2, FS_Singleton
  <2>3. QED
    BY <2>1, <2>2
<1>2. QED
  BY <1>1, AlwaysInv, PTL

\* And none of them takes the active version away without another in its place.
THEOREM ActivationIsHandedOver == VersionsSpec => ActiveIsHandedOver
<1>1. Inv /\ [VersionsNext]_versionVars => [~overlapped' /\ Active # {} => Active' # {}]_versionVars
  <2> SUFFICES ASSUME Inv, VersionsNext, ~overlapped', Active # {}
               PROVE  Active' # {}
    BY DEF versionVars
  <2>1. CASE UNCHANGED versions
    BY <2>1 DEF Active
  <2>2. ASSUME NEW r \in Requests, CommitVersion(r)
        PROVE  Active' # {}
    BY <2>2, CommitHandsOver DEF CommitVersion
  <2>3. QED
    BY <2>1, <2>2 DEF VersionsNext, Begin, Look, LookFails, NumberTaken
<1>2. QED
  BY <1>1, AlwaysInv, PTL DEF VersionsSpec, ActiveIsHandedOver
------------------------------------------------------------------------------
(***************************************************************************)
(* Project sync.  While no other cycle commits, the rows a cycle sees are  *)
(* as it has read them or as it has written them: what it has found out    *)
(* about the table stays true until it commits, lock or no lock.           *)
(***************************************************************************)

SlugSet == [base : Slugs \cup {None}, suffix : {None} \cup {PrefixOf[l] : l \in Lists}]
Project == [name : Names \cup {None}, slug : SlugSet, active : BOOLEAN]
Fetched == [Lists -> Names \cup {None}]
Drafts  == UNION {[D -> Project] : D \in SUBSET Ids}

Cycle == [step : Steps, seen : Fetched, done : SUBSET Lists,
          target : Ids \cup {<<None, None>>}, due : SUBSET {"is_active", "name"},
          slug : SlugSet, draft : Drafts, gone : SUBSET Ids, alone : BOOLEAN]

\* Steps at which a cycle works on a project.
OnTarget == {"look_up_slug", "touch", "rename", "insert"}

SyncTypeInv ==
  /\ lists \in Fetched
  /\ project \in [Ids -> Project]
  /\ cycle \in [Cycles -> Cycle]
  /\ \A c \in Cycles : cycle[c].step \in OnTarget =>
       cycle[c].target \in Ids /\ cycle[c].seen[ListOf(cycle[c].target)] # None

\* The table p as a cycle that is at q sees it.
Seen(q, p) == [i \in Ids |-> IF i \in DOMAIN q.draft THEN q.draft[i] ELSE p[i]]

\* What a cycle that is at q and sees the rows v knows of them.
KnowsRows(q, v) ==
  LET l == ListOf(q.target)
  IN  /\ q.step = "none" => q = NoCycle
      /\ \A m \in q.done : q.seen[m] # None /\ Mirrored(v, m, q.seen[m])
      /\ q.step \in OnTarget => l \notin q.done
      /\ q.step \in {"look_up_slug", "insert"} => Projects(v, l) = {}
      /\ q.step \in {"touch", "rename"} => Projects(v, l) = {q.target}
      /\ q.step = "touch" => q.due = Due(v[q.target], q.seen[l])
      /\ q.step = "rename" => v[q.target].active
      /\ \A i \in q.gone : q.seen[ListOf(i)] = None
      /\ q.step = "deactivate" =>
           /\ \A m \in Lists : q.seen[m] # None => m \in q.done
           /\ \A i \in Ids : v[i].active /\ q.seen[ListOf(i)] = None => i \in q.gone

SoloInv ==
  \A c \in Cycles :
    /\ cycle[c].step = "none" => cycle[c] = NoCycle
    /\ cycle[c].alone => KnowsRows(cycle[c], Seen(cycle[c], project))

LEMMA ViewIsSeen == \A c : View(c) = Seen(cycle[c], project)
BY DEF View, Seen, Wrote

LEMMA IdsTyped == \A i \in Ids : ListOf(i) \in Lists
BY DEF Ids, ListOf

LEMMA StartTyped ==
  /\ NoProject \in Project
  /\ NoCycle \in Cycle
  /\ \A m : SlugOf \in [Names -> Slugs] /\ m \in Names => Plain(SlugOf[m]) \in SlugSet
<1>1. Plain(None) \in SlugSet
  BY DEF Plain, SlugSet
<1>2. << >> \in Drafts
  <2>1. << >> \in [{} -> Project]
    OBVIOUS
  <2>2. {} \in SUBSET Ids
    OBVIOUS
  <2>3. QED
    BY <2>1, <2>2 DEF Drafts
<1>3. [l \in Lists |-> None] \in Fetched
  BY DEF Fetched
<1>4. NoProject \in Project
  BY <1>1 DEF NoProject, Project
<1>5. NoCycle \in Cycle
  BY <1>1, <1>2, <1>3 DEF NoCycle, Cycle, Steps
<1>6. QED
  BY <1>4, <1>5 DEF Plain, SlugSet

LEMMA DraftTyped ==
  ASSUME SyncTypeInv, NEW c \in Cycles
  PROVE  \E D \in SUBSET Ids : cycle[c].draft \in [D -> Project]
<1>1. cycle[c] \in Cycle
  BY DEF SyncTypeInv
<1>2. cycle[c].draft \in Drafts
  BY <1>1 DEF Cycle
<1>3. QED
  BY <1>2 DEF Drafts

\* Writing a row.
LEMMA WriteSeen ==
  ASSUME SyncTypeInv, NEW c \in Cycles, NEW i \in Ids, NEW row \in Project, NEW q,
         q.draft = Write(c, i, row)
  PROVE  /\ Write(c, i, row) \in Drafts
         /\ Seen(q, project) = [Seen(cycle[c], project) EXCEPT ![i] = row]
         /\ Seen(cycle[c], project) \in [Ids -> Project]
<1>1. PICK D \in SUBSET Ids : cycle[c].draft \in [D -> Project]
  BY DraftTyped
<1>2. DOMAIN cycle[c].draft = D
  BY <1>1
<1>3. Write(c, i, row) \in [D \cup {i} -> Project]
  BY <1>1, <1>2 DEF Write, Wrote
<1>4. D \cup {i} \in SUBSET Ids
  OBVIOUS
<1>5. Write(c, i, row) \in Drafts
  BY <1>3, <1>4 DEF Drafts
<1>6. Seen(cycle[c], project) \in [Ids -> Project]
  BY <1>1, <1>2 DEF Seen, SyncTypeInv
<1>7. Seen(q, project) = [Seen(cycle[c], project) EXCEPT ![i] = row]
  BY <1>2 DEF Seen, Write, Wrote
<1>8. QED
  BY <1>5, <1>6, <1>7

\* The table as a cycle sees it consists of projects.
LEMMA SeenTyped ==
  ASSUME SyncTypeInv, NEW c \in Cycles
  PROVE  Seen(cycle[c], project) \in [Ids -> Project] /\ View(c) \in [Ids -> Project]
<1>1. PICK D \in SUBSET Ids : cycle[c].draft \in [D -> Project]
  BY DraftTyped
<1>2. Seen(cycle[c], project) \in [Ids -> Project]
  BY <1>1 DEF Seen, SyncTypeInv
<1>3. QED
  BY <1>2, ViewIsSeen

\* list_all's order: there is a first project to be deactivated.
LEMMA FirstIsGone ==
  ASSUME SyncTypeInv, NEW c \in Cycles, cycle[c].gone # {}
  PROVE  First(c) \in cycle[c].gone
<1> DEFINE S == {View(c)[i].name : i \in cycle[c].gone}
<1>1. cycle[c].gone \subseteq Ids
  BY DEF SyncTypeInv, Cycle
<1>2. S \in SUBSET Nat /\ S # {}
  <2>1. \A i \in Ids : View(c)[i] \in Project
    BY SeenTyped
  <2>2. Names \cup {None} \subseteq Nat
    BY ProjectsAssumption DEF None
  <2>3. \A i \in Ids : View(c)[i].name \in Nat
    BY <2>1, <2>2 DEF Project
  <2>4. QED
    BY <1>1, <2>3
<1>3. PICK m \in S : \A k \in S : m <= k
  <2> HIDE DEF S
  <2>1. QED
    BY <1>2, LeastElement
<1>4. PICK i \in cycle[c].gone : m = View(c)[i].name
  BY <1>3
<1>5. \A j \in cycle[c].gone : View(c)[i].name <= View(c)[j].name
  BY <1>3, <1>4
<1>6. QED
  BY <1>5 DEF First

\* A step of one cycle that commits nothing concerns that cycle only.
LEMMA MoveKeeps ==
  ASSUME SyncTypeInv, SoloInv, NEW c \in Cycles, NEW q \in Cycle,
         Goto(c, q), UNCHANGED <<lists, project>>,
         q.step \in OnTarget => q.target \in Ids /\ q.seen[ListOf(q.target)] # None,
         q.step = "none" => q = NoCycle,
         q.alone => KnowsRows(q, Seen(q, project))
  PROVE  SyncTypeInv' /\ SoloInv'
<1>1. cycle' = [cycle EXCEPT ![c] = q] /\ cycle \in [Cycles -> Cycle]
  BY DEF Goto, SyncTypeInv
<1>2. cycle' \in [Cycles -> Cycle] /\ cycle'[c] = q /\ \A d \in Cycles \ {c} : cycle'[d] = cycle[d]
  BY <1>1
<1>3. SyncTypeInv'
  BY <1>2 DEF SyncTypeInv, ListOf
<1>4. \A d \in Cycles : Seen(cycle'[d], project') = Seen(cycle'[d], project)
  OBVIOUS
<1>5. \A d \in Cycles :
        /\ cycle'[d].step = "none" => cycle'[d] = NoCycle
        /\ cycle'[d].alone => KnowsRows(cycle'[d], Seen(cycle'[d], project))
  BY <1>2 DEF SoloInv
<1>6. SoloInv'
  BY <1>4, <1>5, project' = project DEF SoloInv, Seen
<1>7. QED
  BY <1>3, <1>6

\* Rows of other lists do not matter to a list.
LEMMA MirroredKept ==
  ASSUME NEW v \in [Ids -> Project], NEW i \in Ids, NEW row \in Project,
         NEW l \in Lists, NEW name, l # ListOf(i), Mirrored(v, l, name)
  PROVE  Mirrored([v EXCEPT ![i] = row], l, name)
<1> DEFINE w == [v EXCEPT ![i] = row]
<1>1. \A k \in Ids : ListOf(k) = l => w[k] = v[k]
  OBVIOUS
<1>2. Projects(w, l) = Projects(v, l)
  BY <1>1 DEF Projects
<1>3. \A k \in Projects(v, l) : w[k] = v[k]
  BY <1>1 DEF Projects
<1>4. Ambiguous(w, l) <=> Ambiguous(v, l)
  BY <1>2 DEF Ambiguous
<1>5. CASE name = None
  BY <1>2, <1>3, <1>5 DEF Mirrored
<1>6. CASE name # None
  <2>1. /\ Projects(v, l) # {} /\ ~Ambiguous(v, l)
        /\ \A k \in Projects(v, l) : v[k].active /\ v[k].name = name
    BY <1>6 DEF Mirrored
  <2>2. \A k \in Projects(w, l) : w[k].active /\ w[k].name = name
    BY <1>2, <1>3, <2>1
  <2>3. QED
    BY <1>2, <1>4, <1>6, <2>1, <2>2 DEF Mirrored
<1>7. QED
  BY <1>5, <1>6

\* What a cycle knows of its lists and of those that are gone when it goes on
\* to another step of the loop, without having written.
LEMMA GoesOn ==
  ASSUME NEW q \in Cycle, NEW r \in Cycle, NEW v, KnowsRows(q, v),
         q.step \in {"look_up"} \cup OnTarget, r.step \in OnTarget,
         r.seen = q.seen, r.done = q.done, r.gone = q.gone,
         ListOf(r.target) \notin r.done,
         r.step \in {"look_up_slug", "insert"} => Projects(v, ListOf(r.target)) = {},
         r.step \in {"touch", "rename"} => Projects(v, ListOf(r.target)) = {r.target},
         r.step = "touch" => r.due = Due(v[r.target], r.seen[ListOf(r.target)]),
         r.step = "rename" => v[r.target].active
  PROVE  KnowsRows(r, v)
BY DEF KnowsRows, OnTarget

\* The project a cycle leaves behind mirrors its list.
LEMMA FinishedKnows ==
  ASSUME SyncTypeInv, SoloInv, NEW c \in Cycles, NEW row \in Project,
         cycle[c].step \in OnTarget,
         cycle[c].alone =>
           /\ row.active /\ row.name = cycle[c].seen[ListOf(cycle[c].target)]
           /\ \A i \in Projects(Seen(cycle[c], project), ListOf(cycle[c].target)) :
                i = cycle[c].target
  PROVE  /\ Finished(c, row) \in Cycle
         /\ Finished(c, row).step = "look_up"
         /\ Finished(c, row).alone => KnowsRows(Finished(c, row), Seen(Finished(c, row), project))
<1> DEFINE q == cycle[c]
           i == q.target
           l == ListOf(i)
           v == Seen(q, project)
           w == [v EXCEPT ![i] = row]
           r == Finished(c, row)
<1>1. q \in Cycle /\ i \in Ids /\ l \in Lists
  BY IdsTyped DEF SyncTypeInv
<1>2. /\ r.step = "look_up" /\ r.seen = q.seen /\ r.done = q.done \cup {l}
      /\ r.gone = q.gone /\ r.alone = q.alone /\ r.draft = Write(c, i, row)
  BY <1>1 DEF Finished, Cycle
<1>3. Write(c, i, row) \in Drafts /\ Seen(r, project) = w /\ v \in [Ids -> Project]
  BY <1>1, <1>2, WriteSeen
<1>4. r \in Cycle
  <2>1. NoCycle \in Cycle /\ NoCycle.target = <<None, None>> /\ NoCycle.slug \in SlugSet
    BY StartTyped DEF NoCycle, Cycle
  <2>2. QED
    BY <1>1, <1>3, <2>1 DEF Finished, Cycle, Steps
<1>5. ASSUME r.alone PROVE KnowsRows(r, w)
  <2>1. KnowsRows(q, v)
    BY <1>2, <1>5 DEF SoloInv
  <2>2. l \notin q.done
    BY <2>1 DEF KnowsRows
  <2>3. ASSUME NEW m \in q.done PROVE q.seen[m] # None /\ Mirrored(w, m, q.seen[m])
    <3>1. m \in Lists /\ m # l
      BY <1>1, <2>2, <2>3 DEF Cycle
    <3>2. q.seen[m] # None /\ Mirrored(v, m, q.seen[m])
      BY <2>1, <2>3 DEF KnowsRows
    <3>3. QED
      BY <1>1, <1>3, <3>1, <3>2, MirroredKept
  <2>4. q.seen[l] # None /\ Mirrored(w, l, q.seen[l])
    <3>1. q.seen[l] # None
      BY DEF SyncTypeInv
    <3>2. w[i] = row /\ row # NoProject
      BY <1>1, <1>2, <1>3, <1>5 DEF NoProject
    <3>3. \A k \in Projects(w, l) : k = i
      BY <1>1, <1>2, <1>3, <1>5 DEF Projects
    <3>4. i \in Projects(w, l)
      BY <1>1, <3>2 DEF Projects
    <3>5. QED
      BY <1>2, <1>5, <3>1, <3>2, <3>3, <3>4 DEF Mirrored, Ambiguous
  <2>5. \A k \in q.gone : q.seen[ListOf(k)] = None
    BY <2>1 DEF KnowsRows
  <2>6. \A m \in r.done : r.seen[m] # None /\ Mirrored(w, m, r.seen[m])
    BY <1>2, <2>3, <2>4
  <2>7. QED
    BY <1>2, <2>5, <2>6 DEF KnowsRows, OnTarget
<1>6. QED
  BY <1>2, <1>3, <1>4, <1>5
LEMMA FetchKeeps ==
  ASSUME SyncTypeInv, SoloInv, NEW c \in Cycles, FetchLists(c)
  PROVE  SyncTypeInv' /\ SoloInv'
<1> DEFINE q == [NoCycle EXCEPT !.step = "look_up", !.seen = lists]
<1>1. Goto(c, q) /\ UNCHANGED <<lists, project>>
  BY DEF FetchLists
<1>2. q \in Cycle /\ q.step = "look_up" /\ q.done = {} /\ q.gone = {}
  BY StartTyped DEF NoCycle, Cycle, Steps, SyncTypeInv
<1>3. KnowsRows(q, Seen(q, project))
  BY <1>2 DEF KnowsRows, OnTarget
<1>4. QED
  <2> HIDE DEF q
  <2>1. QED
    BY <1>1, <1>2, <1>3, MoveKeeps DEF OnTarget

LEMMA LookUpKeeps ==
  ASSUME SyncTypeInv, SoloInv, NEW c \in Cycles, LookUp(c)
  PROVE  SyncTypeInv' /\ SoloInv'
<1> DEFINE q == cycle[c]
           v == Seen(q, project)
<1>1. q \in Cycle /\ q.step = "look_up" /\ View(c) = v
  BY ViewIsSeen DEF SyncTypeInv, LookUp
<1>2. PICK l \in Lists :
        /\ IsNext(c, l)
        /\ \/ /\ Projects(v, l) = {}
              /\ Goto(c, [q EXCEPT !.step = "look_up_slug", !.target = <<l, c>>,
                                   !.slug = Plain(SlugOf[q.seen[l]])])
           \/ \E i \in Projects(v, l) :
                /\ ~Ambiguous(v, l)
                /\ Goto(c, [q EXCEPT !.step = "touch", !.target = i,
                                     !.slug = Plain(SlugOf[q.seen[l]]),
                                     !.due = Due(v[i], q.seen[l])])
  BY <1>1 DEF LookUp
<1>3. UNCHANGED <<lists, project>>
  BY DEF LookUp
<1>4. q.seen[l] # None /\ l \notin q.done /\ q.seen[l] \in Names
  BY <1>1, <1>2 DEF IsNext, Cycle, Fetched
<1>5. Plain(SlugOf[q.seen[l]]) \in SlugSet
  BY <1>4, StartTyped, ProjectsAssumption
<1>6. CASE /\ Projects(v, l) = {}
           /\ Goto(c, [q EXCEPT !.step = "look_up_slug", !.target = <<l, c>>,
                                !.slug = Plain(SlugOf[q.seen[l]])])
  <2> DEFINE r == [q EXCEPT !.step = "look_up_slug", !.target = <<l, c>>,
                            !.slug = Plain(SlugOf[q.seen[l]])]
  <2>1. <<l, c>> \in Ids /\ ListOf(<<l, c>>) = l
    BY DEF Ids, ListOf
  <2>2. r \in Cycle
    BY <1>1, <1>5, <2>1 DEF Cycle, Steps
  <2>3. /\ r.step = "look_up_slug" /\ r.target = <<l, c>> /\ r.seen = q.seen /\ r.done = q.done
        /\ r.gone = q.gone /\ r.draft = q.draft /\ r.alone = q.alone
    BY <1>1 DEF Cycle
  <2>4. Seen(r, project) = v
    BY <2>3 DEF Seen
  <2>5. ASSUME r.alone PROVE KnowsRows(r, Seen(r, project))
    <3>1. KnowsRows(q, v)
      BY <2>3, <2>5 DEF SoloInv
    <3> HIDE DEF r, q, v
    <3>2. QED
      BY <1>1, <1>4, <1>6, <2>1, <2>2, <2>3, <2>4, <3>1, GoesOn DEF OnTarget
  <2>6. Goto(c, r)
    BY <1>6
  <2> HIDE DEF r
  <2>7. QED
    BY <1>3, <1>4, <2>1, <2>2, <2>3, <2>5, <2>6, MoveKeeps DEF OnTarget
<1>7. CASE \E i \in Projects(v, l) :
             /\ ~Ambiguous(v, l)
             /\ Goto(c, [q EXCEPT !.step = "touch", !.target = i,
                                  !.slug = Plain(SlugOf[q.seen[l]]),
                                  !.due = Due(v[i], q.seen[l])])
  <2>1. PICK i \in Projects(v, l) :
          /\ ~Ambiguous(v, l)
          /\ Goto(c, [q EXCEPT !.step = "touch", !.target = i,
                               !.slug = Plain(SlugOf[q.seen[l]]),
                               !.due = Due(v[i], q.seen[l])])
    BY <1>7
  <2> DEFINE r == [q EXCEPT !.step = "touch", !.target = i,
                            !.slug = Plain(SlugOf[q.seen[l]]),
                            !.due = Due(v[i], q.seen[l])]
  <2>2. i \in Ids /\ ListOf(i) = l /\ Projects(v, l) = {i}
    BY <2>1 DEF Projects, Ambiguous
  <2>3. Due(v[i], q.seen[l]) \in SUBSET {"is_active", "name"}
    BY DEF Due
  <2>4. r \in Cycle
    BY <1>1, <1>5, <2>2, <2>3 DEF Cycle, Steps
  <2>5. /\ r.step = "touch" /\ r.target = i /\ r.seen = q.seen /\ r.done = q.done
        /\ r.gone = q.gone /\ r.draft = q.draft /\ r.alone = q.alone
        /\ r.due = Due(v[i], q.seen[l])
    BY <1>1 DEF Cycle
  <2>6. Seen(r, project) = v
    BY <2>5 DEF Seen
  <2>7. ASSUME r.alone PROVE KnowsRows(r, Seen(r, project))
    <3>1. KnowsRows(q, v)
      BY <2>5, <2>7 DEF SoloInv
    <3> HIDE DEF r, q, v
    <3>2. QED
      BY <1>1, <1>4, <2>2, <2>4, <2>5, <2>6, <3>1, GoesOn DEF OnTarget
  <2>8. Goto(c, r)
    BY <2>1
  <2> HIDE DEF r
  <2>9. QED
    BY <1>3, <1>4, <2>2, <2>4, <2>5, <2>7, <2>8, MoveKeeps DEF OnTarget
<1>8. QED
  BY <1>2, <1>6, <1>7

LEMMA LookUpSlugKeeps ==
  ASSUME SyncTypeInv, SoloInv, NEW c \in Cycles, LookUpSlug(c)
  PROVE  SyncTypeInv' /\ SoloInv'
<1> DEFINE q == cycle[c]
           v == Seen(q, project)
           s == IF Held(c, q.slug) THEN Suffixed(q.slug.base, ListOf(q.target)) ELSE q.slug
           r == [q EXCEPT !.step = "insert", !.slug = s]
<1>1. /\ q \in Cycle /\ q.step = "look_up_slug" /\ q.target \in Ids
      /\ q.seen[ListOf(q.target)] # None /\ ListOf(q.target) \in Lists
  BY IdsTyped DEF SyncTypeInv, LookUpSlug, OnTarget
<1>2. s \in SlugSet
  BY <1>1 DEF Cycle, SlugSet, Suffixed
<1>3. Goto(c, r) /\ UNCHANGED <<lists, project>>
  BY DEF LookUpSlug
<1> HIDE DEF s
<1>4. r \in Cycle
  BY <1>1, <1>2 DEF Cycle, Steps
<1>5. /\ r.step = "insert" /\ r.target = q.target /\ r.seen = q.seen /\ r.done = q.done
      /\ r.gone = q.gone /\ r.draft = q.draft /\ r.alone = q.alone
  BY <1>1 DEF Cycle
<1>6. Seen(r, project) = v
  BY <1>5 DEF Seen
<1>7. ASSUME r.alone PROVE KnowsRows(r, Seen(r, project))
  <2>1. KnowsRows(q, v)
    BY <1>5, <1>7 DEF SoloInv
  <2>2. ListOf(q.target) \notin q.done /\ Projects(v, ListOf(q.target)) = {}
    BY <1>1, <2>1 DEF KnowsRows, OnTarget
  <2> HIDE DEF r, q, v
  <2>3. QED
    BY <1>1, <1>4, <1>5, <1>6, <2>1, <2>2, GoesOn DEF OnTarget
<1> HIDE DEF r
<1>8. QED
  BY <1>1, <1>3, <1>4, <1>5, <1>7, MoveKeeps DEF OnTarget
LEMMA TouchKeeps ==
  ASSUME SyncTypeInv, SoloInv, NEW c \in Cycles, Touch(c)
  PROVE  SyncTypeInv' /\ SoloInv'
<1> DEFINE q == cycle[c]
           i == q.target
           l == ListOf(i)
           v == Seen(q, project)
           row == [v[i] EXCEPT !.active = @ \/ "is_active" \in q.due]
<1>1. /\ q \in Cycle /\ q.step = "touch" /\ i \in Ids /\ q.seen[l] # None /\ l \in Lists
      /\ v \in [Ids -> Project] /\ View(c) = v
  BY IdsTyped, ViewIsSeen, SeenTyped DEF SyncTypeInv, Touch, OnTarget
<1>2. v[i] \in Project
  BY <1>1
<1>3. row \in Project
  <2> HIDE DEF v
  <2>1. QED
    BY <1>2 DEF Project
<1>4. /\ UNCHANGED <<lists, project>>
      /\ Goto(c, IF "name" \in q.due
                   THEN [q EXCEPT !.step = "rename", !.draft = Write(c, i, row)]
                   ELSE Finished(c, row))
  BY <1>1 DEF Touch
<1>5. ASSUME q.alone
      PROVE  /\ KnowsRows(q, v) /\ l \notin q.done /\ Projects(v, l) = {i}
             /\ q.due = Due(v[i], q.seen[l])
  <2>1. KnowsRows(q, v)
    BY <1>5 DEF SoloInv
  <2>2. QED
    BY <1>1, <2>1 DEF KnowsRows, OnTarget
<1>6. ASSUME q.alone PROVE row.active = TRUE /\ row.name = v[i].name
  <2>1. "is_active" \in q.due \/ v[i].active
    BY <1>5, <1>6 DEF Due
  <2>2. v[i].active \in BOOLEAN
    BY <1>2 DEF Project
  <2> HIDE DEF v
  <2>3. QED
    BY <1>2, <2>1, <2>2 DEF Project
<1>7. CASE "name" \in q.due
  <2> DEFINE r == [q EXCEPT !.step = "rename", !.draft = Write(c, i, row)]
             w == [v EXCEPT ![i] = row]
  <2>1. /\ r.step = "rename" /\ r.target = i /\ r.seen = q.seen /\ r.done = q.done
        /\ r.gone = q.gone /\ r.draft = Write(c, i, row) /\ r.alone = q.alone
    BY <1>1 DEF Cycle
  <2>2. Write(c, i, row) \in Drafts /\ Seen(r, project) = w
    <3> HIDE DEF row, r
    <3>1. QED
      BY <1>1, <1>3, <2>1, WriteSeen
  <2>3. r \in Cycle
    <3> HIDE DEF row
    <3>1. QED
      BY <1>1, <2>2 DEF Cycle, Steps
  <2>4. ASSUME r.alone PROVE KnowsRows(r, Seen(r, project))
    <3>1. KnowsRows(q, v) /\ l \notin q.done /\ Projects(v, l) = {i} /\ row.active
      BY <1>5, <1>6, <2>1, <2>4
    <3> HIDE DEF row, r
    <3>2. w[i] = row /\ \A k \in Ids \ {i} : w[k] = v[k]
      BY <1>1
    <3>3. row # NoProject
      BY <3>1 DEF NoProject
    <3>4. Projects(w, l) = {i}
      BY <1>1, <3>1, <3>2, <3>3 DEF Projects
    <3>5. ASSUME NEW m \in q.done PROVE q.seen[m] # None /\ Mirrored(w, m, q.seen[m])
      <4>1. m \in Lists /\ m # l
        BY <1>1, <3>1, <3>5 DEF Cycle
      <4>2. q.seen[m] # None /\ Mirrored(v, m, q.seen[m])
        BY <3>1, <3>5 DEF KnowsRows
      <4>3. QED
        BY <1>1, <1>3, <4>1, <4>2, MirroredKept
    <3>6. \A k \in q.gone : q.seen[ListOf(k)] = None
      BY <3>1 DEF KnowsRows
    <3>7. w[r.target].active
      BY <2>1, <3>1, <3>2
    <3> HIDE DEF w, v, q
    <3>8. KnowsRows(r, w)
      BY <2>1, <3>1, <3>4, <3>5, <3>6, <3>7 DEF KnowsRows, OnTarget
    <3>9. QED
      BY <2>2, <3>8
  <2>5. Goto(c, r)
    BY <1>4, <1>7
  <2> HIDE DEF r
  <2>6. QED
    BY <1>1, <1>4, <2>1, <2>3, <2>4, <2>5, MoveKeeps DEF OnTarget
<1>8. CASE "name" \notin q.due
  <2>1. ASSUME q.alone PROVE row.name = q.seen[l]
    <3>1. v[i].name = q.seen[l]
      BY <1>5, <1>8, <2>1 DEF Due
    <3>2. QED
      BY <1>6, <2>1, <3>1
  <2> HIDE DEF row
  <2>2. /\ Finished(c, row) \in Cycle /\ Finished(c, row).step = "look_up"
        /\ Finished(c, row).alone => KnowsRows(Finished(c, row), Seen(Finished(c, row), project))
    BY <1>1, <1>3, <1>5, <1>6, <2>1, FinishedKnows DEF OnTarget
  <2>3. Goto(c, Finished(c, row))
    BY <1>4, <1>8
  <2>4. QED
    BY <1>4, <2>2, <2>3, MoveKeeps DEF OnTarget
<1>9. QED
  BY <1>7, <1>8

LEMMA RenameKeeps ==
  ASSUME SyncTypeInv, SoloInv, NEW c \in Cycles, Rename(c)
  PROVE  SyncTypeInv' /\ SoloInv'
<1> DEFINE q == cycle[c]
           i == q.target
           l == ListOf(i)
           v == Seen(q, project)
           row == [v[i] EXCEPT !.name = q.seen[l], !.slug = q.slug]
<1>1. /\ q \in Cycle /\ q.step = "rename" /\ i \in Ids /\ l \in Lists
      /\ v \in [Ids -> Project] /\ View(c) = v
  BY IdsTyped, ViewIsSeen, SeenTyped DEF SyncTypeInv, Rename, OnTarget
<1>2. v[i] \in Project /\ q.seen[l] \in Names \cup {None} /\ q.slug \in SlugSet
  BY <1>1 DEF Cycle, Fetched
<1>3. row \in Project /\ row.name = q.seen[l] /\ row.active = v[i].active
  <2> HIDE DEF v, q
  <2>1. QED
    BY <1>2 DEF Project
<1>4. UNCHANGED <<lists, project>> /\ Goto(c, Finished(c, row))
  BY <1>1 DEF Rename
<1>5. ASSUME q.alone PROVE Projects(v, l) = {i} /\ v[i].active
  <2>1. KnowsRows(q, v)
    BY <1>5 DEF SoloInv
  <2>2. QED
    BY <1>1, <2>1 DEF KnowsRows, OnTarget
<1> HIDE DEF row
<1>6. /\ Finished(c, row) \in Cycle /\ Finished(c, row).step = "look_up"
      /\ Finished(c, row).alone => KnowsRows(Finished(c, row), Seen(Finished(c, row), project))
  BY <1>1, <1>3, <1>5, FinishedKnows DEF OnTarget
<1>7. QED
  BY <1>4, <1>6, MoveKeeps DEF OnTarget

LEMMA InsertKeeps ==
  ASSUME SyncTypeInv, SoloInv, NEW c \in Cycles, Insert(c)
  PROVE  SyncTypeInv' /\ SoloInv'
<1> DEFINE q == cycle[c]
           i == q.target
           l == ListOf(i)
           v == Seen(q, project)
           row == [name |-> q.seen[l], slug |-> q.slug, active |-> TRUE]
<1>1. q \in Cycle /\ q.step = "insert" /\ i \in Ids /\ l \in Lists
  BY IdsTyped DEF SyncTypeInv, Insert, OnTarget
<1>2. q.seen[l] \in Names \cup {None} /\ q.slug \in SlugSet
  BY <1>1 DEF Cycle, Fetched
<1>3. row \in Project /\ row.name = q.seen[l] /\ row.active
  BY <1>2 DEF Project
<1>4. UNCHANGED <<lists, project>> /\ Goto(c, Finished(c, row))
  BY DEF Insert
<1>5. ASSUME q.alone PROVE Projects(v, l) = {}
  <2>1. KnowsRows(q, v)
    BY <1>5 DEF SoloInv
  <2>2. QED
    BY <1>1, <2>1 DEF KnowsRows, OnTarget
<1> HIDE DEF row
<1>6. /\ Finished(c, row) \in Cycle /\ Finished(c, row).step = "look_up"
      /\ Finished(c, row).alone => KnowsRows(Finished(c, row), Seen(Finished(c, row), project))
  BY <1>1, <1>3, <1>5, FinishedKnows DEF OnTarget
<1>7. QED
  BY <1>4, <1>6, MoveKeeps DEF OnTarget
LEMMA ListAllKeeps ==
  ASSUME SyncTypeInv, SoloInv, NEW c \in Cycles, ListAll(c)
  PROVE  SyncTypeInv' /\ SoloInv'
<1> DEFINE q == cycle[c]
           v == Seen(q, project)
           g == {i \in Ids : v[i].active /\ q.seen[ListOf(i)] = None}
           r == [q EXCEPT !.step = "deactivate", !.gone = g]
<1>1. /\ q \in Cycle /\ q.step = "look_up" /\ View(c) = v
      /\ \A m \in Lists : q.seen[m] # None => m \in q.done
  BY ViewIsSeen DEF SyncTypeInv, ListAll, LoopEnds
<1>2. UNCHANGED <<lists, project>> /\ Goto(c, r)
  BY <1>1 DEF ListAll
<1>3. /\ r.step = "deactivate" /\ r.seen = q.seen /\ r.done = q.done /\ r.gone = g
      /\ r.draft = q.draft /\ r.alone = q.alone
  BY <1>1 DEF Cycle
<1>4. r \in Cycle
  <2>1. g \in SUBSET Ids
    OBVIOUS
  <2> HIDE DEF g
  <2>2. QED
    BY <1>1, <2>1 DEF Cycle, Steps
<1>5. Seen(r, project) = v
  BY <1>3 DEF Seen
<1>6. ASSUME r.alone PROVE KnowsRows(r, v)
  <2>1. KnowsRows(q, v)
    BY <1>3, <1>6 DEF SoloInv
  <2>2. \A m \in r.done : r.seen[m] # None /\ Mirrored(v, m, r.seen[m])
    BY <1>3, <2>1 DEF KnowsRows
  <2>3. \A i \in r.gone : r.seen[ListOf(i)] = None
    BY <1>3
  <2>4. \A i \in Ids : v[i].active /\ r.seen[ListOf(i)] = None => i \in r.gone
    BY <1>3
  <2> HIDE DEF r, g, v
  <2>5. QED
    BY <1>1, <1>3, <2>2, <2>3, <2>4 DEF KnowsRows, OnTarget
<1> HIDE DEF r
<1>7. QED
  BY <1>2, <1>3, <1>4, <1>5, <1>6, MoveKeeps DEF OnTarget

LEMMA DeactivateKeeps ==
  ASSUME SyncTypeInv, SoloInv, NEW c \in Cycles, Deactivate(c)
  PROVE  SyncTypeInv' /\ SoloInv'
<1> DEFINE q == cycle[c]
           v == Seen(q, project)
           i == First(c)
           row == [v[i] EXCEPT !.active = FALSE]
           r == [q EXCEPT !.gone = q.gone \ {i}, !.draft = Write(c, i, row)]
           w == [v EXCEPT ![i] = row]
<1>1. /\ q \in Cycle /\ q.step = "deactivate" /\ q.gone # {} /\ View(c) = v
      /\ v \in [Ids -> Project]
  BY ViewIsSeen, SeenTyped DEF SyncTypeInv, Deactivate
<1>2. i \in q.gone
  BY <1>1, FirstIsGone
<1>3. i \in Ids /\ ListOf(i) \in Lists
  BY <1>1, <1>2, IdsTyped DEF Cycle
<1>4. row \in Project /\ row.active = FALSE
  <2>1. v[i] \in Project
    BY <1>1, <1>3
  <2> HIDE DEF v
  <2>2. QED
    BY <2>1 DEF Project
<1>5. UNCHANGED <<lists, project>> /\ Goto(c, r)
  BY <1>1 DEF Deactivate
<1> HIDE DEF row
<1>6. /\ r.step = "deactivate" /\ r.seen = q.seen /\ r.done = q.done /\ r.gone = q.gone \ {i}
      /\ r.draft = Write(c, i, row) /\ r.alone = q.alone
  BY <1>1 DEF Cycle
<1>7. Write(c, i, row) \in Drafts /\ Seen(r, project) = w
  <2> HIDE DEF r, i
  <2>1. QED
    BY <1>3, <1>4, <1>6, WriteSeen
<1>8. r \in Cycle
  BY <1>1, <1>7 DEF Cycle
<1>9. ASSUME r.alone PROVE KnowsRows(r, w)
  <2>1. KnowsRows(q, v)
    BY <1>6, <1>9 DEF SoloInv
  <2>2. q.seen[ListOf(i)] = None
    BY <1>2, <2>1 DEF KnowsRows
  <2>3. ASSUME NEW m \in q.done PROVE q.seen[m] # None /\ Mirrored(w, m, q.seen[m])
    <3>1. q.seen[m] # None /\ Mirrored(v, m, q.seen[m])
      BY <2>1, <2>3 DEF KnowsRows
    <3>2. m \in Lists /\ m # ListOf(i)
      BY <1>1, <2>2, <2>3, <3>1 DEF Cycle
    <3>3. QED
      BY <1>1, <1>3, <1>4, <3>1, <3>2, MirroredKept
  <2>4. w[i] = row /\ \A k \in Ids \ {i} : w[k] = v[k]
    BY <1>1, <1>3
  <2>5. /\ \A m \in Lists : q.seen[m] # None => m \in q.done
        /\ \A k \in Ids : v[k].active /\ q.seen[ListOf(k)] = None => k \in q.gone
        /\ \A k \in q.gone : q.seen[ListOf(k)] = None
    BY <1>1, <2>1 DEF KnowsRows
  <2>6. \A k \in Ids : w[k].active /\ r.seen[ListOf(k)] = None => k \in r.gone
    BY <1>4, <1>6, <2>4, <2>5
  <2> HIDE DEF r, w, v, q
  <2>7. QED
    BY <1>1, <1>6, <2>3, <2>5, <2>6 DEF KnowsRows, OnTarget
<1> HIDE DEF r
<1>10. QED
  BY <1>5, <1>6, <1>7, <1>8, <1>9, MoveKeeps DEF OnTarget

LEMMA RollBackKeeps ==
  ASSUME SyncTypeInv, SoloInv, NEW c \in Cycles, RollBack(c)
  PROVE  SyncTypeInv' /\ SoloInv'
<1>1. Goto(c, NoCycle) /\ UNCHANGED <<lists, project>>
  BY DEF RollBack
<1>2. NoCycle \in Cycle /\ NoCycle.step = "none" /\ NoCycle.done = {} /\ NoCycle.gone = {}
  BY StartTyped DEF NoCycle
<1>3. KnowsRows(NoCycle, Seen(NoCycle, project))
  BY <1>2 DEF KnowsRows, OnTarget
<1>4. QED
  BY <1>1, <1>2, <1>3, MoveKeeps DEF OnTarget

\* Other cycles notice a commit; those that have not begun do not.
LEMMA CommitKeeps ==
  ASSUME SyncTypeInv, SoloInv, NEW c \in Cycles, CommitProjects(c)
  PROVE  SyncTypeInv' /\ SoloInv'
<1>1. project' \in [Ids -> Project]
  BY SeenTyped DEF CommitProjects
<1>2. cycle \in [Cycles -> Cycle] /\ NoCycle \in Cycle /\ NoCycle.step = "none"
  BY StartTyped DEF SyncTypeInv, NoCycle
<1>3. \A d \in Cycles :
        \/ cycle'[d] = NoCycle
        \/ /\ cycle[d].step # "none" /\ cycle'[d] = [cycle[d] EXCEPT !.alone = FALSE]
  BY DEF CommitProjects, SoloInv
<1>4. ASSUME NEW d \in Cycles
      PROVE  /\ cycle'[d] \in Cycle
             /\ cycle'[d].step \in OnTarget =>
                  cycle'[d].target \in Ids /\ cycle'[d].seen[ListOf(cycle'[d].target)] # None
             /\ cycle'[d].step = "none" => cycle'[d] = NoCycle
             /\ cycle'[d].alone => cycle'[d] = NoCycle
  <2>1. CASE cycle'[d] = NoCycle
    BY <1>2, <2>1 DEF OnTarget
  <2>2. CASE /\ cycle[d].step # "none" /\ cycle'[d] = [cycle[d] EXCEPT !.alone = FALSE]
    <3>1. /\ cycle[d] \in Cycle
          /\ cycle[d].step \in OnTarget =>
               cycle[d].target \in Ids /\ cycle[d].seen[ListOf(cycle[d].target)] # None
      BY <1>2 DEF SyncTypeInv
    <3>2. PICK r \in Cycle : r = [cycle[d] EXCEPT !.alone = FALSE]
      BY <3>1 DEF Cycle
    <3>3. /\ r.step = cycle[d].step /\ r.target = cycle[d].target /\ r.seen = cycle[d].seen
          /\ r.alone = FALSE
      BY <3>1, <3>2 DEF Cycle
    <3>4. QED
      BY <2>2, <3>1, <3>2, <3>3
  <2>3. QED
    BY <1>3, <2>1, <2>2
<1>5. cycle' \in [Cycles -> Cycle]
  <2>1. cycle' = [d \in Cycles |-> cycle'[d]]
    BY DEF CommitProjects
  <2>2. QED
    BY <1>4, <2>1
<1>6. SyncTypeInv'
  BY <1>1, <1>4, <1>5 DEF SyncTypeInv, CommitProjects, ListOf
<1>7. KnowsRows(NoCycle, Seen(NoCycle, project'))
  BY StartTyped DEF KnowsRows, OnTarget, NoCycle
<1>8. SoloInv'
  BY <1>4, <1>7 DEF SoloInv, Seen
<1>9. QED
  BY <1>6, <1>8

LEMMA EditListsKeeps ==
  ASSUME SyncTypeInv, SoloInv, EditLists
  PROVE  SyncTypeInv' /\ SoloInv'
<1>1. lists' \in Fetched /\ project' = project /\ cycle' = cycle
  BY DEF EditLists, SyncTypeInv, Fetched
<1>2. SyncTypeInv'
  BY <1>1 DEF SyncTypeInv, ListOf
<1>3. SoloInv'
  BY <1>1 DEF SoloInv, Seen
<1>4. QED
  BY <1>2, <1>3

LEMMA SoloStep == SyncTypeInv /\ SoloInv /\ [SyncNext]_syncVars => SyncTypeInv' /\ SoloInv'
<1> SUFFICES ASSUME SyncTypeInv, SoloInv, [SyncNext]_syncVars PROVE SyncTypeInv' /\ SoloInv'
  OBVIOUS
<1>1. CASE EditLists
  BY <1>1, EditListsKeeps
<1>2. ASSUME NEW c \in Cycles, CycleStep(c) PROVE SyncTypeInv' /\ SoloInv'
  <2>1. CASE Refused(c) \/ DeadlockDetected(c)
    BY <2>1, RollBackKeeps DEF Refused, DeadlockDetected
  <2>2. QED
    BY <1>2, <2>1, FetchKeeps, LookUpKeeps, LookUpSlugKeeps, TouchKeeps, RenameKeeps,
       InsertKeeps, ListAllKeeps, DeactivateKeeps, CommitKeeps DEF CycleStep
<1>3. ASSUME NEW c \in Cycles, ProjectSyncFails(c) PROVE SyncTypeInv' /\ SoloInv'
  BY <1>3, RollBackKeeps DEF ProjectSyncFails
<1>4. CASE UNCHANGED syncVars
  <2>1. lists' = lists /\ project' = project /\ cycle' = cycle
    BY <1>4 DEF syncVars
  <2>2. QED
    BY <2>1 DEF SyncTypeInv, SoloInv, Seen, ListOf
<1>5. QED
  BY <1>1, <1>2, <1>3, <1>4 DEF SyncNext

LEMMA SoloInit == SyncInit => SyncTypeInv /\ SoloInv
<1> SUFFICES ASSUME SyncInit PROVE SyncTypeInv /\ SoloInv
  OBVIOUS
<1>1. \A c \in Cycles : cycle[c] = NoCycle
  BY DEF SyncInit
<1>2. SyncTypeInv
  BY <1>1, StartTyped DEF SyncInit, SyncTypeInv, Fetched, OnTarget, NoCycle
<1>3. KnowsRows(NoCycle, Seen(NoCycle, project))
  BY DEF KnowsRows, OnTarget, NoCycle
<1>4. SoloInv
  BY <1>1, <1>3 DEF SoloInv
<1>5. QED
  BY <1>2, <1>4

\* What a cycle has read and written statement by statement shows the lists as
\* it fetched them when it commits, unless another cycle has committed since:
\* for any lists, names and slugs, and any cycles that overlap and fail.
THEOREM UndisturbedCyclesLeaveNoMixture == SyncSpec => ProjectsShowOneFetch
<1>1. ASSUME SyncTypeInv, SoloInv, NEW c \in Cycles, CommitProjects(c), cycle[c].alone
      PROVE  Agree(project', cycle[c].seen)
  <2> DEFINE q == cycle[c]
             v == Seen(q, project)
  <2>1. project' = v /\ q.step = "deactivate" /\ q.gone = {}
    BY <1>1, ViewIsSeen DEF CommitProjects
  <2>2. KnowsRows(q, v)
    BY <1>1 DEF SoloInv
  <2>3. ASSUME NEW l \in Lists PROVE Mirrored(v, l, q.seen[l])
    <3>1. CASE q.seen[l] = None
      <4>1. \A i \in Ids : ~(v[i].active /\ q.seen[ListOf(i)] = None)
        BY <2>1, <2>2 DEF KnowsRows
      <4>2. \A i \in Projects(v, l) : ~v[i].active
        BY <3>1, <4>1 DEF Projects
      <4>3. QED
        BY <3>1, <4>2 DEF Mirrored
    <3>2. CASE q.seen[l] # None
      <4>1. l \in q.done
        BY <2>1, <2>2, <3>2 DEF KnowsRows
      <4>2. QED
        BY <2>2, <4>1 DEF KnowsRows
    <3>3. QED
      BY <3>1, <3>2
  <2>4. QED
    BY <2>1, <2>3 DEF Agree
<1>2. SyncTypeInv /\ SoloInv /\ [SyncNext]_syncVars
        => [\A c \in Cycles : CommitProjects(c) /\ cycle[c].alone
                                => Agree(project', cycle[c].seen)]_syncVars
  BY <1>1
<1>3. QED
  BY <1>2, SoloInit, SoloStep, PTL DEF SyncSpec, ProjectsShowOneFetch

==============================================================================
