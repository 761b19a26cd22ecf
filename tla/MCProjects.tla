----------------------------- MODULE MCProjects -----------------------------
(* ProjectSync and PromptVersions share no state: a behaviour of this      *)
(* module exercises the one or the other.                                  *)
EXTENDS ProjectSync, PromptVersions, TLC

CONSTANTS l1, l2, c1, c2, r1, r2

TwoLists    == <<l1, l2>>
TwoNames    == {1, 2}
SlugOfTwo   == <<1, 2>>
SamePrefix  == [l \in {l1, l2} |-> 1]
TwoCycles   == {c1, c2}
TwoRequests == {r1, r2}

VARIABLE part

\* The names differ in their order only: the second name needs the first.
MCInit ==
  /\ part \in {"lists", "prompts"}
  /\ SyncInit
  /\ VersionsInit
  /\ lists[l1] # 2 /\ (lists[l1] = None => lists[l2] # 2)
  /\ part = "prompts" => \A l \in Lists : lists[l] = None

MCNext ==
  /\ UNCHANGED part
  /\ \/ part = "lists" /\ SyncNext /\ UNCHANGED versionVars
     \/ part = "prompts" /\ VersionsNext /\ UNCHANGED syncVars

MCSpec ==
  /\ MCInit /\ [][MCNext]_<<part, syncVars, versionVars>>
  /\ \A c \in Cycles : SF_<<syncVars, versionVars>>(part = "lists" /\ CycleStep(c) /\ UNCHANGED versionVars)
==============================================================================
