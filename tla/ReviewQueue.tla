----------------------------- MODULE ReviewQueue -----------------------------
(***************************************************************************)
(* The review of proposals: rows of telegram_review_sessions, the sender   *)
(* ReviewQueueService.send_next that shows them to the user one at a time, *)
(* and the handlers that decide them (Telegram callbacks, Mini App).       *)
(*                                                                         *)
(* All of these are coroutines of one asyncio loop, each with a database   *)
(* session of its own; a step is what one of them does between two awaits  *)
(* at which another can run.  The worker's tail, a Telegram update and a   *)
(* Mini App request are actors that become idle when their coroutine ends. *)
(*                                                                         *)
(* A session is named by its task and its created_at; one task has several *)
(* sessions when it is processed again.  proposed_changes is never empty   *)
(* in a session the worker creates, so the branch of send_next that drops  *)
(* an empty proposal cannot be taken and is left out.                      *)
(***************************************************************************)
EXTENDS Naturals, FiniteSets

CONSTANTS
  Tasks,            \* tasks with a record
  MaxSessions,      \* bound: sessions ever created
  Workers,          \* runs of the task_processing job that can overlap
  Chats,            \* Telegram updates handled concurrently
  Apps,             \* Mini App requests handled concurrently
  NoSession,        \* target[a] or own[w] when there is none
  MaxSendFailures,  \* bound: Telegram calls of send_next that fail
  MaxPauses,        \* bound: times the user pauses the review
  MaxCrashes        \* bound: coroutines that die half-way

Senders == Workers \cup Chats
Actors  == Senders \cup Apps

Sessions == Tasks \X (1 .. MaxSessions)

ASSUME ActorsAssumption ==
  /\ Workers \cap Chats = {} /\ Workers \cap Apps = {} /\ Chats \cap Apps = {}

ASSUME FiniteSenders == IsFiniteSet(Senders)

ASSUME NoSessionAssumption == NoSession \notin Sessions

ASSUME BoundsAssumption ==
  MaxSessions \in Nat /\ MaxSendFailures \in Nat /\ MaxPauses \in Nat /\ MaxCrashes \in Nat

VARIABLES
  session,   \* status of each review session; "absent" before its insert
  workflow,  \* processing_status of each task record
  paused,    \* the cached pause flag
  pc,        \* where each actor is
  target,    \* the session an actor has read in order to send or decide it
  own,       \* the session a worker's run has created
  created,   \* last created_at handed out
  used       \* consumed bounds

vars == <<session, workflow, paused, pc, target, own, created, used>>

ReviewSessionStatus == {"queued", "active", "resolved", "send_failed", "skipped"}

Stage == {"idle", "deciding", "answering", "checking", "picking", "retrying",
          "sending", "sent", "raised"}

TypeOK ==
  /\ session  \in [Sessions -> ReviewSessionStatus \cup {"absent"}]
  /\ workflow \in [Tasks -> {"none", "awaiting_review", "applied", "discarded"}]
  /\ paused   \in BOOLEAN
  /\ pc       \in [Actors -> Stage]
  /\ target   \in [Actors -> Sessions \cup {NoSession}]
  /\ own      \in [Workers -> Sessions \cup {NoSession}]
  /\ created  \in 0 .. MaxSessions
  /\ used     \in [failures : Nat, pauses : Nat, crashes : Nat]

Init ==
  /\ session  = [s \in Sessions |-> "absent"]
  /\ workflow = [t \in Tasks |-> "none"]
  /\ paused   = FALSE
  /\ pc       = [a \in Actors |-> "idle"]
  /\ target   = [a \in Actors |-> NoSession]
  /\ own      = [w \in Workers |-> NoSession]
  /\ created  = 0
  /\ used     = [failures |-> 0, pauses |-> 0, crashes |-> 0]

TaskOf(s)    == s[1]
CreatedAt(s) == s[2]

WithStatus(statuses) == {s \in Sessions : session[s] \in statuses}

Active == WithStatus({"active"})

Oldest(S) == {s \in S : \A q \in S : CreatedAt(s) <= CreatedAt(q)}
Newest(S) == {s \in S : \A q \in S : CreatedAt(q) <= CreatedAt(s)}

\* Mutant: a plain SELECT.
LockedByNobody(s) == FALSE

\* FOR UPDATE holds the row from the pick to the commit of the send.
Locked(s) == \E a \in Senders : pc[a] = "sending" /\ target[a] = s

Unlocked(statuses) == {s \in WithStatus(statuses) : ~Locked(s)}

SetSession(s, st) == session' = [session EXCEPT ![s] = st]

Goto(a, stage) == pc' = [pc EXCEPT ![a] = stage]

\* The coroutine ends: it returns, or its exception reaches nobody who cares.
Finish(a) ==
  /\ Goto(a, "idle")
  /\ target' = [target EXCEPT ![a] = NoSession]
  /\ own'    = [w \in Workers |-> IF w = a THEN NoSession ELSE own[w]]

\* An exception leaves send_next: a worker handles it, a Telegram handler dies.
Raise(a) == IF a \in Workers THEN Goto(a, "raised") /\ UNCHANGED <<target, own>>
                             ELSE Finish(a)

------------------------------------------------------------------------------
(* A proposal comes into being (_process_entry, its last commit).          *)

Propose(w, t) ==
  LET s == <<t, created + 1>> IN
  /\ pc[w] = "idle"
  /\ created < MaxSessions
  /\ created'  = created + 1
  /\ SetSession(s, "queued")
  /\ workflow' = [workflow EXCEPT ![t] = "awaiting_review"]
  /\ own'      = [own EXCEPT ![w] = s]
  /\ Goto(w, "checking")
  /\ UNCHANGED <<paused, target, used>>

------------------------------------------------------------------------------
(* Sending (send_next).                                                    *)

\* /next, queue:start, each round of queue:batch
AskNext(c) ==
  /\ pc[c] = "idle"
  /\ Goto(c, "checking")
  /\ UNCHANGED <<session, workflow, paused, target, own, created, used>>

\* PAUSED or ACTIVE_EXISTS
Withhold(a) ==
  /\ pc[a] = "checking"
  /\ paused \/ Active # {}
  /\ Finish(a)
  /\ UNCHANGED <<session, workflow, paused, created, used>>

\* Mutant: has_active_review is not asked.
DoNotLookForActive(a) ==
  /\ pc[a] = "checking"
  /\ ~paused
  /\ Goto(a, "picking")
  /\ UNCHANGED <<session, workflow, paused, target, own, created, used>>

FindNoneActive(a) ==
  /\ pc[a] = "checking"
  /\ ~paused
  /\ Active = {}
  /\ Goto(a, "picking")
  /\ UNCHANGED <<session, workflow, paused, target, own, created, used>>

Pick(a, s) ==
  /\ target' = [target EXCEPT ![a] = s]
  /\ Goto(a, "sending")
  /\ UNCHANGED <<session, workflow, paused, own, created, used>>

PickQueued(a) ==
  /\ pc[a] = "picking"
  /\ \E s \in Oldest(Unlocked({"queued"})) : Pick(a, s)

\* Mutant: nothing is sent a second time.
StopWhenNoneQueued(a) ==
  /\ pc[a] = "picking"
  /\ Unlocked({"queued"}) = {}
  /\ Finish(a)
  /\ UNCHANGED <<session, workflow, paused, created, used>>

FindNoneQueued(a) ==
  /\ pc[a] = "picking"
  /\ Unlocked({"queued"}) = {}
  /\ Goto(a, "retrying")
  /\ UNCHANGED <<session, workflow, paused, target, own, created, used>>

PickSendFailed(a) ==
  /\ pc[a] = "retrying"
  /\ \E s \in Oldest(Unlocked({"send_failed"})) : Pick(a, s)

\* QUEUE_EMPTY
FindNothing(a) ==
  /\ pc[a] = "retrying"
  /\ Unlocked({"send_failed"}) = {}
  /\ Finish(a)
  /\ UNCHANGED <<session, workflow, paused, created, used>>

SendProposal(a) ==
  /\ pc[a] = "sending"
  /\ SetSession(target[a], "active")
  /\ Goto(a, "sent")
  /\ UNCHANGED <<workflow, paused, target, own, created, used>>

\* The worker's handler then sets its own session to SEND_FAILED; when that is
\* the one just marked there is nothing left to write.
SendFails(a) ==
  /\ pc[a] = "sending"
  /\ used.failures < MaxSendFailures
  /\ used' = [used EXCEPT !.failures = @ + 1]
  /\ SetSession(target[a], "send_failed")
  /\ IF a \in Workers /\ own[a] # target[a] THEN Raise(a) ELSE Finish(a)
  /\ UNCHANGED <<workflow, paused, created>>

\* SENT
SendCompletes(a) ==
  /\ pc[a] = "sent"
  /\ Finish(a)
  /\ UNCHANGED <<session, workflow, paused, created, used>>

\* The "more in queue" message raises after the proposal is ACTIVE.
NoticeFails(a) ==
  /\ pc[a] = "sent"
  /\ WithStatus({"queued"}) # {}
  /\ used.failures < MaxSendFailures
  /\ used' = [used EXCEPT !.failures = @ + 1]
  /\ Raise(a)
  /\ UNCHANGED <<session, workflow, paused, created>>

\* except Exception around the worker's send_next: the session this run
\* created is overwritten, whichever session the error was about.
MarkOwnSendFailed(w) ==
  /\ pc[w] = "raised"
  /\ ~Locked(own[w])
  /\ SetSession(own[w], "send_failed")
  /\ Finish(w)
  /\ UNCHANGED <<workflow, paused, created, used>>

------------------------------------------------------------------------------
(* Deciding.  The session is read, awaits follow (for a confirmation the   *)
(* calls to Google), then one commit writes session and record; nobody     *)
(* looks again whether the session is still open.                          *)

OfTask(t, statuses) == {s \in WithStatus(statuses) : TaskOf(s) = t}

ReadSession(a, candidates) ==
  /\ pc[a] = "idle"
  /\ \E s \in Newest(candidates) : target' = [target EXCEPT ![a] = s]
  /\ Goto(a, "deciding")
  /\ UNCHANGED <<session, workflow, paused, own, created, used>>

\* A Telegram button names the task, not the session.
PressButton(c, t) == ReadSession(c, OfTask(t, {"active"}))

RequestDecision(m, t) == ReadSession(m, OfTask(t, {"queued", "active"}))

\* After the commit: a Telegram handler answers, a Mini App request ends.
EndDecision(a) ==
  IF a \in Chats THEN Goto(a, "answering") /\ UNCHANGED <<target, own>> ELSE Finish(a)

\* Mutant: the record is left to a later commit.
ResolveSessionOnly(a) ==
  /\ pc[a] = "deciding"
  /\ ~Locked(target[a])
  /\ SetSession(target[a], "resolved")
  /\ EndDecision(a)
  /\ UNCHANGED <<workflow, paused, created, used>>

\* Confirm or discard
Resolve(a) ==
  /\ pc[a] = "deciding"
  /\ ~Locked(target[a])
  /\ SetSession(target[a], "resolved")
  /\ \E outcome \in {"applied", "discarded"} :
       workflow' = [workflow EXCEPT ![TaskOf(target[a])] = outcome]
  /\ EndDecision(a)
  /\ UNCHANGED <<paused, created, used>>

\* Mutant: a WorkflowStatus value in the session's status column.
SkipAsDiscarded(c) ==
  /\ pc[c] = "deciding"
  /\ ~Locked(target[c])
  /\ SetSession(target[c], "discarded")
  /\ EndDecision(c)
  /\ UNCHANGED <<workflow, paused, created, used>>

Skip(c) ==
  /\ pc[c] = "deciding"
  /\ ~Locked(target[c])
  /\ SetSession(target[c], "skipped")
  /\ EndDecision(c)
  /\ UNCHANGED <<workflow, paused, created, used>>

\* A confirmation finds the Google task gone or its place unknown.
RefuseConfirm(a) ==
  /\ pc[a] = "deciding"
  /\ Finish(a)
  /\ UNCHANGED <<session, workflow, paused, created, used>>

AnswerAndSendNext(c) ==
  /\ pc[c] = "answering"
  /\ Goto(c, "checking")
  /\ UNCHANGED <<session, workflow, paused, target, own, created, used>>

\* answer() or edit_text() raises and the handler never reaches send_next.
AnswerFails(c) ==
  /\ pc[c] = "answering"
  /\ Finish(c)
  /\ UNCHANGED <<session, workflow, paused, created, used>>

------------------------------------------------------------------------------

Pause ==
  /\ ~paused
  /\ used.pauses < MaxPauses
  /\ used' = [used EXCEPT !.pauses = @ + 1]
  /\ paused' = TRUE
  /\ UNCHANGED <<session, workflow, pc, target, own, created>>

Resume ==
  /\ paused
  /\ paused' = FALSE
  /\ UNCHANGED <<session, workflow, pc, target, own, created, used>>

\* A coroutine dies; its open transaction is rolled back and its lock freed.
Abandon(a) ==
  /\ pc[a] # "idle"
  /\ used.crashes < MaxCrashes
  /\ used' = [used EXCEPT !.crashes = @ + 1]
  /\ Finish(a)
  /\ UNCHANGED <<session, workflow, paused, created>>

------------------------------------------------------------------------------

\* What a coroutine does once it runs
SendStep(a) ==
  \/ Withhold(a) \/ FindNoneActive(a)
  \/ PickQueued(a) \/ FindNoneQueued(a) \/ PickSendFailed(a) \/ FindNothing(a)
  \/ SendProposal(a) \/ SendFails(a) \/ SendCompletes(a) \/ NoticeFails(a)

WorkerStep(w) == SendStep(w) \/ MarkOwnSendFailed(w)

ChatStep(c) ==
  \/ SendStep(c)
  \/ Resolve(c) \/ Skip(c) \/ RefuseConfirm(c)
  \/ AnswerAndSendNext(c) \/ AnswerFails(c)

AppStep(m) == Resolve(m) \/ RefuseConfirm(m)

Begin ==
  \/ \E w \in Workers, t \in Tasks : Propose(w, t)
  \/ \E c \in Chats : AskNext(c)
  \/ \E c \in Chats, t \in Tasks : PressButton(c, t)
  \/ \E m \in Apps, t \in Tasks : RequestDecision(m, t)
  \/ Pause \/ Resume

Next ==
  \/ Begin
  \/ \E w \in Workers : WorkerStep(w)
  \/ \E c \in Chats : ChatStep(c)
  \/ \E m \in Apps : AppStep(m)
  \/ \E a \in Actors : Abandon(a)

Spec == Init /\ [][Next]_vars

\* A coroutine that runs goes on.  The user unpauses, keeps asking for the
\* next proposal and keeps pressing the buttons of a task that is shown, and
\* does not for ever choose a confirmation that is refused.  These are strong
\* because the model has fewer handlers than aiogram, which starts one per
\* update: a handler being busy is no reason for the next press to be lost.
Fairness ==
  /\ \A w \in Workers : WF_vars(WorkerStep(w))
  /\ \A c \in Chats : WF_vars(ChatStep(c)) /\ SF_vars(Resolve(c))
  /\ \A m \in Apps : WF_vars(AppStep(m))
  /\ WF_vars(Resume)
  /\ SF_vars(\E c \in Chats : AskNext(c))
  /\ \A t \in Tasks : SF_vars(\E c \in Chats : PressButton(c, t))

FairSpec == Spec /\ Fairness

------------------------------------------------------------------------------
(* Properties.                                                             *)

\* No more proposals are ACTIVE at once than coroutines can be in send_next
\* at once: has_active_review and the send are not one transaction, but a
\* coroutine that finds an ACTIVE session sends nothing (send_next).
ActiveBound == Cardinality(Active) <= Cardinality(Senders)

\* A task that awaits review has a session that is not decided: it is queued,
\* shown, waiting for a resend or skipped, whatever decisions, sends, errors
\* and proposals cross each other.
NoProposalLost ==
  \A t \in Tasks : workflow[t] = "awaiting_review" =>
    OfTask(t, {"queued", "active", "send_failed", "skipped"}) # {}

\* A decided proposal is not shown by a send that began before the decision:
\* a session becomes ACTIVE only from QUEUED or SEND_FAILED (the row lock of
\* get_next_queued_for_update against the commits of the handlers).
ShowsOnlyUndecided ==
  [][\A s \in Active' : session[s] \in {"active", "queued", "send_failed"}]_vars

\* Every proposal is eventually shown to the user or decided, whatever pauses,
\* failed sends and lost handlers come in between.
EveryProposalReviewed ==
  \A s \in Sessions :
    session[s] \in {"queued", "send_failed"} ~> session[s] \in {"active", "resolved", "skipped"}

==============================================================================
