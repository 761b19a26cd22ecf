-------------------------- MODULE ReviewQueueProofs --------------------------
(* Theorems about ReviewQueue, for every value of its constants.           *)
EXTENDS ReviewQueue, FiniteSetTheorems, TLAPS

------------------------------------------------------------------------------
(* Type correctness.  An actor that sends or decides has read a session,   *)
(* and a worker past its proposal has one of its own.                      *)

KnowsSession ==
  /\ \A a \in Actors : pc[a] \in {"deciding", "sending"} => target[a] \in Sessions
  /\ \A w \in Workers : pc[w] # "idle" => own[w] \in Sessions

\* Who can be where: only workers handle exceptions, requests do not send.
KnowsPlace ==
  /\ \A a \in Actors : pc[a] = "raised" => a \in Workers
  /\ \A w \in Workers : pc[w] \notin {"deciding", "answering"}
  /\ \A m \in Apps : pc[m] \in {"idle", "deciding"}

TypeInv == TypeOK /\ KnowsSession /\ KnowsPlace

LEMMA TypeInvInit == Init => TypeInv
<1>1. Init => paused \in BOOLEAN
  BY Zenon DEF Init
<1>2. Init => /\ session  \in [Sessions -> ReviewSessionStatus \cup {"absent"}]
              /\ workflow \in [Tasks -> {"none", "awaiting_review", "applied", "discarded"}]
              /\ created  \in 0 .. MaxSessions
              /\ used     \in [failures : Nat, pauses : Nat, crashes : Nat]
  BY BoundsAssumption DEF Init
<1>3. Init => /\ pc     \in [Actors -> Stage]
              /\ target \in [Actors -> Sessions \cup {NoSession}]
              /\ own    \in [Workers -> Sessions \cup {NoSession}]
              /\ KnowsSession /\ KnowsPlace
  BY DEF Init, Stage, Actors, Senders, KnowsSession, KnowsPlace
<1>4. QED
  BY <1>1, <1>2, <1>3 DEF TypeInv, TypeOK

\* The steps of send_next keep the types.
LEMMA TypeInvSend ==
  ASSUME TypeInv, NEW a \in Senders, SendStep(a)
  PROVE  TypeInv'
<1> USE ActorsAssumption
    DEF TypeInv, TypeOK, KnowsSession, KnowsPlace, Stage, Senders, Actors
<1>1. CASE Withhold(a) \/ FindNothing(a) \/ SendCompletes(a)
  BY <1>1 DEF Withhold, FindNothing, SendCompletes, Finish, Goto
<1>2. CASE FindNoneActive(a) \/ FindNoneQueued(a)
  BY <1>2 DEF FindNoneActive, FindNoneQueued, Goto
<1>3. CASE PickQueued(a) \/ PickSendFailed(a)
  BY <1>3 DEF PickQueued, PickSendFailed, Pick, Oldest, Unlocked, WithStatus, Goto
<1>4. CASE SendProposal(a)
  BY <1>4 DEF SendProposal, SetSession, ReviewSessionStatus, Goto
<1>5. CASE SendFails(a)
  <2>1. session' \in [Sessions -> ReviewSessionStatus \cup {"absent"}]
    BY <1>5 DEF SendFails, SetSession, ReviewSessionStatus
  <2>2. used' \in [failures : Nat, pauses : Nat, crashes : Nat]
    BY <1>5 DEF SendFails
  <2>3. Finish(a) \/ (a \in Workers /\ Goto(a, "raised") /\ UNCHANGED <<target, own>>)
    BY <1>5 DEF SendFails, Raise
  <2>4. pc[a] = "sending" /\ UNCHANGED <<workflow, paused, created>>
    BY <1>5 DEF SendFails
  <2>5. QED
    BY <2>1, <2>2, <2>3, <2>4 DEF Finish, Goto
<1>6. CASE NoticeFails(a)
  <2>1. used' \in [failures : Nat, pauses : Nat, crashes : Nat]
    BY <1>6 DEF NoticeFails
  <2>2. Finish(a) \/ (a \in Workers /\ Goto(a, "raised") /\ UNCHANGED <<target, own>>)
    BY <1>6 DEF NoticeFails, Raise
  <2>3. pc[a] = "sent" /\ UNCHANGED <<session, workflow, paused, created>>
    BY <1>6 DEF NoticeFails
  <2>4. QED
    BY <2>1, <2>2, <2>3 DEF Finish, Goto
<1>7. QED
  BY <1>1, <1>2, <1>3, <1>4, <1>5, <1>6 DEF SendStep

\* So do the steps of a decision.
LEMMA TypeInvDecide ==
  ASSUME TypeInv, NEW a \in Chats \cup Apps,
         Resolve(a) \/ RefuseConfirm(a)
           \/ (a \in Chats /\ (Skip(a) \/ AnswerAndSendNext(a) \/ AnswerFails(a)))
  PROVE  TypeInv'
<1> USE ActorsAssumption
    DEF TypeInv, TypeOK, KnowsSession, KnowsPlace, Stage, Senders, Actors
<1>1. CASE Resolve(a)
  <2>1. session' \in [Sessions -> ReviewSessionStatus \cup {"absent"}]
    BY <1>1 DEF Resolve, SetSession, ReviewSessionStatus
  <2>2. workflow' \in [Tasks -> {"none", "awaiting_review", "applied", "discarded"}]
    BY <1>1 DEF Resolve
  <2>3. pc[a] = "deciding" /\ UNCHANGED <<paused, created, used>>
    BY <1>1 DEF Resolve
  <2>4. Finish(a) \/ (a \in Chats /\ Goto(a, "answering") /\ UNCHANGED <<target, own>>)
    BY <1>1 DEF Resolve, EndDecision
  <2>5. QED
    BY <2>1, <2>2, <2>3, <2>4 DEF Finish, Goto
<1>2. CASE RefuseConfirm(a) \/ AnswerFails(a)
  BY <1>2 DEF RefuseConfirm, AnswerFails, Finish, Goto
<1>3. CASE a \in Chats /\ Skip(a)
  BY <1>3 DEF Skip, SetSession, ReviewSessionStatus, EndDecision, Finish, Goto
<1>4. CASE a \in Chats /\ AnswerAndSendNext(a)
  BY <1>4 DEF AnswerAndSendNext, Goto
<1>5. QED
  BY <1>1, <1>2, <1>3, <1>4

\* And the beginnings, the worker's handler and the lost coroutines.
LEMMA TypeInvOthers ==
  ASSUME TypeInv,
         Begin \/ (\E w \in Workers : MarkOwnSendFailed(w)) \/ \E a \in Actors : Abandon(a)
  PROVE  TypeInv'
<1> USE ActorsAssumption, BoundsAssumption
    DEF TypeInv, TypeOK, KnowsSession, KnowsPlace, Stage, Senders, Actors
<1>1. ASSUME NEW w \in Workers, NEW t \in Tasks, Propose(w, t)
      PROVE  TypeInv'
  <2>1. <<t, created + 1>> \in Sessions /\ created + 1 \in 0 .. MaxSessions
    BY <1>1 DEF Propose, Sessions
  <2>2. QED
    BY <1>1, <2>1 DEF Propose, SetSession, ReviewSessionStatus, Goto
<1>2. ASSUME NEW c \in Chats, AskNext(c)
      PROVE  TypeInv'
  BY <1>2 DEF AskNext, Goto
<1>3. ASSUME NEW a \in Chats \cup Apps, NEW S \in SUBSET Sessions, ReadSession(a, S)
      PROVE  TypeInv'
  BY <1>3 DEF ReadSession, Newest, Goto
<1>4. CASE Pause \/ Resume
  <2>1. paused' \in BOOLEAN
    BY <1>4, Zenon DEF Pause, Resume
  <2>2. used' \in [failures : Nat, pauses : Nat, crashes : Nat]
    BY <1>4 DEF Pause, Resume
  <2>3. UNCHANGED <<session, workflow, pc, target, own, created>>
    BY <1>4, Zenon DEF Pause, Resume
  <2>4. QED
    BY <2>1, <2>2, <2>3
<1>5. ASSUME NEW w \in Workers, MarkOwnSendFailed(w)
      PROVE  TypeInv'
  BY <1>5 DEF MarkOwnSendFailed, SetSession, ReviewSessionStatus, Finish, Goto
<1>6. ASSUME NEW a \in Actors, Abandon(a)
      PROVE  TypeInv'
  BY <1>6 DEF Abandon, Finish, Goto
<1>7. \A t \in Tasks : \A statuses : OfTask(t, statuses) \in SUBSET Sessions
  BY DEF OfTask, WithStatus
<1>8. QED
  BY <1>1, <1>2, <1>3, <1>4, <1>5, <1>6, <1>7 DEF Begin, PressButton, RequestDecision

LEMMA TypeInvStep == TypeInv /\ [Next]_vars => TypeInv'
<1>1. TypeInv /\ UNCHANGED vars => TypeInv'
  BY DEF TypeInv, TypeOK, KnowsSession, KnowsPlace, vars
<1>2. TypeInv /\ Next => TypeInv'
  BY TypeInvSend, TypeInvDecide, TypeInvOthers
     DEF Next, WorkerStep, ChatStep, AppStep, Senders
<1>3. QED
  BY <1>1, <1>2

LEMMA AlwaysTypeInv == Spec => []TypeInv
BY TypeInvInit, TypeInvStep, PTL DEF Spec

\* Every reachable state of sessions, actors and records is well typed.
THEOREM ReviewTypeCorrect == Spec => []TypeOK
<1>1. TypeInv => TypeOK
  BY DEF TypeInv
<1>2. QED
  BY <1>1, AlwaysTypeInv, PTL

------------------------------------------------------------------------------
(* No proposal is lost.  Every write of a session either leaves it in a    *)
(* status from which the user can still be asked, or is a resolution, and  *)
(* a resolution takes the task out of AWAITING_REVIEW in the same commit.  *)

Undecided == {"queued", "active", "send_failed", "skipped"}

OneSessionWritten(s, st) == s \in Sessions /\ session' = [session EXCEPT ![s] = st]

NothingWritten == UNCHANGED <<session, workflow>>

\* The effect of a step on sessions and records, in one of four forms.
LEMMA StepEffect ==
  ASSUME TypeInv, [Next]_vars
  PROVE  \/ NothingWritten
         \/ \E s \in Sessions, st \in Undecided :
              OneSessionWritten(s, st) /\ UNCHANGED workflow
         \/ \E t \in Tasks, s \in Sessions :
              /\ TaskOf(s) = t /\ OneSessionWritten(s, "queued")
              /\ workflow' = [workflow EXCEPT ![t] = "awaiting_review"]
         \/ \E s \in Sessions, outcome \in {"applied", "discarded"} :
              /\ OneSessionWritten(s, "resolved")
              /\ workflow' = [workflow EXCEPT ![TaskOf(s)] = outcome]
<1> USE DEF TypeInv, KnowsSession, KnowsPlace, OneSessionWritten, NothingWritten, Undecided
<1>1. CASE UNCHANGED vars
  BY <1>1 DEF vars
<1>2. ASSUME NEW a \in Senders, SendStep(a)
      PROVE  NothingWritten \/ \E s \in Sessions, st \in Undecided :
                                 OneSessionWritten(s, st) /\ UNCHANGED workflow
  BY <1>2 DEF SendStep, Withhold, FindNoneActive, PickQueued, FindNoneQueued,
              PickSendFailed, FindNothing, Pick, SendProposal, SendFails,
              SendCompletes, NoticeFails, SetSession, Senders, Actors
<1>3. ASSUME NEW w \in Workers, MarkOwnSendFailed(w)
      PROVE  \E s \in Sessions, st \in Undecided :
               OneSessionWritten(s, st) /\ UNCHANGED workflow
  BY <1>3 DEF MarkOwnSendFailed, SetSession
<1>4. ASSUME NEW c \in Chats, Skip(c)
      PROVE  \E s \in Sessions, st \in Undecided :
               OneSessionWritten(s, st) /\ UNCHANGED workflow
  BY <1>4 DEF Skip, SetSession, Senders, Actors
<1>5. ASSUME NEW a \in Chats \cup Apps, Resolve(a)
      PROVE  \E s \in Sessions, outcome \in {"applied", "discarded"} :
               /\ OneSessionWritten(s, "resolved")
               /\ workflow' = [workflow EXCEPT ![TaskOf(s)] = outcome]
  BY <1>5 DEF Resolve, SetSession, Senders, Actors
<1>6. ASSUME NEW a \in Chats \cup Apps,
             RefuseConfirm(a) \/ AnswerAndSendNext(a) \/ AnswerFails(a)
      PROVE  NothingWritten
  BY <1>6 DEF RefuseConfirm, AnswerAndSendNext, AnswerFails
<1>7. ASSUME NEW w \in Workers, NEW t \in Tasks, Propose(w, t)
      PROVE  \E s \in Sessions :
               /\ TaskOf(s) = t /\ OneSessionWritten(s, "queued")
               /\ workflow' = [workflow EXCEPT ![t] = "awaiting_review"]
  <2>1. <<t, created + 1>> \in Sessions
    BY <1>7, BoundsAssumption DEF Propose, Sessions, TypeOK
  <2>2. QED
    BY <1>7, <2>1 DEF Propose, SetSession, TaskOf
<1>8. ASSUME Begin, ~ \E w \in Workers, t \in Tasks : Propose(w, t)
      PROVE  NothingWritten
  BY <1>8 DEF Begin, AskNext, PressButton, RequestDecision, ReadSession, Pause, Resume
<1>9. ASSUME NEW a \in Actors, Abandon(a)
      PROVE  NothingWritten
  BY <1>9 DEF Abandon
<1>10. QED
  BY <1>1, <1>2, <1>3, <1>4, <1>5, <1>6, <1>7, <1>8, <1>9
     DEF Next, WorkerStep, ChatStep, AppStep, Senders

LEMMA NoProposalLostStep == TypeInv /\ NoProposalLost /\ [Next]_vars => NoProposalLost'
<1> SUFFICES ASSUME TypeInv, NoProposalLost, [Next]_vars,
                    NEW t \in Tasks, workflow'[t] = "awaiting_review"
             PROVE  \E q \in Sessions : TaskOf(q) = t /\ session'[q] \in Undecided
  BY DEF NoProposalLost, OfTask, WithStatus, Undecided
<1> USE DEF TypeInv, TypeOK, OneSessionWritten, NothingWritten
<1>1. workflow[t] = "awaiting_review" =>
        \E q \in Sessions : TaskOf(q) = t /\ session[q] \in Undecided
  BY DEF NoProposalLost, OfTask, WithStatus, Undecided
<1>2. CASE NothingWritten
  BY <1>1, <1>2
<1>3. ASSUME NEW s \in Sessions, NEW st \in Undecided,
             OneSessionWritten(s, st), UNCHANGED workflow
      PROVE  \E q \in Sessions : TaskOf(q) = t /\ session'[q] \in Undecided
  BY <1>1, <1>3
<1>4. ASSUME NEW u \in Tasks, NEW s \in Sessions, TaskOf(s) = u,
             OneSessionWritten(s, "queued"),
             workflow' = [workflow EXCEPT ![u] = "awaiting_review"]
      PROVE  \E q \in Sessions : TaskOf(q) = t /\ session'[q] \in Undecided
  <2>1. CASE t = u
    BY <1>4, <2>1 DEF Undecided
  <2>2. CASE t # u
    BY <1>1, <1>4, <2>2
  <2>3. QED
    BY <2>1, <2>2
<1>5. ASSUME NEW s \in Sessions, NEW outcome \in {"applied", "discarded"},
             OneSessionWritten(s, "resolved"),
             workflow' = [workflow EXCEPT ![TaskOf(s)] = outcome]
      PROVE  \E q \in Sessions : TaskOf(q) = t /\ session'[q] \in Undecided
  <2>1. t # TaskOf(s) /\ workflow[t] = "awaiting_review"
    BY <1>5
  <2>2. QED
    BY <1>1, <1>5, <2>1
<1>6. QED
  BY <1>2, <1>3, <1>4, <1>5, StepEffect

\* A task that awaits review always has a session that is not decided
\* (NoProposalLost), however many workers, handlers and errors there are.
THEOREM ProposalsAreKept == Spec => []NoProposalLost
<1>1. Init => NoProposalLost
  BY DEF Init, NoProposalLost
<1>2. QED
  BY <1>1, NoProposalLostStep, AlwaysTypeInv, PTL DEF Spec

------------------------------------------------------------------------------
(* A send shows only what is undecided.  The row lock makes the session a  *)
(* sender has picked its own until it commits: two senders never hold the  *)
(* same session, and a held session keeps the status it was picked in.     *)

Sending(a) == pc[a] = "sending"

HeldUnchanged ==
  \A a \in Senders : Sending(a) => session[target[a]] \in {"queued", "send_failed"}

HeldByOne ==
  \A a, b \in Senders : Sending(a) /\ Sending(b) /\ target[a] = target[b] => a = b

LockInv == HeldUnchanged /\ HeldByOne

\* Nobody starts sending, and those who send keep their session.
NoNewSender ==
  \A a \in Senders : pc'[a] = "sending" => Sending(a) /\ target'[a] = target[a]

\* A step that touches no held session keeps the locks.
LEMMA LockKept ==
  ASSUME TypeInv, LockInv, NoNewSender,
         \A a \in Senders : pc'[a] = "sending" =>
           session'[target[a]] \in {"queued", "send_failed"}
  PROVE  LockInv'
BY DEF LockInv, HeldUnchanged, HeldByOne, NoNewSender, Sending

ShowsUndecided ==
  \A s \in Active' : session[s] \in {"active", "queued", "send_failed"}

LEMMA LockSend ==
  ASSUME TypeInv, LockInv, NEW a \in Senders, SendStep(a)
  PROVE  LockInv' /\ ShowsUndecided
<1> USE DEF TypeInv, TypeOK, KnowsSession, Actors, Sending
<1>1. CASE Withhold(a) \/ FindNoneActive(a) \/ FindNoneQueued(a) \/ FindNothing(a)
             \/ SendCompletes(a) \/ NoticeFails(a)
  <2>1. UNCHANGED session /\ NoNewSender
    BY <1>1 DEF Withhold, FindNoneActive, FindNoneQueued, FindNothing, SendCompletes,
                NoticeFails, Raise, Finish, Goto, NoNewSender, Senders
  <2>2. LockInv'
    BY <2>1, LockKept DEF LockInv, HeldUnchanged, NoNewSender
  <2>3. QED
    BY <2>1, <2>2 DEF ShowsUndecided, Active, WithStatus
<1>2. CASE PickQueued(a) \/ PickSendFailed(a)
  <2>1. PICK s \in Sessions : /\ session[s] \in {"queued", "send_failed"} /\ ~Locked(s)
                              /\ Pick(a, s)
    BY <1>2 DEF PickQueued, PickSendFailed, Oldest, Unlocked, WithStatus
  <2>2. /\ pc' = [pc EXCEPT ![a] = "sending"] /\ target' = [target EXCEPT ![a] = s]
        /\ session' = session
    BY <2>1 DEF Pick, Goto
  <2>3. HeldUnchanged'
    BY <2>1, <2>2 DEF LockInv, HeldUnchanged, Senders
  <2>4. HeldByOne'
    BY <2>1, <2>2 DEF LockInv, HeldByOne, Locked, Senders
  <2>5. QED
    BY <2>2, <2>3, <2>4 DEF LockInv, ShowsUndecided, Active, WithStatus
<1>3. CASE SendProposal(a) \/ SendFails(a)
  <2>1. /\ Sending(a) /\ target[a] \in Sessions
        /\ \E st \in {"active", "send_failed"} :
             session' = [session EXCEPT ![target[a]] = st]
    BY <1>3 DEF SendProposal, SendFails, SetSession, Senders
  <2>2. NoNewSender /\ pc'[a] # "sending"
    BY <1>3 DEF SendProposal, SendFails, Raise, Finish, Goto, NoNewSender, Senders
  <2>3. ASSUME NEW b \in Senders, pc'[b] = "sending"
        PROVE  session'[target[b]] = session[target[b]]
               /\ session[target[b]] \in {"queued", "send_failed"}
    <3>1. Sending(b) /\ b # a /\ target[b] # target[a] /\ target[b] \in Sessions
      BY <2>1, <2>2, <2>3 DEF NoNewSender, LockInv, HeldByOne, Senders
    <3>2. QED
      BY <2>1, <3>1 DEF LockInv, HeldUnchanged
  <2>4. LockInv'
    BY <2>2, <2>3, LockKept
  <2>5. ShowsUndecided
    BY <2>1 DEF ShowsUndecided, Active, WithStatus, LockInv, HeldUnchanged
  <2>6. QED
    BY <2>4, <2>5
<1>4. QED
  BY <1>1, <1>2, <1>3 DEF SendStep

\* Everybody else waits for the lock before writing.
LEMMA LockOthers ==
  ASSUME TypeInv, LockInv,
         \/ Begin \/ (\E w \in Workers : MarkOwnSendFailed(w))
         \/ (\E a \in Chats \cup Apps : Resolve(a) \/ RefuseConfirm(a))
         \/ (\E c \in Chats : Skip(c) \/ AnswerAndSendNext(c) \/ AnswerFails(c))
         \/ (\E a \in Actors : Abandon(a))
  PROVE  LockInv' /\ ShowsUndecided
<1> USE ActorsAssumption
    DEF TypeInv, TypeOK, KnowsSession, KnowsPlace, Actors, Senders, Sending
<1>1. NoNewSender
  <2>1. ASSUME NEW a \in Actors, NEW stage \in Stage \ {"sending"}, pc[a] # "sending",
               Goto(a, stage) /\ UNCHANGED target
        PROVE  NoNewSender
    BY <2>1 DEF NoNewSender, Goto
  <2>2. ASSUME NEW a \in Actors, Finish(a)
        PROVE  NoNewSender
    BY <2>2 DEF NoNewSender, Finish, Goto
  <2>3. ASSUME NEW a \in Actors, NEW S, ReadSession(a, S)
        PROVE  NoNewSender
    BY <2>3 DEF NoNewSender, ReadSession, Goto
  <2>4. CASE Begin
    BY <2>1, <2>3, <2>4 DEF Begin, Propose, AskNext, PressButton, RequestDecision,
                            Pause, Resume, NoNewSender, Stage
  <2>5. CASE \E w \in Workers : MarkOwnSendFailed(w)
    BY <2>2, <2>5 DEF MarkOwnSendFailed
  <2>6. ASSUME NEW a \in Chats \cup Apps, pc[a] = "deciding", EndDecision(a)
        PROVE  NoNewSender
    BY <2>1, <2>2, <2>6 DEF EndDecision, Stage
  <2>7. CASE \/ \E a \in Chats \cup Apps : Resolve(a)
             \/ \E c \in Chats : Skip(c)
    BY <2>6, <2>7 DEF Resolve, Skip
  <2>8. CASE \/ \E a \in Chats \cup Apps : RefuseConfirm(a)
             \/ \E c \in Chats : AnswerFails(c)
             \/ \E a \in Actors : Abandon(a)
    BY <2>2, <2>8 DEF RefuseConfirm, AnswerFails, Abandon
  <2>9. CASE \E c \in Chats : AnswerAndSendNext(c)
    BY <2>1, <2>9 DEF AnswerAndSendNext, Stage
  <2>10. QED
    BY <2>4, <2>5, <2>7, <2>8, <2>9
<1>2. \/ UNCHANGED session
      \/ \E s \in Sessions, st \in {"queued", "send_failed", "resolved", "skipped"} :
           /\ session' = [session EXCEPT ![s] = st]
           /\ ~Locked(s) \/ st = "queued"
  <2>1. ASSUME NEW w \in Workers, NEW t \in Tasks, Propose(w, t)
        PROVE  \E s \in Sessions : session' = [session EXCEPT ![s] = "queued"]
    <3>1. <<t, created + 1>> \in Sessions
      BY <2>1, BoundsAssumption DEF Propose, Sessions
    <3>2. QED
      BY <2>1, <3>1 DEF Propose, SetSession
  <2>2. ASSUME NEW w \in Workers, MarkOwnSendFailed(w)
        PROVE  \E s \in Sessions : ~Locked(s) /\ session' = [session EXCEPT ![s] = "send_failed"]
    BY <2>2 DEF MarkOwnSendFailed, SetSession
  <2>3. ASSUME NEW a \in Chats \cup Apps, Resolve(a)
        PROVE  \E s \in Sessions : ~Locked(s) /\ session' = [session EXCEPT ![s] = "resolved"]
    BY <2>3 DEF Resolve, SetSession
  <2>4. ASSUME NEW c \in Chats, Skip(c)
        PROVE  \E s \in Sessions : ~Locked(s) /\ session' = [session EXCEPT ![s] = "skipped"]
    BY <2>4 DEF Skip, SetSession
  <2>5. ASSUME Begin, ~ \E w \in Workers, t \in Tasks : Propose(w, t)
        PROVE  UNCHANGED session
    BY <2>5 DEF Begin, AskNext, PressButton, RequestDecision, ReadSession, Pause, Resume
  <2>6. CASE \/ \E a \in Chats \cup Apps : RefuseConfirm(a)
             \/ \E c \in Chats : AnswerAndSendNext(c) \/ AnswerFails(c)
             \/ \E a \in Actors : Abandon(a)
    BY <2>6 DEF RefuseConfirm, AnswerAndSendNext, AnswerFails, Abandon
  <2>7. QED
    BY <2>1, <2>2, <2>3, <2>4, <2>5, <2>6
<1>3. ASSUME NEW a \in Senders, pc'[a] = "sending"
      PROVE  session'[target[a]] \in {"queued", "send_failed"}
  <2>1. Sending(a) /\ session[target[a]] \in {"queued", "send_failed"} /\ Locked(target[a])
    BY <1>1, <1>3 DEF NoNewSender, LockInv, HeldUnchanged, Locked
  <2>2. QED
    BY <1>2, <2>1
<1>4. LockInv'
  BY <1>1, <1>3, LockKept
<1>5. ShowsUndecided
  BY <1>2 DEF ShowsUndecided, Active, WithStatus
<1>6. QED
  BY <1>4, <1>5

LEMMA LockStep ==
  TypeInv /\ LockInv /\ [Next]_vars => LockInv' /\ [ShowsUndecided]_vars
<1>1. LockInv /\ UNCHANGED vars => LockInv'
  BY DEF LockInv, HeldUnchanged, HeldByOne, Sending, vars
<1>2. TypeInv /\ LockInv /\ Next => LockInv' /\ ShowsUndecided
  BY LockSend, LockOthers DEF Next, WorkerStep, ChatStep, AppStep, Senders
<1>3. QED
  BY <1>1, <1>2

\* A session becomes ACTIVE only from QUEUED or SEND_FAILED
\* (ShowsOnlyUndecided): no decision is overtaken by a send that began before.
THEOREM SendsShowOnlyUndecided == Spec => ShowsOnlyUndecided
<1>1. Init => LockInv
  BY DEF Init, LockInv, HeldUnchanged, HeldByOne, Sending, Senders, Actors
<1>2. [ShowsUndecided]_vars =>
        [\A s \in Active' : session[s] \in {"active", "queued", "send_failed"}]_vars
  BY DEF ShowsUndecided
<1>3. QED
  BY <1>1, <1>2, LockStep, AlwaysTypeInv, PTL DEF Spec, ShowsOnlyUndecided

------------------------------------------------------------------------------
(* How many proposals are shown at once.  A sender that has passed the     *)
(* check for an ACTIVE session may still add one; the invariant counts the *)
(* two together, and a sender passes the check only when the first is zero.*)

Cleared == {a \in Senders : pc[a] \in {"picking", "retrying", "sending"}}

BoundInv ==
  /\ IsFiniteSet(Active)
  /\ Cardinality(Active) + Cardinality(Cleared) <= Cardinality(Senders)

Shrinks == Active' \subseteq Active /\ Cleared' \subseteq Cleared

\* What a step does to the two sets.
LEMMA BoundEffect ==
  ASSUME TypeInv, [Next]_vars
  PROVE  \/ Shrinks
         \/ Active' = {} /\ Cleared' \subseteq Senders
         \/ \E a \in Cleared, s \in Sessions :
              Active' \subseteq Active \cup {s} /\ Cleared' \subseteq Cleared \ {a}
<1> USE ActorsAssumption
    DEF TypeInv, TypeOK, KnowsPlace, Active, WithStatus, Cleared, Shrinks, Actors, Senders
<1>1. CASE UNCHANGED vars
  BY <1>1 DEF vars
<1>2. ASSUME NEW a \in Senders, FindNoneActive(a)
      PROVE  Active' = {} /\ Cleared' \subseteq Senders
  BY <1>2 DEF FindNoneActive
<1>3. ASSUME NEW a \in Senders, SendProposal(a)
      PROVE  \E s \in Sessions :
               /\ a \in Cleared
               /\ Active' \subseteq Active \cup {s} /\ Cleared' \subseteq Cleared \ {a}
  <2>1. target[a] \in Sessions
    BY <1>3 DEF SendProposal, KnowsSession
  <2>2. QED
    BY <1>3, <2>1 DEF SendProposal, SetSession, Goto
<1>4. ASSUME NEW a \in Actors, Finish(a), Active' \subseteq Active
      PROVE  Shrinks
  BY <1>4 DEF Finish, Goto
<1>5. ASSUME NEW a \in Actors, NEW stage \in Stage, Goto(a, stage), Active' \subseteq Active,
             stage \in {"picking", "retrying", "sending"} =>
               pc[a] \in {"picking", "retrying", "sending"}
      PROVE  Shrinks
  BY <1>5 DEF Goto
<1>6. ASSUME NEW s \in Sessions, NEW st \in {"queued", "send_failed", "resolved", "skipped"},
             SetSession(s, st)
      PROVE  Active' \subseteq Active
  BY <1>6 DEF SetSession
<1>7. UNCHANGED session => Active' \subseteq Active
  OBVIOUS
<1>8. ASSUME NEW a \in Senders, SendStep(a), ~FindNoneActive(a), ~SendProposal(a)
      PROVE  Shrinks
  <2>1. CASE Withhold(a) \/ FindNothing(a) \/ SendCompletes(a)
    BY <1>4, <1>7, <2>1 DEF Withhold, FindNothing, SendCompletes
  <2>2. CASE PickQueued(a) \/ PickSendFailed(a) \/ FindNoneQueued(a)
    BY <1>5, <1>7, <2>2 DEF PickQueued, PickSendFailed, Pick, FindNoneQueued, Stage
  <2>3. CASE SendFails(a)
    <3>1. Active' \subseteq Active
      BY <1>6, <2>3 DEF SendFails, KnowsSession
    <3>2. Finish(a) \/ Goto(a, "raised")
      BY <2>3 DEF SendFails, Raise
    <3>3. QED
      BY <1>4, <1>5, <3>1, <3>2 DEF Stage
  <2>4. CASE NoticeFails(a)
    BY <1>4, <1>5, <1>7, <2>4 DEF NoticeFails, Raise, Stage
  <2>5. QED
    BY <1>8, <2>1, <2>2, <2>3, <2>4 DEF SendStep
<1>9. ASSUME NEW w \in Workers, MarkOwnSendFailed(w)
      PROVE  Shrinks
  <2>1. own[w] \in Sessions
    BY <1>9 DEF MarkOwnSendFailed, KnowsSession
  <2>2. QED
    BY <1>4, <1>6, <1>9, <2>1 DEF MarkOwnSendFailed
<1>10. ASSUME NEW a \in Chats \cup Apps, Resolve(a) \/ (a \in Chats /\ Skip(a))
       PROVE  Shrinks
  <2>1. target[a] \in Sessions
    BY <1>10 DEF Resolve, Skip, KnowsSession
  <2>2. Active' \subseteq Active
    BY <1>6, <1>10, <2>1 DEF Resolve, Skip
  <2>3. Finish(a) \/ Goto(a, "answering")
    BY <1>10 DEF Resolve, Skip, EndDecision
  <2>4. QED
    BY <1>4, <1>5, <2>2, <2>3 DEF Stage
<1>11. ASSUME NEW a \in Actors, RefuseConfirm(a) \/ AnswerFails(a) \/ Abandon(a)
       PROVE  Shrinks
  BY <1>4, <1>7, <1>11 DEF RefuseConfirm, AnswerFails, Abandon
<1>12. ASSUME NEW c \in Chats, AnswerAndSendNext(c)
       PROVE  Shrinks
  BY <1>5, <1>7, <1>12 DEF AnswerAndSendNext, Stage
<1>13. CASE Begin
  <2>1. ASSUME NEW w \in Workers, NEW t \in Tasks, Propose(w, t)
        PROVE  Shrinks
    <3>1. <<t, created + 1>> \in Sessions
      BY <2>1, BoundsAssumption DEF Propose, Sessions
    <3>2. SetSession(<<t, created + 1>>, "queued") /\ Goto(w, "checking")
      BY <2>1 DEF Propose
    <3>3. QED
      BY <1>5, <1>6, <3>1, <3>2 DEF Stage
  <2>2. ASSUME NEW a \in Actors, NEW S, ReadSession(a, S)
        PROVE  Shrinks
    BY <1>5, <1>7, <2>2 DEF ReadSession, Stage
  <2>3. ASSUME NEW c \in Chats, AskNext(c)
        PROVE  Shrinks
    BY <1>5, <1>7, <2>3 DEF AskNext, Stage
  <2>4. CASE Pause \/ Resume
    BY <2>4 DEF Pause, Resume
  <2>5. QED
    BY <1>13, <2>1, <2>2, <2>3, <2>4 DEF Begin, PressButton, RequestDecision
<1>14. QED
  BY <1>1, <1>2, <1>3, <1>8, <1>9, <1>10, <1>11, <1>12, <1>13
     DEF Next, WorkerStep, ChatStep, AppStep

LEMMA BoundStep == TypeInv /\ BoundInv /\ [Next]_vars => BoundInv'
<1> SUFFICES ASSUME TypeInv, BoundInv, [Next]_vars
             PROVE  BoundInv'
  OBVIOUS
<1>1. /\ IsFiniteSet(Senders) /\ Cleared \subseteq Senders /\ IsFiniteSet(Cleared)
      /\ Cardinality(Senders) \in Nat /\ Cardinality(Cleared) \in Nat
      /\ IsFiniteSet(Active) /\ Cardinality(Active) \in Nat
  BY FiniteSenders, FS_Subset, FS_CardinalityType DEF Cleared, BoundInv
<1>2. CASE Shrinks
  <2>1. /\ IsFiniteSet(Active') /\ Cardinality(Active') <= Cardinality(Active)
        /\ Cardinality(Cleared') <= Cardinality(Cleared)
        /\ Cardinality(Active') \in Nat /\ Cardinality(Cleared') \in Nat
    BY <1>1, <1>2, FS_Subset, FS_CardinalityType DEF Shrinks
  <2>2. QED
    BY <1>1, <2>1 DEF BoundInv
<1>3. CASE Active' = {} /\ Cleared' \subseteq Senders
  <2>1. /\ IsFiniteSet(Active') /\ Cardinality(Active') = 0
        /\ Cardinality(Cleared') <= Cardinality(Senders) /\ Cardinality(Cleared') \in Nat
    BY <1>1, <1>3, FS_Subset, FS_CardinalityType, FS_EmptySet
  <2>2. QED
    BY <1>1, <2>1 DEF BoundInv
<1>4. ASSUME NEW a \in Cleared, NEW s \in Sessions,
             Active' \subseteq Active \cup {s}, Cleared' \subseteq Cleared \ {a}
      PROVE  BoundInv'
  <2>1. /\ IsFiniteSet(Active \cup {s}) /\ Cardinality(Active \cup {s}) \in Nat
        /\ Cardinality(Active \cup {s}) <= Cardinality(Active) + 1
    BY <1>1, FS_AddElement, FS_CardinalityType
  <2>2. /\ IsFiniteSet(Cleared \ {a})
        /\ Cardinality(Cleared \ {a}) = Cardinality(Cleared) - 1
    BY <1>1, <1>4, FS_RemoveElement
  <2>3. /\ IsFiniteSet(Active') /\ Cardinality(Active') \in Nat
        /\ Cardinality(Active') <= Cardinality(Active \cup {s})
    BY <1>4, <2>1, FS_Subset, FS_CardinalityType
  <2>4. /\ Cardinality(Cleared') \in Nat
        /\ Cardinality(Cleared') <= Cardinality(Cleared \ {a})
    BY <1>4, <2>2, FS_Subset, FS_CardinalityType
  <2>5. QED
    BY <1>1, <2>1, <2>2, <2>3, <2>4 DEF BoundInv
<1>5. QED
  BY <1>2, <1>3, <1>4, BoundEffect

\* There are never more ACTIVE proposals than coroutines that can send at the
\* same time (ActiveBound), for any finite set of them.
THEOREM ActiveIsBounded == Spec => []ActiveBound
<1>1. Init => BoundInv
  <2>1. Init => Active = {} /\ Cleared = {}
    BY DEF Init, Active, WithStatus, Cleared, Senders, Actors
  <2>2. QED
    <3>1. IsFiniteSet({}) /\ Cardinality({}) = 0 /\ Cardinality(Senders) \in Nat
      BY FiniteSenders, FS_EmptySet, FS_CardinalityType
    <3>2. QED
      BY <2>1, <3>1 DEF BoundInv
<1>2. BoundInv => ActiveBound
  <2>1. IsFiniteSet(Cleared)
    BY FiniteSenders, FS_Subset DEF Cleared
  <2>2. QED
    BY <2>1, FiniteSenders, FS_CardinalityType DEF BoundInv, ActiveBound
<1>3. QED
  BY <1>1, <1>2, BoundStep, AlwaysTypeInv, PTL DEF Spec

==============================================================================
