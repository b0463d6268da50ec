----------------------------- MODULE EpicsProofs -----------------------------
(***************************************************************************)
(* What is proved of Epics, for every set of tasks and criteria and every  *)
(* limit: what is true of an accepted epic's tasks, and of the head its    *)
(* criteria were run at.                                                   *)
(***************************************************************************)
EXTENDS Epics, TLAPS

-----------------------------------------------------------------------------
(* The inductive invariant.                                                *)

Closed == epic \in {"verifying", "accepted"} /\ ~overtaken

\* From the close-out on, the unfinished tasks are those that are excused.
ClosedIsDone == Closed => \A c \in Filed : Over(c) \/ c \in excused

\* The head the criteria are being run at has the work it is to have.
RunsAtTheWork == Closed /\ todo # {} => Accepted \ (NoBranch \union excused) \subseteq sha

\* Accepted work is somewhere on its way to the local branch ...
WorkIsSomewhere == Accepted \ NoBranch \subseteq awaiting \union behind \union head

\* ... and not recorded while it awaits its integration.
RecordedOnce == awaiting \intersect behind = {}

\* The invariants of the run, and what they rest on.
IInv ==
  /\ TypeOK
  /\ ClosedIsDone
  /\ RunsAtTheWork
  /\ WorkIsSomewhere
  /\ RecordedOnce
  /\ RunOnTheIntegratedWork

USE TasksAssumption, LimitsAssumption

-----------------------------------------------------------------------------
(* It holds as the epic waits to be assigned, with no task under it.       *)

\* Nothing is recorded yet, so that nothing is owed.
LEMMA InitInv == Init => IInv
  <1> SUFFICES ASSUME Init PROVE IInv
    OBVIOUS
  <1>1. Accepted = {} /\ Filed = {}
    BY DEF Init, Accepted, Filed
  <1>2. /\ task \in [Tasks -> States] /\ epic \in Statuses
        /\ ran \in [Criteria -> {"none", "passed", "failed"}]
        /\ at \in [Criteria -> SUBSET Tasks]
    BY DEF Init, Statuses, States
  <1>3. TypeOK
    <2>1. iteration \in 0..MaxIterations /\ sessions \in 0..MaxSessions
      BY DEF Init
    <2>2. /\ asks \in BOOLEAN /\ planning \in BOOLEAN /\ replanned \in BOOLEAN
          /\ filing \in BOOLEAN /\ overtaken \in BOOLEAN
      BY DEF Init
    <2>3. /\ awaiting = {} /\ behind = {} /\ head = {}
          /\ todo = {} /\ sha = {} /\ excused = {}
      BY DEF Init
    <2> QED
      BY <1>2, <2>1, <2>2, <2>3 DEF TypeOK
  <1>4. ClosedIsDone /\ RunsAtTheWork /\ RunOnTheIntegratedWork
    BY DEF Init, ClosedIsDone, Closed, RunsAtTheWork, RunOnTheIntegratedWork
  <1>5. WorkIsSomewhere /\ RecordedOnce
    BY <1>1 DEF Init, WorkIsSomewhere, RecordedOnce
  <1> QED
    BY <1>3, <1>4, <1>5 DEF IInv

-----------------------------------------------------------------------------
(* A step keeps it.                                                        *)

\* The epic moves: it leaves the closed statuses, or is accepted as it was verified.
LEMMA MoveInv ==
  ASSUME IInv, NEW to \in Statuses \ {"verifying"}, Move(to), iteration' \in 0..MaxIterations,
         to = "accepted" => epic = "verifying" /\ todo = {}
  PROVE  IInv'
  <1> USE DEF IInv, Move, Forget, family, plans, checks, history, Accepted, Filed, Over
  <1>1. TypeOK'
    BY DEF TypeOK, Statuses, States, RecordedOnce
  <1>2. ClosedIsDone'
    BY DEF TypeOK, ClosedIsDone, Closed
  <1>3. RunsAtTheWork'
    BY DEF TypeOK, ClosedIsDone, RunsAtTheWork, Closed, WorkIsSomewhere
  <1>4. WorkIsSomewhere'
    BY DEF TypeOK, WorkIsSomewhere
  <1>5. RecordedOnce'
    BY DEF TypeOK, RecordedOnce
  <1>6. RunOnTheIntegratedWork'
    BY DEF TypeOK, ClosedIsDone, RunOnTheIntegratedWork, RunsAtTheWork, Closed
  <1> QED
    BY <1>1, <1>2, <1>3, <1>4, <1>5, <1>6 DEF IInv

\* The moves of the rules, of the session and of the owner.
LEMMA MovesInv ==
  ASSUME IInv,
         \/ ReadyEpic \/ AssignedEpic \/ Budget \/ Rejected \/ Blocked \/ DecideAlone
         \/ DeclareBlocked \/ OwnerStops \/ OwnerUnblocks
  PROVE  IInv'
  <1> USE DEF Statuses
  <1>1. iteration \in 0..MaxIterations
    BY DEF IInv, TypeOK
  <1>2. CASE ReadyEpic
    BY <1>1, <1>2, MoveInv DEF ReadyEpic
  <1>3. CASE AssignedEpic
    BY <1>1, <1>3, MoveInv DEF AssignedEpic
  <1>4. CASE Budget
    BY <1>1, <1>4, MoveInv DEF Budget
  <1>5. CASE Rejected
    <2>1. iteration' \in 0..MaxIterations
      BY <1>1, <1>5 DEF Rejected
    <2> QED
      BY <2>1, <1>5, MoveInv DEF Rejected
  <1>6. CASE Blocked
    BY <1>1, <1>6, MoveInv DEF Blocked
  <1>7. CASE DecideAlone
    BY <1>1, <1>7, MoveInv DEF DecideAlone, Verifying, TickComes
  <1>8. CASE DeclareBlocked
    BY <1>1, <1>8, MoveInv DEF DeclareBlocked
  <1>9. CASE OwnerStops
    BY <1>1, <1>9, MoveInv DEF OwnerStops
  <1>10. CASE OwnerUnblocks
    BY <1>1, <1>10, MoveInv DEF OwnerUnblocks
  <1> QED
    BY <1>2, <1>3, <1>4, <1>5, <1>6, <1>7, <1>8, <1>9, <1>10

\* The gate finds every task over.
LEMMA AskVerifyingInv == ASSUME IInv, AskVerifying PROVE IInv'
  <1> USE DEF IInv, AskVerifying, family, plans, checks, history, Accepted, Filed, Over, Forget, ChildrenDone
  <1>1. TypeOK'
    BY DEF TypeOK, Statuses, States, RecordedOnce
  <1>2. ClosedIsDone'
    BY DEF TypeOK, ClosedIsDone, Closed
  <1>3. RunsAtTheWork'
    BY DEF TypeOK, ClosedIsDone, RunsAtTheWork, Closed, WorkIsSomewhere
  <1>4. WorkIsSomewhere'
    BY DEF TypeOK, WorkIsSomewhere
  <1>5. RecordedOnce'
    BY DEF TypeOK, RecordedOnce
  <1>6. RunOnTheIntegratedWork'
    BY DEF TypeOK, ClosedIsDone, RunOnTheIntegratedWork, RunsAtTheWork, Closed
  <1> QED
    BY <1>1, <1>2, <1>3, <1>4, <1>5, <1>6 DEF IInv

\* The owner asks no gate: the epic is overtaken, or not closed out.
LEMMA OwnerResolvesInv == ASSUME IInv, OwnerResolves PROVE IInv'
  <1> USE DEF IInv, OwnerResolves, family, plans, checks, history, Accepted, Filed, Over, Forget
  <1>1. TypeOK'
    BY DEF TypeOK, Statuses, States, RecordedOnce
  <1>2. ClosedIsDone'
    BY DEF TypeOK, ClosedIsDone, Closed
  <1>3. RunsAtTheWork'
    BY DEF TypeOK, ClosedIsDone, RunsAtTheWork, Closed, WorkIsSomewhere
  <1>4. WorkIsSomewhere'
    BY DEF TypeOK, WorkIsSomewhere
  <1>5. RecordedOnce'
    BY DEF TypeOK, RecordedOnce
  <1>6. RunOnTheIntegratedWork'
    BY DEF TypeOK, ClosedIsDone, RunOnTheIntegratedWork, RunsAtTheWork, Closed
  <1> QED
    BY <1>1, <1>2, <1>3, <1>4, <1>5, <1>6 DEF IInv

\* The epic leaves the closed statuses, or is over.
LEMMA UnrunnableInv == ASSUME IInv, Unrunnable PROVE IInv'
  <1> USE DEF IInv, Unrunnable, family, plans, checks, history, Accepted, Filed, Over, Forget
  <1>1. TypeOK'
    BY DEF TypeOK, Statuses, States, RecordedOnce
  <1>2. ClosedIsDone'
    BY DEF TypeOK, ClosedIsDone, Closed
  <1>3. RunsAtTheWork'
    BY DEF TypeOK, ClosedIsDone, RunsAtTheWork, Closed, WorkIsSomewhere
  <1>4. WorkIsSomewhere'
    BY DEF TypeOK, WorkIsSomewhere
  <1>5. RecordedOnce'
    BY DEF TypeOK, RecordedOnce
  <1>6. RunOnTheIntegratedWork'
    BY DEF TypeOK, ClosedIsDone, RunOnTheIntegratedWork, RunsAtTheWork, Closed
  <1> QED
    BY <1>1, <1>2, <1>3, <1>4, <1>5, <1>6 DEF IInv

\* A session is counted up to the limit.
LEMMA InProgressEpicInv == ASSUME IInv, InProgressEpic PROVE IInv'
  <1> USE DEF IInv, InProgressEpic, family, plans, checks, history, Accepted, Filed, Over, Plan, Spent
  <1>1. TypeOK'
    BY DEF TypeOK, Statuses, States, RecordedOnce
  <1>2. ClosedIsDone'
    BY DEF TypeOK, ClosedIsDone, Closed
  <1>3. RunsAtTheWork'
    BY DEF TypeOK, ClosedIsDone, RunsAtTheWork, Closed, WorkIsSomewhere
  <1>4. WorkIsSomewhere'
    BY DEF TypeOK, WorkIsSomewhere
  <1>5. RecordedOnce'
    BY DEF TypeOK, RecordedOnce
  <1>6. RunOnTheIntegratedWork'
    BY DEF TypeOK, ClosedIsDone, RunOnTheIntegratedWork, RunsAtTheWork, Closed
  <1> QED
    BY <1>1, <1>2, <1>3, <1>4, <1>5, <1>6 DEF IInv

\* A session is counted up to the limit, or no more.
LEMMA ReplanForIdleInv == ASSUME IInv, ReplanForIdle PROVE IInv'
  <1> USE DEF IInv, ReplanForIdle, family, plans, checks, history, Accepted, Filed, Over, Plan, Spent
  <1>1. TypeOK'
    BY DEF TypeOK, Statuses, States, RecordedOnce
  <1>2. ClosedIsDone'
    BY DEF TypeOK, ClosedIsDone, Closed
  <1>3. RunsAtTheWork'
    BY DEF TypeOK, ClosedIsDone, RunsAtTheWork, Closed, WorkIsSomewhere
  <1>4. WorkIsSomewhere'
    BY DEF TypeOK, WorkIsSomewhere
  <1>5. RecordedOnce'
    BY DEF TypeOK, RecordedOnce
  <1>6. RunOnTheIntegratedWork'
    BY DEF TypeOK, ClosedIsDone, RunOnTheIntegratedWork, RunsAtTheWork, Closed
  <1> QED
    BY <1>1, <1>2, <1>3, <1>4, <1>5, <1>6 DEF IInv

\* A session ends, a call of a tool begins, the owner answers: no task is touched.
LEMMA QuietInv ==
  ASSUME IInv, AskOwner \/ EndSession \/ CheckChildCreation \/ Answer PROVE IInv'
  <1> USE DEF IInv, AskOwner, EndSession, SessionEnds, CheckChildCreation, Answer, family, plans, checks, history, Accepted, Filed, Over
  <1>1. TypeOK'
    BY DEF TypeOK, Statuses, States, RecordedOnce
  <1>2. ClosedIsDone'
    BY DEF TypeOK, ClosedIsDone, Closed
  <1>3. RunsAtTheWork'
    BY DEF TypeOK, ClosedIsDone, RunsAtTheWork, Closed, WorkIsSomewhere
  <1>4. WorkIsSomewhere'
    BY DEF TypeOK, WorkIsSomewhere
  <1>5. RecordedOnce'
    BY DEF TypeOK, RecordedOnce
  <1>6. RunOnTheIntegratedWork'
    BY DEF TypeOK, ClosedIsDone, RunOnTheIntegratedWork, RunsAtTheWork, Closed
  <1> QED
    BY <1>1, <1>2, <1>3, <1>4, <1>5, <1>6 DEF IInv

\* A task filed after the close-out is excused.
LEMMA FileRequestInv == ASSUME IInv, FileRequest PROVE IInv'
  <1> USE DEF IInv, FileRequest, family, plans, checks, history, Accepted, Filed, Over
  <1>1. TypeOK'
    BY DEF TypeOK, Statuses, States, RecordedOnce
  <1>2. ClosedIsDone'
    BY DEF TypeOK, ClosedIsDone, Closed
  <1>3. RunsAtTheWork'
    BY DEF TypeOK, ClosedIsDone, RunsAtTheWork, Closed, WorkIsSomewhere
  <1>4. WorkIsSomewhere'
    BY DEF TypeOK, WorkIsSomewhere
  <1>5. RecordedOnce'
    BY DEF TypeOK, RecordedOnce
  <1>6. RunOnTheIntegratedWork'
    BY DEF TypeOK, ClosedIsDone, RunOnTheIntegratedWork, RunsAtTheWork, Closed
  <1> QED
    BY <1>1, <1>2, <1>3, <1>4, <1>5, <1>6 DEF IInv

\* A crash drops the runs that are left, and nothing they recorded.
LEMMA CrashInv == ASSUME IInv, Crash PROVE IInv'
  <1> USE DEF IInv, Crash, family, plans, checks, history, Accepted, Filed, Over
  <1>1. TypeOK'
    BY DEF TypeOK, Statuses, States, RecordedOnce
  <1>2. ClosedIsDone'
    BY DEF TypeOK, ClosedIsDone, Closed
  <1>3. RunsAtTheWork'
    BY DEF TypeOK, ClosedIsDone, RunsAtTheWork, Closed, WorkIsSomewhere
  <1>4. WorkIsSomewhere'
    BY DEF TypeOK, WorkIsSomewhere
  <1>5. RecordedOnce'
    BY DEF TypeOK, RecordedOnce
  <1>6. RunOnTheIntegratedWork'
    BY DEF TypeOK, ClosedIsDone, RunOnTheIntegratedWork, RunsAtTheWork, Closed
  <1> QED
    BY <1>1, <1>2, <1>3, <1>4, <1>5, <1>6 DEF IInv

\* What a task becomes is no other task's.
LEMMA BecomesMeans ==
  ASSUME TypeOK, NEW c \in Filed, NEW state \in States \ {"none"}, Becomes(c, state)
  PROVE  /\ task' \in [Tasks -> States]
         /\ Filed' = Filed
         /\ Accepted' = IF state = "accepted" THEN Accepted \union {c} ELSE Accepted \ {c}
  BY DEF TypeOK, Becomes, Filed, Accepted

\* A task becomes ready while the epic is in progress.
LEMMA MakeReadyInv == ASSUME IInv, NEW c \in Tasks, MakeReady(c) PROVE IInv'
  <1>1. TypeOK'
    <2>1. /\ task' \in [Tasks -> States]
          /\ Filed' = Filed
          /\ Accepted' = Accepted
          /\ c \in Filed
      BY BecomesMeans DEF IInv, TypeOK, States, MakeReady, Filed, Accepted
    <2>2. /\ awaiting' \subseteq Accepted' \ NoBranch
          /\ behind' \subseteq Accepted' /\ head' \subseteq Accepted'
          /\ excused' \subseteq Filed'
      BY <2>1 DEF IInv, TypeOK, RecordedOnce, MakeReady
    <2> QED
      BY <2>1, <2>2 DEF IInv, TypeOK, MakeReady, Becomes, checks
  <1> USE DEF IInv, MakeReady, family, plans, checks, history, Accepted, Filed, Over, Becomes
  <1>2. ClosedIsDone'
    BY DEF TypeOK, ClosedIsDone, Closed
  <1>3. RunsAtTheWork'
    BY DEF TypeOK, ClosedIsDone, RunsAtTheWork, Closed, WorkIsSomewhere
  <1>4. WorkIsSomewhere'
    BY DEF TypeOK, WorkIsSomewhere
  <1>5. RecordedOnce'
    BY DEF TypeOK, RecordedOnce
  <1>6. RunOnTheIntegratedWork'
    BY DEF TypeOK, ClosedIsDone, RunOnTheIntegratedWork, RunsAtTheWork, Closed
  <1> QED
    BY <1>1, <1>2, <1>3, <1>4, <1>5, <1>6 DEF IInv

\* A task planned anew stays as unfinished as it was.
LEMMA BackToRefiningInv == ASSUME IInv, NEW c \in Tasks, BackToRefining(c) PROVE IInv'
  <1>1. TypeOK'
    <2>1. /\ task' \in [Tasks -> States]
          /\ Filed' = Filed
          /\ Accepted' = Accepted
          /\ c \in Filed
      BY BecomesMeans DEF IInv, TypeOK, States, BackToRefining, Filed, Accepted
    <2>2. /\ awaiting' \subseteq Accepted' \ NoBranch
          /\ behind' \subseteq Accepted' /\ head' \subseteq Accepted'
          /\ excused' \subseteq Filed'
      BY <2>1 DEF IInv, TypeOK, RecordedOnce, BackToRefining
    <2> QED
      BY <2>1, <2>2 DEF IInv, TypeOK, BackToRefining, Becomes, checks
  <1> USE DEF IInv, BackToRefining, family, plans, checks, history, Accepted, Filed, Over, Becomes
  <1>2. ClosedIsDone'
    BY DEF TypeOK, ClosedIsDone, Closed
  <1>3. RunsAtTheWork'
    BY DEF TypeOK, ClosedIsDone, RunsAtTheWork, Closed, WorkIsSomewhere
  <1>4. WorkIsSomewhere'
    BY DEF TypeOK, WorkIsSomewhere
  <1>5. RecordedOnce'
    BY DEF TypeOK, RecordedOnce
  <1>6. RunOnTheIntegratedWork'
    BY DEF TypeOK, ClosedIsDone, RunOnTheIntegratedWork, RunsAtTheWork, Closed
  <1> QED
    BY <1>1, <1>2, <1>3, <1>4, <1>5, <1>6 DEF IInv

\* An open task is one that is excused, by the time the epic is closed out.
LEMMA AcceptInv == ASSUME IInv, NEW c \in Tasks, Accept(c) PROVE IInv'
  <1>1. TypeOK'
    <2>1. /\ task' \in [Tasks -> States]
          /\ Filed' = Filed
          /\ Accepted' = Accepted \union {c}
          /\ c \in Filed
      BY BecomesMeans DEF IInv, TypeOK, States, Accept, Filed, Accepted
    <2>2. /\ awaiting' \subseteq Accepted' \ NoBranch
          /\ behind' \subseteq Accepted' /\ head' \subseteq Accepted'
          /\ excused' \subseteq Filed'
      BY <2>1 DEF IInv, TypeOK, RecordedOnce, Accept
    <2> QED
      BY <2>1, <2>2 DEF IInv, TypeOK, Accept, Becomes, checks
  <1> USE DEF IInv, Accept, family, plans, checks, history, Accepted, Filed, Over, Becomes
  <1>2. ClosedIsDone'
    BY DEF TypeOK, ClosedIsDone, Closed
  <1>3. RunsAtTheWork'
    BY DEF TypeOK, ClosedIsDone, RunsAtTheWork, Closed, WorkIsSomewhere
  <1>4. WorkIsSomewhere'
    BY DEF TypeOK, WorkIsSomewhere
  <1>5. RecordedOnce'
    BY DEF TypeOK, RecordedOnce
  <1>6. RunOnTheIntegratedWork'
    BY DEF TypeOK, ClosedIsDone, RunOnTheIntegratedWork, RunsAtTheWork, Closed
  <1> QED
    BY <1>1, <1>2, <1>3, <1>4, <1>5, <1>6 DEF IInv

\* A cancelled task is over.
LEMMA CancelInv == ASSUME IInv, NEW c \in Tasks, Cancel(c) PROVE IInv'
  <1>1. TypeOK'
    <2>1. /\ task' \in [Tasks -> States]
          /\ Filed' = Filed
          /\ Accepted' = Accepted
          /\ c \in Filed
      BY BecomesMeans DEF IInv, TypeOK, States, Cancel, Filed, Accepted
    <2>2. /\ awaiting' \subseteq Accepted' \ NoBranch
          /\ behind' \subseteq Accepted' /\ head' \subseteq Accepted'
          /\ excused' \subseteq Filed'
      BY <2>1 DEF IInv, TypeOK, RecordedOnce, Cancel
    <2> QED
      BY <2>1, <2>2 DEF IInv, TypeOK, Cancel, Becomes, checks
  <1> USE DEF IInv, Cancel, family, plans, checks, history, Accepted, Filed, Over, Becomes
  <1>2. ClosedIsDone'
    BY DEF TypeOK, ClosedIsDone, Closed
  <1>3. RunsAtTheWork'
    BY DEF TypeOK, ClosedIsDone, RunsAtTheWork, Closed, WorkIsSomewhere
  <1>4. WorkIsSomewhere'
    BY DEF TypeOK, WorkIsSomewhere
  <1>5. RecordedOnce'
    BY DEF TypeOK, RecordedOnce
  <1>6. RunOnTheIntegratedWork'
    BY DEF TypeOK, ClosedIsDone, RunOnTheIntegratedWork, RunsAtTheWork, Closed
  <1> QED
    BY <1>1, <1>2, <1>3, <1>4, <1>5, <1>6 DEF IInv

\* A task that is sent back is excused, and its work no longer accepted.
LEMMA SendBackInv == ASSUME IInv, NEW c \in Tasks, SendBack(c) PROVE IInv'
  <1>1. TypeOK'
    <2>1. /\ task' \in [Tasks -> States]
          /\ Filed' = Filed
          /\ Accepted' = Accepted \ {c}
          /\ c \in Filed
      BY BecomesMeans DEF IInv, TypeOK, States, SendBack, Filed, Accepted
    <2>2. /\ awaiting' \subseteq Accepted' \ NoBranch
          /\ behind' \subseteq Accepted' /\ head' \subseteq Accepted'
          /\ excused' \subseteq Filed'
      BY <2>1 DEF IInv, TypeOK, RecordedOnce, SendBack
    <2> QED
      BY <2>1, <2>2 DEF IInv, TypeOK, SendBack, Becomes, checks
  <1> USE DEF IInv, SendBack, family, plans, checks, history, Accepted, Filed, Over, Becomes
  <1>2. ClosedIsDone'
    BY DEF TypeOK, ClosedIsDone, Closed
  <1>3. RunsAtTheWork'
    BY DEF TypeOK, ClosedIsDone, RunsAtTheWork, Closed, WorkIsSomewhere
  <1>4. WorkIsSomewhere'
    BY DEF TypeOK, WorkIsSomewhere
  <1>5. RecordedOnce'
    BY DEF TypeOK, RecordedOnce
  <1>6. RunOnTheIntegratedWork'
    BY DEF TypeOK, ClosedIsDone, RunOnTheIntegratedWork, RunsAtTheWork, Closed
  <1> QED
    BY <1>1, <1>2, <1>3, <1>4, <1>5, <1>6 DEF IInv

\* Work that lands is in the local branch.
LEMMA LandInv == ASSUME IInv, NEW c \in Tasks, Land(c) PROVE IInv'
  <1> USE DEF IInv, Land, family, plans, checks, history, Accepted, Filed, Over, Merging
  <1>1. TypeOK'
    BY DEF TypeOK, Statuses, States, RecordedOnce
  <1>2. ClosedIsDone'
    BY DEF TypeOK, ClosedIsDone, Closed
  <1>3. RunsAtTheWork'
    BY DEF TypeOK, ClosedIsDone, RunsAtTheWork, Closed, WorkIsSomewhere
  <1>4. WorkIsSomewhere'
    BY DEF TypeOK, WorkIsSomewhere
  <1>5. RecordedOnce'
    BY DEF TypeOK, RecordedOnce
  <1>6. RunOnTheIntegratedWork'
    BY DEF TypeOK, ClosedIsDone, RunOnTheIntegratedWork, RunsAtTheWork, Closed
  <1> QED
    BY <1>1, <1>2, <1>3, <1>4, <1>5, <1>6 DEF IInv

\* Work that is recorded is in the local branch, or behind it.
LEMMA RecordInv == ASSUME IInv, NEW c \in Tasks, Record(c) PROVE IInv'
  <1> USE DEF IInv, Record, family, plans, checks, history, Accepted, Filed, Over, Merging
  <1>1. TypeOK'
    BY DEF TypeOK, Statuses, States, RecordedOnce
  <1>2. ClosedIsDone'
    BY DEF TypeOK, ClosedIsDone, Closed
  <1>3. RunsAtTheWork'
    BY DEF TypeOK, ClosedIsDone, RunsAtTheWork, Closed, WorkIsSomewhere
  <1>4. WorkIsSomewhere'
    BY DEF TypeOK, WorkIsSomewhere
  <1>5. RecordedOnce'
    BY DEF TypeOK, RecordedOnce
  <1>6. RunOnTheIntegratedWork'
    BY DEF TypeOK, ClosedIsDone, RunOnTheIntegratedWork, RunsAtTheWork, Closed
  <1> QED
    BY <1>1, <1>2, <1>3, <1>4, <1>5, <1>6 DEF IInv

\* What was behind is in the local branch.
LEMMA FetchInv == ASSUME IInv, Fetch PROVE IInv'
  <1> USE DEF IInv, Fetch, family, plans, checks, history, Accepted, Filed, Over, Merging
  <1>1. TypeOK'
    BY DEF TypeOK, Statuses, States, RecordedOnce
  <1>2. ClosedIsDone'
    BY DEF TypeOK, ClosedIsDone, Closed
  <1>3. RunsAtTheWork'
    BY DEF TypeOK, ClosedIsDone, RunsAtTheWork, Closed, WorkIsSomewhere
  <1>4. WorkIsSomewhere'
    BY DEF TypeOK, WorkIsSomewhere
  <1>5. RecordedOnce'
    BY DEF TypeOK, RecordedOnce
  <1>6. RunOnTheIntegratedWork'
    BY DEF TypeOK, ClosedIsDone, RunOnTheIntegratedWork, RunsAtTheWork, Closed
  <1> QED
    BY <1>1, <1>2, <1>3, <1>4, <1>5, <1>6 DEF IInv

\* Nothing awaits: accepted work is in the head, or behind and excused.
LEMMA RunOnTheIntegrationBranchInv == ASSUME IInv, RunOnTheIntegrationBranch PROVE IInv'
  <1> USE DEF IInv, RunOnTheIntegrationBranch, family, plans, checks, history, Accepted, Filed, Over, Verifying, TickComes, Pending
  <1>1. TypeOK'
    BY DEF TypeOK, Statuses, States, RecordedOnce
  <1>2. ClosedIsDone'
    BY DEF TypeOK, ClosedIsDone, Closed
  <1>3. RunsAtTheWork'
    BY DEF TypeOK, ClosedIsDone, RunsAtTheWork, Closed, WorkIsSomewhere
  <1>4. WorkIsSomewhere'
    BY DEF TypeOK, WorkIsSomewhere
  <1>5. RecordedOnce'
    BY DEF TypeOK, RecordedOnce
  <1>6. RunOnTheIntegratedWork'
    BY DEF TypeOK, ClosedIsDone, RunOnTheIntegratedWork, RunsAtTheWork, Closed
  <1> QED
    BY <1>1, <1>2, <1>3, <1>4, <1>5, <1>6 DEF IInv

\* The result was run at a head with the work it is to have.
LEMMA RecordGovernorResultInv == ASSUME IInv, NEW k \in Criteria, RecordGovernorResult(k) PROVE IInv'
  <1> USE DEF IInv, RecordGovernorResult, family, plans, checks, history, Accepted, Filed, Over
  <1>1. TypeOK'
    BY DEF TypeOK, Statuses, States, RecordedOnce
  <1>2. ClosedIsDone'
    BY DEF TypeOK, ClosedIsDone, Closed
  <1>3. RunsAtTheWork'
    BY DEF TypeOK, ClosedIsDone, RunsAtTheWork, Closed, WorkIsSomewhere
  <1>4. WorkIsSomewhere'
    BY DEF TypeOK, WorkIsSomewhere
  <1>5. RecordedOnce'
    BY DEF TypeOK, RecordedOnce
  <1>6. RunOnTheIntegratedWork'
    BY DEF TypeOK, ClosedIsDone, RunOnTheIntegratedWork, RunsAtTheWork, Closed
  <1> QED
    BY <1>1, <1>2, <1>3, <1>4, <1>5, <1>6 DEF IInv

\* No step, and every step, keeps the invariant.
LEMMA NextInv == IInv /\ [Next]_vars => IInv'
  <1> SUFFICES ASSUME IInv, [Next]_vars PROVE IInv'
    OBVIOUS
  <1>1. CASE Rules
    BY <1>1, MovesInv, InProgressEpicInv, RunOnTheIntegrationBranchInv DEF Rules
  <1>2. CASE ReplanForIdle
    BY <1>2, ReplanForIdleInv
  <1>3. CASE Runs
    BY <1>3, RecordGovernorResultInv, UnrunnableInv DEF Runs
  <1>4. CASE AskVerifying \/ DeclareBlocked \/ AskOwner \/ EndSession
    BY <1>4, AskVerifyingInv, MovesInv, QuietInv
  <1>5. CASE CheckChildCreation \/ FileRequest
    BY <1>5, QuietInv, FileRequestInv
  <1>6. CASE \E c \in Tasks : MakeReady(c) \/ BackToRefining(c) \/ SendBack(c) \/ Land(c)
    BY <1>6, MakeReadyInv, BackToRefiningInv, SendBackInv, LandInv
  <1>7. CASE Settles \/ Records \/ Fetch
    BY <1>7, AcceptInv, CancelInv, RecordInv, FetchInv DEF Settles, Records
  <1>8. CASE Answer \/ OwnerStops \/ OwnerUnblocks \/ OwnerResolves
    BY <1>8, QuietInv, MovesInv, OwnerResolvesInv
  <1>9. CASE Crash
    BY <1>9, CrashInv
  <1>10. CASE UNCHANGED vars
    BY <1>10 DEF family, plans, checks, history, vars, IInv, TypeOK, Statuses, States, Accepted, Filed, Over,
           ClosedIsDone, Closed, RunsAtTheWork, WorkIsSomewhere, RecordedOnce, RunOnTheIntegratedWork
  <1> QED
    BY <1>1, <1>2, <1>3, <1>4, <1>5, <1>6, <1>7, <1>8, <1>9, <1>10 DEF Next

-----------------------------------------------------------------------------
\* Every behaviour keeps the invariant.
LEMMA Always == Spec => []IInv
  BY InitInv, NextInv, PTL DEF Spec

\* Every variable keeps its type.  Work that awaits its integration, or whose
\* record the local branch lags behind, is accepted work: `sent_back` leaves
\* nothing of a task that is under way again.
THEOREM TypeCorrect == Spec => []TypeOK
  BY Always, PTL DEF IInv

\* An accepted epic has no unfinished task but one filed or sent back after the
\* close-out (`check_children_done`), whatever the order of filings, merges, runs,
\* kills and the owner's moves.
THEOREM AcceptedIsDoneAlways == Spec => []AcceptedIsDone
  <1>1. IInv => AcceptedIsDone
    BY DEF IInv, ClosedIsDone, Closed, AcceptedIsDone
  <1> QED
    BY <1>1, Always, PTL

\* Each result that counts was run at a head with the work of the tasks the epic
\* was closed out with (`verifying_epic`, `run_on_the_integration_branch`).
THEOREM RunOnTheIntegratedWorkAlways == Spec => []RunOnTheIntegratedWork
  BY Always, PTL DEF IInv
=============================================================================
