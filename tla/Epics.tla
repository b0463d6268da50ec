-------------------------------- MODULE Epics --------------------------------
(***************************************************************************)
(* An epic from its assignment to its acceptance, with the tasks filed     *)
(* under it (crates/runtime/src/orchestrator/requests.rs, verify.rs, the   *)
(* gates of crates/core/src/governor/gates.rs, and `create_task`).         *)
(*                                                                         *)
(* The team has no Scrum Master: its Product Manager holds the epic.  The  *)
(* epic's criteria are all ones Catervas runs, as every epic's are since   *)
(* ADR 0061, so Catervas verifies it alone.  What happens to a task is     *)
(* TaskLifecycle's, and how it is integrated is Integration's: here it is  *)
(* filed, made ready, accepted or cancelled, merged and recorded, or sent  *)
(* back by its merge, each as one step.                                    *)
(***************************************************************************)
EXTENDS Naturals

CONSTANTS
  Tasks,          \* the tasks that may be filed under the epic
  PlanTasks,      \* those of them that write the epic's plan
  NoBranch,       \* those of them that work in a private folder
  Criteria,       \* the epic's exit criteria
  MaxIterations,  \* how often the epic may be returned to work
  MaxSessions,    \* how many sessions the epic's contract allows
  OwnerTo         \* the statuses the owner resolves an escalation to

ASSUME TasksAssumption ==
  /\ PlanTasks \subseteq Tasks
  /\ NoBranch \subseteq Tasks
  /\ OwnerTo \subseteq {"ready", "in_progress", "verifying", "rejected", "accepted"}
ASSUME LimitsAssumption == MaxIterations \in Nat /\ MaxSessions \in Nat

VARIABLES
  epic,       \* the epic's status
  iteration,  \* how often it was returned to work
  asks,       \* whether it waits for the owner's answer to a question
  planning,   \* whether a plan session about it runs
  sessions,   \* how many were started, as far as its budget asks
  replanned,  \* whether one was started since a task under it changed
  filing,     \* whether someone has read its status and is about to file a task
  task,       \* task[c]: what became of the task c
  awaiting,   \* the accepted tasks that await their integration
  behind,     \* the tasks recorded as integrated the local branch does not have
  head,       \* the tasks whose work the local integration branch has
  todo,       \* the criteria the tick is about to run, one after the other
  sha,        \* the head it runs them at
  ran,        \* ran[k]: the result of k recorded since `verifying` began
  at,         \* at[k]: the head it was run at
  excused,    \* history: the tasks filed or sent back since the epic was closed
              \* out, or in `behind` as its criteria began to run
  overtaken   \* history: whether `verifying` was entered without the close-out's
              \* gate, or beside criteria that still ran

family == <<task, awaiting, behind, head>>
plans == <<planning, sessions, replanned, filing, asks>>
checks == <<todo, sha, ran, at>>
history == <<excused, overtaken>>
vars == <<epic, iteration, family, plans, checks, history>>

Statuses == {"ready", "assigned", "in_progress", "blocked", "verifying", "rejected",
             "escalated", "accepted", "cancelled"}

\* "draft" is a task from its filing until it is ready; "open" from then on.
States == {"none", "draft", "open", "accepted", "cancelled"}

Over(c) == task[c] \in {"accepted", "cancelled"}
Filed == {c \in Tasks : task[c] # "none"}
Accepted == {c \in Tasks : task[c] = "accepted"}

TypeOK ==
  /\ epic \in Statuses
  /\ iteration \in 0..MaxIterations
  /\ asks \in BOOLEAN /\ planning \in BOOLEAN /\ replanned \in BOOLEAN /\ filing \in BOOLEAN
  /\ sessions \in 0..MaxSessions
  /\ task \in [Tasks -> States]
  /\ awaiting \subseteq Accepted \ NoBranch
  /\ behind \subseteq Accepted /\ head \subseteq Accepted
  /\ todo \subseteq Criteria
  /\ sha \subseteq Tasks
  /\ ran \in [Criteria -> {"none", "passed", "failed"}]
  /\ at \in [Criteria -> SUBSET Tasks]
  /\ excused \subseteq Filed
  /\ overtaken \in BOOLEAN

Init ==
  /\ epic = "ready"
  /\ iteration = 0
  /\ asks = FALSE /\ planning = FALSE /\ replanned = FALSE /\ filing = FALSE
  /\ sessions = 0
  /\ task = [c \in Tasks |-> "none"]
  /\ awaiting = {} /\ behind = {} /\ head = {}
  /\ todo = {} /\ sha = {}
  /\ ran = [k \in Criteria |-> "none"]
  /\ at = [k \in Criteria |-> {}]
  /\ excused = {} /\ overtaken = FALSE

Spent == sessions = MaxSessions

\* A tick waits for the criteria it runs, and leaves a task to its session.
TickComes == todo = {} /\ ~planning

\* What was recorded is asked of the log since `verifying` began, so that nothing
\* is recorded as it begins, and nothing read once the epic has left it.
Forget ==
  /\ ran' = [k \in Criteria |-> "none"]
  /\ at' = [k \in Criteria |-> {}]
  /\ excused' = {}

\* The epic moves, and neither its tasks nor its sessions do.
Move(to) ==
  /\ epic' = to
  /\ IF to = "accepted" THEN UNCHANGED <<ran, at, excused>> ELSE Forget
  /\ overtaken' = (to = "accepted" /\ overtaken)
  /\ UNCHANGED <<family, plans, todo, sha>>

-----------------------------------------------------------------------------
\* Rules 8 and 7: the epic is assigned to the Product Manager when it has room,
\* and started; no session, and no branch.
ReadyEpic ==
  /\ epic = "ready" /\ TickComes /\ ~asks
  /\ Move("assigned")
  /\ UNCHANGED iteration

AssignedEpic ==
  /\ epic = "assigned" /\ TickComes /\ ~asks
  /\ Move("in_progress")
  /\ UNCHANGED iteration

\* What the epic needs next, read from its tasks.
EpicStep ==
  LET live == {c \in Filed : task[c] # "cancelled"}
  IN CASE live = {} -> "BreakDown"
       [] \E c \in live : ~Over(c) -> "Nothing"
       [] OTHER -> IF live \subseteq PlanTasks THEN "WriteThePlansTasks" ELSE "CloseOut"

\* A plan session about the epic starts.
Plan ==
  /\ planning' = TRUE
  /\ sessions' = IF Spent THEN sessions ELSE sessions + 1
  /\ replanned' = TRUE
  /\ UNCHANGED <<epic, iteration, filing, asks, family, checks, history>>

\* Rule 6: it breaks the epic down, writes the tasks of its plan or closes it out.
InProgressEpic ==
  /\ epic = "in_progress" /\ TickComes /\ ~asks
  /\ EpicStep # "Nothing"
  /\ ~Spent
  /\ Plan

\* After rule 8, and once per change of its tasks: a builder has nothing to do
\* beside two tasks that wait in their lanes.  Neither the budgets are asked, nor
\* whether the epic waits for the owner; an epic that is spent is escalated
\* before in the same tick, unless it waits for the owner.
ReplanForIdle ==
  /\ epic = "in_progress" /\ TickComes
  /\ \E c, d \in Tasks \ PlanTasks : c # d /\ task[c] = "open" /\ task[d] = "open"
  /\ ~replanned
  /\ Spent => asks
  /\ Plan

\* The budget rule, before rule 3.
Budget ==
  /\ epic \in {"in_progress", "verifying", "rejected"} /\ TickComes /\ ~asks
  /\ Spent
  /\ Move("escalated")
  /\ UNCHANGED iteration

\* Rule 3: back to work, or to the owner when it was rejected as often as it may be.
Rejected ==
  /\ epic = "rejected" /\ TickComes /\ ~asks
  /\ IF iteration < MaxIterations
     THEN Move("in_progress") /\ iteration' = iteration + 1
     ELSE Move("escalated") /\ UNCHANGED iteration

\* Rule 4: a block that lasts reaches the owner.
Blocked ==
  /\ epic = "blocked" /\ TickComes /\ ~asks
  /\ Move("escalated")
  /\ UNCHANGED iteration

-----------------------------------------------------------------------------
\* Mistake: a task that is not ready yet is not counted as unfinished.
ChildrenDoneButDrafts ==
  /\ \A c \in Filed : Over(c) \/ task[c] = "draft"
  /\ Accepted # {}

\* The gate of `verifying`: every task under the epic is accepted or cancelled,
\* and one is accepted.
ChildrenDone ==
  /\ \A c \in Filed : Over(c)
  /\ Accepted # {}

\* The session about the epic, or another one of the epic's assignee, asks for
\* `verifying`.
AskVerifying ==
  /\ epic = "in_progress"
  /\ ChildrenDone
  /\ epic' = "verifying"
  /\ Forget
  /\ overtaken' = (todo # {})
  /\ UNCHANGED <<iteration, family, plans, todo, sha>>

DeclareBlocked ==
  /\ epic = "in_progress" /\ planning
  /\ Move("blocked")
  /\ UNCHANGED iteration

SessionEnds ==
  /\ planning
  /\ planning' = FALSE
  /\ UNCHANGED <<epic, iteration, sessions, replanned, filing, family, checks, history>>

\* The session asks the owner, and ends; or it just ends.
AskOwner == SessionEnds /\ ~asks /\ asks' = TRUE

EndSession == SessionEnds /\ UNCHANGED asks

\* The session about the epic, another session of whoever may file tasks, or the
\* owner's command in a process of its own, reads the epic's status ...
CheckChildCreation ==
  /\ ~filing
  /\ epic = "in_progress"
  /\ Filed # Tasks
  /\ filing' = TRUE
  /\ UNCHANGED <<planning, sessions, replanned, asks>>
  /\ UNCHANGED <<epic, iteration, family, checks, history>>

\* ... and then files the task, whatever the epic's status is by now.
FileRequest ==
  /\ filing
  /\ filing' = FALSE
  /\ \E c \in Tasks \ Filed :
       /\ task' = [task EXCEPT ![c] = "draft"]
       /\ excused' = IF epic \in {"verifying", "accepted"} THEN excused \union {c} ELSE excused
  /\ replanned' = FALSE
  /\ UNCHANGED <<planning, sessions, asks, awaiting, behind, head>>
  /\ UNCHANGED <<epic, iteration, checks, overtaken>>

-----------------------------------------------------------------------------
Becomes(c, state) ==
  /\ task' = [task EXCEPT ![c] = state]
  /\ replanned' = FALSE
  /\ UNCHANGED <<planning, sessions, filing, asks>>
  /\ UNCHANGED <<epic, iteration, checks, overtaken>>

\* The Definition of Ready asks that the task's epic is in progress.
MakeReady(c) ==
  /\ task[c] = "draft" /\ epic = "in_progress"
  /\ Becomes(c, "open")
  /\ UNCHANGED <<awaiting, behind, head, excused>>

\* A re-plan moves a ready task back to `refining`.
BackToRefining(c) ==
  /\ task[c] = "open" /\ planning
  /\ Becomes(c, "draft")
  /\ UNCHANGED <<awaiting, behind, head, excused>>

\* An accepted task with a branch awaits its integration.
Accept(c) ==
  /\ task[c] = "open"
  /\ Becomes(c, "accepted")
  /\ awaiting' = IF c \in NoBranch THEN awaiting ELSE awaiting \union {c}
  /\ UNCHANGED <<behind, head, excused>>

Cancel(c) ==
  /\ task[c] \in {"draft", "open"}
  /\ Becomes(c, "cancelled")
  /\ UNCHANGED <<awaiting, behind, head, excused>>

\* Mistake: the task still awaits the merge that sent it back.
SendBackAwaiting(c) ==
  /\ c \in awaiting \ head
  /\ Becomes(c, "open")
  /\ excused' = IF epic \in {"verifying", "accepted"} THEN excused \union {c} ELSE excused
  /\ UNCHANGED <<awaiting, behind, head>>

\* A merge that conflicts sends an accepted task back to its assignee, and it
\* awaits nothing any more: by rule 2, or by the owner's `integrate` at any time.
SendBack(c) ==
  /\ c \in awaiting \ head
  /\ Becomes(c, "open")
  /\ awaiting' = awaiting \ {c}
  /\ excused' = IF epic \in {"verifying", "accepted"} THEN excused \union {c} ELSE excused
  /\ UNCHANGED <<behind, head>>

Merging == UNCHANGED <<epic, iteration, plans, checks, task, history>>

\* The task's work comes into the local integration branch before it is recorded:
\* on this computer, by the owner's merge and pull, or with another task's.
Land(c) ==
  /\ c \in awaiting \ head
  /\ head' = head \union {c}
  /\ UNCHANGED <<awaiting, behind>>
  /\ Merging

\* `task.integrated`: of what has landed, or of what the forge has merged and the
\* local branch is yet to be brought up to.
Record(c) ==
  /\ c \in awaiting
  /\ awaiting' = awaiting \ {c}
  /\ behind' = IF c \in head THEN behind ELSE behind \union {c}
  /\ UNCHANGED head
  /\ Merging

\* The local branch is brought up to the forge's.
Fetch ==
  /\ behind # {}
  /\ head' = head \union behind
  /\ behind' = {}
  /\ UNCHANGED awaiting
  /\ Merging

-----------------------------------------------------------------------------
\* Mistake: the epic does not wait for the merges of its tasks.
VerifyingAtOnce == epic = "verifying" /\ TickComes /\ ~asks

\* Rule 5, on a board read anew.
Verifying ==
  /\ epic = "verifying" /\ TickComes /\ ~asks
  /\ awaiting = {}

\* Mistake: a criterion that failed is run again in the same verification.
PendingUntilPassed == {k \in Criteria : ran[k] # "passed"}

Pending == {k \in Criteria : ran[k] = "none"}

\* The criteria with no result since `verifying` began are run one after the
\* other at the local integration branch's head, without the integration lock;
\* the tick waits for them.
RunOnTheIntegrationBranch ==
  /\ Verifying
  /\ Pending # {}
  /\ todo' = Pending
  /\ sha' = head
  /\ excused' = excused \union behind
  /\ UNCHANGED <<ran, at, overtaken>>
  /\ UNCHANGED <<epic, iteration, family, plans>>

\* Each result is recorded before the next criterion is run, whatever became of
\* the epic meanwhile: recorded after it left `verifying`, it is never read.
RecordGovernorResult(k) ==
  /\ k \in todo
  /\ todo' = todo \ {k}
  /\ sha' = IF todo = {k} THEN {} ELSE sha
  /\ IF epic = "verifying"
     THEN /\ \E result \in {"passed", "failed"} : ran' = [ran EXCEPT ![k] = result]
          /\ at' = [at EXCEPT ![k] = sha]
     ELSE UNCHANGED <<ran, at>>
  /\ UNCHANGED <<epic, iteration, family, plans, history>>

\* A criterion that could not be run ends the runs and reaches the owner, from
\* whatever status the epic is in by now, unless it is over.
Unrunnable ==
  /\ todo # {}
  /\ todo' = {} /\ sha' = {}
  /\ IF epic \in {"accepted", "cancelled"}
     THEN UNCHANGED <<epic, ran, at, history>>
     ELSE /\ epic' = "escalated"
          /\ Forget
          /\ overtaken' = FALSE
  /\ UNCHANGED <<iteration, family, plans>>

\* `decide_alone`: the governor rejects for what failed and accepts otherwise;
\* refused (the assignee wrote no completion note), it goes to the owner.
DecideAlone ==
  /\ Verifying
  /\ Pending = {}
  /\ IF \E k \in Criteria : ran[k] = "failed"
     THEN Move("rejected")
     ELSE \E to \in {"accepted", "escalated"} : Move(to)
  /\ UNCHANGED iteration

-----------------------------------------------------------------------------
Answer ==
  /\ asks
  /\ asks' = FALSE
  /\ UNCHANGED <<planning, sessions, replanned, filing>>
  /\ UNCHANGED <<epic, iteration, family, checks, history>>

\* The owner stops the epic, or cancels it ...
OwnerStops ==
  /\ epic \notin {"accepted", "cancelled"}
  /\ \E to \in {"escalated", "cancelled"} : to # epic /\ Move(to)
  /\ UNCHANGED iteration

\* ... resolves a block ...
OwnerUnblocks ==
  /\ epic = "blocked"
  /\ Move("in_progress")
  /\ UNCHANGED iteration

\* ... or an escalation, to any status and by no gate of it.
OwnerResolves ==
  /\ epic = "escalated"
  /\ epic' \in OwnerTo
  /\ Forget
  /\ overtaken' = (epic' \in {"verifying", "accepted"})
  /\ UNCHANGED <<iteration, family, plans, todo, sha>>

\* The process is killed: its session and its runs are gone, and not what they
\* recorded.
Crash ==
  /\ planning \/ todo # {}
  /\ planning' = FALSE
  /\ todo' = {} /\ sha' = {}
  /\ UNCHANGED <<sessions, replanned, filing, asks>>
  /\ UNCHANGED <<epic, iteration, family, ran, at, history>>

Rules ==
  \/ ReadyEpic \/ AssignedEpic \/ InProgressEpic \/ Budget \/ Rejected \/ Blocked
  \/ RunOnTheIntegrationBranch \/ DecideAlone

Runs == (\E k \in Criteria : RecordGovernorResult(k)) \/ Unrunnable

Settles == \E c \in Tasks : Accept(c) \/ Cancel(c)

Records == \E c \in Tasks : Record(c)

Next ==
  \/ Rules \/ ReplanForIdle \/ Runs
  \/ AskVerifying \/ DeclareBlocked \/ AskOwner \/ EndSession
  \/ CheckChildCreation \/ FileRequest
  \/ \E c \in Tasks : MakeReady(c) \/ BackToRefining(c) \/ SendBack(c) \/ Land(c)
  \/ Settles \/ Records
  \/ Fetch
  \/ Answer \/ OwnerStops \/ OwnerUnblocks \/ OwnerResolves
  \/ Crash

Spec == Init /\ [][Next]_vars

\* The tick comes round; a session ends; a criterion's time is limited, and the
\* process is not killed each time one runs; the owner answers.  Nothing is assumed
\* of the tasks under the epic: one may be parked, or replanned again and again.
Fairness ==
  /\ SF_vars(Rules)
  /\ SF_vars(Runs)
  /\ WF_vars(EndSession)
  /\ WF_vars(Answer)

FairSpec == Spec /\ Fairness

-----------------------------------------------------------------------------
\* An accepted epic has no unfinished task (`check_children_done`: "every task
\* under this epic is accepted or cancelled first") but one that was filed or
\* sent back after it was closed out, which nothing asks about again.
AcceptedIsDone ==
  epic = "accepted" /\ ~overtaken => \A c \in Filed : Over(c) \/ c \in excused

\* The epic's criteria are "meant for the integrated work" (docs/SPEC.md:450):
\* each is run at a head with the work of every task that was accepted as the
\* epic was closed out, but of one sent back since, or recorded before the local
\* branch was brought up to it.
RunOnTheIntegratedWork ==
  epic \in {"verifying", "accepted"} /\ ~overtaken =>
    \A k \in Criteria :
      ran[k] # "none" => Accepted \ (NoBranch \union excused) \subseteq at[k]

Working == epic \in {"assigned", "in_progress", "verifying", "rejected"}
Settled == (\A c \in Filed : Over(c)) /\ awaiting = {}

\* An epic with no task left to work, and all that was accepted recorded, is not
\* itself worked for ever: it is accepted, cancelled, blocked or the owner's, or a new
\* task is filed under it, however its criteria fail, whatever its sessions leave
\* undone or ask the owner, and though the process is killed.
EpicEnds == (Working /\ Settled) ~> (~Working \/ ~Settled)
=============================================================================
