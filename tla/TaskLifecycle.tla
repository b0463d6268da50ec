---------------------------- MODULE TaskLifecycle ----------------------------
(***************************************************************************)
(* The life of the tasks of one project: the orchestrator's tick, the      *)
(* agents' sessions and the owner's commands, each moving tasks through    *)
(* `Transitions::request`, which asks the Governor and records the move or *)
(* the refusal (crates/runtime/src/transitions.rs, orchestrator/rules.rs,  *)
(* requests.rs, verify.rs, integrate.rs, human.rs, tools/work.rs).         *)
(*                                                                         *)
(* `Transitions` takes one request at a time under its lock, so a request  *)
(* is one step here; what the steps of one request leave behind when it    *)
(* fails between two of them is not this module's subject.  What the code  *)
(* reads back from a task's history (the failures since refining began,    *)
(* the refusals since the last move, the evidence since work began) is     *)
(* kept as a variable that the move concerned starts over.                 *)
(*                                                                         *)
(* A definition marked "Mistake" stands for the one after it in a run of   *)
(* PROJECT.json's "mutants", and nowhere else.                             *)
(***************************************************************************)
EXTENDS Governor, FiniteSets

CONSTANTS
  Tasks,              \* the tasks filed
  Agents,             \* the active agents of the team
  Nobody,             \* no agent
  RoleOf,             \* RoleOf[a]: the role of agent a
  Filings,            \* f[t], for some f of them: the role contract t is filed for
  ReviewerRole,       \* ReviewerRole[t]: the role that reviews t
  Dependencies,       \* Dependencies[t]: the tasks t depends on
  HumanCriterion,     \* the tasks with a criterion only the owner answers
  Rewritten,          \* the roles a later contract may be assigned to instead
  WipLimit,           \* policy.wip_limit_per_agent
  MaxIterations,      \* budget.max_iterations
  MaxSessions,        \* budget.max_sessions
  Priced,             \* whether a session may cost a task its last dollars
  ReadinessAttempts,  \* policy.readiness_attempts
  Autopilot,          \* whether autopilot is on
  AsksFor,            \* the statuses an agent asks for by request_transition
  OwnerMoves,         \* the statuses the owner moves a task to
  MaxExtra,           \* bound: the tries and the room the owner grants a task
  MaxCrashes          \* bound: how often `catervas` is killed

ASSUME AgentsAssumption ==
  Nobody \notin Agents
ASSUME TasksAssumption ==
  IsFiniteSet(Tasks)
ASSUME RolesAssumption ==
  /\ RoleOf \in [Agents -> STRING]
  /\ Filings \subseteq [Tasks -> STRING]
  /\ ReviewerRole \in [Tasks -> STRING]
  /\ Rewritten \subseteq STRING
ASSUME LimitsAssumption ==
  /\ WipLimit \in Nat
  /\ MaxIterations \in Nat \ {0}
  /\ MaxSessions \in Nat \ {0}
  /\ ReadinessAttempts \in Nat \ {0}
  /\ MaxExtra \in Nat
  /\ MaxCrashes \in Nat
ASSUME SwitchesAssumption == Priced \in BOOLEAN /\ Autopilot \in BOOLEAN
ASSUME MovesAssumption ==
  /\ AsksFor \subseteq Statuses
  /\ OwnerMoves \subseteq Statuses

VARIABLES
  status,       \* the board's status of each task
  assignee,     \* the agent that holds it
  reviewer,     \* the agent that reviews it
  iteration,    \* how often it was returned to work
  merging,      \* awaiting_integration
  began,        \* <<u, t>>: both count towards a limit, and u began to first
  rewritten,    \* the tasks written for another role since they were assigned
  granted,      \* the tries the owner granted
  room,         \* how often the owner granted its sessions once more
  role,         \* the contract's assignee_role
  triaged,      \* whether request.triaged is recorded
  sound,        \* whether the contract would pass the Definition of Ready
  unjudged,     \* whether it was written since refining began and not judged
  fails,        \* failed evaluations since refining began
  sentBack,     \* whether the owner sent it to refining, and is unheard
  blockedFrom,  \* the status the last move into `blocked` left
  raised,       \* the reason of the last escalation
  evidence,     \* recorded since the last move into `in_progress`
  ran,          \* Catervas's own runs since the last move into `verifying`
  reviewed,     \* review.recorded since the last move into `verifying`
  accepted,     \* human.accepted of the result since then
  refused,      \* the refusals since the last move that a rule reads back
  sessions,     \* the sessions counted against the task
  broke,        \* whether its dollars are spent
  session,      \* the agent whose session about the task runs, and what for
  check,        \* how far rule 5 is with the criteria Catervas runs
  crashes       \* how often `catervas` was killed so far

boardVars ==
  <<status, assignee, reviewer, iteration, merging, began, rewritten>>
ownerVars == <<granted, room>>
contractVars == <<role, triaged, sound>>
historyVars == <<unjudged, fails, sentBack, blockedFrom, raised, evidence, ran,
                 reviewed, accepted, refused>>
runVars == <<sessions, broke, session, check, crashes>>
vars == <<boardVars, ownerVars, contractVars, historyVars, runVars>>

Anybody == Agents \cup {Nobody}

\* What is recorded of one iteration's work: the assignee's results and
\* completion note; how the criterion Catervas runs came out; the reviewer's
\* answer to the criterion it judges, whether that failed, and the review note.
Evidence == {"results", "completion", "run_passed", "run_failed",
             "answers", "failure", "review_note"}

Outcomes == {"none", "passed", "failed"}

Purposes == {"triage", "refine", "plan", "implement", "verify", "accept"}
NoSession == [agent |-> Nobody, purpose |-> "none"]

\* A refusal is remembered by the status asked for; one of the governor's own
\* also as "governor".
Refusals == {"refining", "in_progress", "escalated", "governor"}

\* Which of them a rule reads back in status s.
ReadBack(s) ==
  CASE s = "draft"     -> {"refining", "escalated"}
    [] s = "assigned"  -> {"in_progress"}
    [] s = "verifying" -> {"escalated", "governor"}
    [] s \in {"refining", "in_progress", "rejected", "blocked"} -> {"escalated"}
    [] OTHER -> {}

BoardTypeOK ==
  /\ status \in [Tasks -> Statuses]
  /\ assignee \in [Tasks -> Anybody]
  /\ reviewer \in [Tasks -> Anybody]
  /\ iteration \in [Tasks -> Nat]
  /\ merging \in [Tasks -> BOOLEAN]
  /\ began \in SUBSET (Tasks \X Tasks)
  /\ rewritten \subseteq Tasks

OwnerTypeOK ==
  /\ granted \in [Tasks -> Nat]
  /\ room \in [Tasks -> Nat]

ContractTypeOK ==
  /\ role \in [Tasks -> STRING]
  /\ triaged \in [Tasks -> BOOLEAN]
  /\ sound \in [Tasks -> BOOLEAN]

HistoryTypeOK ==
  /\ unjudged \in [Tasks -> BOOLEAN]
  /\ fails \in [Tasks -> Nat]
  /\ sentBack \in [Tasks -> {"no", "unheard", "moved_since"}]
  /\ blockedFrom \in [Tasks -> Statuses]
  /\ raised \in [Tasks -> EscalationReasons \cup {"none"}]
  /\ evidence \in [Tasks -> SUBSET Evidence]
  /\ ran \in [Tasks -> Outcomes]
  /\ reviewed \in [Tasks -> Outcomes]
  /\ accepted \in [Tasks -> BOOLEAN]
  /\ refused \in [Tasks -> SUBSET Refusals]

Sessions == [agent : Agents, purpose : Purposes] \cup {NoSession}

RunTypeOK ==
  /\ sessions \in [Tasks -> Nat]
  /\ broke \in [Tasks -> BOOLEAN]
  /\ session \in [Tasks -> Sessions]
  /\ check \in [Tasks -> {"no", "running", "decide"}]
  /\ crashes \in Nat

TypeOK ==
  BoardTypeOK /\ OwnerTypeOK /\ ContractTypeOK /\ HistoryTypeOK /\ RunTypeOK

Init ==
  /\ status = [t \in Tasks |-> "draft"]
  /\ assignee = [t \in Tasks |-> Nobody]
  /\ reviewer = [t \in Tasks |-> Nobody]
  /\ iteration = [t \in Tasks |-> 0]
  /\ merging = [t \in Tasks |-> FALSE]
  /\ began = {}
  /\ rewritten = {}
  /\ granted = [t \in Tasks |-> 0]
  /\ room = [t \in Tasks |-> 0]
  /\ role \in Filings
  /\ triaged = [t \in Tasks |-> FALSE]
  /\ sound = [t \in Tasks |-> FALSE]
  /\ unjudged = [t \in Tasks |-> FALSE]
  /\ fails = [t \in Tasks |-> 0]
  /\ sentBack = [t \in Tasks |-> "no"]
  /\ blockedFrom = [t \in Tasks |-> "in_progress"]
  /\ raised = [t \in Tasks |-> "none"]
  /\ evidence = [t \in Tasks |-> {}]
  /\ ran = [t \in Tasks |-> "none"]
  /\ reviewed = [t \in Tasks |-> "none"]
  /\ accepted = [t \in Tasks |-> FALSE]
  /\ refused = [t \in Tasks |-> {}]
  /\ sessions = [t \in Tasks |-> 0]
  /\ broke = [t \in Tasks |-> FALSE]
  /\ session = [t \in Tasks |-> NoSession]
  /\ check = [t \in Tasks |-> "no"]
  /\ crashes = 0

-----------------------------------------------------------------------------
\* The team (crates/core/src/team.rs).

Holds(r) == {a \in Agents : RoleOf[a] = r}
HasScrumMaster == Holds("scrum_master") # {}

\* `assigner`: the active Scrum Master, else the Product Manager.
AssignerRole == IF HasScrumMaster THEN "scrum_master" ELSE "product_manager"

ChangesCode(r) == r \in {"software_developer", "ui_ux_designer"}

\* The folder only one role works in, named by that role; "" is none.
PrivateFolder(r) ==
  IF r \in {"finance_specialist", "procurement_specialist"} THEN r ELSE ""

MayBuild(r, of) ==
  r = of \/ (r = "architect" /\ of = "software_developer")

MayReview(r, of, builder) ==
  \/ r = of
  \/ /\ of = "architect" /\ builder = "architect"
     /\ r = "software_developer"

\* Only the Product Manager's role reviews its own work.
ReviewsItsOwn(t) ==
  role[t] = ReviewerRole[t] /\ role[t] = "product_manager"

\* Catervas accepts or rejects it on the criteria it runs, and no agent does.
VerifiedAlone(t) == ~ChangesCode(role[t]) /\ t \notin HumanCriterion

-----------------------------------------------------------------------------
\* What the gates ask of the board.

\* The tasks of agent a that count towards its limit.
Counts(a) == {t \in Tasks : assignee[t] = a /\ CountsTowardsWip(status[t])}
HasRoom(a) == Cardinality(Counts(a)) < WipLimit
Idle(a) == \A t \in Tasks : session[t].agent # a
IdlePastLimit(a) == Autopilot /\ WipLimit > 0 /\ Idle(a)

\* Mistake: the tasks that anybody began before t.
BeforeOfAnybody(t) == {u \in Tasks : <<u, t>> \in began}

\* The tasks its agent began before t.
Before(t) == {u \in Counts(assignee[t]) : <<u, t>> \in began}

\* How many of them `within_limit` lets an agent work: a team that set its limit
\* to nothing still finishes what is under way.
Limit == IF WipLimit > 1 THEN WipLimit ELSE 1

\* `within_limit`: the first of those its agent holds; the limit governs nothing
\* that does not count or that nobody holds.
FirstOfItsAgent(t) ==
  \/ ~CountsTowardsWip(status[t])
  \/ assignee[t] = Nobody
  \/ Cardinality(Before(t)) < Limit

\* `within_limit_or_idle`.
WithinLimit(t) ==
  \/ FirstOfItsAgent(t)
  \/ Autopilot /\ Idle(assignee[t])

\* Mistake: a task holds its folder only while it is worked on; one blocked,
\* escalated or under review lets it go.
FolderBusyWhileWorked(t, r) ==
  /\ PrivateFolder(r) # ""
  /\ \E u \in Tasks \ {t} :
       /\ assignee[u] # Nobody
       /\ CountsTowardsWip(status[u])
       /\ PrivateFolder(role[u]) = PrivateFolder(r)

\* `private_folder_busy`: a task that is not over and was ever assigned holds
\* the folder of its contract's role.
FolderBusy(t, r) ==
  /\ PrivateFolder(r) # ""
  /\ \E u \in Tasks \ {t} :
       /\ assignee[u] # Nobody
       /\ ~IsTerminal(status[u])
       /\ PrivateFolder(role[u]) = PrivateFolder(r)

DependenciesAccepted(t) ==
  \A d \in Dependencies[t] : status[d] = "accepted"

\* `is_at_least_ready`.
AtLeastReady(s) ==
  s \in {"ready", "assigned", "in_progress", "blocked", "verifying",
         "rejected", "accepted"}

\* `check_assignment`, of a task that is no epic and in no lane.
CheckAssignment(t, actor, as, rv) ==
  /\ actor = AssignerRole
  /\ MayBuild(RoleOf[as], role[t])
  /\ MayReview(RoleOf[rv], ReviewerRole[t], RoleOf[as])
  /\ as = rv => ReviewsItsOwn(t)
  /\ HasRoom(as) \/ IdlePastLimit(as)
  /\ ~FolderBusy(t, RoleOf[as])
  /\ DependenciesAccepted(t)

\* Mistake: a hand-over forgets who reviews the task.
CheckReassignmentToAnyone(t, a) ==
  /\ status[t] \in {"assigned", "in_progress"}
  /\ ~FirstOfItsAgent(t)
  /\ RoleOf[a] = role[t]
  /\ HasRoom(a)
  /\ a # assignee[t]

\* `check_reassignment`.
CheckReassignment(t, a) ==
  /\ status[t] \in {"assigned", "in_progress"}
  /\ ~FirstOfItsAgent(t)
  /\ RoleOf[a] = role[t]
  /\ HasRoom(a)
  /\ a # assignee[t]
  /\ a = reviewer[t] => ReviewsItsOwn(t)

\* `budget_state`: each granted try adds four sessions, each grant of room the
\* contract's own.
MaxSessionsOf(t) == MaxSessions + 4 * granted[t] + MaxSessions * room[t]
Spent(t) == broke[t] \/ sessions[t] >= MaxSessionsOf(t)

\* `failed` and `unanswered`, of the reviewer's results: Catervas's runs are
\* recorded as the reviewer's.
Failed(t) == evidence[t] \cap {"run_failed", "failure"} # {}
Unanswered(t) ==
  \/ evidence[t] \cap {"run_passed", "run_failed"} = {}
  \/ ~VerifiedAlone(t) /\ "answers" \notin evidence[t]

\* `evaluate_done`.
Done(t) ==
  /\ ~Failed(t)
  /\ ~Unanswered(t)
  /\ {"completion", "review_note"} \subseteq evidence[t]
  /\ t \in HumanCriterion => accepted[t]

\* `result_awaits_human`.
AwaitsHuman(t) ==
  status[t] = "verifying" /\ t \in HumanCriterion /\ ~VerifiedAlone(t)

-----------------------------------------------------------------------------
\* `Transitions::request`.

\* What the one who asks brings (`TransitionAsk`).
NoAsk ==
  [as |-> Nobody, rv |-> Nobody, blocker |-> FALSE, resolution |-> FALSE,
   reasons |-> FALSE, unrunnable |-> FALSE, conflicted |-> FALSE,
   aged |-> FALSE, tries |-> 0]

\* `context`: what the gates read, from the board, the contract and the
\* history as they are when the request is decided.
Context(t, actor, agent, ask) ==
  [status |-> status[t],
   named |-> agent = IF actor = "assignee" THEN assignee[t] ELSE reviewer[t],
   triaged |-> triaged[t],
   ready |-> sound[t]
             /\ \A d \in Dependencies[t] : AtLeastReady(status[d]),
   fails |-> fails[t],
   attempts |-> ReadinessAttempts,
   assignable |-> /\ ask.as # Nobody /\ ask.rv # Nobody
                  /\ CheckAssignment(t, actor, ask.as, ask.rv),
   recorded |-> "results" \in evidence[t],
   blocker |-> ask.blocker,
   resolution |-> ask.resolution,
   blockedFrom |-> blockedFrom[t],
   aged |-> ask.aged,
   done |-> Done(t),
   alone |-> VerifiedAlone(t),
   reasons |-> ask.reasons,
   iteration |-> iteration[t],
   limit |-> MaxIterations + granted[t],
   spent |-> Spent(t),
   broke |-> broke[t],
   unrunnable |-> ask.unrunnable,
   awaitsHuman |-> AwaitsHuman(t),
   reviewPassed |-> reviewed[t] = "passed",
   conflicted |-> ask.conflicted,
   dependencyCancelled |->
     \E d \in Dependencies[t] : status[d] = "cancelled",
   autopilot |-> Autopilot]

\* `refused_before_the_governor`: who asks as the Product Manager or as the
\* Scrum Master holds that role.
HoldsRole(actor, agent) ==
  actor \in {"product_manager", "scrum_master"} => RoleOf[agent] = actor

\* Who began to count before whom, once t counts or no longer does.
BeganAfter(t, counts) ==
  LET others == {p \in began : t \notin {p[1], p[2]}}
      now == {u \in Tasks \ {t} : CountsTowardsWip(status[u])}
  IN  IF counts THEN others \cup (now \X {t}) ELSE others

\* Mistake: a task its merge sent back goes on waiting for it.
AwaitsMergeForGood(t, to) ==
  merging[t] \/ (to = "accepted" /\ PrivateFolder(role[t]) = "")

\* What an accepted task with a branch of its own is left with.
AwaitsMerge(t, to) == to = "accepted" /\ PrivateFolder(role[t]) = ""

\* `record_move` and `apply_move`: what a move records, and what it starts over
\* of what is read back from the history.
Move(t, actor, to, ask, c) ==
  /\ status' = [status EXCEPT ![t] = to]
  /\ IF c.status = "ready" /\ to = "assigned"
     THEN /\ assignee' = [assignee EXCEPT ![t] = ask.as]
          /\ reviewer' = [reviewer EXCEPT ![t] = ask.rv]
          /\ rewritten' = rewritten \ {t}
     ELSE UNCHANGED <<assignee, reviewer, rewritten>>
  /\ iteration' = [iteration EXCEPT ![t] =
                     IF IncrementsIteration(c.status, to) \/ ask.tries > 0
                     THEN @ + 1 ELSE @]
  /\ merging' = [merging EXCEPT ![t] = AwaitsMerge(t, to)]
  /\ began' = IF CountsTowardsWip(to) /\ CountsTowardsWip(c.status)
              THEN began
              ELSE BeganAfter(t, CountsTowardsWip(to))
  /\ unjudged' = [unjudged EXCEPT ![t] = FALSE]
  /\ fails' = [fails EXCEPT ![t] = IF to = "refining" THEN 0 ELSE c.fails]
  /\ sentBack' = [sentBack EXCEPT ![t] =
                    CASE to # "refining"  -> @
                      [] actor = "human"  -> "unheard"
                      [] @ = "no"         -> "no"
                      [] OTHER            -> "moved_since"]
  /\ blockedFrom' = [blockedFrom EXCEPT ![t] =
                       IF to = "blocked" THEN c.status ELSE @]
  /\ raised' = [raised EXCEPT ![t] =
                  IF to = "escalated"
                  THEN EscalationReason(GateTaken(actor, to, c), c) ELSE @]
  /\ evidence' = [evidence EXCEPT ![t] = IF to = "in_progress" THEN {} ELSE @]
  /\ ran' = [ran EXCEPT ![t] = IF to = "verifying" THEN "none" ELSE @]
  /\ reviewed' = [reviewed EXCEPT ![t] = IF to = "verifying" THEN "none" ELSE @]
  /\ accepted' = [accepted EXCEPT ![t] = @ /\ to # "verifying"]
  /\ refused' = [refused EXCEPT ![t] = {}]

\* `transition.refused`, which moves nothing.
Refuse(t, actor, to) ==
  /\ refused' = [refused EXCEPT ![t] =
       @ \cup (({to} \cup IF actor = "governor" THEN {"governor"} ELSE {})
               \cap ReadBack(status[t]))]
  /\ UNCHANGED boardVars
  /\ UNCHANGED <<unjudged, fails, sentBack, blockedFrom, raised, evidence, ran,
                 reviewed, accepted>>

MayMove(t, actor, agent, to, ask) ==
  HoldsRole(actor, agent) /\ Opens(actor, to, Context(t, actor, agent, ask))

\* The lock of `Transitions` makes the decision and what it records one step.
Request(t, actor, agent, to, ask) ==
  IF MayMove(t, actor, agent, to, ask)
  THEN Move(t, actor, to, ask, Context(t, actor, agent, ask))
  ELSE Refuse(t, actor, to)

\* A request of the orchestrator's, of an agent's or of the owner's that
\* changes nothing else.
Ask(t, actor, agent, to, ask) ==
  /\ Request(t, actor, agent, to, ask)
  /\ UNCHANGED <<ownerVars, contractVars, runVars>>

-----------------------------------------------------------------------------
\* The owner's commands (orchestrator/human.rs).  They wait for no tick.

\* `triage`.
Triage(t) ==
  /\ status[t] = "draft"
  /\ triaged' = [triaged EXCEPT ![t] = TRUE]
  /\ UNCHANGED <<boardVars, ownerVars, role, sound, historyVars, runVars>>

\* `transition`.
HumanTransition(t, to) ==
  /\ status[t] \notin {"escalated", to}
  /\ Ask(t, "human", Nobody, to,
         [NoAsk EXCEPT !.resolution = status[t] = "blocked"])

\* `resolve`: an escalation or a blocked task.  The room is granted before the
\* move is asked for; the tries come with the move.
Resolve(t, to, tries, more) ==
  LET ask == [NoAsk EXCEPT !.resolution = status[t] = "blocked",
                           !.tries = tries]
  IN  /\ status[t] \in {"escalated", "blocked"}
      /\ tries > 0 => /\ status[t] = "escalated"
                      /\ to = "in_progress"
                      /\ raised[t] = "iterations"
                      /\ ~more
                      /\ granted[t] + tries <= MaxExtra
      /\ more => /\ status[t] = "escalated"
                 /\ raised[t] \in {"budget", "sessions"}
                 /\ room[t] < MaxExtra
      /\ \E still \in BOOLEAN :
           /\ still => broke[t]
           /\ broke' = [broke EXCEPT ![t] = IF more THEN still ELSE @]
      /\ room' = [room EXCEPT ![t] = IF more THEN @ + 1 ELSE @]
      /\ granted' = [granted EXCEPT ![t] =
                       IF MayMove(t, "human", Nobody, to, ask)
                       THEN @ + tries ELSE @]
      /\ Request(t, "human", Nobody, to, ask)
      /\ UNCHANGED <<contractVars, sessions, session, check, crashes>>

\* `accept_result`.
AcceptResult(t) ==
  /\ AwaitsHuman(t)
  /\ ~accepted[t]
  /\ accepted' = [accepted EXCEPT ![t] = TRUE]
  /\ UNCHANGED <<boardVars, ownerVars, contractVars, unjudged, fails, sentBack,
                 blockedFrom, raised, evidence, ran, reviewed, refused, runVars>>

\* `send_result_back`.
SendResultBack(t) ==
  /\ AwaitsHuman(t)
  /\ reviewed[t] = "passed"
  /\ Ask(t, "human", Nobody, "rejected", [NoAsk EXCEPT !.reasons = TRUE])

\* `stop`: the session is asked to stop, and the task goes to the owner; what
\* the session still does before it ends it does.
StopSession(t) ==
  /\ session[t] # NoSession
  /\ status[t] \notin {"accepted", "cancelled", "escalated"}
  /\ Ask(t, "human", Nobody, "escalated", NoAsk)

-----------------------------------------------------------------------------
\* The orchestrator's tick (orchestrator/rules.rs).  A tick holds the turn but
\* while its session runs (orchestrator/work.rs), and passes over a task that a
\* session is about.

Tick(t) ==
  /\ \A u \in Tasks : check[u] = "no"
  /\ session[t] = NoSession

\* The governor asks for one move and, when that is refused, for another.
GovernorAsks(t, to, ask, second, secondAsk) ==
  IF MayMove(t, "governor", Nobody, to, ask)
  THEN Request(t, "governor", Nobody, to, ask)
  ELSE Request(t, "governor", Nobody, second, secondAsk)

\* Rule 10, of a triaged draft.
DraftRule(t) ==
  /\ Tick(t)
  /\ status[t] = "draft"
  /\ triaged[t]
  /\ "refining" \notin refused[t]
  /\ \E pm \in Holds("product_manager") :
       Ask(t, "product_manager", pm, "refining", NoAsk)

\* Rule 9, `judge`: `ready` first, then `escalated`, which opens on the last
\* of the attempts, the one just failed included.
Judge(t) ==
  LET c == Context(t, "governor", Nobody, NoAsk)
      notReady == [c EXCEPT !.fails = @ + 1]
  IN  /\ Tick(t)
      /\ status[t] = "refining"
      /\ unjudged[t]
      /\ CASE Opens("governor", "ready", c) ->
                Move(t, "governor", "ready", NoAsk, c)
           [] ~Opens("governor", "ready", c)
              /\ Opens("governor", "escalated", notReady) ->
                Move(t, "governor", "escalated", NoAsk, notReady)
           [] OTHER ->
                /\ unjudged' = [unjudged EXCEPT ![t] = FALSE]
                /\ fails' = [fails EXCEPT ![t] = @ + 1]
                /\ refused' = [refused EXCEPT ![t] = @ \cup {"escalated"}]
                /\ UNCHANGED <<boardVars, sentBack, blockedFrom, raised,
                               evidence, ran, reviewed, accepted>>
      /\ UNCHANGED <<ownerVars, contractVars, runVars>>

\* Mistake: only a task all of whose dependencies are settled is looked at.
DependencyCancelledLate(t) ==
  /\ Tick(t)
  /\ status[t] = "ready"
  /\ DependenciesAccepted(t)
  /\ \E d \in Dependencies[t] : status[d] = "cancelled"
  /\ Ask(t, "governor", Nobody, "refining", NoAsk)

\* A ready task with a cancelled dependency.
DependencyCancelled(t) ==
  /\ Tick(t)
  /\ status[t] = "ready"
  /\ \E d \in Dependencies[t] : status[d] = "cancelled"
  /\ Ask(t, "governor", Nobody, "refining", NoAsk)

\* Rule 7.
AssignedRule(t) ==
  /\ Tick(t)
  /\ status[t] = "assigned"
  /\ assignee[t] # Nobody
  /\ WithinLimit(t)
  /\ "in_progress" \notin refused[t]
  /\ Ask(t, "assignee", assignee[t], "in_progress", NoAsk)

\* Between rules 5 and 6: `resume_elsewhere` and `Transitions::reassign`.
ResumeElsewhere(t, a) ==
  /\ Tick(t)
  /\ status[t] \in {"assigned", "in_progress"}
  /\ ~WithinLimit(t)
  /\ CheckReassignment(t, a)
  /\ assignee' = [assignee EXCEPT ![t] = a]
  /\ began' = BeganAfter(t, TRUE)
  /\ UNCHANGED <<status, reviewer, iteration, merging, rewritten, ownerVars,
                 contractVars, historyVars, runVars>>

\* Rule 3.
RejectedRule(t) ==
  /\ Tick(t)
  /\ status[t] = "rejected"
  /\ WithinLimit(t)
  /\ "escalated" \notin refused[t]
  /\ GovernorAsks(t, "in_progress", NoAsk, "escalated", NoAsk)
  /\ UNCHANGED <<ownerVars, contractVars, runVars>>

\* Rule 4, once the block is `blocked_limit_hours` old.
BlockedRule(t) ==
  /\ Tick(t)
  /\ status[t] = "blocked"
  /\ "escalated" \notin refused[t]
  /\ Ask(t, "governor", Nobody, "escalated", [NoAsk EXCEPT !.aged = TRUE])

\* Mistake: the budget rule leaves a task under review to its reviewer.
BudgetRuleNotOfReviews(t) ==
  /\ Tick(t)
  /\ status[t] \in {"draft", "refining", "in_progress", "rejected"}
  /\ ~(status[t] = "refining" /\ sentBack[t] = "unheard")
  /\ Spent(t)
  /\ "escalated" \notin refused[t]
  /\ Ask(t, "governor", Nobody, "escalated", NoAsk)

\* The budget rule, between rules 2 and 3.
BudgetRule(t) ==
  /\ Tick(t)
  /\ status[t] \in {"draft", "refining", "in_progress", "verifying", "rejected"}
  /\ ~(status[t] = "refining" /\ sentBack[t] = "unheard")
  /\ Spent(t)
  /\ "escalated" \notin refused[t]
  /\ Ask(t, "governor", Nobody, "escalated", NoAsk)

-----------------------------------------------------------------------------
\* Rule 5 (orchestrator/verify.rs).  A refusal of the governor's own parks a
\* task in `verifying`.

Parked(t) == "governor" \in refused[t]

\* `run_what_catervas_runs` begins: the tick keeps the turn while it waits for
\* the runs, and neither the owner nor a session waits for them.  What was run
\* since `verifying` is not run again.
RunCriteria(t) ==
  /\ Tick(t)
  /\ status[t] = "verifying"
  /\ ~Parked(t)
  /\ IF VerifiedAlone(t) THEN ~Spent(t)
                         ELSE reviewer[t] # Nobody /\ ran[t] = "none"
  /\ check' = [check EXCEPT ![t] =
                 IF ran[t] = "none" THEN "running" ELSE "decide"]
  /\ UNCHANGED <<boardVars, ownerVars, contractVars, historyVars, sessions,
                 broke, session, crashes>>

\* The runs end and are recorded, wherever the task is by then; of a task it
\* verifies alone Catervas also writes the review note.
CriteriaRan(t) ==
  /\ check[t] = "running"
  /\ \E outcome \in {"passed", "failed"} :
       /\ ran' = [ran EXCEPT ![t] = outcome]
       /\ evidence' = [evidence EXCEPT ![t] =
            (@ \ {"run_passed", "run_failed"})
            \cup {IF outcome = "passed" THEN "run_passed" ELSE "run_failed"}
            \cup IF VerifiedAlone(t) THEN {"review_note"} ELSE {}]
  /\ check' = [check EXCEPT ![t] = IF VerifiedAlone(t) THEN "decide" ELSE "no"]
  /\ UNCHANGED <<boardVars, ownerVars, contractVars, unjudged, fails, sentBack,
                 blockedFrom, raised, reviewed, accepted, refused, sessions,
                 broke, session, crashes>>

\* A criterion that could not be run, for a reason that is not the work's.
Unrunnable(t) ==
  /\ check[t] = "running"
  /\ check' = [check EXCEPT ![t] = "no"]
  /\ Request(t, "governor", Nobody, "escalated",
             [NoAsk EXCEPT !.unrunnable = TRUE])
  /\ UNCHANGED <<ownerVars, contractVars, sessions, broke, session, crashes>>

\* `decide_alone`: nothing without a result since `verifying`; else the
\* governor rejects or accepts, and escalates when that is refused.
DecideAlone(t) ==
  /\ check[t] = "decide"
  /\ check' = [check EXCEPT ![t] = "no"]
  /\ IF ran[t] = "none"
     THEN UNCHANGED <<boardVars, historyVars>>
     ELSE GovernorAsks(t, IF ran[t] = "failed" THEN "rejected" ELSE "accepted",
                       [NoAsk EXCEPT !.reasons = TRUE],
                       "escalated", [NoAsk EXCEPT !.unrunnable = TRUE])
  /\ UNCHANGED <<ownerVars, contractVars, sessions, broke, session, crashes>>

\* `reject`: Catervas files the rejection in the reviewer's name.
FileRejection(t) ==
  /\ Tick(t)
  /\ status[t] = "verifying"
  /\ ~Parked(t)
  /\ ~VerifiedAlone(t)
  /\ reviewer[t] # Nobody
  /\ ran[t] # "none"
  /\ "review_note" \in evidence[t]
  /\ Failed(t)
  /\ Ask(t, "reviewer", reviewer[t], "rejected", [NoAsk EXCEPT !.reasons = TRUE])

\* Rule 2 (orchestrator/integrate.rs): the branch is merged, or no longer
\* merges and the task goes back to its assignee.
Merged(t) ==
  /\ Tick(t)
  /\ merging[t]
  /\ merging' = [merging EXCEPT ![t] = FALSE]
  /\ UNCHANGED <<status, assignee, reviewer, iteration, began, rewritten,
                 ownerVars, contractVars, historyVars, runVars>>

SentBack(t) ==
  /\ Tick(t)
  /\ merging[t]
  /\ Ask(t, "governor", Nobody, "assigned", [NoAsk EXCEPT !.conflicted = TRUE])

-----------------------------------------------------------------------------
\* The sessions a tick starts: one at a time for an agent and for a task, and
\* none about a task that is spent.  Triage and planning are no tries, and
\* neither is the first refine session after the owner sent a task back
\* (`costs`, `sent_back_refines`).

Counted(t, purpose) ==
  /\ purpose \notin {"triage", "plan"}
  /\ ~(purpose = "refine" /\ sentBack[t] # "no")

Start(t, a, purpose) ==
  /\ Tick(t)
  /\ Idle(a)
  /\ ~Spent(t)
  /\ session' = [session EXCEPT ![t] = [agent |-> a, purpose |-> purpose]]
  /\ sessions' = [sessions EXCEPT ![t] =
                    IF Counted(t, purpose) THEN @ + 1 ELSE @]
  /\ sentBack' = [sentBack EXCEPT ![t] = IF purpose = "refine" THEN "no" ELSE @]
  /\ UNCHANGED <<boardVars, ownerVars, contractVars, unjudged, fails,
                 blockedFrom, raised, evidence, ran, reviewed, accepted, refused,
                 broke, check, crashes>>

\* Rule 10, of a draft nobody triaged.
StartTriage(t) ==
  /\ status[t] = "draft"
  /\ ~triaged[t]
  /\ \E a \in Holds(AssignerRole) : Start(t, a, "triage")

\* Rule 9.
StartRefine(t) ==
  /\ status[t] = "refining"
  /\ ~unjudged[t]
  /\ \E a \in Holds("product_manager") : Start(t, a, "refine")

\* The agents rule 8 offers the task to: those of its role with room, or else
\* an Architect, for a Developer's.
Candidates(t) ==
  LET own == {a \in Holds(role[t]) : HasRoom(a) \/ IdlePastLimit(a)}
  IN  IF own = {} /\ MayBuild("architect", role[t])
      THEN {a \in Holds("architect") : HasRoom(a)} ELSE own

\* Rule 8.
StartPlan(t) ==
  /\ status[t] = "ready"
  /\ Candidates(t) # {}
  /\ ~FolderBusy(t, role[t])
  /\ DependenciesAccepted(t)
  /\ \E a \in Holds(AssignerRole) : Start(t, a, "plan")

\* Rule 6.
StartImplement(t) ==
  /\ status[t] = "in_progress"
  /\ assignee[t] # Nobody
  /\ WithinLimit(t)
  /\ Start(t, assignee[t], "implement")

\* Rule 5's reviewer: there is no review note yet, or one and an open criterion.
StartReview(t) ==
  /\ status[t] = "verifying"
  /\ ~Parked(t)
  /\ ~VerifiedAlone(t)
  /\ ran[t] # "none"
  /\ reviewer[t] # Nobody
  /\ \/ "review_note" \notin evidence[t]
     \/ ~Failed(t) /\ Unanswered(t)
  /\ Start(t, reviewer[t], "verify")

\* Rule 5's Product Manager, once every criterion passed.
StartAccept(t) ==
  /\ status[t] = "verifying"
  /\ ~Parked(t)
  /\ ~VerifiedAlone(t)
  /\ ran[t] # "none"
  /\ reviewer[t] # Nobody
  /\ "review_note" \in evidence[t]
  /\ ~Failed(t)
  /\ ~Unanswered(t)
  /\ t \in HumanCriterion => accepted[t]
  /\ \E a \in Holds("product_manager") : Start(t, a, "accept")

\* A session ends once the turn is free: its cost is recorded, which may be the
\* last of the task's dollars whatever the session was for, and a review with every criterion
\* answered is recorded (`record_review`), once since `verifying`.
EndSession(t) ==
  /\ session[t] # NoSession
  /\ \A u \in Tasks : check[u] = "no"
  /\ session' = [session EXCEPT ![t] = NoSession]
  /\ reviewed' = [reviewed EXCEPT ![t] =
       IF session[t].purpose = "verify" /\ @ = "none" /\ ~Unanswered(t)
       THEN IF Failed(t) THEN "failed" ELSE "passed"
       ELSE @]
  /\ \E last \in BOOLEAN :
       /\ last => Priced
       /\ broke' = [broke EXCEPT ![t] = @ \/ last]
  /\ UNCHANGED <<boardVars, ownerVars, contractVars, unjudged, fails, sentBack,
                 blockedFrom, raised, evidence, ran, accepted, refused, sessions,
                 check, crashes>>

\* `catervas` is killed, and picked up again (`recover`): its sessions and its
\* runs are gone, what they recorded is not, and each session is charged as one
\* that cost nothing.
Crash ==
  /\ crashes < MaxCrashes
  /\ crashes' = crashes + 1
  /\ session' = [t \in Tasks |-> NoSession]
  /\ check' = [t \in Tasks |-> "no"]
  /\ UNCHANGED <<boardVars, ownerVars, contractVars, historyVars, sessions, broke>>

-----------------------------------------------------------------------------
\* The tools an agent calls in its session (tools/work.rs, tools/contracts.rs,
\* tools/triage.rs).  None of them waits for the turn, and none but the
\* governor's gates asks where the task is.

InSession(t) == session[t] # NoSession
Me(t) == session[t].agent
InReview(t) == session[t].purpose \in {"verify", "accept"}

\* As whom an agent that is assignee, reviewer or both records and writes.
AsAssignee(t) ==
  assignee[t] = Me(t) /\ ~(reviewer[t] = Me(t) /\ InReview(t))
AsReviewer(t) ==
  reviewer[t] = Me(t) /\ (assignee[t] # Me(t) \/ InReview(t))

\* `triage`.
TriageTool(t) ==
  /\ session[t].purpose = "triage"
  /\ status[t] = "draft"
  /\ triaged' = [triaged EXCEPT ![t] = TRUE]
  /\ UNCHANGED <<boardVars, ownerVars, role, sound, historyVars, runVars>>

\* `write_contract`, of its content: refused once it is past refining.  A task
\* sent back to refining keeps its assignee under the contract's new role.
WriteContract(t) ==
  /\ session[t].purpose = "refine"
  /\ status[t] \in {"draft", "refining"}
  /\ \E passes \in BOOLEAN : sound' = [sound EXCEPT ![t] = passes]
  /\ \E r \in {role[t]} \cup Rewritten :
       /\ role' = [role EXCEPT ![t] = r]
       /\ rewritten' = IF r # role[t] /\ assignee[t] # Nobody
                       THEN rewritten \cup {t} ELSE rewritten
  /\ unjudged' = [unjudged EXCEPT ![t] = status[t] = "refining"]
  /\ UNCHANGED <<status, assignee, reviewer, iteration, merging, began,
                 ownerVars, triaged, fails, sentBack, blockedFrom, raised,
                 evidence, ran, reviewed, accepted, refused, runVars>>

\* `record_criterion`, as the assignee or as the reviewer.
RecordCriterion(t) ==
  /\ InSession(t)
  /\ session[t].purpose # "triage"
  /\ \/ AsAssignee(t) /\ evidence' = [evidence EXCEPT ![t] = @ \cup {"results"}]
     \/ /\ AsReviewer(t)
        /\ ~VerifiedAlone(t)
        /\ \E failing \in SUBSET {"failure"} :
             evidence' = [evidence EXCEPT ![t] =
                            (@ \ {"failure"}) \cup {"answers"} \cup failing]
  /\ UNCHANGED <<boardVars, ownerVars, contractVars, unjudged, fails, sentBack,
                 blockedFrom, raised, ran, reviewed, accepted, refused, runVars>>

\* `write_note`.
WriteNote(t) ==
  /\ InSession(t)
  /\ session[t].purpose # "triage"
  /\ \E note \in {"completion", "review_note"} :
       /\ IF note = "completion" THEN AsAssignee(t) ELSE AsReviewer(t)
       /\ evidence' = [evidence EXCEPT ![t] = @ \cup {note}]
  /\ UNCHANGED <<boardVars, ownerVars, contractVars, unjudged, fails, sentBack,
                 blockedFrom, raised, ran, reviewed, accepted, refused, runVars>>

\* `assign_task`, from a session about task u.
AssignTask(u, t, as, rv) ==
  /\ InSession(u)
  /\ session[u].purpose # "triage"
  /\ RoleOf[Me(u)] \in {"product_manager", "scrum_master"}
  /\ Ask(t, RoleOf[Me(u)], Me(u), "assigned",
         [NoAsk EXCEPT !.as = as, !.rv = rv])

\* `actor_for`: the actors of the rows of a move that the caller is, the row's
\* place with each.
IsActor(t, actor) ==
  CASE actor = "assignee" -> assignee[t] = Me(t)
    [] actor = "reviewer" -> reviewer[t] = Me(t)
    [] actor \in {"product_manager", "scrum_master"} -> RoleOf[Me(t)] = actor
    [] OTHER -> FALSE

OwnRows(t, to) ==
  {i \in FindTransitions(status[t], to) : IsActor(t, TRANSITION_TABLE[i].actor)}

\* `request_transition`, and `declare_blocked`: as the first actor of the
\* move's rows that the caller is; when it is none, nothing is asked.
RequestTransition(t, to) ==
  /\ InSession(t)
  /\ session[t].purpose # "triage"
  /\ \E i \in OwnRows(t, to) :
       /\ \A j \in OwnRows(t, to) : i <= j
       /\ \E written \in BOOLEAN :
            Ask(t, TRANSITION_TABLE[i].actor, Me(t), to,
                [NoAsk EXCEPT !.blocker = written, !.resolution = written,
                              !.reasons = written])

-----------------------------------------------------------------------------
OwnerStep(t) ==
  \/ Triage(t) \/ AcceptResult(t) \/ SendResultBack(t) \/ StopSession(t)
  \/ \E to \in OwnerMoves : HumanTransition(t, to)
  \/ \E to \in OwnerMoves, tries \in 0..MaxExtra, more \in BOOLEAN :
       Resolve(t, to, tries, more)

\* The moves a tick makes, and rule 5's runs.
TickStep(t) ==
  \/ DraftRule(t) \/ Judge(t) \/ DependencyCancelled(t) \/ AssignedRule(t)
  \/ \E a \in Agents : ResumeElsewhere(t, a)
  \/ RejectedRule(t) \/ BlockedRule(t) \/ BudgetRule(t)
  \/ RunCriteria(t) \/ CriteriaRan(t) \/ Unrunnable(t) \/ DecideAlone(t)
  \/ FileRejection(t) \/ Merged(t) \/ SentBack(t)

StartStep(t) ==
  \/ StartTriage(t) \/ StartRefine(t) \/ StartPlan(t) \/ StartImplement(t)
  \/ StartReview(t) \/ StartAccept(t)

ToolStep(t) ==
  \/ TriageTool(t) \/ WriteContract(t) \/ RecordCriterion(t) \/ WriteNote(t)
  \/ \E u \in Tasks, as, rv \in Agents : AssignTask(u, t, as, rv)
  \/ \E to \in AsksFor : RequestTransition(t, to)

Next ==
  \/ \E t \in Tasks : \/ OwnerStep(t) \/ TickStep(t) \/ StartStep(t)
                      \/ ToolStep(t) \/ EndSession(t)
  \/ Crash

Spec == Init /\ [][Next]_vars

\* The turn is a fair lock, which passes from tick to tick, so a rule that comes
\* up again and again is run; a session ends (its turns and its time are
\* limited), and a block grows old.  What an
\* agent does in its session, and what the owner does, nobody promises.
Fairness ==
  \A t \in Tasks :
    /\ SF_vars(TickStep(t))
    /\ SF_vars(StartStep(t))
    /\ SF_vars(EndSession(t))

FairSpec == Spec /\ Fairness

-----------------------------------------------------------------------------
\* No two tasks that were assigned and are not over have the same private
\* folder (`check_assignment`, `private_folder_busy`): whoever holds one keeps it
\* through blocks, escalations and reviews until its task is over.  It is not
\* said of a task whose contract was written for another role since it was
\* assigned: `write_contract` asks nobody whether that role's folder is free, and
\* only the task's next assignment does.
FolderExclusive ==
  \A t, u \in Tasks \ rewritten :
    /\ assignee[t] # Nobody /\ assignee[u] # Nobody
    /\ ~IsTerminal(status[t]) /\ ~IsTerminal(status[u])
    /\ PrivateFolder(role[t]) # ""
    /\ PrivateFolder(role[t]) = PrivateFolder(role[u])
    => t = u

\* No agent reviews what it holds but a Product Manager its own documents: not
\* after an assignment, and not after a hand-over of a task whose wait cleared.
NoSelfReview ==
  \A t \in Tasks :
    /\ assignee[t] = reviewer[t]
    /\ assignee[t] # Nobody
    => RoleOf[assignee[t]] = "product_manager"

\* An agent works as many of the tasks it holds as its limit, or all of them when
\* they are fewer (`within_limit`): in whatever order tasks were returned, resumed
\* and handed over, no agent comes to work on more of them, and none is left with
\* tasks that all wait for one another.
WorksUpToItsLimit ==
  \A a \in Agents :
    Cardinality({t \in Counts(a) : FirstOfItsAgent(t)}) =
      IF Cardinality(Counts(a)) < Limit THEN Cardinality(Counts(a)) ELSE Limit

\* A task is returned to work at most as often as its contract and the owner
\* allow, whichever way it came back (rejected, escalated and resolved, sent
\* back by a merge).
TriesBounded ==
  \A t \in Tasks : iteration[t] <= MaxIterations + granted[t]

\* A task waits for its merge only while it is accepted and has a branch.
MergesWhatItAccepted ==
  \A t \in Tasks :
    merging[t] => status[t] = "accepted" /\ PrivateFolder(role[t]) = ""

\* What is over stays over: nothing leaves `cancelled`, and `accepted` is left
\* only for `assigned`, by a task whose branch still waits for its merge.
OverIsOver ==
  [][\A t \in Tasks :
       /\ status[t] = "cancelled" => status'[t] = "cancelled"
       /\ status[t] = "accepted" /\ status'[t] # "accepted" =>
            merging[t] /\ status'[t] = "assigned"]_vars

\* Work that an agent holds comes to an end or to the owner: a task assigned,
\* worked on, blocked, under review or sent back is at last accepted,
\* cancelled or escalated, whatever its agents do in their sessions and however
\* often `catervas` is killed; what bounds it is the task's sessions.
Working(t) ==
  /\ assignee[t] # Nobody
  /\ status[t] \in {"assigned", "in_progress", "blocked", "verifying", "rejected"}
WorkEnds == \A t \in Tasks : Working(t) ~> ~Working(t)

\* A ready task whose dependency was cancelled does not wait for it: it goes back
\* to the Product Manager, or elsewhere, also when its own plan session runs
\* while the dependency is cancelled.
CancelledDependencyIsReplanned ==
  \A t \in Tasks :
    /\ status[t] = "ready"
    /\ \E d \in Dependencies[t] : status[d] = "cancelled"
    ~> status[t] # "ready"

-----------------------------------------------------------------------------
\* What comments of the code say, and the code does not do.

\* "Nothing but a move changes what the governor would answer" (rules.rs,
\* `refused_since_entering`): what was refused since the last move would still
\* be refused.
RefusalStands ==
  \A t \in Tasks :
    "escalated" \in refused[t]
      => ~MayMove(t, "governor", Nobody, "escalated", NoAsk)

=============================================================================
