------------------------------ MODULE Governor ------------------------------
(***************************************************************************)
(* The governor: who may move a task from one status to another, through   *)
(* which gate, and what the move records (crates/core/src/governor:        *)
(* transition_table.rs, transition.rs, task_status.rs).                    *)
(*                                                                         *)
(* It keeps no state.  A request is decided from the table and from a      *)
(* context `c`, a record with what each gate reads; where a gate asks a    *)
(* rule of its own (the Definition of Ready, the Definition of Done, the   *)
(* assignment) the context carries that rule's answer, which               *)
(* TaskLifecycle works out from its state.                                 *)
(***************************************************************************)
EXTENDS Naturals, Sequences

Statuses ==
  {"draft", "refining", "ready", "assigned", "in_progress", "blocked",
   "verifying", "rejected", "accepted", "escalated", "cancelled"}

Actors ==
  {"product_manager", "scrum_master", "assignee", "reviewer", "governor",
   "human"}

IsTerminal(s) == s \in {"accepted", "cancelled"}

\* The statuses in which a task takes up one of its agent's places.
CountsTowardsWip(s) == s \in {"assigned", "in_progress", "rejected"}

-----------------------------------------------------------------------------
Row(from, to, actor, gate) ==
  [from |-> from, to |-> to, actor |-> actor, gate |-> gate]

\* The order matters: of several rows whose gates open the first is taken,
\* and the reason of an escalation is read from its gate.
TRANSITION_TABLE == <<
  Row("draft",       "refining",    "product_manager", "triaged"),
  Row("refining",    "ready",       "governor",        "definition_of_ready"),
  Row("refining",    "escalated",   "governor",        "readiness_exhausted"),
  Row("refining",    "escalated",   "governor",        "contract_requires_human"),
  Row("refining",    "blocked",     "product_manager", "blocker_written"),
  Row("ready",       "assigned",    "scrum_master",    "assignment"),
  Row("ready",       "assigned",    "product_manager", "assignment"),
  Row("assigned",    "in_progress", "assignee",        "none"),
  Row("in_progress", "verifying",   "assignee",        "criteria_recorded"),
  Row("in_progress", "blocked",     "assignee",        "blocker_written"),
  Row("assigned",    "blocked",     "assignee",        "blocker_written"),
  Row("blocked",     "in_progress", "scrum_master",    "blocker_resolved"),
  Row("blocked",     "in_progress", "human",           "blocker_resolved"),
  Row("blocked",     "verifying",   "scrum_master",    "blocker_resolved"),
  Row("blocked",     "verifying",   "human",           "blocker_resolved"),
  Row("blocked",     "refining",    "human",           "blocker_resolved"),
  Row("blocked",     "escalated",   "governor",        "blocked_age"),
  Row("verifying",   "accepted",    "product_manager", "definition_of_done"),
  Row("verifying",   "accepted",    "governor",        "definition_of_done"),
  Row("verifying",   "rejected",    "reviewer",        "rejection_reasons"),
  Row("verifying",   "rejected",    "governor",        "rejection_reasons"),
  Row("verifying",   "rejected",    "human",           "human_rejection"),
  Row("verifying",   "blocked",     "reviewer",        "blocker_written"),
  Row("rejected",    "in_progress", "governor",        "iteration_below_limit"),
  Row("rejected",    "escalated",   "governor",        "iteration_limit_reached"),
  Row("accepted",    "assigned",    "governor",        "pull_request_conflicted"),
  Row("ready",       "refining",    "governor",        "dependency_cancelled"),
  Row("ready",       "refining",    "human",           "none"),
  Row("any",         "escalated",   "governor",        "governor_escalation"),
  Row("any",         "escalated",   "human",           "none"),
  Row("any",         "cancelled",   "human",           "none"),
  Row("escalated",   "any",         "human",           "none"),
  Row("ready",       "refining",    "product_manager", "none"),
  Row("blocked",     "in_progress", "product_manager", "autopilot"),
  Row("blocked",     "verifying",   "product_manager", "autopilot"),
  Row("blocked",     "refining",    "product_manager", "autopilot"),
  Row("verifying",   "rejected",    "product_manager", "autopilot"),
  Row("any",         "escalated",   "product_manager", "autopilot"),
  Row("any",         "cancelled",   "product_manager", "autopilot"),
  Row("escalated",   "any",         "product_manager", "autopilot") >>

\* Three mistakes: each stands for the definition its name begins with in runs of
\* PROJECT.json's "mutants", and nowhere else.

\* An `any` row applies to every status.
LeavesAny(row, from) == row.from \in {from, "any"}

\* Every return to work counts an iteration, also one the owner resolved.
IncrementsIterationAlways(from, to) == to = "in_progress" /\ from # "assigned"

\* An escalation is raised with its gate in place of a reason.
EscalationReasonAsGate(gate, c) == gate

\* An `any` row never applies to a terminal status.
Leaves(row, from) ==
  \/ row.from = from
  \/ row.from = "any" /\ ~IsTerminal(from)

\* The rows of a move, as places in the table.
FindTransitions(from, to) ==
  {i \in 1..Len(TRANSITION_TABLE) :
     /\ from # to
     /\ Leaves(TRANSITION_TABLE[i], from)
     /\ TRANSITION_TABLE[i].to \in {to, "any"}}

-----------------------------------------------------------------------------
\* Where an answered block goes back to.
ReturnFromBlock(blockedFrom) ==
  IF blockedFrom \in {"verifying", "refining"} THEN blockedFrom
                                               ELSE "in_progress"

\* `governor_escalation_reason`: dollars or sessions spent, then a criterion
\* that Catervas could not run for the reviewer.
GovernorEscalationReason(c) ==
  CASE c.broke      -> "budget"
    [] c.spent      -> "sessions"
    [] c.unrunnable -> "explicit_request"
    [] OTHER        -> "none"

\* The governor accepts and rejects on its own only what no agent reviews.
GovernorMayVerify(gate, actor, c) ==
  actor = "governor" /\ gate \in {"definition_of_done", "rejection_reasons"}
    => c.alone

\* `check_gate`, for every gate but autopilot's.
CheckOwnGate(gate, actor, to, c) ==
  /\ GovernorMayVerify(gate, actor, c)
  /\ gate = "triaged" => c.triaged
  /\ gate = "definition_of_ready" => c.ready
  /\ gate = "readiness_exhausted" => ~c.ready /\ c.fails >= c.attempts
  /\ gate # "contract_requires_human"
  /\ gate = "assignment" => c.assignable
  /\ gate = "criteria_recorded" => c.recorded
  /\ gate = "blocker_written" => c.blocker
  /\ gate = "blocker_resolved" =>
       /\ c.resolution
       /\ to \in {"refining", ReturnFromBlock(c.blockedFrom)}
  /\ gate = "blocked_age" => c.aged
  /\ gate = "definition_of_done" => c.done
  /\ gate = "rejection_reasons" => c.reasons
  /\ gate = "iteration_below_limit" => c.iteration < c.limit
  /\ gate = "iteration_limit_reached" => c.iteration >= c.limit
  /\ gate = "governor_escalation" => GovernorEscalationReason(c) # "none"
  /\ gate = "human_rejection" => c.awaitsHuman /\ c.reviewPassed
  /\ gate = "pull_request_conflicted" => c.conflicted
  /\ gate = "dependency_cancelled" => c.dependencyCancelled

\* `check_autopilot`: the Product Manager takes a move of the owner's where
\* one of the owner's own rows of that move would open.
CheckAutopilot(to, c) ==
  /\ c.autopilot
  /\ c.status \in {"blocked", "escalated"}
  /\ \E i \in FindTransitions(c.status, to) :
       /\ TRANSITION_TABLE[i].actor = "human"
       /\ CheckOwnGate(TRANSITION_TABLE[i].gate, "human", to, c)

CheckGate(gate, actor, to, c) ==
  IF gate = "autopilot" THEN CheckAutopilot(to, c)
                        ELSE CheckOwnGate(gate, actor, to, c)

\* `evaluate_transition`: the rows of the move that are this actor's, that the
\* agent asking may take, and whose gate opens.  A request with none is
\* refused.
OpenRows(actor, to, c) ==
  {i \in FindTransitions(c.status, to) :
     /\ TRANSITION_TABLE[i].actor = actor
     /\ actor \in {"assignee", "reviewer"} => c.named
     /\ CheckGate(TRANSITION_TABLE[i].gate, actor, to, c)}

Opens(actor, to, c) == OpenRows(actor, to, c) # {}

\* The gate of the first row that opens.
GateTaken(actor, to, c) ==
  LET rows == OpenRows(actor, to, c)
      first == CHOOSE i \in rows : \A j \in rows : i <= j
  IN  TRANSITION_TABLE[first].gate

-----------------------------------------------------------------------------
\* `effects`: a return to work after a rejection counts an iteration.
IncrementsIteration(from, to) == from = "rejected" /\ to = "in_progress"

EscalationReasons ==
  {"readiness_failures", "blocker_age", "iterations", "budget", "sessions",
   "explicit_request"}

\* `escalation_reason`: what an escalation says it was raised for.
EscalationReason(gate, c) ==
  CASE gate = "readiness_exhausted"     -> "readiness_failures"
    [] gate = "blocked_age"             -> "blocker_age"
    [] gate = "iteration_limit_reached" -> "iterations"
    [] gate = "governor_escalation"     -> GovernorEscalationReason(c)
    [] OTHER                            -> "explicit_request"

=============================================================================
