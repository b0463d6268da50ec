------------------------ MODULE TaskLifecycleProofs ------------------------
(***************************************************************************)
(* What TaskLifecycle promises for every team, board, contract and limit.  *)
(*                                                                         *)
(* The argument goes through one lemma, StepShape: whatever the owner, the *)
(* tick, an agent or a crash does in a step, the board changes in one of   *)
(* five ways, and a move is one the governor's table allows.  The          *)
(* invariants are then proved over those five ways, not over the actions.  *)
(***************************************************************************)
EXTENDS TaskLifecycle, FiniteSetTheorems, TLAPS

\* What a request may bring.
Asks ==
  [as : Anybody, rv : Anybody, blocker : BOOLEAN, resolution : BOOLEAN,
   reasons : BOOLEAN, unrunnable : BOOLEAN, conflicted : BOOLEAN,
   aged : BOOLEAN, tries : Nat]

-----------------------------------------------------------------------------
\* The governor's table.

LEMMA TableLength == Len(TRANSITION_TABLE) = 40
  BY DEF TRANSITION_TABLE

\* The rows that leave `cancelled`, `accepted`, `ready` for `assigned` and
\* `rejected` for `in_progress`, and the ones for any status.
LEMMA TableRows ==
  \A i \in 1..40 :
    LET row == TRANSITION_TABLE[i]
    IN  /\ row.from # "cancelled"
        /\ row.from = "accepted" =>
             row.to = "assigned" /\ row.gate = "pull_request_conflicted"
        /\ row.from = "ready" /\ row.to \in {"assigned", "any"} =>
             row.gate = "assignment"
        /\ row.from = "rejected" /\ row.to \in {"in_progress", "any"} =>
             row.gate = "iteration_below_limit"
        /\ row.from = "any" => row.to \in {"escalated", "cancelled"}
  BY DEF TRANSITION_TABLE, Row

\* What the governor's consent means, for the moves the invariants turn on.
LEMMA OpensMeans ==
  ASSUME NEW actor, NEW to \in Statuses, NEW c,
         c.status \in Statuses, Opens(actor, to, c)
  PROVE  /\ to # c.status
         /\ c.status # "cancelled"
         /\ c.status = "accepted" => to = "assigned" /\ c.conflicted
         /\ c.status = "ready" /\ to = "assigned" => c.assignable
         /\ c.status = "rejected" /\ to = "in_progress" => c.iteration < c.limit
<1>1. PICK i \in 1..40 :
        /\ to # c.status
        /\ Leaves(TRANSITION_TABLE[i], c.status)
        /\ TRANSITION_TABLE[i].to \in {to, "any"}
        /\ CheckGate(TRANSITION_TABLE[i].gate, actor, to, c)
  BY TableLength DEF Opens, OpenRows, FindTransitions
<1> DEFINE row == TRANSITION_TABLE[i]
<1>2. /\ row.from # "cancelled"
      /\ row.from = "accepted" =>
           row.to = "assigned" /\ row.gate = "pull_request_conflicted"
      /\ row.from = "ready" /\ row.to \in {"assigned", "any"} =>
           row.gate = "assignment"
      /\ row.from = "rejected" /\ row.to \in {"in_progress", "any"} =>
           row.gate = "iteration_below_limit"
      /\ row.from = "any" => row.to \in {"escalated", "cancelled"}
  BY TableRows
<1>3. /\ to # c.status
      /\ row.from = c.status \/ (row.from = "any" /\ ~IsTerminal(c.status))
      /\ row.to \in {to, "any"}
      /\ CheckGate(row.gate, actor, to, c)
  BY <1>1 DEF Leaves
<1> HIDE DEF row
<1>4. /\ row.gate = "pull_request_conflicted" => c.conflicted
      /\ row.gate = "assignment" => c.assignable
      /\ row.gate = "iteration_below_limit" => c.iteration < c.limit
  BY <1>3 DEF CheckGate, CheckOwnGate
<1> QED
  BY <1>2, <1>3, <1>4 DEF IsTerminal

-----------------------------------------------------------------------------
\* Types.

LEMMA ReasonType ==
  ASSUME NEW gate, NEW c
  PROVE  EscalationReason(gate, c) \in EscalationReasons \cup {"none"}
  BY DEF EscalationReason, GovernorEscalationReason, EscalationReasons

LEMMA NoAskType == NoAsk \in Asks
  BY DEF NoAsk, Asks, Anybody

LEMMA BeganType ==
  ASSUME BoardTypeOK, NEW t \in Tasks, NEW counts
  PROVE  BeganAfter(t, counts) \in SUBSET (Tasks \X Tasks)
  BY DEF BeganAfter, BoardTypeOK

LEMMA MoveType ==
  ASSUME BoardTypeOK, HistoryTypeOK,
         NEW t \in Tasks, NEW actor, NEW to \in Statuses, NEW ask \in Asks, NEW c,
         c.status \in Statuses, c.fails \in Nat,
         Move(t, actor, to, ask, c)
  PROVE  BoardTypeOK' /\ HistoryTypeOK'
<1>1. BoardTypeOK'
  <2>1. status' \in [Tasks -> Statuses]
    BY DEF Move, BoardTypeOK
  <2>2. assignee' \in [Tasks -> Anybody] /\ reviewer' \in [Tasks -> Anybody]
    BY DEF Move, BoardTypeOK, Asks
  <2>3. iteration' \in [Tasks -> Nat]
    BY DEF Move, BoardTypeOK
  <2>4. merging' \in [Tasks -> BOOLEAN]
    BY DEF Move, BoardTypeOK, AwaitsMerge
  <2>5. began' \in SUBSET (Tasks \X Tasks)
    BY BeganType DEF Move, BoardTypeOK
  <2>6. rewritten' \subseteq Tasks
    BY DEF Move, BoardTypeOK
  <2> QED
    BY <2>1, <2>2, <2>3, <2>4, <2>5, <2>6 DEF BoardTypeOK
<1>2. HistoryTypeOK'
  <2>1. unjudged' \in [Tasks -> BOOLEAN] /\ fails' \in [Tasks -> Nat]
    BY DEF Move, HistoryTypeOK
  <2>2. sentBack' \in [Tasks -> {"no", "unheard", "moved_since"}]
    BY DEF Move, HistoryTypeOK
  <2>3. blockedFrom' \in [Tasks -> Statuses]
    BY DEF Move, HistoryTypeOK
  <2>4. raised' \in [Tasks -> EscalationReasons \cup {"none"}]
    BY ReasonType DEF Move, HistoryTypeOK
  <2>5. evidence' \in [Tasks -> SUBSET Evidence]
    BY DEF Move, HistoryTypeOK
  <2>6. ran' \in [Tasks -> Outcomes] /\ reviewed' \in [Tasks -> Outcomes]
    BY DEF Move, HistoryTypeOK, Outcomes
  <2>7. accepted' \in [Tasks -> BOOLEAN]
    BY DEF Move, HistoryTypeOK
  <2>8. refused' \in [Tasks -> SUBSET Refusals]
    BY DEF Move, HistoryTypeOK
  <2> QED
    BY <2>1, <2>2, <2>3, <2>4, <2>5, <2>6, <2>7, <2>8 DEF HistoryTypeOK
<1> QED
  BY <1>1, <1>2

LEMMA RefuseType ==
  ASSUME BoardTypeOK, HistoryTypeOK, NEW t \in Tasks, NEW actor, NEW to,
         Refuse(t, actor, to)
  PROVE  BoardTypeOK' /\ HistoryTypeOK'
<1>1. ReadBack(status[t]) \subseteq Refusals
  BY DEF ReadBack, Refusals
<1>2. refused' \in [Tasks -> SUBSET Refusals]
  BY <1>1 DEF Refuse, HistoryTypeOK
<1> QED
  BY <1>2 DEF Refuse, boardVars, BoardTypeOK, HistoryTypeOK

LEMMA RequestType ==
  ASSUME BoardTypeOK, HistoryTypeOK,
         NEW t \in Tasks, NEW actor, NEW agent, NEW to \in Statuses,
         NEW ask \in Asks, Request(t, actor, agent, to, ask)
  PROVE  BoardTypeOK' /\ HistoryTypeOK'
<1> DEFINE c == Context(t, actor, agent, ask)
<1>1. c.status \in Statuses /\ c.fails \in Nat
  BY DEF Context, BoardTypeOK, HistoryTypeOK
<1>2. CASE Move(t, actor, to, ask, c)
  <2> HIDE DEF c
  <2> QED BY <1>1, <1>2, MoveType
<1>3. CASE Refuse(t, actor, to)
  BY <1>3, RefuseType
<1> QED
  BY <1>2, <1>3 DEF Request

-----------------------------------------------------------------------------
\* The five ways a step changes the board.

Still ==
  /\ UNCHANGED <<status, assignee, reviewer, iteration, merging, began>>
  /\ UNCHANGED <<rewritten, granted, role>>

\* A contract not past refining is written anew.
Rewrites(t) ==
  /\ status[t] \in {"draft", "refining"}
  /\ \E r \in {role[t]} \cup Rewritten :
       /\ role' = [role EXCEPT ![t] = r]
       /\ rewritten' = IF r # role[t] /\ assignee[t] # Nobody
                       THEN rewritten \cup {t} ELSE rewritten
  /\ UNCHANGED <<status, assignee, reviewer, iteration, merging, began, granted>>

Merges(t) ==
  /\ merging' = [merging EXCEPT ![t] = FALSE]
  /\ UNCHANGED <<status, assignee, reviewer, iteration, began>>
  /\ UNCHANGED <<rewritten, granted, role>>

HandsOver(t, a) ==
  /\ CheckReassignment(t, a)
  /\ assignee' = [assignee EXCEPT ![t] = a]
  /\ began' = BeganAfter(t, TRUE)
  /\ UNCHANGED <<status, reviewer, iteration, merging, rewritten, granted, role>>

Assigns(t, as, rv) ==
  /\ CheckAssignment(t, AssignerRole, as, rv)
  /\ assignee' = [assignee EXCEPT ![t] = as]
  /\ reviewer' = [reviewer EXCEPT ![t] = rv]
  /\ rewritten' = rewritten \ {t}

CountsTry(t) ==
  \/ UNCHANGED <<iteration, granted>>
  \/ /\ iteration[t] < MaxIterations + granted[t]
     /\ iteration' = [iteration EXCEPT ![t] = @ + 1]
     /\ granted' = granted
  \/ \E tries \in Nat \ {0} :
       /\ iteration' = [iteration EXCEPT ![t] = @ + 1]
       /\ granted' = [granted EXCEPT ![t] = @ + tries]

\* A move, with what the governor's table makes of it.
Moves(t, to) ==
  /\ to # status[t]
  /\ status[t] # "cancelled"
  /\ status[t] = "accepted" => to = "assigned" /\ merging[t]
  /\ status' = [status EXCEPT ![t] = to]
  /\ merging' = [merging EXCEPT ![t] = AwaitsMerge(t, to)]
  /\ began' = IF CountsTowardsWip(to) /\ CountsTowardsWip(status[t])
              THEN began
              ELSE BeganAfter(t, CountsTowardsWip(to))
  /\ role' = role
  /\ IF status[t] = "ready" /\ to = "assigned"
     THEN \E as, rv \in Agents : Assigns(t, as, rv)
     ELSE UNCHANGED <<assignee, reviewer, rewritten>>
  /\ CountsTry(t)

Shape ==
  \/ Still
  \/ \E t \in Tasks : Rewrites(t)
  \/ \E t \in Tasks : Merges(t)
  \/ \E t \in Tasks, a \in Agents : HandsOver(t, a)
  \/ \E t \in Tasks, to \in Statuses : Moves(t, to)

LEMMA MoveShape ==
  ASSUME TypeOK,
         NEW t \in Tasks, NEW actor, NEW to \in Statuses, NEW ask \in Asks, NEW c,
         c.status = status[t],
         c.iteration = iteration[t],
         c.limit = MaxIterations + granted[t],
         c.conflicted = ask.conflicted,
         c.assignable => /\ ask.as # Nobody /\ ask.rv # Nobody
                         /\ CheckAssignment(t, actor, ask.as, ask.rv),
         Opens(actor, to, c),
         Move(t, actor, to, ask, c),
         role' = role,
         ask.conflicted => merging[t],
         \/ ask.tries = 0 /\ granted' = granted
         \/ /\ ask.tries \in Nat \ {0}
            /\ granted' = [granted EXCEPT ![t] = @ + ask.tries]
  PROVE  Moves(t, to)
<1>1. c.status \in Statuses
  BY DEF TypeOK, BoardTypeOK
<1>2. /\ to # status[t]
      /\ status[t] # "cancelled"
      /\ status[t] = "accepted" => to = "assigned" /\ merging[t]
      /\ status[t] = "ready" /\ to = "assigned" => c.assignable
      /\ status[t] = "rejected" /\ to = "in_progress" =>
           iteration[t] < MaxIterations + granted[t]
  BY <1>1, OpensMeans
<1>3. IF status[t] = "ready" /\ to = "assigned"
      THEN \E as, rv \in Agents : Assigns(t, as, rv)
      ELSE UNCHANGED <<assignee, reviewer, rewritten>>
  <2>1. CASE status[t] = "ready" /\ to = "assigned"
    <3>1. /\ ask.as \in Agents /\ ask.rv \in Agents
          /\ CheckAssignment(t, actor, ask.as, ask.rv)
      BY <1>2, <2>1 DEF Asks, Anybody
    <3>2. CheckAssignment(t, AssignerRole, ask.as, ask.rv)
      BY <3>1 DEF CheckAssignment
    <3>3. Assigns(t, ask.as, ask.rv)
      BY <2>1, <3>2 DEF Assigns, Move
    <3> QED
      BY <2>1, <3>1, <3>3
  <2>2. CASE ~(status[t] = "ready" /\ to = "assigned")
    BY <2>2 DEF Move
  <2> QED
    BY <2>1, <2>2
<1>4. CountsTry(t)
  <2>1. iteration' = [iteration EXCEPT ![t] =
                        IF (status[t] = "rejected" /\ to = "in_progress")
                           \/ ask.tries > 0
                        THEN @ + 1 ELSE @]
    BY DEF Move, IncrementsIteration
  <2>2. CASE ask.tries = 0 /\ granted' = granted
    <3>1. CASE status[t] = "rejected" /\ to = "in_progress"
      BY <1>2, <2>1, <2>2, <3>1 DEF CountsTry
    <3>2. CASE ~(status[t] = "rejected" /\ to = "in_progress")
      <4>1. iteration' = iteration
        BY <2>1, <2>2, <3>2 DEF TypeOK, BoardTypeOK
      <4> QED
        BY <2>2, <4>1 DEF CountsTry
    <3> QED
      BY <3>1, <3>2
  <2>3. CASE /\ ask.tries \in Nat \ {0}
             /\ granted' = [granted EXCEPT ![t] = @ + ask.tries]
    <3>0. ask.tries > 0
      BY <2>3
    <3>1. iteration' = [iteration EXCEPT ![t] = @ + 1]
      BY <2>1, <3>0
    <3>2. \E tries \in Nat \ {0} :
            /\ iteration' = [iteration EXCEPT ![t] = @ + 1]
            /\ granted' = [granted EXCEPT ![t] = @ + tries]
      BY <2>3, <3>1
    <3> QED
      BY <3>2, Zenon DEF CountsTry
  <2> QED
    BY <2>2, <2>3
<1> QED
  BY <1>2, <1>3, <1>4 DEF Moves, Move

LEMMA RequestShape ==
  ASSUME TypeOK,
         NEW t \in Tasks, NEW actor, NEW agent, NEW to \in Statuses,
         NEW ask \in Asks, ask.tries = 0, ask.conflicted => merging[t],
         Request(t, actor, agent, to, ask),
         UNCHANGED <<granted, role>>
  PROVE  BoardTypeOK' /\ HistoryTypeOK' /\ Shape
<1> DEFINE c == Context(t, actor, agent, ask)
<1>1. BoardTypeOK' /\ HistoryTypeOK'
  BY RequestType DEF TypeOK
<1>2. /\ c.status = status[t]
      /\ c.iteration = iteration[t]
      /\ c.limit = MaxIterations + granted[t]
      /\ c.conflicted = ask.conflicted
      /\ c.assignable => /\ ask.as # Nobody /\ ask.rv # Nobody
                         /\ CheckAssignment(t, actor, ask.as, ask.rv)
  BY DEF Context
<1>3. CASE MayMove(t, actor, agent, to, ask)
  <2>1. Opens(actor, to, c) /\ Move(t, actor, to, ask, c)
    BY <1>3 DEF MayMove, Request
  <2> HIDE DEF c
  <2>2. Moves(t, to)
    BY <1>2, <2>1, MoveShape
  <2> QED
    BY <1>1, <2>2 DEF Shape
<1>4. CASE ~MayMove(t, actor, agent, to, ask)
  <2>1. Still
    BY <1>4 DEF Request, Refuse, Still, boardVars
  <2> QED
    BY <1>1, <2>1 DEF Shape
<1> QED
  BY <1>3, <1>4

LEMMA AskShape ==
  ASSUME TypeOK,
         NEW t \in Tasks, NEW actor, NEW agent, NEW to \in Statuses,
         NEW ask \in Asks, ask.tries = 0, ask.conflicted => merging[t],
         Ask(t, actor, agent, to, ask)
  PROVE  TypeOK' /\ Shape
<1>1. Request(t, actor, agent, to, ask) /\ UNCHANGED <<granted, role>>
  BY DEF Ask, ownerVars, contractVars
<1>2. BoardTypeOK' /\ HistoryTypeOK' /\ Shape
  BY <1>1, RequestShape
<1>3. OwnerTypeOK' /\ ContractTypeOK' /\ RunTypeOK'
  BY DEF Ask, TypeOK, OwnerTypeOK, ContractTypeOK, RunTypeOK, ownerVars,
         contractVars, runVars
<1> QED
  BY <1>2, <1>3 DEF TypeOK

-----------------------------------------------------------------------------
\* Every action changes the board in one of the five ways.

\* A request that brings neither an assignment, a conflict nor a try.
Plain(ask) == ask \in Asks /\ ask.tries = 0 /\ ~ask.conflicted

LEMMA PlainAsks ==
  /\ Plain(NoAsk)
  /\ Plain([NoAsk EXCEPT !.reasons = TRUE])
  /\ Plain([NoAsk EXCEPT !.aged = TRUE])
  /\ Plain([NoAsk EXCEPT !.unrunnable = TRUE])
  /\ \A x \in BOOLEAN : Plain([NoAsk EXCEPT !.resolution = x])
  /\ \A x \in BOOLEAN :
       Plain([NoAsk EXCEPT !.blocker = x, !.resolution = x, !.reasons = x])
  BY DEF Plain, NoAsk, Asks, Anybody

LEMMA PlainAsk ==
  ASSUME TypeOK, NEW t \in Tasks, NEW actor, NEW agent, NEW to \in Statuses,
         NEW ask, Plain(ask), Ask(t, actor, agent, to, ask)
  PROVE  TypeOK' /\ Shape
  BY AskShape DEF Plain

\* A step that leaves the board and the contracts alone.
LEMMA QuietStep ==
  ASSUME TypeOK, UNCHANGED <<boardVars, ownerVars, contractVars>>,
         HistoryTypeOK', RunTypeOK'
  PROVE  TypeOK' /\ Shape
<1>1. BoardTypeOK' /\ OwnerTypeOK' /\ ContractTypeOK'
  BY DEF TypeOK, BoardTypeOK, OwnerTypeOK, ContractTypeOK, boardVars, ownerVars,
         contractVars
<1>2. Still
  BY DEF Still, boardVars, ownerVars, contractVars
<1> QED
  BY <1>1, <1>2 DEF TypeOK, Shape

LEMMA ResolveShape ==
  ASSUME TypeOK, NEW t \in Tasks, NEW to \in Statuses, NEW tries \in Nat,
         NEW more \in BOOLEAN, Resolve(t, to, tries, more)
  PROVE  TypeOK' /\ Shape
<1> DEFINE ask == [NoAsk EXCEPT !.resolution = status[t] = "blocked",
                                !.tries = tries]
           c == Context(t, "human", Nobody, ask)
<1>1. ask \in Asks /\ ask.tries = tries /\ ~ask.conflicted
  BY DEF NoAsk, Asks, Anybody
<1>2. Request(t, "human", Nobody, to, ask)
  BY DEF Resolve
<1>3. BoardTypeOK' /\ HistoryTypeOK'
  <2> HIDE DEF ask
  <2> QED BY <1>1, <1>2, RequestType DEF TypeOK
<1>4. granted' = [granted EXCEPT ![t] =
                    IF MayMove(t, "human", Nobody, to, ask) THEN @ + tries ELSE @]
  BY DEF Resolve
<1>5. OwnerTypeOK' /\ ContractTypeOK' /\ RunTypeOK'
  <2>1. OwnerTypeOK'
    <3>1. granted' \in [Tasks -> Nat]
      <4> HIDE DEF ask
      <4> QED BY <1>4 DEF TypeOK, OwnerTypeOK
    <3>2. room' \in [Tasks -> Nat]
      BY DEF Resolve, TypeOK, OwnerTypeOK
    <3> QED
      BY <3>1, <3>2 DEF OwnerTypeOK
  <2>2. ContractTypeOK'
    BY DEF Resolve, TypeOK, ContractTypeOK, contractVars
  <2>3. RunTypeOK'
    BY DEF Resolve, TypeOK, RunTypeOK
  <2> QED
    BY <2>1, <2>2, <2>3
<1>6. role' = role
  BY DEF Resolve, contractVars
<1>7. Shape
  <2>1. CASE MayMove(t, "human", Nobody, to, ask)
    <3>1. /\ c.status = status[t]
          /\ c.iteration = iteration[t]
          /\ c.limit = MaxIterations + granted[t]
          /\ c.conflicted = ask.conflicted
          /\ c.assignable => /\ ask.as # Nobody /\ ask.rv # Nobody
                             /\ CheckAssignment(t, "human", ask.as, ask.rv)
      BY DEF Context
    <3>2. Opens("human", to, c) /\ Move(t, "human", to, ask, c)
      BY <1>2, <2>1 DEF MayMove, Request
    <3>3. granted' = [granted EXCEPT ![t] = @ + tries]
      BY <1>4, <2>1
    <3> HIDE DEF ask, c
    <3>4. \/ ask.tries = 0 /\ granted' = granted
          \/ /\ ask.tries \in Nat \ {0}
             /\ granted' = [granted EXCEPT ![t] = @ + ask.tries]
      BY <1>1, <3>3 DEF TypeOK, OwnerTypeOK
    <3>5. Moves(t, to)
      BY <1>1, <1>6, <3>1, <3>2, <3>4, MoveShape
    <3> QED
      BY <3>5 DEF Shape
  <2>2. CASE ~MayMove(t, "human", Nobody, to, ask)
    <3>1. granted' = granted
      <4> HIDE DEF ask
      <4> QED BY <1>4, <2>2 DEF TypeOK, OwnerTypeOK
    <3>2. Still
      <4> HIDE DEF ask
      <4> QED BY <1>2, <1>6, <2>2, <3>1 DEF Request, Refuse, Still, boardVars
    <3> QED
      BY <3>2 DEF Shape
  <2> QED
    BY <2>1, <2>2
<1> QED
  BY <1>3, <1>5, <1>7 DEF TypeOK

LEMMA OwnerShape ==
  ASSUME TypeOK, NEW t \in Tasks, OwnerStep(t)
  PROVE  TypeOK' /\ Shape
<1>1. CASE Triage(t)
  <2>1. TypeOK'
    BY <1>1 DEF Triage, TypeOK, BoardTypeOK, OwnerTypeOK, ContractTypeOK,
       HistoryTypeOK, RunTypeOK, boardVars, ownerVars, historyVars, runVars
  <2>2. Still
    BY <1>1 DEF Triage, Still, boardVars, ownerVars
  <2> QED
    BY <2>1, <2>2 DEF Shape
<1>2. CASE AcceptResult(t)
  <2>1. HistoryTypeOK' /\ RunTypeOK'
    BY <1>2 DEF AcceptResult, TypeOK, HistoryTypeOK, RunTypeOK, runVars
  <2> QED
    BY <1>2, <2>1, QuietStep DEF AcceptResult
<1>3. CASE SendResultBack(t)
  BY <1>3, PlainAsks, PlainAsk DEF SendResultBack, Statuses
<1>4. CASE StopSession(t)
  BY <1>4, PlainAsks, PlainAsk DEF StopSession, Statuses
<1>5. ASSUME NEW to \in OwnerMoves, HumanTransition(t, to)
      PROVE  TypeOK' /\ Shape
  <2>1. to \in Statuses
    BY MovesAssumption
  <2>2. Ask(t, "human", Nobody, to,
            [NoAsk EXCEPT !.resolution = status[t] = "blocked"])
    BY <1>5 DEF HumanTransition
  <2>3. Plain([NoAsk EXCEPT !.resolution = status[t] = "blocked"])
    BY PlainAsks
  <2> QED
    BY <2>1, <2>2, <2>3, PlainAsk
<1>6. ASSUME NEW to \in OwnerMoves, NEW tries \in 0..MaxExtra,
             NEW more \in BOOLEAN, Resolve(t, to, tries, more)
      PROVE  TypeOK' /\ Shape
  <2>1. to \in Statuses /\ tries \in Nat
    BY MovesAssumption, LimitsAssumption
  <2> QED
    BY <1>6, <2>1, ResolveShape
<1> QED
  BY <1>1, <1>2, <1>3, <1>4, <1>5, <1>6 DEF OwnerStep

\* One governor's request or another, both plain.
LEMMA GovernorShape ==
  ASSUME TypeOK, NEW t \in Tasks, NEW to \in Statuses, NEW second \in Statuses,
         NEW ask, NEW secondAsk, Plain(ask), Plain(secondAsk),
         GovernorAsks(t, to, ask, second, secondAsk),
         UNCHANGED <<ownerVars, contractVars>>, RunTypeOK'
  PROVE  TypeOK' /\ Shape
<1>1. UNCHANGED <<granted, role>> /\ OwnerTypeOK' /\ ContractTypeOK'
  BY DEF TypeOK, OwnerTypeOK, ContractTypeOK, ownerVars, contractVars
<1>2. \/ Request(t, "governor", Nobody, to, ask)
      \/ Request(t, "governor", Nobody, second, secondAsk)
  BY DEF GovernorAsks
<1>3. BoardTypeOK' /\ HistoryTypeOK' /\ Shape
  BY <1>1, <1>2, RequestShape DEF Plain
<1> QED
  BY <1>1, <1>3 DEF TypeOK

LEMMA JudgeShape ==
  ASSUME TypeOK, NEW t \in Tasks, Judge(t)
  PROVE  TypeOK' /\ Shape
<1> DEFINE c == Context(t, "governor", Nobody, NoAsk)
           notReady == [c EXCEPT !.fails = @ + 1]
<1>1. /\ OwnerTypeOK' /\ ContractTypeOK' /\ RunTypeOK'
      /\ UNCHANGED <<granted, role>>
  BY DEF Judge, TypeOK, OwnerTypeOK, ContractTypeOK, RunTypeOK, ownerVars,
         contractVars, runVars
<1>2. NoAsk \in Asks /\ NoAsk.tries = 0 /\ ~NoAsk.conflicted
  BY PlainAsks DEF Plain
<1> DEFINE Read(k) ==
             /\ k.status = status[t]
             /\ k.fails \in Nat
             /\ k.iteration = iteration[t]
             /\ k.limit = MaxIterations + granted[t]
             /\ k.conflicted = NoAsk.conflicted
             /\ k.assignable =>
                  /\ NoAsk.as # Nobody /\ NoAsk.rv # Nobody
                  /\ CheckAssignment(t, "governor", NoAsk.as, NoAsk.rv)
<1>3. Read(c) /\ Read(notReady)
  <2>1. fails[t] \in Nat
    BY DEF TypeOK, HistoryTypeOK
  <2>2. Read(c)
    BY <2>1 DEF Context
  <2>3. /\ notReady.status = c.status
        /\ notReady.fails = c.fails + 1
        /\ notReady.iteration = c.iteration
        /\ notReady.limit = c.limit
        /\ notReady.conflicted = c.conflicted
        /\ notReady.assignable = c.assignable
    BY DEF Context
  <2> HIDE DEF c, notReady
  <2> QED
    BY <2>2, <2>3
<1>4. ASSUME NEW to \in Statuses, NEW k \in {c, notReady},
             Opens("governor", to, k), Move(t, "governor", to, NoAsk, k)
      PROVE  TypeOK' /\ Shape
  <2>0. Read(k)
    <3> HIDE DEF c, notReady, Read
    <3> QED BY <1>3
  <2>1. k.status \in Statuses
    BY <2>0 DEF TypeOK, BoardTypeOK
  <2> HIDE DEF c, notReady
  <2>2. BoardTypeOK' /\ HistoryTypeOK'
    BY <1>2, <1>4, <2>0, <2>1, MoveType DEF TypeOK
  <2>3. Moves(t, to)
    BY <1>1, <1>2, <1>4, <2>0, MoveShape
  <2> QED
    BY <1>1, <2>2, <2>3 DEF TypeOK, Shape
<1>5. CASE Opens("governor", "ready", c) /\ Move(t, "governor", "ready", NoAsk, c)
  <2> "ready" \in Statuses
    BY DEF Statuses
  <2> QED
    BY <1>4, <1>5
<1>6. CASE /\ Opens("governor", "escalated", notReady)
           /\ Move(t, "governor", "escalated", NoAsk, notReady)
  <2> "escalated" \in Statuses
    BY DEF Statuses
  <2> QED
    BY <1>4, <1>6
<1>7. CASE /\ unjudged' = [unjudged EXCEPT ![t] = FALSE]
           /\ fails' = [fails EXCEPT ![t] = @ + 1]
           /\ refused' = [refused EXCEPT ![t] = @ \cup {"escalated"}]
           /\ UNCHANGED <<boardVars, sentBack, blockedFrom, raised, evidence,
                          ran, reviewed, accepted>>
  <2>1. HistoryTypeOK'
    BY <1>7 DEF TypeOK, HistoryTypeOK, Refusals
  <2>2. UNCHANGED <<boardVars, ownerVars, contractVars>>
    BY <1>7 DEF Judge
  <2> QED
    BY <1>1, <2>1, <2>2, QuietStep
<1> QED
  BY <1>5, <1>6, <1>7 DEF Judge

LEMMA VerifyShape ==
  ASSUME TypeOK, NEW t \in Tasks,
         RunCriteria(t) \/ CriteriaRan(t) \/ Unrunnable(t) \/ DecideAlone(t)
  PROVE  TypeOK' /\ Shape
<1>1. CASE RunCriteria(t)
  <2>1. HistoryTypeOK' /\ RunTypeOK'
    BY <1>1 DEF RunCriteria, TypeOK, HistoryTypeOK, RunTypeOK, historyVars
  <2> QED
    BY <1>1, <2>1, QuietStep DEF RunCriteria
<1>2. CASE CriteriaRan(t)
  <2>1. ran' \in [Tasks -> Outcomes] /\ evidence' \in [Tasks -> SUBSET Evidence]
    BY <1>2 DEF CriteriaRan, TypeOK, HistoryTypeOK, Outcomes, Evidence
  <2>2. HistoryTypeOK'
    BY <1>2, <2>1 DEF CriteriaRan, TypeOK, HistoryTypeOK
  <2>3. RunTypeOK'
    BY <1>2 DEF CriteriaRan, TypeOK, RunTypeOK
  <2> QED
    BY <1>2, <2>2, <2>3, QuietStep DEF CriteriaRan
<1>3. CASE Unrunnable(t)
  <2>1. RunTypeOK'
    BY <1>3 DEF Unrunnable, TypeOK, RunTypeOK
  <2>2. /\ UNCHANGED <<granted, role>> /\ OwnerTypeOK' /\ ContractTypeOK'
        /\ Request(t, "governor", Nobody, "escalated",
                   [NoAsk EXCEPT !.unrunnable = TRUE])
    BY <1>3 DEF Unrunnable, TypeOK, OwnerTypeOK, ContractTypeOK, ownerVars,
                contractVars
  <2>3. BoardTypeOK' /\ HistoryTypeOK' /\ Shape
    BY <2>2, PlainAsks, RequestShape DEF Plain, Statuses
  <2> QED
    BY <2>1, <2>2, <2>3 DEF TypeOK
<1>4. CASE DecideAlone(t)
  <2>1. RunTypeOK' /\ UNCHANGED <<ownerVars, contractVars>>
    BY <1>4 DEF DecideAlone, TypeOK, RunTypeOK
  <2>2. CASE ran[t] = "none"
    <3>1. HistoryTypeOK' /\ UNCHANGED boardVars
      BY <1>4, <2>2 DEF DecideAlone, TypeOK, HistoryTypeOK, historyVars
    <3> QED
      BY <2>1, <3>1, QuietStep
  <2>3. CASE ran[t] # "none"
    <3> DEFINE to == IF ran[t] = "failed" THEN "rejected" ELSE "accepted"
    <3>1. to \in Statuses /\ "escalated" \in Statuses
      BY DEF Statuses
    <3>2. GovernorAsks(t, to, [NoAsk EXCEPT !.reasons = TRUE],
                       "escalated", [NoAsk EXCEPT !.unrunnable = TRUE])
      BY <1>4, <2>3 DEF DecideAlone
    <3> HIDE DEF to
    <3> QED
      BY <2>1, <3>1, <3>2, PlainAsks, GovernorShape
  <2> QED
    BY <2>2, <2>3
<1> QED
  BY <1>1, <1>2, <1>3, <1>4

LEMMA TickShape ==
  ASSUME TypeOK, NEW t \in Tasks, TickStep(t)
  PROVE  TypeOK' /\ Shape
<1>1. CASE DraftRule(t)
  BY <1>1, PlainAsks, PlainAsk DEF DraftRule, Statuses
<1>2. CASE Judge(t)
  BY <1>2, JudgeShape
<1>3. CASE DependencyCancelled(t)
  BY <1>3, PlainAsks, PlainAsk DEF DependencyCancelled, Statuses
<1>4. CASE AssignedRule(t)
  BY <1>4, PlainAsks, PlainAsk DEF AssignedRule, Statuses
<1>5. ASSUME NEW a \in Agents, ResumeElsewhere(t, a)
      PROVE  TypeOK' /\ Shape
  <2>1. /\ CheckReassignment(t, a)
        /\ assignee' = [assignee EXCEPT ![t] = a]
        /\ began' = BeganAfter(t, TRUE)
        /\ UNCHANGED <<status, reviewer, iteration, merging, rewritten>>
        /\ UNCHANGED <<granted, room, role, triaged, sound>>
        /\ UNCHANGED <<historyVars, runVars>>
    BY <1>5 DEF ResumeElsewhere, ownerVars, contractVars
  <2>2. BoardTypeOK'
    BY <2>1, BeganType DEF TypeOK, BoardTypeOK, Anybody
  <2>3. OwnerTypeOK' /\ ContractTypeOK' /\ HistoryTypeOK' /\ RunTypeOK'
    BY <2>1 DEF TypeOK, OwnerTypeOK, ContractTypeOK, HistoryTypeOK, RunTypeOK,
                historyVars, runVars
  <2>4. HandsOver(t, a)
    BY <2>1 DEF HandsOver
  <2> QED
    BY <2>2, <2>3, <2>4 DEF TypeOK, Shape
<1>6. CASE RejectedRule(t)
  <2>1. RunTypeOK' /\ UNCHANGED <<ownerVars, contractVars>>
    BY <1>6 DEF RejectedRule, TypeOK, RunTypeOK, runVars
  <2>2. GovernorAsks(t, "in_progress", NoAsk, "escalated", NoAsk)
    BY <1>6 DEF RejectedRule
  <2> QED
    BY <2>1, <2>2, PlainAsks, GovernorShape DEF Statuses
<1>7. CASE BlockedRule(t)
  BY <1>7, PlainAsks, PlainAsk DEF BlockedRule, Statuses
<1>8. CASE BudgetRule(t)
  BY <1>8, PlainAsks, PlainAsk DEF BudgetRule, Statuses
<1>9. CASE RunCriteria(t) \/ CriteriaRan(t) \/ Unrunnable(t) \/ DecideAlone(t)
  BY <1>9, VerifyShape
<1>10. CASE FileRejection(t)
  BY <1>10, PlainAsks, PlainAsk DEF FileRejection, Statuses
<1>11. CASE Merged(t)
  <2>1. TypeOK'
    BY <1>11 DEF Merged, TypeOK, BoardTypeOK, OwnerTypeOK, ContractTypeOK,
       HistoryTypeOK, RunTypeOK, ownerVars, contractVars, historyVars, runVars
  <2>2. Merges(t)
    BY <1>11 DEF Merged, Merges, ownerVars, contractVars
  <2> QED
    BY <2>1, <2>2 DEF Shape
<1>12. CASE SentBack(t)
  <2> DEFINE ask == [NoAsk EXCEPT !.conflicted = TRUE]
  <2>1. ask \in Asks /\ ask.tries = 0
    BY DEF NoAsk, Asks, Anybody
  <2>2. merging[t] /\ Ask(t, "governor", Nobody, "assigned", ask)
    BY <1>12 DEF SentBack
  <2> HIDE DEF ask
  <2> QED
    BY <2>1, <2>2, AskShape DEF Statuses
<1> QED
  BY <1>1, <1>2, <1>3, <1>4, <1>5, <1>6, <1>7, <1>8, <1>9, <1>10, <1>11, <1>12
     DEF TickStep

LEMMA StartShape ==
  ASSUME TypeOK, NEW t \in Tasks, NEW a \in Agents, NEW purpose \in Purposes,
         Start(t, a, purpose)
  PROVE  TypeOK' /\ Shape
<1>1. UNCHANGED <<boardVars, ownerVars, contractVars>>
  BY DEF Start
<1>2. HistoryTypeOK'
  BY DEF Start, TypeOK, HistoryTypeOK
<1>3. RunTypeOK'
  <2>1. session' \in [Tasks -> Sessions]
    BY DEF Start, TypeOK, RunTypeOK, Sessions
  <2>2. sessions' \in [Tasks -> Nat]
    BY DEF Start, TypeOK, RunTypeOK
  <2> QED
    BY <2>1, <2>2 DEF Start, TypeOK, RunTypeOK
<1> QED
  BY <1>1, <1>2, <1>3, QuietStep

LEMMA StartStepShape ==
  ASSUME TypeOK, NEW t \in Tasks, StartStep(t)
  PROVE  TypeOK' /\ Shape
<1>1. \E a \in Agents, purpose \in Purposes : Start(t, a, purpose)
  <2>1. CASE StartTriage(t)
    BY <2>1 DEF StartTriage, Holds, Purposes
  <2>2. CASE StartRefine(t)
    BY <2>2 DEF StartRefine, Holds, Purposes
  <2>3. CASE StartPlan(t)
    BY <2>3 DEF StartPlan, Holds, Purposes
  <2>4. CASE StartImplement(t)
    BY <2>4 DEF StartImplement, Purposes, TypeOK, BoardTypeOK, Anybody
  <2>5. CASE StartReview(t)
    BY <2>5 DEF StartReview, Purposes, TypeOK, BoardTypeOK, Anybody
  <2>6. CASE StartAccept(t)
    BY <2>6 DEF StartAccept, Holds, Purposes
  <2> QED
    BY <2>1, <2>2, <2>3, <2>4, <2>5, <2>6 DEF StartStep
<1> QED
  BY <1>1, StartShape

LEMMA WriteContractShape ==
  ASSUME TypeOK, NEW t \in Tasks, WriteContract(t)
  PROVE  TypeOK' /\ Shape
<1>1. PICK r \in {role[t]} \cup Rewritten :
        /\ role' = [role EXCEPT ![t] = r]
        /\ rewritten' = IF r # role[t] /\ assignee[t] # Nobody
                        THEN rewritten \cup {t} ELSE rewritten
  BY DEF WriteContract
<1>2. BoardTypeOK' /\ OwnerTypeOK' /\ RunTypeOK'
  BY DEF WriteContract, TypeOK, BoardTypeOK, OwnerTypeOK, RunTypeOK, boardVars,
         ownerVars, runVars
<1>3. ContractTypeOK'
  <2>1. r \in STRING
    BY RolesAssumption DEF TypeOK, ContractTypeOK
  <2> QED
    BY <1>1, <2>1 DEF WriteContract, TypeOK, ContractTypeOK
<1>4. HistoryTypeOK'
  BY DEF WriteContract, TypeOK, HistoryTypeOK
<1>5. Rewrites(t)
  BY <1>1 DEF WriteContract, Rewrites, boardVars, ownerVars
<1> QED
  BY <1>2, <1>3, <1>4, <1>5 DEF TypeOK, Shape

LEMMA ToolShape ==
  ASSUME TypeOK, NEW t \in Tasks, ToolStep(t)
  PROVE  TypeOK' /\ Shape
<1>1. CASE TriageTool(t)
  <2>1. TypeOK'
    BY <1>1 DEF TriageTool, TypeOK, BoardTypeOK, OwnerTypeOK, ContractTypeOK,
       HistoryTypeOK, RunTypeOK, boardVars, ownerVars, historyVars, runVars
  <2>2. Still
    BY <1>1 DEF TriageTool, Still, boardVars, ownerVars
  <2> QED
    BY <2>1, <2>2 DEF Shape
<1>2. CASE WriteContract(t)
  BY <1>2, WriteContractShape
<1>3. CASE RecordCriterion(t)
  <2>1. evidence' \in [Tasks -> SUBSET Evidence]
    <3>1. CASE evidence' = [evidence EXCEPT ![t] = @ \cup {"results"}]
      BY <3>1 DEF TypeOK, HistoryTypeOK, Evidence
    <3>2. ASSUME NEW failing \in SUBSET {"failure"},
                 evidence' = [evidence EXCEPT ![t] =
                                (@ \ {"failure"}) \cup {"answers"} \cup failing]
          PROVE  evidence' \in [Tasks -> SUBSET Evidence]
      BY <3>2 DEF TypeOK, HistoryTypeOK, Evidence
    <3> QED
      BY <1>3, <3>1, <3>2 DEF RecordCriterion
  <2>2. HistoryTypeOK' /\ RunTypeOK'
    BY <1>3, <2>1 DEF RecordCriterion, TypeOK, HistoryTypeOK, RunTypeOK, runVars
  <2> QED
    BY <1>3, <2>2, QuietStep DEF RecordCriterion
<1>4. CASE WriteNote(t)
  <2>1. evidence' \in [Tasks -> SUBSET Evidence]
    BY <1>4 DEF WriteNote, TypeOK, HistoryTypeOK, Evidence
  <2>2. HistoryTypeOK' /\ RunTypeOK'
    BY <1>4, <2>1 DEF WriteNote, TypeOK, HistoryTypeOK, RunTypeOK, runVars
  <2> QED
    BY <1>4, <2>2, QuietStep DEF WriteNote
<1>5. ASSUME NEW u \in Tasks, NEW as \in Agents, NEW rv \in Agents,
             AssignTask(u, t, as, rv)
      PROVE  TypeOK' /\ Shape
  <2> DEFINE ask == [NoAsk EXCEPT !.as = as, !.rv = rv]
  <2>1. ask \in Asks /\ ask.tries = 0 /\ ~ask.conflicted
    BY DEF NoAsk, Asks, Anybody
  <2>2. Ask(t, RoleOf[Me(u)], Me(u), "assigned", ask)
    BY <1>5 DEF AssignTask
  <2> HIDE DEF ask
  <2> QED
    BY <2>1, <2>2, AskShape DEF Statuses
<1>6. ASSUME NEW to \in AsksFor, RequestTransition(t, to)
      PROVE  TypeOK' /\ Shape
  <2>1. to \in Statuses
    BY MovesAssumption
  <2>2. PICK i \in OwnRows(t, to), written \in BOOLEAN :
          Ask(t, TRANSITION_TABLE[i].actor, Me(t), to,
              [NoAsk EXCEPT !.blocker = written, !.resolution = written,
                            !.reasons = written])
    BY <1>6 DEF RequestTransition
  <2>3. Plain([NoAsk EXCEPT !.blocker = written, !.resolution = written,
                            !.reasons = written])
    BY PlainAsks
  <2> QED
    BY <2>1, <2>2, <2>3, PlainAsk
<1> QED
  BY <1>1, <1>2, <1>3, <1>4, <1>5, <1>6 DEF ToolStep

LEMMA EndShape ==
  ASSUME TypeOK, NEW t \in Tasks, EndSession(t)
  PROVE  TypeOK' /\ Shape
<1>1. reviewed' \in [Tasks -> Outcomes]
  BY DEF EndSession, TypeOK, HistoryTypeOK, Outcomes
<1>2. HistoryTypeOK'
  BY <1>1 DEF EndSession, TypeOK, HistoryTypeOK
<1>3. session' \in [Tasks -> Sessions] /\ broke' \in [Tasks -> BOOLEAN]
  BY DEF EndSession, TypeOK, RunTypeOK, Sessions
<1>4. RunTypeOK'
  BY <1>3 DEF EndSession, TypeOK, RunTypeOK
<1> QED
  BY <1>2, <1>4, QuietStep DEF EndSession

LEMMA CrashShape ==
  ASSUME TypeOK, Crash
  PROVE  TypeOK' /\ Shape
<1>1. HistoryTypeOK'
  BY DEF Crash, TypeOK, HistoryTypeOK, historyVars
<1>2. RunTypeOK'
  BY DEF Crash, TypeOK, RunTypeOK, Sessions
<1> QED
  BY <1>1, <1>2, QuietStep DEF Crash

LEMMA StepShape ==
  ASSUME TypeOK, [Next]_vars
  PROVE  TypeOK' /\ Shape
<1>1. CASE Next
  BY <1>1, OwnerShape, TickShape, StartStepShape, ToolShape, EndShape, CrashShape
     DEF Next
<1>2. CASE UNCHANGED vars
  <2>1. UNCHANGED <<boardVars, ownerVars, contractVars, historyVars, runVars>>
    BY <1>2 DEF vars
  <2>2. HistoryTypeOK' /\ RunTypeOK'
    BY <2>1 DEF TypeOK, HistoryTypeOK, RunTypeOK, historyVars, runVars
  <2> QED
    BY <2>1, <2>2, QuietStep
<1> QED
  BY <1>1, <1>2

-----------------------------------------------------------------------------
LEMMA InitType == Init => TypeOK
<1> SUFFICES ASSUME Init PROVE TypeOK
  OBVIOUS
<1>1. BoardTypeOK
  BY DEF Init, BoardTypeOK, Statuses, Anybody
<1>2. OwnerTypeOK /\ ContractTypeOK
  BY RolesAssumption DEF Init, OwnerTypeOK, ContractTypeOK
<1>3. HistoryTypeOK
  BY DEF Init, HistoryTypeOK, Statuses, Outcomes
<1>4. RunTypeOK
  BY DEF Init, RunTypeOK, Sessions
<1> QED
  BY <1>1, <1>2, <1>3, <1>4 DEF TypeOK

\* Every variable keeps its type through every step of the owner's, of a tick,
\* of an agent's session and of a crash: no count goes below zero, no escalation
\* is raised without a reason the governor knows, no evidence is of an unknown
\* kind.
THEOREM TypeCorrect == Spec => []TypeOK
<1>1. Init => TypeOK
  BY InitType
<1>2. TypeOK /\ [Next]_vars => TypeOK'
  BY StepShape
<1> QED
  BY <1>1, <1>2, PTL DEF Spec

\* A task is returned to work at most as often as its contract and the owner
\* together allow: a return after a rejection is below the limit, and one the
\* owner resolves with tries brings at least one more with it (`resolve`).
THEOREM TriesBoundedAlways == Spec => []TriesBounded
<1> DEFINE Inv == TypeOK /\ TriesBounded
<1>1. Init => Inv
  BY InitType, LimitsAssumption DEF Init, TriesBounded
<1>2. Inv /\ [Next]_vars => Inv'
  <2> SUFFICES ASSUME TypeOK, TriesBounded, [Next]_vars PROVE TypeOK' /\ TriesBounded'
    OBVIOUS
  <2>1. TypeOK' /\ Shape
    BY StepShape
  <2>2. CASE UNCHANGED <<iteration, granted>>
    BY <2>1, <2>2 DEF TriesBounded
  <2>3. ASSUME NEW t \in Tasks, CountsTry(t) PROVE TriesBounded'
    <3>1. /\ iteration \in [Tasks -> Nat] /\ granted \in [Tasks -> Nat]
          /\ MaxIterations \in Nat
      BY LimitsAssumption DEF TypeOK, BoardTypeOK, OwnerTypeOK
    <3>2. CASE UNCHANGED <<iteration, granted>>
      BY <3>2 DEF TriesBounded
    <3>3. CASE /\ iteration[t] < MaxIterations + granted[t]
               /\ iteration' = [iteration EXCEPT ![t] = @ + 1]
               /\ granted' = granted
      BY <3>1, <3>3 DEF TriesBounded
    <3>4. ASSUME NEW tries \in Nat \ {0},
                 iteration' = [iteration EXCEPT ![t] = @ + 1],
                 granted' = [granted EXCEPT ![t] = @ + tries]
          PROVE  TriesBounded'
      BY <3>1, <3>4 DEF TriesBounded
    <3> QED
      BY <2>3, <3>2, <3>3, <3>4 DEF CountsTry
  <2> QED
    BY <2>1, <2>2, <2>3 DEF Shape, Still, Rewrites, Merges, HandsOver, Moves
<1> QED
  BY <1>1, <1>2, PTL DEF Spec

LEMMA MergesInductive ==
  ASSUME TypeOK, MergesWhatItAccepted, [Next]_vars
  PROVE  MergesWhatItAccepted'
<1>1. TypeOK' /\ Shape
  BY StepShape
<1> USE DEF TypeOK, BoardTypeOK, ContractTypeOK
<1>2. CASE Still
  BY <1>2 DEF Still, MergesWhatItAccepted
<1>3. ASSUME NEW t \in Tasks, Rewrites(t) PROVE MergesWhatItAccepted'
  BY <1>3 DEF Rewrites, MergesWhatItAccepted
<1>4. ASSUME NEW t \in Tasks, Merges(t) PROVE MergesWhatItAccepted'
  BY <1>4 DEF Merges, MergesWhatItAccepted
<1>5. ASSUME NEW t \in Tasks, NEW a \in Agents, HandsOver(t, a)
      PROVE  MergesWhatItAccepted'
  BY <1>5 DEF HandsOver, MergesWhatItAccepted
<1>6. ASSUME NEW t \in Tasks, NEW to \in Statuses, Moves(t, to)
      PROVE  MergesWhatItAccepted'
  BY <1>6 DEF Moves, AwaitsMerge, MergesWhatItAccepted
<1> QED
  BY <1>1, <1>2, <1>3, <1>4, <1>5, <1>6 DEF Shape

\* Only an accepted task with a branch of its own waits for a merge (`apply_move`):
\* no other move, and no contract written anew, leaves a merge behind.
THEOREM MergesWhatItAcceptedAlways == Spec => []MergesWhatItAccepted
<1>1. Init => TypeOK /\ MergesWhatItAccepted
  BY InitType DEF Init, MergesWhatItAccepted
<1>2. TypeOK /\ MergesWhatItAccepted /\ [Next]_vars =>
        TypeOK' /\ MergesWhatItAccepted'
  BY StepShape, MergesInductive
<1> QED
  BY <1>1, <1>2, PTL DEF Spec

\* What is over stays over (`is_terminal`, `Leaves`), but for an accepted task
\* whose branch does not merge, which goes back to its assignee.
THEOREM OverIsOverAlways == Spec => OverIsOver
<1>1. TypeOK /\ [Next]_vars =>
        [\A t \in Tasks :
           /\ status[t] = "cancelled" => status'[t] = "cancelled"
           /\ status[t] = "accepted" /\ status'[t] # "accepted" =>
                merging[t] /\ status'[t] = "assigned"]_vars
  <2> SUFFICES ASSUME TypeOK, [Next]_vars, NEW t \in Tasks
               PROVE  /\ status[t] = "cancelled" => status'[t] = "cancelled"
                      /\ status[t] = "accepted" /\ status'[t] # "accepted" =>
                           merging[t] /\ status'[t] = "assigned"
    OBVIOUS
  <2>1. Shape
    BY StepShape
  <2>2. CASE status' = status
    BY <2>2
  <2>3. ASSUME NEW u \in Tasks, NEW to \in Statuses, Moves(u, to)
        PROVE  /\ status[t] = "cancelled" => status'[t] = "cancelled"
               /\ status[t] = "accepted" /\ status'[t] # "accepted" =>
                    merging[t] /\ status'[t] = "assigned"
    BY <2>3 DEF Moves, TypeOK, BoardTypeOK
  <2> QED
    BY <2>1, <2>2, <2>3 DEF Shape, Still, Rewrites, Merges, HandsOver
<1> QED
  BY <1>1, TypeCorrect, PTL DEF Spec, OverIsOver

\* No agent comes to review what it holds but the Product Manager: neither an
\* assignment (`check_assignment`), nor a hand-over of a task that waits for its
\* agent's limit (`check_reassignment`), nor a contract that names another role
\* afterwards.
THEOREM NoSelfReviewAlways == Spec => []NoSelfReview
<1> DEFINE Inv == TypeOK /\ NoSelfReview
<1>1. Init => Inv
  BY InitType DEF Init, NoSelfReview
<1>2. Inv /\ [Next]_vars => Inv'
  <2> SUFFICES ASSUME TypeOK, NoSelfReview, [Next]_vars PROVE TypeOK' /\ NoSelfReview'
    OBVIOUS
  <2>1. TypeOK' /\ Shape
    BY StepShape
  <2>2. assignee \in [Tasks -> Anybody] /\ reviewer \in [Tasks -> Anybody]
    BY DEF TypeOK, BoardTypeOK
  <2>3. CASE UNCHANGED <<assignee, reviewer>>
    BY <2>1, <2>3 DEF NoSelfReview
  <2>4. ASSUME NEW t \in Tasks, NEW a \in Agents, HandsOver(t, a)
        PROVE  NoSelfReview'
    <3>1. a = reviewer[t] => RoleOf[a] = "product_manager"
      BY <2>4 DEF HandsOver, CheckReassignment, ReviewsItsOwn
    <3> QED
      BY <2>2, <2>4, <3>1 DEF HandsOver, NoSelfReview
  <2>5. ASSUME NEW t \in Tasks, NEW as \in Agents, NEW rv \in Agents,
               Assigns(t, as, rv)
        PROVE  NoSelfReview'
    <3>1. as = rv => RoleOf[as] = "product_manager"
      BY <2>5 DEF Assigns, CheckAssignment, ReviewsItsOwn, MayBuild
    <3> QED
      BY <2>2, <2>5, <3>1 DEF Assigns, NoSelfReview
  <2>6. ASSUME NEW t \in Tasks, NEW to \in Statuses, Moves(t, to)
        PROVE  NoSelfReview'
    BY <2>3, <2>5, <2>6 DEF Moves
  <2> QED
    BY <2>1, <2>3, <2>4, <2>6 DEF Shape, Still, Rewrites, Merges
<1> QED
  BY <1>1, <1>2, PTL DEF Spec

-----------------------------------------------------------------------------
\* A task that holds its private folder.
HoldsFolder(t) ==
  /\ assignee[t] # Nobody
  /\ ~IsTerminal(status[t])
  /\ PrivateFolder(role[t]) # ""

\* Whoever holds a folder after a step under the role it was assigned for held it
\* so before, or was just assigned a task while nobody else had the folder.
LEMMA FolderStep ==
  ASSUME TypeOK, MergesWhatItAccepted, [Next]_vars,
         NEW t \in Tasks, HoldsFolder(t)', t \notin rewritten'
  PROVE  /\ role'[t] = role[t]
         /\ \/ HoldsFolder(t) /\ t \notin rewritten
            \/ /\ ~FolderBusy(t, role[t])
               /\ \A u \in Tasks \ {t} :
                    /\ assignee'[u] = assignee[u]
                    /\ status'[u] = status[u]
                    /\ role'[u] = role[u]
<1> DEFINE Goal ==
      /\ role'[t] = role[t]
      /\ \/ HoldsFolder(t) /\ t \notin rewritten
         \/ /\ ~FolderBusy(t, role[t])
            /\ \A u \in Tasks \ {t} :
                 /\ assignee'[u] = assignee[u]
                 /\ status'[u] = status[u]
                 /\ role'[u] = role[u]
<1>1. Shape
  BY StepShape
<1>2. /\ status \in [Tasks -> Statuses] /\ assignee \in [Tasks -> Anybody]
      /\ role \in [Tasks -> STRING]
  BY DEF TypeOK, BoardTypeOK, ContractTypeOK
<1>3. CASE UNCHANGED <<status, assignee, role, rewritten>>
  BY <1>3 DEF HoldsFolder
<1>4. ASSUME NEW u \in Tasks, Rewrites(u) PROVE Goal
  <2>1. /\ UNCHANGED <<status, assignee>>
        /\ t \notin rewritten
        /\ role'[t] = role[t]
    BY <1>2, <1>4 DEF Rewrites, HoldsFolder
  <2> QED
    BY <2>1 DEF HoldsFolder
<1>5. ASSUME NEW u \in Tasks, NEW a \in Agents, HandsOver(u, a) PROVE Goal
  <2>1. assignee[u] # Nobody /\ UNCHANGED <<status, rewritten, role>>
    BY <1>5 DEF HandsOver, CheckReassignment, FirstOfItsAgent
  <2> QED
    BY <1>2, <1>5, <2>1 DEF HandsOver, HoldsFolder
<1>6. ASSUME NEW u \in Tasks, NEW to \in Statuses, Moves(u, to) PROVE Goal
  <2>1. role' = role /\ status' = [status EXCEPT ![u] = to]
    BY <1>6 DEF Moves
  <2>2. ~IsTerminal(status[t])
    <3>1. status[t] # "cancelled"
      BY <1>2, <1>6, <2>1 DEF HoldsFolder, Moves, IsTerminal
    <3>2. status[t] # "accepted"
      BY <1>2, <1>6, <2>1 DEF HoldsFolder, Moves, IsTerminal, MergesWhatItAccepted
    <3> QED
      BY <3>1, <3>2 DEF IsTerminal
  <2>3. CASE assignee' = assignee /\ rewritten' = rewritten
    BY <2>1, <2>2, <2>3 DEF HoldsFolder
  <2>4. ASSUME NEW as \in Agents, NEW rv \in Agents, Assigns(u, as, rv) PROVE Goal
    <3>1. CASE u = t
      <4>1. PrivateFolder(RoleOf[as]) = PrivateFolder(role[t])
        BY <2>4, <3>1 DEF Assigns, CheckAssignment, MayBuild, PrivateFolder
      <4>2. ~FolderBusy(t, role[t])
        BY <2>4, <3>1, <4>1 DEF Assigns, CheckAssignment, FolderBusy
      <4> QED
        BY <1>2, <2>1, <2>4, <3>1, <4>2 DEF Assigns
    <3>2. CASE u # t
      BY <1>2, <2>1, <2>2, <2>4, <3>2 DEF Assigns, HoldsFolder
    <3> QED
      BY <3>1, <3>2
  <2> QED
    BY <1>6, <2>3, <2>4 DEF Moves
<1> QED
  BY <1>1, <1>3, <1>4, <1>5, <1>6 DEF Shape, Still, Merges

\* No two tasks that are not over hold the same private folder
\* (`private_folder_busy`), for every team, every rewriting of contracts and every
\* interleaving, but for a task that was written for another role since it was
\* assigned; its next assignment asks for the folder again, and from then on it is
\* held to this too.  It needs MergesWhatItAccepted: what comes back from
\* `accepted` has a branch, and so no private folder.
THEOREM FolderExclusiveAlways == Spec => []FolderExclusive
<1> DEFINE Inv == TypeOK /\ MergesWhatItAccepted /\ FolderExclusive
<1>1. Init => Inv
  <2> SUFFICES ASSUME Init PROVE Inv
    OBVIOUS
  <2>1. \A t \in Tasks : ~merging[t] /\ assignee[t] = Nobody
    BY DEF Init
  <2>2. MergesWhatItAccepted /\ FolderExclusive
    BY <2>1 DEF MergesWhatItAccepted, FolderExclusive
  <2> QED
    BY <2>2, InitType
<1>2. Inv /\ [Next]_vars => Inv'
  <2> SUFFICES ASSUME TypeOK, MergesWhatItAccepted, FolderExclusive, [Next]_vars
               PROVE  TypeOK' /\ MergesWhatItAccepted' /\ FolderExclusive'
    OBVIOUS
  <2>1. TypeOK' /\ MergesWhatItAccepted'
    BY StepShape, MergesInductive
  <2>2. ASSUME NEW t \in Tasks, NEW u \in Tasks, t # u,
               t \notin rewritten', u \notin rewritten',
               HoldsFolder(t)', HoldsFolder(u)',
               PrivateFolder(role'[t]) = PrivateFolder(role'[u])
        PROVE  FALSE
    <3> DEFINE Kept(x) ==
          /\ role'[x] = role[x]
          /\ \/ HoldsFolder(x) /\ x \notin rewritten
             \/ /\ ~FolderBusy(x, role[x])
                /\ \A y \in Tasks \ {x} :
                     /\ assignee'[y] = assignee[y]
                     /\ status'[y] = status[y]
                     /\ role'[y] = role[y]
    <3>1. Kept(t) /\ Kept(u)
      BY <2>2, FolderStep
    <3>2. CASE /\ HoldsFolder(t) /\ t \notin rewritten
               /\ HoldsFolder(u) /\ u \notin rewritten
      BY <2>2, <3>1, <3>2 DEF FolderExclusive, HoldsFolder
    <3>3. CASE ~(HoldsFolder(t) /\ t \notin rewritten)
      BY <2>2, <3>1, <3>3 DEF FolderBusy, HoldsFolder
    <3>4. CASE ~(HoldsFolder(u) /\ u \notin rewritten)
      BY <2>2, <3>1, <3>4 DEF FolderBusy, HoldsFolder
    <3> QED
      BY <3>2, <3>3, <3>4
  <2>3. FolderExclusive'
    BY <2>2 DEF FolderExclusive, HoldsFolder
  <2> QED
    BY <2>1, <2>3
<1> QED
  BY <1>1, <1>2, PTL DEF Spec

-----------------------------------------------------------------------------
\* The order agents began their tasks in.

\* In a strict order of a finite set, where below[x] is what comes before x, exactly
\* k elements have fewer than k before them, or all of them when they are fewer.
LEMMA FirstOfAnOrder ==
  ASSUME NEW S, IsFiniteSet(S), NEW below \in [S -> SUBSET S], NEW k \in Nat,
         \A x \in S : x \notin below[x],
         \A x, y \in S : y \in below[x] => below[y] \subseteq below[x],
         \A x, y \in S : x # y => x \in below[y] \/ y \in below[x]
  PROVE  Cardinality({x \in S : Cardinality(below[x]) < k}) =
           IF Cardinality(S) < k THEN Cardinality(S) ELSE k
<1> DEFINE n == Cardinality(S)
           rank == [x \in S |-> Cardinality(below[x])]
           m == IF n < k THEN n ELSE k
           First == {x \in S : rank[x] < k}
           f == [x \in First |-> rank[x]]
<1>1. n \in Nat /\ IsFiniteSet(0 .. n - 1) /\ Cardinality(0 .. n - 1) = n
  <2>1. n \in Nat
    BY FS_CardinalityType
  <2> HIDE DEF n
  <2>2. 0 \in Int /\ n - 1 \in Int
    BY <2>1
  <2>3. /\ IsFiniteSet(0 .. n - 1)
        /\ Cardinality(0 .. n - 1) = IF 0 > n - 1 THEN 0 ELSE n - 1 - 0 + 1
    BY <2>2, FS_Interval
  <2> QED
    BY <2>1, <2>3
<1>2. ASSUME NEW x \in S
      PROVE  IsFiniteSet(below[x]) /\ rank[x] \in 0 .. n - 1
  <2>1. below[x] \in SUBSET (S \ {x})
    OBVIOUS
  <2>2. IsFiniteSet(S \ {x}) /\ Cardinality(S \ {x}) = n - 1
    BY FS_RemoveElement
  <2>3. IsFiniteSet(below[x]) /\ Cardinality(below[x]) <= Cardinality(S \ {x})
    BY <2>1, <2>2, FS_Subset
  <2>4. Cardinality(below[x]) \in Nat
    BY <2>3, FS_CardinalityType
  <2> HIDE DEF n
  <2> QED
    BY <1>1, <2>2, <2>3, <2>4
<1>3. ASSUME NEW x \in S, NEW y \in S, x \in below[y]
      PROVE  rank[x] < rank[y]
  <2>1. x \in below[y] /\ below[x] \in SUBSET (below[y] \ {x})
    BY <1>3
  <2>2. IsFiniteSet(below[y]) /\ rank[x] \in Nat /\ rank[y] \in Nat
    <3>1. IsFiniteSet(below[y]) /\ rank[x] \in 0 .. n - 1 /\ rank[y] \in 0 .. n - 1
      BY <1>2
    <3> HIDE DEF rank, n
    <3> QED
      BY <1>1, <3>1
  <2>3. /\ IsFiniteSet(below[y] \ {x})
        /\ Cardinality(below[y] \ {x}) = Cardinality(below[y]) - 1
    BY <2>1, <2>2, FS_RemoveElement
  <2>4. Cardinality(below[x]) <= Cardinality(below[y] \ {x})
    BY <2>1, <2>3, FS_Subset
  <2> QED
    BY <2>2, <2>3, <2>4
<1>4. rank \in Injection(S, 0 .. n - 1)
  <2>1. rank \in [S -> 0 .. n - 1]
    BY <1>2
  <2>2. \A x, y \in S : rank[x] = rank[y] => x = y
    <3> SUFFICES ASSUME NEW x \in S, NEW y \in S, x # y PROVE rank[x] # rank[y]
      OBVIOUS
    <3>1. rank[x] \in Int /\ rank[y] \in Int
      BY <1>1, <1>2
    <3>2. rank[x] < rank[y] \/ rank[y] < rank[x]
      BY <1>3
    <3> HIDE DEF rank
    <3> QED
      BY <3>1, <3>2
  <2> QED
    BY <2>1, <2>2, Zenon DEF Injection, IsInjective
<1> HIDE DEF rank, n
<1>5. rank \in Surjection(S, 0 .. n - 1)
  BY <1>1, <1>4, FS_Injection DEF n
<1>6. m \in Nat /\ m <= n /\ m <= k
  BY <1>1
<1>7. f \in Bijection(First, 0 .. m - 1)
  <2>1. \A x \in S : rank[x] \in 0 .. n - 1
    BY <1>4 DEF Injection
  <2>2. f \in [First -> 0 .. m - 1]
    BY <1>1, <1>6, <2>1
  <2>3. \A x, y \in First : f[x] = f[y] => x = y
    BY <1>4 DEF Injection, IsInjective
  <2>4. \A i \in 0 .. m - 1 : \E x \in First : f[x] = i
    <3> SUFFICES ASSUME NEW i \in 0 .. m - 1 PROVE \E x \in First : f[x] = i
      OBVIOUS
    <3>1. i \in 0 .. n - 1 /\ i < k
      BY <1>1, <1>6
    <3>2. PICK x \in S : rank[x] = i
      BY <1>5, <3>1 DEF Surjection
    <3>3. x \in First /\ f[x] = i
      BY <3>1, <3>2
    <3> QED
      BY <3>3
  <2>5. DOMAIN f = First
    OBVIOUS
  <2> HIDE DEF f, First, m
  <2> QED
    BY <2>2, <2>3, <2>4, <2>5, Zenon DEF Bijection, Injection, Surjection, IsInjective
<1>8. Cardinality(First) = m
  <2> HIDE DEF First, m
  <2>1. IsFiniteSet(First)
    BY FS_Subset DEF First
  <2>2. IsFiniteSet(0 .. m - 1) /\ Cardinality(0 .. m - 1) = m
    BY <1>6, FS_Interval
  <2>3. Cardinality(0 .. m - 1) = Cardinality(First)
    BY <1>7, <2>1, FS_Bijection DEF ExistsBijection
  <2> QED
    BY <2>2, <2>3
<1> QED
  BY <1>8 DEF First, m, rank, n

\* `began` puts the tasks that count, and no others, into one order.
BeganInOrder ==
  /\ \A u, v \in Tasks : <<u, v>> \in began =>
       u # v /\ CountsTowardsWip(status[u]) /\ CountsTowardsWip(status[v])
  /\ \A u, v, w \in Tasks :
       <<u, v>> \in began /\ <<v, w>> \in began => <<u, w>> \in began
  /\ \A u, v \in Tasks :
       u # v /\ CountsTowardsWip(status[u]) /\ CountsTowardsWip(status[v]) =>
         <<u, v>> \in began \/ <<v, u>> \in began

\* A task that begins to count comes last, and one that stops leaves the order.
LEMMA BeganAfterOrder ==
  ASSUME BeganInOrder, NEW t \in Tasks, NEW counts \in BOOLEAN,
         began' = BeganAfter(t, counts),
         \A u \in Tasks \ {t} : status'[u] = status[u],
         CountsTowardsWip(status'[t]) <=> counts
  PROVE  BeganInOrder'
<1>1. ASSUME NEW u \in Tasks, NEW v \in Tasks
      PROVE  <<u, v>> \in began' <=>
               \/ <<u, v>> \in began /\ t \notin {u, v}
               \/ counts /\ v = t /\ u # t /\ CountsTowardsWip(status[u])
  BY DEF BeganAfter
<1>2. \A u \in Tasks : CountsTowardsWip(status'[u]) <=>
        IF u = t THEN counts ELSE CountsTowardsWip(status[u])
  OBVIOUS
<1>3. \A u, v \in Tasks : <<u, v>> \in began' =>
        u # v /\ CountsTowardsWip(status'[u]) /\ CountsTowardsWip(status'[v])
  BY <1>1, <1>2 DEF BeganInOrder
<1>4. \A u, v, w \in Tasks :
        <<u, v>> \in began' /\ <<v, w>> \in began' => <<u, w>> \in began'
  BY <1>1 DEF BeganInOrder
<1>5. \A u, v \in Tasks :
        u # v /\ CountsTowardsWip(status'[u]) /\ CountsTowardsWip(status'[v]) =>
          <<u, v>> \in began' \/ <<v, u>> \in began'
  BY <1>1, <1>2 DEF BeganInOrder
<1> QED
  BY <1>3, <1>4, <1>5 DEF BeganInOrder

LEMMA BeganStep ==
  ASSUME TypeOK, BeganInOrder, [Next]_vars
  PROVE  BeganInOrder'
<1>1. Shape /\ status \in [Tasks -> Statuses]
  BY StepShape DEF TypeOK, BoardTypeOK
<1>2. CASE UNCHANGED <<status, began>>
  BY <1>2 DEF BeganInOrder
<1>3. ASSUME NEW t \in Tasks, NEW a \in Agents, HandsOver(t, a)
      PROVE  BeganInOrder'
  <2>1. status' = status /\ began' = BeganAfter(t, TRUE) /\ CountsTowardsWip(status[t])
    BY <1>3 DEF HandsOver, CheckReassignment, CountsTowardsWip
  <2> QED
    BY <2>1, BeganAfterOrder
<1>4. ASSUME NEW t \in Tasks, NEW to \in Statuses, Moves(t, to)
      PROVE  BeganInOrder'
  <2>1. /\ status'[t] = to
        /\ \A u \in Tasks \ {t} : status'[u] = status[u]
    BY <1>1, <1>4 DEF Moves
  <2>2. CASE CountsTowardsWip(to) /\ CountsTowardsWip(status[t])
    <3>1. began' = began
      BY <1>4, <2>2 DEF Moves
    <3>2. \A u \in Tasks : CountsTowardsWip(status'[u]) <=> CountsTowardsWip(status[u])
      BY <2>1, <2>2
    <3> QED
      BY <3>1, <3>2 DEF BeganInOrder
  <2>3. CASE ~(CountsTowardsWip(to) /\ CountsTowardsWip(status[t]))
    <3>1. began' = BeganAfter(t, CountsTowardsWip(to))
      BY <1>4, <2>3 DEF Moves
    <3>2. CountsTowardsWip(to) \in BOOLEAN
      BY DEF CountsTowardsWip
    <3> QED
      BY <2>1, <3>1, <3>2, BeganAfterOrder
  <2> QED
    BY <2>2, <2>3
<1> QED
  BY <1>1, <1>2, <1>3, <1>4 DEF Shape, Still, Rewrites, Merges

\* Whatever the owner, the tick, the agents and a crash do, and in whatever order
\* tasks come back to their agents, `within_limit` picks exactly as many of the
\* tasks an agent holds as its limit allows, or all of them: it never lets one
\* more be worked on, and never keeps an agent from all it holds.  What it needs
\* is that the tasks that count are always in one order.
THEOREM WorksUpToItsLimitAlways == Spec => []WorksUpToItsLimit
<1> DEFINE Inv == TypeOK /\ BeganInOrder
<1>1. Init => Inv
  BY InitType DEF Init, BeganInOrder, CountsTowardsWip
<1>2. Inv /\ [Next]_vars => Inv'
  BY StepShape, BeganStep
<1>3. Inv => WorksUpToItsLimit
  <2> SUFFICES ASSUME BeganInOrder, NEW a \in Agents
               PROVE  Cardinality({t \in Counts(a) : FirstOfItsAgent(t)}) =
                        IF Cardinality(Counts(a)) < Limit
                        THEN Cardinality(Counts(a)) ELSE Limit
    BY DEF WorksUpToItsLimit
  <2> DEFINE held == Counts(a)
  <2>1. held \in SUBSET Tasks /\ IsFiniteSet(held) /\ Limit \in Nat
    BY TasksAssumption, LimitsAssumption, FS_Subset DEF Counts, Limit
  <2> DEFINE below == [t \in held |-> {u \in held : <<u, t>> \in began}]
  <2>2. {t \in held : FirstOfItsAgent(t)} = {t \in held : Cardinality(below[t]) < Limit}
    <3>1. \A t \in held : assignee[t] = a /\ a # Nobody /\ CountsTowardsWip(status[t])
      BY AgentsAssumption DEF Counts
    <3>2. \A t \in held : Before(t) = below[t]
      BY <3>1 DEF Before
    <3> HIDE DEF held, below
    <3>3. \A t \in held : FirstOfItsAgent(t) <=> Cardinality(below[t]) < Limit
      BY <3>1, <3>2 DEF FirstOfItsAgent
    <3> QED
      BY <3>3
  <2>3. /\ below \in [held -> SUBSET held]
        /\ \A x \in held : x \notin below[x]
        /\ \A x, y \in held : y \in below[x] => below[y] \subseteq below[x]
        /\ \A x, y \in held : x # y => x \in below[y] \/ y \in below[x]
    <3>1. \A u \in held : u \in Tasks /\ CountsTowardsWip(status[u])
      BY DEF Counts
    <3> HIDE DEF held
    <3> QED
      BY <3>1 DEF BeganInOrder
  <2>4. Cardinality({t \in held : Cardinality(below[t]) < Limit}) =
          IF Cardinality(held) < Limit THEN Cardinality(held) ELSE Limit
    <3> HIDE DEF held, below
    <3> QED
      BY <2>1, <2>3, FirstOfAnOrder
  <2> QED
    BY <2>2, <2>4
<1> QED
  BY <1>1, <1>2, <1>3, PTL DEF Spec
=============================================================================
