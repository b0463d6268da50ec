# Catervas: a verification development

Catervas (the Rust workspace under `src/crates`) runs a team of AI agents for one owner. The
owner files requests; a Product Manager agent turns them into task contracts; agents build,
review and accept; a *governor* decides which status a task may move to; an *orchestrator* drives
it all in ticks. Everything that happens is an event in a log, and the board everybody reads is
projected from that log.

This directory models the parts of it where order matters, checks them with TLC on small
instances and proves the main properties with TLAPS for instances of every size.

## 1. Inventory

| Component | State | Operations | Interacts by | Hard because |
|---|---|---|---|---|
| Event log and projections (`store`: `event_log.rs`, `projections.rs`) | the events table; the projected tables and their cursor | append, apply, catch up, rebuild | one SQLite file shared by several processes | each statement is atomic, each call is several; a process may stop between two |
| Governor (`core/governor`) | none: a table of transitions, gates, effects | `evaluate_transition` | called under the transitions' lock with a context read from the board and the log | forty rows, the order of rows, gates that read counters |
| Transitions (`runtime/transitions.rs`) | none of its own | `request`, `reassign` | the owner, agents and the tick all come through it | reads, decides and appends several events under a lock of one process |
| Orchestrator tick (`orchestrator/rules.rs`, `requests.rs`, `work.rs`) | none that survives a tick: every rule reads the log again | rules 2 to 10 | starts sessions, asks for moves in the governor's name | a rule decides from what it read *since the last move*; each task must be some rule's business |
| Verification (`orchestrator/verify.rs`) | criteria that are running | run criteria, review, decide alone, reject, accept | the tick waits on it while the owner and the sessions go on | what was read before the wait is used after it |
| Integration (`orchestrator/integrate.rs`) | `awaiting_integration`; branches, a worktree, the owner's checkout; pull requests | open, merge, catch up, bring up to date, land here, send back, record | calls git and the forge under a lock of its own; takes an accepted task back to `assigned` | a kill between any two calls; what others do to the same branches without the lock; an answer of the forge that is out of date |
| Owner's commands (`orchestrator/human.rs`) | none | triage, transition, resolve, accept, send back, stop | wait for no tick | several events for one command |
| Agents' tools (`tools.rs`, `tools/work.rs`, `tools/contracts.rs`) | none | triage, contract, assign, record, note, ask for a move | called from sessions that run while the board changes | a session outlives what it was started for |
| Sessions, costs, recovery (`orchestrator/session.rs`, `cost.rs`, `recover.rs`) | running sessions; what each cost; what the day and the computer spent | start, charge, end, recover | counts against the task's budget, the team's day and the cap of all teams | sessions are charged at once, each on reads of its own; a kill loses sessions, not what they recorded |
| Places of several teams (`slots.rs`) | places in use, queues, the round, the account's sleep, the day's spend | take, give back, give up, change limits, put to sleep | shared by the orchestrators of one `serve` | a call may be dropped at any await; wake-ups; fairness between teams |
| Run lock and servers (`cli/start.rs`, `cli/serve.rs`, `daemon.rs`) | who drives a project | start, stop, relay | processes | not modelled yet |
| Epics, goals (`orchestrator/requests.rs`, `goal.rs`) | an epic's status, the tasks under it, the results of its criteria | assign, start, plan, file tasks, close out, run criteria, decide | reads its tasks' rows; its tasks are filed by tools and commands, merged and sent back by the integration | its status and its tasks' move in different hands; its criteria run without the integration lock |
| Autopilot, questions | who answers for the owner | decide, ask, answer | through transitions | its rows of the table are modelled, its sessions are not |
| Permissions and paths, channel and chat, sandboxes, connectors, history import, command line, web app | - | - | - | pure functions of text or input and output: left out |

What makes each correct: the board is always the log's prefix, in order and once; a move is one
the table allows, and nothing leaves what is over; tries and sessions bound the work; nobody
judges its own work and no private folder is given to two tasks; all work ends or reaches the owner;
accepted work is recorded as integrated once, only when it is in the integration branch, and
nothing unchecked is merged for it; a day that is spent stops its team and the owner is told; no
place is lost, none idle beside somebody who waits, and no team is passed over; an epic is
accepted with its tasks done and on criteria run at their work; an agent with tasks works as many of
them as its limit allows; a call of the store leaves a board its caller may decide on.
`PROJECT.json` lists the hazards at their lines.

## 2. Modules

| Module | Models | Kind |
|---|---|---|
| `BoardReplay` | what the store promises: events are recorded, and projected one by one in order | abstract specification |
| `Projections` | `event_log.rs`, `projections.rs`: several processes, every SQL statement a step | state machine; implements `BoardReplay` |
| `ProjectionsProofs` | | proofs |
| `Governor` | the transition table, its gates and effects | operators |
| `TaskLifecycle` | transitions, tick, verification, owner, tools, sessions, crash, over `Governor` | state machine |
| `TaskLifecycleProofs` | | proofs |
| `Slots` | `slots.rs` and the account's sleep | state machine |
| `SlotsProofs` | | proofs |
| `Landing` | what an integration promises: recorded once, and only what is there | abstract specification |
| `Integration` | `integrate.rs` with the git and the forge it calls, the tick, the owner, kills | state machine; implements `Landing` |
| `IntegrationProofs` | | proofs |
| `Spending` | costs of sessions, the day's budget and the cap: `session.rs`, `cost.rs`, `recover.rs`, `slots.rs` | state machine |
| `SpendingProofs` | | proofs |
| `Sums` | sums over the elements of a finite set (`SumFunctionOnSet`), which the cap's proof needs | lemmas |
| `Epics` | `requests.rs`: an epic, its tasks, its criteria on the integration branch | state machine |
| `EpicsProofs` | | proofs |
| `MCProjections`, `MCTaskLifecycle`, `MCSlots`, `MCIntegration`, `MCSpending`, `MCEpics` | the instances TLC checks | model values |

### Projections

`log`, `cursor` and `board` are the tables; `ctl[p]`, `seq[p]`, `end[p]` say where process *p* is
and what it holds. The board is kept as the sequence of events it took in: whatever `apply_to`
does with an event it does to that sequence, so two boards are equal exactly when they took in the
same events in the same order. `AppendEvent`, `GapCheck` and `Apply` are `append` and the two
halves of `apply` (the look at the cursor is not in the transaction); `ReadCursor`, `ReadBehind`
and `Replay` are `catch_up`; `Empty` is `rebuild`, which the code lets run beside calls of other
processes (`Beside`). `Fail` and `Stop` may happen at any of them.

### Governor and TaskLifecycle

`Governor` has the table row by row, as the source does, and `Opens`, which follows
`evaluate_transition`: the rows from the status to the one asked for, and the gates of each.

`TaskLifecycle` has one action for each rule of the tick, each command of the owner and each tool
of an agent that changes a task. All that ask for a move do it through `Request`, which is
`transitions::request`: what is refused before the governor, the context, the governor's answer,
then the move (`Move`) or the refusal (`Refuse`).

The code keeps no state but the log and asks it for what happened *since* something: evidence
since the last move into `in_progress`, runs and reviews since `verifying`, refusals since the
last move. The model keeps each answer as a variable, cut where the query begins:

| Variable | The query |
|---|---|
| `evidence` | `evidence_since_work_began` |
| `ran`, `reviewed`, `accepted` | what `verify.rs` reads since `verifying` began |
| `refused` | `refused_since_entering`; only the refusals a rule reads back in that status are kept (`ReadBack`) |
| `fails`, `unjudged`, `sentBack` | what `judge` and `refining` read since `refining` began |
| `blockedFrom`, `raised` | the last move into `blocked`, the last escalation |
| `began` | the order in which tasks began to count towards an agent's limit |
| `rewritten` | nothing in the code: a history, the tasks whose contract got another role since they were assigned |
| `check` | how far rule 5 is with the criteria Catervas runs |

A criterion Catervas runs takes three steps (`RunCriteria`, `CriteriaRan`, `DecideAlone`), because
the tick waits meanwhile and nothing else does. A session is the agent and the purpose;
`EndSession` counts it and, for a review, records the outcome. `Crash` loses sessions and checks
and keeps what the log has.

### Slots

One step is what is done under the lock of `Inner`. `dispatch` is the exception: `Serve` is one
round of its loop and `Release` its end, with `dispatching` as the lock, because a call that
receives its place or is dropped (`Receive`, `GiveUp`) needs no lock and may come between two
rounds. `passed` is a history variable: how often a team had its turn while another waited.
`Return` is `Place::drop`, and `EndRefused` comes after it, as `run_session` puts the account to
sleep only after `drive` has dropped the place.

### Integration

One subject is followed: a task, a plan task, a folder change, or one that moves where the
documents are kept (`subject`). A branch is the set of its commits: a merge is a union, a
fast-forward is a superset, "holds all of" is inclusion, and two branches conflict when one brings
a commit of `Clashing` the other lacks. The log is what `integrate.rs` asks of it: `awaiting`,
`url` (the pull request opened since acceptance), `escalated`.

Whoever holds the integration lock (`holder`) does one call at a time: `step` says which is next,
`mem` what was read before it, and every call may fail (`Fails` where the code escalates, `Errs`
where it only answers) or be the last before a kill (`Kill`). `Decide` is `integrate_locked`;
from there the work goes through the forge (`OpenPushes` to `Reread`), into a branch that is
behind or conflicts (`stopped_merging`: `FetchBehind` to `SendBack`), into the owner's checkout
(`land_here`: `LandFound` to `Abort`), or is found there already.

What needs no lock may come between any two: rule 1's `Cleanup`, which goes by the row the tick
read; the fetch of another task's session (`OthersFetch`); the forge, its checks and its merge
queue; the owner's pushes, merges and checkouts. Of a head that was pushed no check is registered at
first (`registering`, `ChecksRegister`): the forge's answer then is that it has none, or that those
it has passed, and `ReadOpen` merges on either; `early` is the history of that. A storage change's
documents are on the disk (`kept`), were taken out with what came into the checkout (`gone`), or
went as the owner came back to the branch that had moved meanwhile (`switched`, `OwnerSwitches`). A
task that was sent back is worked on and accepted again (`Start`, `AcceptAgain`), on a branch that
still has the first round's pull request.

The refinement maps `landed` of `Landing` to `Landed`: the work accepted last is in the local
integration branch or the remote's.

### Spending

One UTC day. A tick takes its team's turn, reads the day and the cap (`TickChecks`) or, for the plan
session of `replan_for_idle`, reads neither (`ReplanForIdle`), registers its session and gives the
turn back (`Register`); the session is given its place (`Start`), is charged for each usage it
reports, and takes the turn again when it has ended (`Return`). A charge is what `record_cost` does,
read by read: the budgets before it (`Report`), the event (`Charge`), whether the cap was reached
(`NoteWas`), the sum (`RecordSpend`), whether it is reached now (`NoteCapped`), the budgets after it
(`Judge`), the others stopped (`Cross`). `StopOthers` asks those the daemon answers for, and those
only.

`day[t]` is the sum the log's projection has, `noted[t]` the one in memory: `Make` adds the first
to the second, and a kill forgets the second. `RecoverEnd` and `RecoverCost` are the two events of
`recover`. `lost`, `cut` and `unread` are histories of what a failure broke off: a charge, a
recovery, the reading of the day. `unasked` is one of the sessions that were started on a spent day
because nobody asked for it.

### Epics

One epic (`epic`) of a team without a Scrum Master, and the tasks that may come under it (`task`).
A task is filed, made ready, accepted or cancelled as one step each: `TaskLifecycle` has the rest.
Between its acceptance and its record it awaits its integration (`awaiting`); the local branch has
what landed (`head`), and lags behind what was recorded first and fetched later (`behind`):
`Integration` has the rest of that.

The tick's rules are actions (`ReadyEpic` to `DecideAlone`) that come when no session about the
epic runs and no criterion does. A plan session is a flag, and what it does are actions anybody
with the right may take: `AskVerifying` through the gate of the close-out, `CheckChildCreation` and
`FileRequest`, which are the read of the status and the write of `create_task` with anything in
between, `BackToRefining`. The criteria run at the head read as they began
(`RunOnTheIntegrationBranch`), each recorded on its own (`RecordGovernorResult`), and tasks go on
meanwhile. `ran` and `at` are what the log says since `verifying` began; they are emptied when the
epic leaves it, as nothing reads them then. `excused` and `overtaken` are histories the properties
speak of: the tasks the close-out could not know of, and the owner's moves around its gate.

### Mistakes

Beside some definitions stands a `Mistake:` of the same shape: the change a plausible bug would
make. Each property has one that breaks it (`PROJECT.json`, `mutants`); nothing else uses them.

## 3. Runs

| Run | Instance | Checks | Result |
|---|---|---|---|
| `MCProjections` | 2 processes, 3 events, 2 failures or stops; one process empties the tables when the other is in no call | `TypeOK`, `BoardIsThePrefix`, `NoStepOver`, `LeavesItsEvents`, `ImplementsReplay`, `EveryEventProjected` | holds, 210 000 states |
| `MCLifecycleReview` | 1 task with a criterion of the owner's, written for developers or for finance, 4 sessions, a try granted | `TypeOK`, `TriesBounded`, `MergesWhatItAccepted`, `OverIsOver` | holds, 376 000 states |
| `MCLifecycleTwo` | 2 tasks, both for finance or both for developers, limit 1 | `FolderExclusive`, `NoSelfReview`, `WorksUpToItsLimit` | holds, 96 000 states |
| `MCLifecycleDependency` | 2 tasks, the second depends on the first, the owner cancels | `CancelledDependencyIsReplanned` | holds |
| `MCLifecycleEnds` | 1 task, 5 sessions, dollars that may run out, a crash | `WorkEnds` | holds, 17 000 states |
| `MCLifecycleParked` | 1 task, 2 sessions, 3 attempts at readiness | `RefusalStands` | violated |
| `MCSlots` | 2 teams, 4 calls, limit 1 or none | `TypeOK`, `PlacesCounted`, `NoIdlePlace`, `InTurn`, `NoneStartsPastTheLimit`, `EveryCallServed` | holds, 92 000 states |
| `MCIntegration` | 9 kinds of subject and ways of the owner's, 1 commit of others that clashes, 2 acceptances, 2 pull requests, a kill | `TypeOK`, `LandingHonoured`, `OneOpenPullRequest`, `MergesWhatPassed`, `DocumentsKept`, `NothingLeftBehind`, `IntegrationEnds` | holds, 225 000 states |
| `MCIntegrationUnpushed` | a task Catervas merges, a kill | `UpToDateIsPushed` | violated |
| `MCIntegrationCleanup` | a task the owner merges, a commit that clashes | `SentBackKeepsItsMerge` | violated |
| `MCEpics` | a plan task, a task with a branch and one without; 1 criterion, 2 sessions, returned once; the owner resolves to work, verification or acceptance | `TypeOK`, `AcceptedIsDone`, `RunOnTheIntegratedWork`, `EpicEnds` | holds, 220 000 states |
| `MCSpending` | 2 sessions of one team with a budget, another team that spent something, a cap of 3 or none, 2 makes, a kill | `TypeOK`, `DayStopsItsTeam`, `SessionsCounted`, `CapNeverUndercounts`, `TheOwnerIsTold` | holds, 1 430 000 states |

### The bounds, and why they are enough

* Projections: the races are between one process that holds an event and one that moves the
  cursor; two processes make every pair, three events make a gap of two, and two stops let the
  appender and its rescuer both fail. The proofs lift the bounds.
* Lifecycle: the sessions of a task (`MaxSessions`) bound everything agents do. Four let a task be
  built, reviewed, rejected or escalated and tried again; `MaxExtra = 1` lets the owner grant a try
  and room once. Two tasks share a folder or an agent's limit; a third adds no new relation.
  `AsksFor` and `OwnerMoves` are the statuses a run lets agents and the owner ask for: each run
  names the ones its question turns on, and together they take every action. With two tasks no
  contract is rewritten (`Rewritten = {}`): the sendings back to refining and what is written then
  are too many states for TLC. `FolderExclusiveAlways` covers every `Rewritten`, and needs the
  exception: a few steps from a task that the owner sends back lead to one that holds a folder
  nobody asked for.
* Slots: passing a team twice takes one call that holds the place, one that waits and two that
  pass: four. The clock goes to 2, so that a sleep may end before or after another call looks.

* Integration: the hazards are between one holder of the lock and one actor beside it, so one
  clashing commit, a second acceptance (what the first left behind) and a second pull request (a
  first that was closed or forgotten) make each case. One kill comes between every two calls;
  without the liveness property the instance also holds with two commits of others, one that
  clashes and one that does not (1.2 million states).
* Spending: two sessions are one that reads and one that spends between its reads; a second team
  matters only for the sum of the cap. `Costs = {1, 2}` against a budget of 2 lets the day be
  crossed by one charge or by two, and the cap of 3 by the same charge or a later one. It also
  holds with three sessions of two teams, three makes, one cost and no kill (7.8 million states).

* Epics: a breakdown and a close-out take two sessions; one more (`ReplanForIdle`) is not counted
  once they are spent. One rejection returns the epic, the next escalates it. Each hazard is one
  task that is filed, sent back or fetched late beside one that is not, and the tasks differ in
  what they are: a plan, a branch, none. Sendings back, kills, questions and the owner's moves are
  not bounded. The invariants also hold with two criteria and three tasks with branches (1.3
  million states).

`CHECK_DEADLOCK FALSE` stands where the system may really stop: tasks that are all over, calls that
are all served, sessions that all ran, an epic that is over. In Projections a process can always
open the log again; in Integration the tick always comes round.

### Fairness

* Projections: a process that is in a call goes on (weak fairness of its steps), one that is down
  is opened again at last and the tick catches up. Stops are bounded by `MaxStops`, which is the
  assumption that a process is not killed for ever.
* Lifecycle: strong fairness of the tick's rules and starts for each task, and of the end of a
  session. The turn (a `tokio` mutex, which is first in, first out) passes from tick to tick, and a
  rule that comes up again and again is run; a session's turns and time are limited. Nothing is
  assumed of what an agent does in its session nor of the owner.
* Slots: the lock is held for the few rounds of `dispatch`, so whoever waits for it comes to it
  (strong fairness of each call's steps); a session ends; time passes. Nobody has to call, to give
  up or to be refused.
* Integration: the tick comes round and is started again after a kill; whoever holds the lock
  goes on (weak fairness of `HolderNext`, in which a call may also fail); the tick has the lock at
  last, as it asks again in every round and the owner's commands end (strong fairness of
  `TakeLock("tick")`). Git and the disk do not fail at the same call for ever (strong fairness of
  `Finish`, `AddWorktree`, `MergeInWorktree`): the code tries those again each tick without an
  escalation, so nothing else ends them. Checks report, a merge queue moves, and the owner settles
  what waits for the owner only: a pull request is merged or closed, a branch without a remote
  is merged.
* Epics: the tick comes round and the criteria that run are at last recorded, though kills and
  sessions come between (strong fairness of `Rules` and `Runs`); a session ends, the owner answers.
  Nothing is assumed of the tasks, nor of who files them, closes out or moves the epic: a task may
  be parked for good (`MCLifecycleParked`) or planned anew again and again, and its epic waits with
  it. `EpicEnds` therefore speaks of epics whose tasks are `Settled`, all over and none awaiting its
  merge: what the epic's own rules must then bring to an end.
* Spending states no fairness: its properties are invariants.

## 4. Proofs

| Theorem | States, for every value of the constants |
|---|---|
| `ProjectionsProofs!TypeCorrect` | `Spec => []TypeOK`, whoever empties the tables beside whom |
| `ProjectionsProofs!AlwaysInOrder` | `BoardInOrder`: the board is a subsequence of the log, whoever empties the tables beside whom |
| `ProjectionsProofs!BoardCorrect` | `BoardIsThePrefix`, when nobody empties the tables beside a call of another process (`~Beside`) |
| `ProjectionsProofs!NobodyStepsOver` | `NoStepOver`, when nobody empties the tables beside a call of another process (`~Beside`) |
| `ProjectionsProofs!LeavesItsEventsAlways` | `LeavesItsEvents`, when nobody empties the tables beside a call of another process (`~Beside`) |
| `ProjectionsProofs!Refinement` | `Spec` implements `BoardReplay!Spec`, when nobody empties the tables beside a call of another process (`~Beside`) |
| `TaskLifecycleProofs!TypeCorrect` | `Spec => []TypeOK` |
| `TaskLifecycleProofs!TriesBoundedAlways` | `TriesBounded` |
| `TaskLifecycleProofs!MergesWhatItAcceptedAlways` | `MergesWhatItAccepted` |
| `TaskLifecycleProofs!OverIsOverAlways` | `OverIsOver` |
| `TaskLifecycleProofs!NoSelfReviewAlways` | `NoSelfReview` |
| `TaskLifecycleProofs!FolderExclusiveAlways` | `FolderExclusive`: of the tasks whose contract kept the role they were assigned for |
| `TaskLifecycleProofs!WorksUpToItsLimitAlways` | `WorksUpToItsLimit` |
| `SlotsProofs!TypeCorrect` | `Spec => []TypeOK` |
| `SlotsProofs!PlacesCountedAlways` | `PlacesCounted` |
| `SlotsProofs!NoneStartsPastTheLimitAlways` | `NoneStartsPastTheLimit` |
| `SlotsProofs!NoIdlePlaceAlways` | `NoIdlePlace` |
| `SlotsProofs!InTurnAlways` | `InTurn` |
| `IntegrationProofs!TypeCorrect` | `Spec => []TypeOK` |
| `IntegrationProofs!Implements` | `LandingHonoured`: `Spec` implements `Landing!Spec` |
| `IntegrationProofs!OnePullRequest` | `OneOpenPullRequest` |
| `IntegrationProofs!MergesPassed` | `MergesWhatPassed`, which excepts a merge decided on before the checks were registered (section 5) |
| `IntegrationProofs!DocumentsStay` | `DocumentsKept`, which excepts what the owner's checkout removes later (section 5) |
| `IntegrationProofs!NothingLeft` | `NothingLeftBehind` |
| `SpendingProofs!TypeCorrect` | `Spec => []TypeOK` |
| `SpendingProofs!DayStopsItsTeamAlways` | `DayStopsItsTeam`, which excepts the sessions of `replan_for_idle` on a spent day (section 5) |
| `SpendingProofs!SessionsCountedAlways` | `SessionsCounted` |
| `SpendingProofs!TheOwnerIsToldAlways` | `TheOwnerIsTold` |
| `SpendingProofs!CapNeverUndercountsAlways` | `CapNeverUndercounts` |
| `SpendingProofs!CapBoundsTheDaysAlways` | `CapBoundsTheDays`: below the cap, the days of all teams in their logs add up to less than it |
| `EpicsProofs!TypeCorrect` | `Spec => []TypeOK` |
| `EpicsProofs!AcceptedIsDoneAlways` | `AcceptedIsDone` |
| `EpicsProofs!RunOnTheIntegratedWorkAlways` | `RunOnTheIntegratedWork` |

**Projections.** `BoardIsThePrefix` is not inductive: a process past the gap check could hold any
event. `NoStepOver` is what the check leaves behind: it never holds one beyond the one after the
cursor, and the cursor never goes back. That is where `~Beside` is needed: emptying sets the
cursor back under whoever is in a call. The refinement is the identity on `log` and `board`: an
append is `Record`, an application in order is `Project`, emptying is `Forget`, everything else
stutters. `LeavesItsEvents` follows from the same invariant: a call that ends holds no event beyond
the one after the cursor, and its last step takes that one in.

With `Beside` the board may miss events, and `AlwaysInOrder` says what holds. Its witness is the
sequence of the positions in the log the board took its events from: an event is applied only when
it is after the cursor, so each step that applies one extends the witness at its end. Emptying
beside a call may therefore lose events; it applies none twice, nor one after a later one.

**TaskLifecycle.** Some thirty actions would make every proof thirty cases. One lemma, `StepShape`,
shows that each step changes the board in one of five ways (nothing the invariants see, a contract
rewritten, a merge, a hand-over, a move the governor's table allows), and each invariant is proved
over the five. What a move may be comes from `OpensMeans`, which goes through the table's rows
once. `OverIsOver` and `FolderExclusive` need `MergesWhatItAccepted`: what comes back from
`accepted` has a branch, so it has no private folder to take along. `FolderStep` is the rest of
`FolderExclusive`: a task that holds a folder after a step, and was not rewritten, held it before or
was assigned in that step, and then no task had the folder, a rewritten one included.

`WorksUpToItsLimit` counts: of the tasks an agent holds, those with fewer than `Limit` before them
are `Limit`, or all. The code has no such count; `within_limit` asks for one task how many of its
agent began before it. `FirstOfAnOrder` shows that by how many come before it each element of a
finite ordered set has a rank of its own, and the ranks are 0 to the size less one; so those of rank
below the limit are as many as the limit. What makes it an order is `BeganInOrder`, the invariant:
`began` is a strict total order of the tasks that count, and of nothing else. For each of the five
ways of `StepShape`, `BeganStep` says what becomes of it.

**Slots.** `PlacesCounted` is inductive with the types. `NoneStartsPastTheLimit` follows from it
and from `Serve` being the only step that gives. `NoIdlePlace` needs `QueuedIsInQueue`: whoever
waits stands in a queue `dispatch` knows of, so that an empty round means nobody waits. `InTurn`
needs `PassedIsBefore`: a team passed once comes before the one that passed it in what is left of
the round, also when teams join the round.

**Integration.** The invariant is a conjunction of named parts, each proved over the steps that can
disturb it: `Books` (what is recorded no longer awaits), `Forwarded` and `Arrival` (at every step
from which a record follows, the work of this round is in the integration branch, and a pull
request that merged had it), `OneOpen`, `Passed` (a head that is held in `mem` while it may be
merged is one whose checks were read, or `early`), `Kept` (what git took out of the checkout back on
the disk before the record) and
`Owed` (what follows a record is the step in hand, or was told). `Implements` needs that commits
only ever come into the integration branches: `Landed` is never unmade but by a new acceptance.
Assumed are `CasesAssumption`, `ClashAssumption` and `BoundsAssumption`; the bounds are any
naturals.

**Spending.** The invariant is the types with `StartRecorded` and `OnlyTheDrivenRun` (a session that
lives has its start in the log and its team is driven), `SpentStays` (a session whose charge is in
hand found the day as it was) and `CountedFirst` (an end follows its cost). `DayStopsItsTeam`
follows because whoever crossed the budget still owes the second stop until it takes the turn, and
whoever holds the turn then is nobody. A tick that had read the day before it was spent is one of
those that stop reaches; one that never read it is in `unasked` from its first step.

`CapNeverUndercounts` compares the count toward the cap with the days of driven teams, and a charge
is between the two while a session has recorded its event and not yet added it. `Pending` is what a
team's sessions have in hand so, a sum over sessions, and `Covered` the invariant: the day of a team
whose orchestrator is made is at most what was noted of it and what it has pending. One step changes
one session's share, so the proof needs that a sum changes by what its one changed term does
(`SumChanges`), grows with its terms (`SumMonotonic`) and is zero when they are (`SumOfZeros`).
`Sums` proves these and the like for sets of every size. Induction with an operator as its parameter
is out of the provers' reach (below), so `Sums` takes it in its set form: if some subset had no
total, a smallest one would (`SmallestSubset`, from `FS_StrictSubsetOrderingWellFounded`), and
taking one element out of that gives a contradiction. `CapBoundsTheDays` is the corollary an owner
would ask for: once every charge in hand is counted, and nothing was broken off, the sum of the days
is below the cap as long as the cap does not say it is reached.

**Epics.** `AcceptedIsDone` speaks of an accepted epic only; `ClosedIsDone` says the same from the
close-out on, so that no task but an excused one can be accepted, or sent back, while the criteria
run. `RunsAtTheWork` says of the head that was read what `RunOnTheIntegratedWork` says of a result,
and begins with `WorkIsSomewhere`: accepted work awaits its merge, is behind or is in the head, and
`verifying_epic` waits until nothing awaits. Eight of the moves of the epic are one lemma,
`MoveInv`, as they touch neither tasks nor runs.

The assumptions are the named `ASSUME`s of the modules: limits are naturals, functions have their
domains, `NoLimit` is no number; tasks, teams, sessions and calls are finitely many, as the rows of
a table are; no team's day is spent before it begins. How many there are is left open.

**Only model-checked**: the liveness properties (`EveryEventProjected`, `WorkEnds`,
`CancelledDependencyIsReplanned`, `EveryCallServed`, `IntegrationEnds`, `EpicEnds`), which TLAPS
does not do under fairness, and that the three runs of section 5 end in a violation. Every invariant
and action property of the passing runs has a theorem. The library's induction theorems that take an
operator as a parameter cannot be used with the provers installed; nothing here needs them.

## 5. Where the code and its comments differ

Three runs end in a violation; `PROJECT.json` (`findings`) quotes the comments.

1. `MCLifecycleParked`: a refusal is taken to stand until the next move, and sessions running out
   change the answer: the task is passed over from then on.
2. `MCIntegrationUnpushed`: killed between bringing a branch up to date and pushing it, the next
   tick takes the forge's answer for an old one, and nothing pushes.
3. `MCIntegrationCleanup`: rule 1 removes, by the row it read before and without the lock, the
   worktree with the merge the owner's `integrate` is about to send back.

Met while modelling, and in the models without a run of their own. Store, lifecycle, places:

* `projections.rs:170` says dropping the tables and replaying the log is always correct; it is not
  while another process stands between its gap check and its transaction (`projections.rs:208`):
  `NoStepOver` fails with `Beside = TRUE`. The harm is bounded: `AlwaysInOrder` shows that events
  can be skipped, but none is applied twice or out of order.
* A reviewer's answer recorded after its task went back to work counts for the next iteration
  (`work.rs:268` records it, `transitions.rs:2036` reads everything since the move).
* The owner may move a task Catervas verifies alone; the decision (`verify.rs:250`), taken on the
  status from before (`verify.rs:176`), then escalates it from wherever it is.
* A call that looked at the account's sleep before it fell asleep (`slots.rs:170`) is given a place
  while it sleeps (`slots.rs:223`).
* `task_status.rs:18` says no transition leaves `accepted`; the table's row from `accepted` to
  `assigned` does, for a merge that conflicts. `OverIsOver` states what is true instead.
* `gates.rs:320` says one piece of work touches a private folder at a time; a task the owner sends
  back to `refining` keeps its assignee while `write_contract` gives it a role with such a folder
  (`contracts.rs:146`), and no gate asks whether the folder is free: it holds one that another task
  holds too, and reaches `in_progress` by the owner's resolution. `FolderExclusive` excepts it
  (`rewritten`) until it is assigned again.
* `rules.rs:1403` says a `ready` task starts no session; rule 8's plan session is about one, and
  its cost is the task's.
* `human.rs:1671` says the owner sends a result back once the review passed; a review recorded as
  failed whose criterion is answered anew waits for the owner's acceptance only.
* `rules.rs:1417` says a task sent back is refined before it is judged spent; without sessions
  left it is neither.
* The room or the tries the owner grants with a resolution are events of their own: room stays
  granted when the move is refused (`human.rs:1784`).

Integration:

* `docs/SPEC.md:693` has the owner confirm that Catervas "merges only when GitHub's checks pass",
  and the decision 0073 (Decision 3) that it merges when all of them have. The forge has no check of
  a head until the first one registers, and `forge.rs:242-256` reads that as `Checks::None`, a
  repository without checks; some registered and passed, it reads `Passed`. `merge_when_checks_pass`
  merges on either (`integrate.rs:777`), pinned to a head nothing has checked. `docs/SPEC.md:727`
  accepts that there is no wait for checks to register in a repository without any; the code cannot
  tell one from a head that was just pushed. `MergesWhatPassed` excepts it (`early`).
* `integrate.rs:721-723` says a storage change is recorded after the local branch is brought up, so
  that git cannot remove the documents after Catervas puts them back. With another branch checked
  out only the ref moves: nothing is taken out, `restore_taken_out` writes nothing
  (`local_documents.rs:514`), the change is recorded (`integrate.rs:724-726`), and the owner's next
  checkout of the branch removes the documents. `DocumentsKept` excepts it (`switched`).
* A kill between the record and the fetch, between a folder change's record and its filing, or
  between a closed change's escalation and the revert of the owner's choice leaves the second
  undone: what is recorded is not looked at again. `NothingLeftBehind` excludes kills for that.
* A pull request the owner closed is escalated; a storage change's choice is reverted then, and
  stays reverted when the owner reopens and merges it.
* After an answer of the merge that was lost, Catervas's own merge is read as `merged` and
  recorded as the owner's; a pull request merged by the owner before it was noted likewise.
* `land_here` killed within its merge leaves the owner's checkout unmerged.

Spending:

* `docs/SPEC.md:485` says no session starts once the day is spent; `replan_for_idle` reads neither
  the day nor the cap (`requests.rs:903-985`, called at `rules.rs:321-327`). Its session starts on a
  spent day, and as the day was crossed before, nobody asks it to stop. `DayStopsItsTeam` excepts it
  (`unasked`).
* `docs/SPEC.md:493` says that no session starts once the cap is reached; one that waits for its
  place was checked before, and starts. `note_spend` stops the others once, when the cap is
  crossed, where `session.rs:236` says it does as for the team's own day, which stops them again.
* `cost.rs:409` says a budget that is exhausted is recorded once, when it was crossed; two
  sessions may both find it crossed, and a charge broken off leaves it unrecorded (`lost`).
* The doc of `record_session_cost` says nothing is recorded when it fails; when the projection
  fails the event stands, and the session's zero cost follows it.
* A kill, or prices that cannot be read, between the two events of `recover` leaves a session
  without its cost: it has ended, so no later recovery looks at it (`cut`).
* A team's day is added to the cap again each time its orchestrator is made, and not at all when
  it cannot be read (`unread`): the first stops too early, the second too late.

Epics:

* `docs/SPEC.md:450` says an epic's criteria are meant for the integrated work, and the decision
  0013 that the run waits until every accepted task is integrated. A task sent back by its merge
  while the epic is `verifying` awaits nothing (`integrate.rs:925`), and one recorded before the
  local branch is fetched is not in its head: the epic is verified, and accepted, without their
  work (`excused`). Nor is the gate of `docs/SPEC.md:768`, item 4, asked again.
* A task that is parked, or planned anew again and again, keeps its epic in `in_progress`:
  `replan_for_idle`, below, and `MCLifecycleParked` are two ways. `EpicEnds` does not say otherwise.
* A task filed by a `create_task` that read the status before the close-out stays a draft under an
  epic that is over: the Definition of Ready asks for a parent in progress.
* `docs/SPEC.md:485` says a task's dollars or a day's budget that was crossed stops the next
  session; `replan_for_idle` asks neither, nor whether the epic waits for its owner
  (`requests.rs:937`). Its session may send the tasks back to `refining`, ask the owner and end;
  made ready again, they are a change, and the next such session starts: an epic that is spent
  goes round, and the budget rule passes over it while it waits.
* Criteria that run while the owner moves the epic out of `verifying` and back are recorded into
  the second verification, at the first one's head (`overtaken`).

## 6. What is left out of the modelled parts

* The order of the rules within a tick: any order is allowed, which the code's is one of.
* A request, a command and a tool call of the lifecycle are one step each: what is left when one
  fails between two of its events is planned.
* In `TaskLifecycle`: epics, tasks given to a person, lanes, the Designer's exception, previews,
  denied permissions, questions and waiting on the owner, autopilot's decision sessions, a second
  triage that resets the failed attempts.
* In `TaskLifecycle` dollars are one flag (`Priced`, `broke`) and a merge succeeds or sends back:
  `Spending` and `Integration` have the detail.
* What the contract says is one Boolean (`sound`) and what a criterion is one of three kinds.
* Epics: those of a Scrum Master, those somebody reviews, the Catervafication's, what comes before
  `ready`, room for the epic and an agent that is asleep (its rules may come later), autopilot's
  holds, dollars (a spent epic is one whose sessions are), changes of the team as a reason to plan
  anew, and goals and milestones. Two calls that file tasks at once are one after the other.
* Integration: the scan of the repository after a record, members (other repositories of the
  project), documents that land without a branch, and whom a merge is attributed to. An append
  that fails is a kill.
* Spending: midnight, the limits of one session, the owner's own stops, a budget that is changed,
  and a failing append. How places are given is `Slots`.
* Not modelled at all: the components `PROJECT.json` lists as `not_modelled`, with the reason. The
  larger part of the repository is text, input and output, or user interface.

## 7. Plan

1. Done, with the theorems of section 4: Projections (six, the refinement among them), Governor and
   TaskLifecycle (seven), Slots (five), Integration (six, the refinement among them), Spending
   (six), Epics (three).
2. Requests and commands as the several events they append, with a failure between two; the
   contract's file beside the log (`transitions.rs:525`, `contracts.rs:146`, `human.rs:1784`).
3. Run lock and relay: which process drives a project, and what a command of another one sees.
4. Questions and autopilot; epics that somebody reviews; goals and milestones.
5. Proofs for each of these.
6. An abstract specification of what `Slots` promises (so many places, taken in turns), with
   `Slots` shown to implement it.
