------------------------------- MODULE Spending -------------------------------
(***************************************************************************)
(* What the sessions of one UTC day cost, and who is stopped for it        *)
(* (crates/runtime/src/orchestrator/session.rs, with cost.rs, recover.rs   *)
(* and the spending part of slots.rs).                                     *)
(*                                                                         *)
(* A team has a budget for the day, counted from its log; the teams of one *)
(* `catervas serve` have a cap together, counted in memory.  A tick reads  *)
(* both (but for one kind of session) while it holds its team's turn,      *)
(* registers its session and gives the turn back; the session waits for    *)
(* its place, runs, is charged for each usage it reports, and takes the    *)
(* turn again when it has ended.  Any number of sessions do so at once, on *)
(* threads of their own: each read, each event and each lock is a step.    *)
(* The serve may be killed between any two.                                *)
(*                                                                         *)
(* How places are given is the subject of Slots: here a session that waits *)
(* for one may be given it at any time.                                    *)
(***************************************************************************)
EXTENDS Naturals, FiniteSets, Functions

CONSTANTS
  Teams,       \* the teams of the serve
  Sessions,    \* the sessions, each run once
  TeamOf,      \* TeamOf[s]: the team of session s
  Nobody,      \* no session
  Budget,      \* Budget[t]: `daily_usd` of team t, or NoLimit
  Caps,        \* what the owner may set the cap to
  NoLimit,     \* no budget, no cap
  Earlier,     \* Earlier[t]: what team t spent today before this serve
  Costs,       \* what a usage may cost
  MaxReports,  \* bound: how many usages a session reports
  MaxMakes,    \* bound: how often an orchestrator is made
  MaxKills     \* bound: how often the serve is killed

ASSUME SessionsAssumption ==
  /\ IsFiniteSet(Teams) /\ IsFiniteSet(Sessions)
  /\ TeamOf \in [Sessions -> Teams] /\ Nobody \notin Sessions
ASSUME LimitsAssumption ==
  /\ NoLimit \notin Nat
  /\ Budget \in [Teams -> (Nat \ {0}) \cup {NoLimit}]
  /\ Caps # {} /\ Caps \subseteq (Nat \ {0}) \cup {NoLimit}
ASSUME CostsAssumption ==
  /\ Costs \subseteq Nat
  /\ Earlier \in [Teams -> Nat]
  /\ \A t \in Teams : Budget[t] # NoLimit => Earlier[t] < Budget[t]
ASSUME BoundsAssumption == MaxReports \in Nat /\ MaxMakes \in Nat /\ MaxKills \in Nat

VARIABLES
  \* the logs
  started,     \* the sessions with a `session.started`
  ended,       \* those with a `session.ended`
  counted,     \* those with a `cost.recorded`
  day,         \* day[t]: the costs of the day, as the projection adds them up
  told,        \* the teams with a `budget.exhausted` of the day
  \* the places
  noted,       \* noted[t]: what `record_spend` counted for team t
  cap,         \* `daily_cap_usd`
  \* the process
  drive,       \* drive[t]: "down", "recovering", "up" or "stopping"
  mending,     \* mending[t]: whose end `recover` recorded and whom it charges next
  turn,        \* turn[t]: the session whose tick holds the turn of team t
  at,          \* at[s]: how far session s is
  reports,     \* reports[s]: how many usages it reported
  usd,         \* usd[s]: what its last usage was charged
  before,      \* the sessions whose day was spent before their usage was charged
  was,         \* those that found the cap reached before their cost was counted
  crossed,     \* those whose usage crossed the day's budget
  stop,        \* those the daemon was asked to stop
  aborted,     \* those whose program was told to end
  failed,      \* those whose tick fails
  \* bounds and histories
  makes, kills,
  lost,        \* the teams whose charge of a usage was broken off
  cut,         \* the sessions whose recovery broke off halfway
  unread,      \* the teams made on a day that could not be read
  unasked      \* the sessions a tick started on a spent day, without asking

logVars == <<started, ended, counted, day, told>>
slotVars == <<noted, cap>>
driveVars == <<drive, mending, makes, kills>>
ownVars == <<reports, usd, before, was, crossed, aborted>>
histVars == <<lost, cut, unread, unasked>>
vars == <<logVars, slotVars, driveVars, turn, at, ownVars, stop, failed, histVars>>

\* "none": not asked for.  "starting": its tick decided on it.  "waiting": it
\* is registered, and waits for its place.  "running": its events are read.  From
\* "reporting" to "crossing": a usage is charged.  "closing": its program ended.
\* "counting": it is counted.  "returning": its end is recorded, and it waits for
\* the turn.  "over": it is no longer registered.
Noting == {"noting", "adding", "added"}
Charging == {"reporting", "judging", "crossing"} \cup Noting
Running == {"running"} \cup Charging
Registered == {"waiting", "closing", "counting", "returning"} \cup Running
Live == {"starting"} \cup Registered
Places == {"none", "over"} \cup Live

Of(t) == {s \in Sessions : TeamOf[s] = t}
Goto(s, place) == at' = [at EXCEPT ![s] = place]

-----------------------------------------------------------------------------
(* The two limits.                                                         *)

\* `check_budgets` of the day: a budget is spent when it is reached.
DaySpent(t) == Budget[t] # NoLimit /\ day[t] >= Budget[t]

\* `day_capped`: what every team together spent has reached the cap.
Capped == cap # NoLimit /\ SumFunction(noted) >= cap

\* `stop_the_others`, if there is a reason: every session the daemon of the team
\* answers for is asked to stop, but this one.
StopOthers(s, reason) ==
  stop' = IF reason THEN stop \cup {o \in Of(TeamOf[s]) \ {s} : at[o] \in Registered}
                    ELSE stop

Init ==
  /\ started = {} /\ ended = {} /\ counted = {} /\ told = {}
  /\ day = Earlier /\ noted = [t \in Teams |-> 0]
  /\ cap \in Caps
  /\ drive = [t \in Teams |-> "down"]
  /\ mending = [t \in Teams |-> Nobody] /\ turn = [t \in Teams |-> Nobody]
  /\ at = [s \in Sessions |-> "none"]
  /\ reports = [s \in Sessions |-> 0] /\ usd = [s \in Sessions |-> 0]
  /\ before = {} /\ was = {} /\ crossed = {} /\ stop = {} /\ aborted = {} /\ failed = {}
  /\ makes = 0 /\ kills = 0 /\ lost = {} /\ cut = {} /\ unread = {} /\ unasked = {}

-----------------------------------------------------------------------------
(* An orchestrator is made and recovers.                                   *)

\* Mistake: a team's day is not counted when its orchestrator is made.
MakeFromNothing(t) ==
  /\ drive[t] = "down" /\ makes < MaxMakes
  /\ makes' = makes + 1
  /\ drive' = [drive EXCEPT ![t] = "recovering"]
  /\ UNCHANGED <<logVars, slotVars, mending, kills, turn, at, ownVars, stop, failed, histVars>>

\* `Orchestrator::new`: what the team spent before counts toward the cap, or
\* nothing when it cannot be read.
Make(t) ==
  /\ drive[t] = "down" /\ makes < MaxMakes
  /\ makes' = makes + 1
  /\ drive' = [drive EXCEPT ![t] = "recovering"]
  /\ \/ noted' = [noted EXCEPT ![t] = @ + day[t]] /\ unread' = unread \ {t}
     \/ UNCHANGED noted /\ unread' = unread \cup {t}
  /\ UNCHANGED <<logVars, cap, mending, kills, turn, at, ownVars, stop, failed,
                 lost, cut, unasked>>

\* `recover`: the end of a session a killed run left open ...
RecoverEnd(t) ==
  /\ drive[t] = "recovering" /\ mending[t] = Nobody
  /\ \E s \in Of(t) \cap started :
       /\ s \notin ended
       /\ ended' = ended \cup {s}
       /\ mending' = [mending EXCEPT ![t] = IF s \in counted THEN Nobody ELSE s]
  /\ UNCHANGED <<started, counted, day, told, slotVars, drive, makes, kills, turn, at,
                 ownVars, stop, failed, histVars>>

\* ... and its cost, nothing, if none was recorded.
RecoverCost(t) ==
  /\ mending[t] # Nobody
  /\ counted' = counted \cup {mending[t]}
  /\ mending' = [mending EXCEPT ![t] = Nobody]
  /\ UNCHANGED <<started, ended, day, told, slotVars, drive, makes, kills, turn, at,
                 ownVars, stop, failed, histVars>>

\* A read of the log, or of the prices for that cost, fails: nothing is driven.
RecoverFails(t) ==
  /\ drive[t] = "recovering"
  /\ drive' = [drive EXCEPT ![t] = "down"]
  /\ mending' = [mending EXCEPT ![t] = Nobody]
  /\ cut' = cut \cup ({mending[t]} \ {Nobody})
  /\ UNCHANGED <<logVars, slotVars, makes, kills, turn, at, ownVars, stop, failed,
                 lost, unread, unasked>>

\* Every session of the log has ended: the ticks begin.
Recovered(t) ==
  /\ drive[t] = "recovering" /\ mending[t] = Nobody
  /\ Of(t) \cap started \subseteq ended
  /\ drive' = [drive EXCEPT ![t] = "up"]
  /\ UNCHANGED <<logVars, slotVars, mending, makes, kills, turn, at, ownVars, stop, failed, histVars>>

-----------------------------------------------------------------------------
(* A tick starts a session.                                                *)

\* A tick of a driven team takes the turn for a session.
TakeTurn(s) ==
  /\ drive[TeamOf[s]] = "up"
  /\ turn[TeamOf[s]] = Nobody
  /\ at[s] = "none"
  /\ turn' = [turn EXCEPT ![TeamOf[s]] = s]
  /\ Goto(s, "starting")

\* `spent` or `day_is_spent`, under the turn.
TickChecks(s) ==
  /\ ~DaySpent(TeamOf[s]) /\ ~Capped
  /\ TakeTurn(s)
  /\ UNCHANGED <<logVars, slotVars, driveVars, ownVars, stop, failed, histVars>>

\* `replan_for_idle`: its plan session is started without asking for either budget.
ReplanForIdle(s) ==
  /\ TakeTurn(s)
  /\ unasked' = IF DaySpent(TeamOf[s]) THEN unasked \cup {s} ELSE unasked
  /\ UNCHANGED <<logVars, slotVars, driveVars, ownVars, stop, failed, lost, cut, unread>>

\* Mistake: the turn is kept while the session runs.
RegisterAndKeep(s) ==
  /\ at[s] = "starting"
  /\ Goto(s, "waiting")
  /\ UNCHANGED <<logVars, slotVars, driveVars, turn, ownVars, stop, failed, histVars>>

\* `register_session` and `session_runs`: the turn is given back.
Register(s) ==
  /\ at[s] = "starting"
  /\ Goto(s, "waiting")
  /\ turn' = [turn EXCEPT ![TeamOf[s]] = Nobody]
  /\ UNCHANGED <<logVars, slotVars, driveVars, ownVars, stop, failed, histVars>>

\* `drive` is given its place.  The prices are read, or are not; the start is
\* recorded; the program starts, or does not.
Start(s) ==
  /\ at[s] = "waiting"
  /\ \/ Goto(s, "returning") /\ failed' = failed \cup {s} /\ UNCHANGED started
     \/ Goto(s, "running") /\ started' = started \cup {s} /\ UNCHANGED failed
     \/ Goto(s, "closing") /\ started' = started \cup {s} /\ failed' = failed \cup {s}
  /\ UNCHANGED <<ended, counted, day, told, slotVars, driveVars, turn, ownVars, stop, histVars>>

-----------------------------------------------------------------------------
(* `read_to_end`.                                                          *)

\* The daemon was asked to stop it: aborted, once.
Abort(s) ==
  /\ at[s] = "running" /\ s \in stop \ aborted
  /\ aborted' = aborted \cup {s}
  /\ UNCHANGED <<logVars, slotVars, driveVars, turn, at, reports, usd, before, was, crossed,
                 stop, failed, histVars>>

\* A usage is reported: the budgets before it.
Report(s) ==
  /\ at[s] = "running" /\ reports[s] < MaxReports
  /\ reports' = [reports EXCEPT ![s] = @ + 1]
  /\ before' = IF DaySpent(TeamOf[s]) THEN before \cup {s} ELSE before
  /\ Goto(s, "reporting")
  /\ UNCHANGED <<logVars, slotVars, driveVars, turn, usd, was, crossed, aborted,
                 stop, failed, histVars>>

\* Mistake: the budgets before a usage are read when it is charged already.
ChargeFirst(s) ==
  /\ at[s] = "reporting"
  /\ \E cost \in Costs :
       /\ day' = [day EXCEPT ![TeamOf[s]] = @ + cost]
       /\ usd' = [usd EXCEPT ![s] = cost]
  /\ before' = IF Budget[TeamOf[s]] # NoLimit /\ day'[TeamOf[s]] >= Budget[TeamOf[s]]
                 THEN before \cup {s} ELSE before
  /\ counted' = counted \cup {s}
  /\ Goto(s, "noting")
  /\ UNCHANGED <<started, ended, told, slotVars, driveVars, turn, reports, was, crossed, aborted,
                 stop, failed, histVars>>

\* `record_session_cost`: the event, and the projection of it.  When that fails
\* the event is there, and `catch_up` projects it later; the session fails.
Charge(s) ==
  /\ at[s] = "reporting"
  /\ \E cost \in Costs :
       /\ day' = [day EXCEPT ![TeamOf[s]] = @ + cost]
       /\ usd' = [usd EXCEPT ![s] = cost]
  /\ counted' = counted \cup {s}
  /\ \/ Goto(s, "noting") /\ UNCHANGED <<failed, lost>>
     \/ /\ Goto(s, "closing") /\ failed' = failed \cup {s}
        /\ lost' = lost \cup {TeamOf[s]}
  /\ UNCHANGED <<started, ended, told, slotVars, driveVars, turn, reports, before, was, crossed,
                 aborted, stop, cut, unread, unasked>>

\* `note_spend`: whether the cap is reached, ...
NoteWas(s) ==
  /\ at[s] = "noting"
  /\ was' = IF Capped THEN was \cup {s} ELSE was
  /\ Goto(s, "adding")
  /\ UNCHANGED <<logVars, slotVars, driveVars, turn, reports, usd, before, crossed, aborted,
                 stop, failed, histVars>>

\* ... `record_spend`, ...
RecordSpend(s) ==
  /\ at[s] = "adding"
  /\ noted' = [noted EXCEPT ![TeamOf[s]] = @ + usd[s]]
  /\ usd' = [usd EXCEPT ![s] = 0]
  /\ Goto(s, "added")
  /\ UNCHANGED <<logVars, cap, driveVars, turn, reports, before, was, crossed, aborted, stop,
                 failed, histVars>>

\* ... and whether it is reached now.
NoteCapped(s) ==
  /\ at[s] = "added"
  /\ StopOthers(s, s \notin was /\ Capped)
  /\ was' = was \ {s}
  /\ Goto(s, "judging")
  /\ UNCHANGED <<logVars, slotVars, driveVars, turn, reports, usd, before, crossed, aborted,
                 failed, histVars>>

\* The budgets after it: `record_exhaustion` records what they crossed.
Judge(s) ==
  /\ at[s] = "judging"
  /\ IF s \notin before /\ DaySpent(TeamOf[s])
       THEN /\ told' = told \cup {TeamOf[s]}
            /\ crossed' = crossed \cup {s}
            /\ Goto(s, "crossing")
       ELSE UNCHANGED <<told, crossed>> /\ Goto(s, "running")
  /\ before' = before \ {s}
  /\ UNCHANGED <<started, ended, counted, day, slotVars, driveVars, turn, reports, usd,
                 was, aborted, stop, failed, histVars>>

\* `stop_when_the_day_is_crossed`, and the session's own abort.
Cross(s) ==
  /\ at[s] = "crossing"
  /\ StopOthers(s, TRUE)
  /\ aborted' = aborted \cup {s}
  /\ Goto(s, "running")
  /\ UNCHANGED <<logVars, slotVars, driveVars, turn, reports, usd, before, was, crossed,
                 failed, histVars>>

\* A read of the budgets before or after, or an abort, fails: the program is told
\* to end, and the tick will fail.
Errs(s) ==
  /\ at[s] \in {"running", "judging"}
  /\ failed' = failed \cup {s}
  /\ aborted' = aborted \cup {s}
  /\ lost' = IF at[s] = "judging" THEN lost \cup {TeamOf[s]} ELSE lost
  /\ Goto(s, "closing")
  /\ UNCHANGED <<logVars, slotVars, driveVars, turn, reports, usd, before, was, crossed,
                 stop, cut, unread, unasked>>

\* The program's events end.
Ends(s) ==
  /\ at[s] = "running"
  /\ Goto(s, "closing")
  /\ UNCHANGED <<logVars, slotVars, driveVars, turn, ownVars, stop, failed, histVars>>

-----------------------------------------------------------------------------
(* The end of `drive`, and of `run_session`.                               *)

\* Mistake: a session that reported nothing is not counted.
CountReports(s) ==
  /\ at[s] = "closing"
  /\ Goto(s, "counting")
  /\ UNCHANGED <<logVars, slotVars, driveVars, turn, ownVars, stop, failed, histVars>>

\* The zero cost of a session that reported nothing.  Its `note_spend` adds
\* nothing, and still stops the others when the cap is reached meanwhile.
CountZero(s) ==
  /\ at[s] = "closing"
  /\ counted' = counted \cup {s}
  /\ \E meanwhile \in BOOLEAN : StopOthers(s, meanwhile /\ s \notin counted /\ Capped)
  /\ Goto(s, "counting")
  /\ UNCHANGED <<started, ended, day, told, slotVars, driveVars, turn, ownVars, failed, histVars>>

\* `record_session_ended`.
RecordEnd(s) ==
  /\ at[s] = "counting"
  /\ ended' = ended \cup {s}
  /\ Goto(s, "returning")
  /\ UNCHANGED <<started, counted, day, told, slotVars, driveVars, turn, ownVars, stop, failed, histVars>>

\* What a session kept for itself goes with it.
Forget(gone) ==
  /\ reports' = [s \in Sessions |-> IF s \in gone THEN 0 ELSE reports[s]]
  /\ usd' = [s \in Sessions |-> IF s \in gone THEN 0 ELSE usd[s]]
  /\ before' = before \ gone /\ was' = was \ gone
  /\ crossed' = crossed \ gone /\ aborted' = aborted \ gone

\* Mistake: the others are stopped when the budget is crossed, and not again.
ReturnQuietly(s) ==
  /\ at[s] = "returning" /\ turn[TeamOf[s]] = Nobody
  /\ Goto(s, "over")
  /\ Forget({s})
  /\ UNCHANGED <<logVars, slotVars, driveVars, turn, stop, failed, histVars>>

\* `session_ran`: the turn is taken, and with it a session a tick started on
\* budgets read before is registered by now: stopped too, unless this one failed.
\* `end_session`.
Return(s) ==
  /\ at[s] = "returning" /\ turn[TeamOf[s]] = Nobody
  /\ StopOthers(s, s \in crossed \ failed)
  /\ Goto(s, "over")
  /\ Forget({s})
  /\ UNCHANGED <<logVars, slotVars, driveVars, turn, failed, histVars>>

-----------------------------------------------------------------------------
(* The run's end.                                                          *)

\* `drain`: a tick failed; or the owner stops the team.
StopDrive(t) ==
  /\ drive[t] = "up"
  /\ drive' = [drive EXCEPT ![t] = "stopping"]
  /\ UNCHANGED <<logVars, slotVars, mending, makes, kills, turn, at, ownVars, stop, failed, histVars>>

\* The sessions have all ended.
Finished(t) ==
  /\ drive[t] = "stopping"
  /\ \A s \in Of(t) : at[s] \notin Live
  /\ drive' = [drive EXCEPT ![t] = "down"]
  /\ failed' = failed \ Of(t)
  /\ UNCHANGED <<logVars, slotVars, mending, makes, kills, turn, at, ownVars, stop, histVars>>

\* The owner sets the cap.
SetDailyCap(c) ==
  /\ cap' = c
  /\ UNCHANGED <<logVars, noted, driveVars, turn, at, ownVars, stop, failed, histVars>>

\* The serve is killed: the logs stay.
Kill ==
  /\ kills < MaxKills
  /\ kills' = kills + 1
  /\ drive' = [t \in Teams |-> "down"]
  /\ mending' = [t \in Teams |-> Nobody] /\ turn' = [t \in Teams |-> Nobody]
  /\ noted' = [t \in Teams |-> 0]
  /\ at' = [s \in Sessions |-> IF at[s] \in Live THEN "over" ELSE at[s]]
  /\ Forget(Sessions) /\ stop' = {} /\ failed' = {}
  /\ lost' = lost \cup {TeamOf[s] : s \in {o \in Sessions \ before : at[o] \in Noting \cup {"judging"}}}
  /\ cut' = cut \cup {s \in Sessions : mending[TeamOf[s]] = s}
  /\ UNCHANGED <<logVars, cap, makes, unread, unasked>>

-----------------------------------------------------------------------------
TickNext(s) == TickChecks(s) \/ ReplanForIdle(s) \/ Register(s)

SessionNext(s) ==
  \/ Start(s) \/ Abort(s) \/ Report(s) \/ Charge(s)
  \/ NoteWas(s) \/ RecordSpend(s) \/ NoteCapped(s)
  \/ Judge(s) \/ Cross(s) \/ Errs(s) \/ Ends(s)
  \/ CountZero(s) \/ RecordEnd(s) \/ Return(s)

TeamNext(t) ==
  \/ Make(t) \/ RecoverEnd(t) \/ RecoverCost(t) \/ RecoverFails(t) \/ Recovered(t)
  \/ StopDrive(t) \/ Finished(t)

Next ==
  \/ \E s \in Sessions : TickNext(s) \/ SessionNext(s)
  \/ \E t \in Teams : TeamNext(t)
  \/ \E c \in Caps : SetDailyCap(c)
  \/ Kill

Spec == Init /\ [][Next]_vars

-----------------------------------------------------------------------------
(* Properties.                                                             *)

\* Every variable has its type, and whoever holds the turn is starting.
TypeOK ==
  /\ started \subseteq Sessions /\ ended \subseteq started /\ counted \subseteq started
  /\ told \subseteq Teams /\ lost \subseteq Teams /\ unread \subseteq Teams
  /\ cut \subseteq ended /\ unasked \subseteq Sessions
  /\ day \in [Teams -> Nat] /\ noted \in [Teams -> Nat] /\ cap \in Caps
  /\ drive \in [Teams -> {"down", "recovering", "up", "stopping"}]
  /\ mending \in [Teams -> Sessions \cup {Nobody}]
  /\ turn \in [Teams -> Sessions \cup {Nobody}]
  /\ at \in [Sessions -> Places]
  /\ reports \in [Sessions -> 0 .. MaxReports] /\ usd \in [Sessions -> Costs \cup {0}]
  /\ before \subseteq Sessions /\ was \subseteq Sessions /\ crossed \subseteq Sessions
  /\ stop \subseteq Sessions /\ aborted \subseteq Sessions /\ failed \subseteq Sessions
  /\ makes \in 0 .. MaxMakes /\ kills \in 0 .. MaxKills
  /\ \A t \in Teams : \A s \in Of(t) : turn[t] = s <=> at[s] = "starting"

\* A session whose usage spent the day and that has not told everybody yet: it
\* was charged on a day that was not spent, or it crossed the budget.
Owes(s) ==
  \/ at[s] \in Noting \cup {"judging"} /\ s \notin before
  \/ at[s] \in Registered /\ s \in crossed

\* A team whose day is spent has every session of its asked to stop, once the
\* session that spent it is over (run_session's second stop, under the turn): a
\* session whose tick had read the budgets before escapes no more than one that
\* ran.  (But for the sessions `replan_for_idle` starts on a spent day, which nobody
\* asks.)  A team with a tick that failed is being stopped as a whole.
DayStopsItsTeam ==
  \A t \in Teams :
    (drive[t] = "up" /\ DaySpent(t) /\ \A s \in Of(t) : ~Owes(s) /\ s \notin failed)
      => \A s \in Of(t) : at[s] \in Live => s \in stop \cup unasked

\* A team that is driven has no session in its log that is neither running nor
\* both ended and counted, so that none is missing from a task's sessions
\* (drive's zero cost, recover): but for one whose recovery broke off itself
\* between the two events.
SessionsCounted ==
  \A s \in started \ cut :
    drive[TeamOf[s]] = "up" => at[s] \in Live \/ s \in ended \cap counted

\* What is counted toward the computer's cap is never less than what the log of a
\* driven team says was spent, but for what is being counted: through kills, stops
\* and teams made again (Orchestrator::new, note_spend), if only the day could be
\* read.
CapNeverUndercounts ==
  \A t \in Teams \ unread :
    (drive[t] = "up" /\ \A s \in Of(t) : at[s] \notin {"noting", "adding"} /\ s \notin failed)
      => noted[t] >= day[t]

\* A day that was spent was recorded as exhausted, or is about to be, however the
\* reports of several sessions interleave: unless the charge was broken off by a
\* kill or a failure (record_exhaustion).
TheOwnerIsTold ==
  \A t \in Teams \ lost :
    DaySpent(t) => t \in told \/ \E s \in Of(t) : at[s] \in Noting \cup {"judging"} /\ s \notin before
=============================================================================
