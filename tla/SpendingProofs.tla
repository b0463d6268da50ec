--------------------------- MODULE SpendingProofs ---------------------------
(***************************************************************************)
(* What is proved of Spending, for any teams, sessions, budgets and caps,  *)
(* and any number of reports, orchestrators made and kills.                *)
(***************************************************************************)
EXTENDS Spending, Sums

-----------------------------------------------------------------------------
(* The inductive invariant.                                                *)

\* A session in its program, or in the records of its end, was recorded as
\* started; one that has no place yet was not.
StartRecorded ==
  \A s \in Sessions :
    /\ at[s] \in Running \cup {"closing", "counting"} => s \in started
    /\ at[s] \in {"none", "starting", "waiting"} => s \notin started

\* A team that is not driven has no session, and only one that recovers mends
\* one: of its own, whose end it recorded.
OnlyTheDrivenRun ==
  /\ \A s \in Sessions : drive[TeamOf[s]] \in {"down", "recovering"} => at[s] \notin Live
  /\ \A t \in Teams : mending[t] # Nobody =>
       drive[t] = "recovering" /\ mending[t] \in ended /\ TeamOf[mending[t]] = t

\* A day that was spent before a usage is spent.
SpentStays == \A s \in before : DaySpent(TeamOf[s])

\* A session that was started runs, or ended and is counted or being mended, or
\* is left to a recovery.  One whose end is recorded by its own tick was counted
\* before.
CountedFirst ==
  \A s \in Sessions :
    /\ at[s] = "counting" => s \in counted
    /\ at[s] \in Live /\ s \in ended => s \in counted
    /\ at[s] = "returning" /\ s \in started => s \in ended
    /\ s \in started \ cut =>
         \/ at[s] \in Live
         \/ s \in ended /\ (s \in counted \/ mending[TeamOf[s]] = s)
         \/ s \notin ended /\ drive[TeamOf[s]] \in {"down", "recovering"}

\* The inductive invariant the others rest on.
IInv == TypeOK /\ StartRecorded /\ OnlyTheDrivenRun

USE SessionsAssumption, LimitsAssumption, CostsAssumption, BoundsAssumption

-----------------------------------------------------------------------------
(* Types, and where sessions are.                                          *)

\* Initially nothing runs.
LEMMA InitIInv == Init => IInv
  BY DEF IInv, Init, TypeOK, StartRecorded, OnlyTheDrivenRun, Of, Live, Registered,
         Running, Charging, Noting, Places

\* A step keeps every variable in its type, a start recorded before its program
\* and a team that is not driven without sessions.
LEMMA StepTypeOK == IInv /\ [Next]_vars => TypeOK'
  <1> SUFFICES ASSUME IInv, [Next]_vars PROVE TypeOK'
    OBVIOUS
  <1> USE DEF IInv, TypeOK, StartRecorded, OnlyTheDrivenRun, Of, Live, Registered,
             Running, Charging, Noting, Places, logVars, slotVars, driveVars, ownVars,
             histVars
  <1>0. CASE UNCHANGED vars
    BY <1>0 DEF vars
  <1>1. ASSUME NEW s \in Sessions, TickChecks(s) PROVE TypeOK'
    BY <1>1 DEF TickChecks, TakeTurn, Goto
  <1>2. ASSUME NEW s \in Sessions, Register(s) PROVE TypeOK'
    BY <1>2 DEF Register, Goto
  <1>3. ASSUME NEW s \in Sessions, Start(s) PROVE TypeOK'
    BY <1>3 DEF Start, Goto
  <1>4. ASSUME NEW s \in Sessions, Abort(s) PROVE TypeOK'
    BY <1>4 DEF Abort
  <1>5. ASSUME NEW s \in Sessions, Report(s) PROVE TypeOK'
    BY <1>5 DEF Report, Goto
  <1>6. ASSUME NEW s \in Sessions, Charge(s) PROVE TypeOK'
    BY <1>6 DEF Charge, Goto
  <1>7. ASSUME NEW s \in Sessions, NoteWas(s) PROVE TypeOK'
    BY <1>7 DEF NoteWas, Goto
  <1>8. ASSUME NEW s \in Sessions, RecordSpend(s) PROVE TypeOK'
    <2>1. TeamOf[s] \in Teams
      OBVIOUS
    <2>2. noted[TeamOf[s]] \in Nat
      BY <2>1
    <2>3. usd[s] \in Costs \cup {0}
      OBVIOUS
    <2>4. Costs \cup {0} \subseteq Nat
      OBVIOUS
    <2>5. usd[s] \in Nat
      BY <2>3, <2>4
    <2>6. noted[TeamOf[s]] + usd[s] \in Nat
      BY <2>5, <2>2
    <2>7. noted' \in [Teams -> Nat]
      BY <1>8, <2>6 DEF RecordSpend
    <2>8. usd' \in [Sessions -> Costs \cup {0}]
      BY <1>8 DEF RecordSpend
    <2> QED
      BY <1>8, <2>7, <2>8
         DEF RecordSpend, Goto
  <1>9. ASSUME NEW s \in Sessions, NoteCapped(s) PROVE TypeOK'
    BY <1>9 DEF NoteCapped, StopOthers, Goto
  <1>10. ASSUME NEW s \in Sessions, Judge(s) PROVE TypeOK'
    BY <1>10 DEF Judge, Goto
  <1>11. ASSUME NEW s \in Sessions, Cross(s) PROVE TypeOK'
    BY <1>11 DEF Cross, StopOthers, Goto
  <1>12. ASSUME NEW s \in Sessions, Errs(s) PROVE TypeOK'
    BY <1>12 DEF Errs, Goto
  <1>13. ASSUME NEW s \in Sessions, Ends(s) PROVE TypeOK'
    BY <1>13 DEF Ends, Goto
  <1>14. ASSUME NEW s \in Sessions, CountZero(s) PROVE TypeOK'
    BY <1>14 DEF CountZero, StopOthers, Goto
  <1>15. ASSUME NEW s \in Sessions, RecordEnd(s) PROVE TypeOK'
    BY <1>15 DEF RecordEnd, Goto
  <1>16. ASSUME NEW s \in Sessions, Return(s) PROVE TypeOK'
    BY <1>16 DEF Return, StopOthers, Forget, Goto
  <1>17. ASSUME NEW t \in Teams, Make(t) PROVE TypeOK'
    BY <1>17 DEF Make
  <1>18. ASSUME NEW t \in Teams, RecoverEnd(t) PROVE TypeOK'
    BY <1>18 DEF RecoverEnd
  <1>19. ASSUME NEW t \in Teams, RecoverCost(t) PROVE TypeOK'
    BY <1>19 DEF RecoverCost
  <1>20. ASSUME NEW t \in Teams, RecoverFails(t) PROVE TypeOK'
    BY <1>20 DEF RecoverFails
  <1>21. ASSUME NEW t \in Teams, Recovered(t) PROVE TypeOK'
    BY <1>21 DEF Recovered
  <1>22. ASSUME NEW t \in Teams, StopDrive(t) PROVE TypeOK'
    BY <1>22 DEF StopDrive
  <1>23. ASSUME NEW t \in Teams, Finished(t) PROVE TypeOK'
    BY <1>23 DEF Finished
  <1>24. ASSUME NEW c \in Caps, SetDailyCap(c) PROVE TypeOK'
    BY <1>24 DEF SetDailyCap
  <1>25. ASSUME Kill PROVE TypeOK'
    BY <1>25 DEF Kill, Forget
  <1>26. ASSUME NEW s \in Sessions, ReplanForIdle(s) PROVE TypeOK'
    BY <1>26 DEF ReplanForIdle, TakeTurn, Goto
  <1> QED
    BY <1>0, <1>1, <1>2, <1>3, <1>4, <1>5, <1>6, <1>7, <1>8, <1>9, <1>10, <1>11,
       <1>12, <1>13, <1>14, <1>15, <1>16, <1>17, <1>18, <1>19, <1>20, <1>21, <1>22,
       <1>23, <1>24, <1>25, <1>26 DEF Next, TickNext, SessionNext, TeamNext

\* The start is recorded as the program starts, and a session starts once.
LEMMA StepStartRecorded == IInv /\ [Next]_vars => StartRecorded'
  <1> SUFFICES ASSUME IInv, [Next]_vars PROVE StartRecorded'
    OBVIOUS
  <1> USE DEF IInv, TypeOK, StartRecorded, OnlyTheDrivenRun, Of, Live, Registered,
             Running, Charging, Noting, Places, logVars, slotVars, driveVars, ownVars,
             histVars
  <1>0. CASE UNCHANGED vars
    BY <1>0 DEF vars
  <1>1. ASSUME NEW s \in Sessions, TickChecks(s) PROVE StartRecorded'
    BY <1>1 DEF TickChecks, TakeTurn, Goto
  <1>2. ASSUME NEW s \in Sessions, Register(s) PROVE StartRecorded'
    BY <1>2 DEF Register, Goto
  <1>3. ASSUME NEW s \in Sessions, Start(s) PROVE StartRecorded'
    BY <1>3 DEF Start, Goto
  <1>4. ASSUME NEW s \in Sessions, Abort(s) PROVE StartRecorded'
    BY <1>4 DEF Abort
  <1>5. ASSUME NEW s \in Sessions, Report(s) PROVE StartRecorded'
    BY <1>5 DEF Report, Goto
  <1>6. ASSUME NEW s \in Sessions, Charge(s) PROVE StartRecorded'
    BY <1>6 DEF Charge, Goto
  <1>7. ASSUME NEW s \in Sessions, NoteWas(s) PROVE StartRecorded'
    BY <1>7 DEF NoteWas, Goto
  <1>8. ASSUME NEW s \in Sessions, RecordSpend(s) PROVE StartRecorded'
    BY <1>8 DEF RecordSpend, Goto
  <1>9. ASSUME NEW s \in Sessions, NoteCapped(s) PROVE StartRecorded'
    BY <1>9 DEF NoteCapped, StopOthers, Goto
  <1>10. ASSUME NEW s \in Sessions, Judge(s) PROVE StartRecorded'
    BY <1>10 DEF Judge, Goto
  <1>11. ASSUME NEW s \in Sessions, Cross(s) PROVE StartRecorded'
    BY <1>11 DEF Cross, StopOthers, Goto
  <1>12. ASSUME NEW s \in Sessions, Errs(s) PROVE StartRecorded'
    BY <1>12 DEF Errs, Goto
  <1>13. ASSUME NEW s \in Sessions, Ends(s) PROVE StartRecorded'
    BY <1>13 DEF Ends, Goto
  <1>14. ASSUME NEW s \in Sessions, CountZero(s) PROVE StartRecorded'
    BY <1>14 DEF CountZero, StopOthers, Goto
  <1>15. ASSUME NEW s \in Sessions, RecordEnd(s) PROVE StartRecorded'
    BY <1>15 DEF RecordEnd, Goto
  <1>16. ASSUME NEW s \in Sessions, Return(s) PROVE StartRecorded'
    BY <1>16 DEF Return, StopOthers, Forget, Goto
  <1>17. ASSUME NEW t \in Teams, Make(t) PROVE StartRecorded'
    BY <1>17 DEF Make
  <1>18. ASSUME NEW t \in Teams, RecoverEnd(t) PROVE StartRecorded'
    BY <1>18 DEF RecoverEnd
  <1>19. ASSUME NEW t \in Teams, RecoverCost(t) PROVE StartRecorded'
    BY <1>19 DEF RecoverCost
  <1>20. ASSUME NEW t \in Teams, RecoverFails(t) PROVE StartRecorded'
    BY <1>20 DEF RecoverFails
  <1>21. ASSUME NEW t \in Teams, Recovered(t) PROVE StartRecorded'
    BY <1>21 DEF Recovered
  <1>22. ASSUME NEW t \in Teams, StopDrive(t) PROVE StartRecorded'
    BY <1>22 DEF StopDrive
  <1>23. ASSUME NEW t \in Teams, Finished(t) PROVE StartRecorded'
    BY <1>23 DEF Finished
  <1>24. ASSUME NEW c \in Caps, SetDailyCap(c) PROVE StartRecorded'
    BY <1>24 DEF SetDailyCap
  <1>25. ASSUME Kill PROVE StartRecorded'
    BY <1>25 DEF Kill, Forget
  <1>26. ASSUME NEW s \in Sessions, ReplanForIdle(s) PROVE StartRecorded'
    BY <1>26 DEF ReplanForIdle, TakeTurn, Goto
  <1> QED
    BY <1>0, <1>1, <1>2, <1>3, <1>4, <1>5, <1>6, <1>7, <1>8, <1>9, <1>10, <1>11,
       <1>12, <1>13, <1>14, <1>15, <1>16, <1>17, <1>18, <1>19, <1>20, <1>21, <1>22,
       <1>23, <1>24, <1>25, <1>26 DEF Next, TickNext, SessionNext, TeamNext

\* A tick is only of a driven team, and a team is down only when its sessions ended.
LEMMA StepOnlyTheDrivenRun == IInv /\ [Next]_vars => OnlyTheDrivenRun'
  <1> SUFFICES ASSUME IInv, [Next]_vars PROVE OnlyTheDrivenRun'
    OBVIOUS
  <1> USE DEF IInv, TypeOK, StartRecorded, OnlyTheDrivenRun, Of, Live, Registered,
             Running, Charging, Noting, Places, logVars, slotVars, driveVars, ownVars,
             histVars
  <1>0. CASE UNCHANGED vars
    BY <1>0 DEF vars
  <1>1. ASSUME NEW s \in Sessions, TickChecks(s) PROVE OnlyTheDrivenRun'
    BY <1>1 DEF TickChecks, TakeTurn, Goto
  <1>2. ASSUME NEW s \in Sessions, Register(s) PROVE OnlyTheDrivenRun'
    BY <1>2 DEF Register, Goto
  <1>3. ASSUME NEW s \in Sessions, Start(s) PROVE OnlyTheDrivenRun'
    BY <1>3 DEF Start, Goto
  <1>4. ASSUME NEW s \in Sessions, Abort(s) PROVE OnlyTheDrivenRun'
    BY <1>4 DEF Abort
  <1>5. ASSUME NEW s \in Sessions, Report(s) PROVE OnlyTheDrivenRun'
    BY <1>5 DEF Report, Goto
  <1>6. ASSUME NEW s \in Sessions, Charge(s) PROVE OnlyTheDrivenRun'
    BY <1>6 DEF Charge, Goto
  <1>7. ASSUME NEW s \in Sessions, NoteWas(s) PROVE OnlyTheDrivenRun'
    BY <1>7 DEF NoteWas, Goto
  <1>8. ASSUME NEW s \in Sessions, RecordSpend(s) PROVE OnlyTheDrivenRun'
    BY <1>8 DEF RecordSpend, Goto
  <1>9. ASSUME NEW s \in Sessions, NoteCapped(s) PROVE OnlyTheDrivenRun'
    BY <1>9 DEF NoteCapped, StopOthers, Goto
  <1>10. ASSUME NEW s \in Sessions, Judge(s) PROVE OnlyTheDrivenRun'
    BY <1>10 DEF Judge, Goto
  <1>11. ASSUME NEW s \in Sessions, Cross(s) PROVE OnlyTheDrivenRun'
    BY <1>11 DEF Cross, StopOthers, Goto
  <1>12. ASSUME NEW s \in Sessions, Errs(s) PROVE OnlyTheDrivenRun'
    BY <1>12 DEF Errs, Goto
  <1>13. ASSUME NEW s \in Sessions, Ends(s) PROVE OnlyTheDrivenRun'
    BY <1>13 DEF Ends, Goto
  <1>14. ASSUME NEW s \in Sessions, CountZero(s) PROVE OnlyTheDrivenRun'
    BY <1>14 DEF CountZero, StopOthers, Goto
  <1>15. ASSUME NEW s \in Sessions, RecordEnd(s) PROVE OnlyTheDrivenRun'
    BY <1>15 DEF RecordEnd, Goto
  <1>16. ASSUME NEW s \in Sessions, Return(s) PROVE OnlyTheDrivenRun'
    BY <1>16 DEF Return, StopOthers, Forget, Goto
  <1>17. ASSUME NEW t \in Teams, Make(t) PROVE OnlyTheDrivenRun'
    BY <1>17 DEF Make
  <1>18. ASSUME NEW t \in Teams, RecoverEnd(t) PROVE OnlyTheDrivenRun'
    BY <1>18 DEF RecoverEnd
  <1>19. ASSUME NEW t \in Teams, RecoverCost(t) PROVE OnlyTheDrivenRun'
    BY <1>19 DEF RecoverCost
  <1>20. ASSUME NEW t \in Teams, RecoverFails(t) PROVE OnlyTheDrivenRun'
    BY <1>20 DEF RecoverFails
  <1>21. ASSUME NEW t \in Teams, Recovered(t) PROVE OnlyTheDrivenRun'
    BY <1>21 DEF Recovered
  <1>22. ASSUME NEW t \in Teams, StopDrive(t) PROVE OnlyTheDrivenRun'
    BY <1>22 DEF StopDrive
  <1>23. ASSUME NEW t \in Teams, Finished(t) PROVE OnlyTheDrivenRun'
    BY <1>23 DEF Finished
  <1>24. ASSUME NEW c \in Caps, SetDailyCap(c) PROVE OnlyTheDrivenRun'
    BY <1>24 DEF SetDailyCap
  <1>25. ASSUME Kill PROVE OnlyTheDrivenRun'
    BY <1>25 DEF Kill, Forget
  <1>26. ASSUME NEW s \in Sessions, ReplanForIdle(s) PROVE OnlyTheDrivenRun'
    BY <1>26 DEF ReplanForIdle, TakeTurn, Goto
  <1> QED
    BY <1>0, <1>1, <1>2, <1>3, <1>4, <1>5, <1>6, <1>7, <1>8, <1>9, <1>10, <1>11,
       <1>12, <1>13, <1>14, <1>15, <1>16, <1>17, <1>18, <1>19, <1>20, <1>21, <1>22,
       <1>23, <1>24, <1>25, <1>26 DEF Next, TickNext, SessionNext, TeamNext

\* The three hold always.
LEMMA Invariance == Spec => []IInv
  <1>1. IInv /\ [Next]_vars => IInv'
    BY StepTypeOK, StepStartRecorded, StepOnlyTheDrivenRun DEF IInv
  <1> QED
    BY InitIInv, <1>1, PTL DEF Spec

\* Every variable of the spending keeps its type, and a team's turn is held by the
\* tick that is starting a session and by nobody else (session_runs, session_ran).
THEOREM TypeCorrect == Spec => []TypeOK
  <1>1. IInv => TypeOK
    BY DEF IInv
  <1> QED
    BY Invariance, <1>1, PTL

-----------------------------------------------------------------------------
(* A day that is spent stays spent.                                        *)

\* The day's costs never shrink.
LEMMA StepSpentStays == IInv /\ SpentStays /\ [Next]_vars => SpentStays'
  <1> SUFFICES ASSUME IInv, SpentStays, [Next]_vars PROVE SpentStays'
    OBVIOUS
  <1> USE DEF IInv, TypeOK, SpentStays, DaySpent, Of, Live, Registered, Running,
             Charging, Noting, Places, logVars, slotVars, driveVars, ownVars, histVars
  <1>0. CASE UNCHANGED vars
    BY <1>0 DEF vars
  <1>1. ASSUME NEW s \in Sessions, TickChecks(s) PROVE SpentStays'
    BY <1>1 DEF TickChecks, TakeTurn, Goto
  <1>2. ASSUME NEW s \in Sessions, Register(s) PROVE SpentStays'
    BY <1>2 DEF Register, Goto
  <1>3. ASSUME NEW s \in Sessions, Start(s) PROVE SpentStays'
    BY <1>3 DEF Start, Goto
  <1>4. ASSUME NEW s \in Sessions, Abort(s) PROVE SpentStays'
    BY <1>4 DEF Abort
  <1>5. ASSUME NEW s \in Sessions, Report(s) PROVE SpentStays'
    BY <1>5 DEF Report, Goto
  <1>6. ASSUME NEW s \in Sessions, Charge(s) PROVE SpentStays'
    BY <1>6 DEF Charge, Goto
  <1>7. ASSUME NEW s \in Sessions, NoteWas(s) PROVE SpentStays'
    BY <1>7 DEF NoteWas, Goto
  <1>8. ASSUME NEW s \in Sessions, RecordSpend(s) PROVE SpentStays'
    BY <1>8 DEF RecordSpend, Goto
  <1>9. ASSUME NEW s \in Sessions, NoteCapped(s) PROVE SpentStays'
    BY <1>9 DEF NoteCapped, StopOthers, Goto
  <1>10. ASSUME NEW s \in Sessions, Judge(s) PROVE SpentStays'
    BY <1>10 DEF Judge, Goto
  <1>11. ASSUME NEW s \in Sessions, Cross(s) PROVE SpentStays'
    BY <1>11 DEF Cross, StopOthers, Goto
  <1>12. ASSUME NEW s \in Sessions, Errs(s) PROVE SpentStays'
    BY <1>12 DEF Errs, Goto
  <1>13. ASSUME NEW s \in Sessions, Ends(s) PROVE SpentStays'
    BY <1>13 DEF Ends, Goto
  <1>14. ASSUME NEW s \in Sessions, CountZero(s) PROVE SpentStays'
    BY <1>14 DEF CountZero, StopOthers, Goto
  <1>15. ASSUME NEW s \in Sessions, RecordEnd(s) PROVE SpentStays'
    BY <1>15 DEF RecordEnd, Goto
  <1>16. ASSUME NEW s \in Sessions, Return(s) PROVE SpentStays'
    BY <1>16 DEF Return, StopOthers, Forget, Goto
  <1>17. ASSUME NEW t \in Teams, Make(t) PROVE SpentStays'
    BY <1>17 DEF Make
  <1>18. ASSUME NEW t \in Teams, RecoverEnd(t) PROVE SpentStays'
    BY <1>18 DEF RecoverEnd
  <1>19. ASSUME NEW t \in Teams, RecoverCost(t) PROVE SpentStays'
    BY <1>19 DEF RecoverCost
  <1>20. ASSUME NEW t \in Teams, RecoverFails(t) PROVE SpentStays'
    BY <1>20 DEF RecoverFails
  <1>21. ASSUME NEW t \in Teams, Recovered(t) PROVE SpentStays'
    BY <1>21 DEF Recovered
  <1>22. ASSUME NEW t \in Teams, StopDrive(t) PROVE SpentStays'
    BY <1>22 DEF StopDrive
  <1>23. ASSUME NEW t \in Teams, Finished(t) PROVE SpentStays'
    BY <1>23 DEF Finished
  <1>24. ASSUME NEW c \in Caps, SetDailyCap(c) PROVE SpentStays'
    BY <1>24 DEF SetDailyCap
  <1>25. ASSUME Kill PROVE SpentStays'
    BY <1>25 DEF Kill, Forget
  <1>26. ASSUME NEW s \in Sessions, ReplanForIdle(s) PROVE SpentStays'
    BY <1>26 DEF ReplanForIdle, TakeTurn, Goto
  <1> QED
    BY <1>0, <1>1, <1>2, <1>3, <1>4, <1>5, <1>6, <1>7, <1>8, <1>9, <1>10, <1>11,
       <1>12, <1>13, <1>14, <1>15, <1>16, <1>17, <1>18, <1>19, <1>20, <1>21, <1>22,
       <1>23, <1>24, <1>25, <1>26 DEF Next, TickNext, SessionNext, TeamNext

\* A usage is found charged on a spent day only while that day is spent.
LEMMA SpentStaysAlways == Spec => []SpentStays
  <1>1. Init => SpentStays
    BY DEF Init, SpentStays
  <1> QED
    BY Invariance, StepSpentStays, <1>1, PTL DEF Spec

-----------------------------------------------------------------------------
(* The day stops its team.                                                 *)

\* A step of anyone leaves no session of a spent day running unasked.
LEMMA StepDayStopsItsTeam ==
  IInv /\ SpentStays /\ DayStopsItsTeam /\ [Next]_vars => DayStopsItsTeam'
  <1> SUFFICES ASSUME IInv, SpentStays, DayStopsItsTeam, [Next]_vars PROVE DayStopsItsTeam'
    OBVIOUS
  <1> USE DEF IInv, TypeOK, OnlyTheDrivenRun, SpentStays, DaySpent, DayStopsItsTeam,
             Owes, Of, Live, Registered, Running, Charging, Noting, Places, logVars,
             slotVars, driveVars, ownVars, histVars
  <1>0. CASE UNCHANGED vars
    BY <1>0 DEF vars
  <1>1. ASSUME NEW s \in Sessions, TickChecks(s) PROVE DayStopsItsTeam'
    BY <1>1 DEF TickChecks, TakeTurn, Goto
  <1>2. ASSUME NEW s \in Sessions, Register(s) PROVE DayStopsItsTeam'
    BY <1>2 DEF Register, Goto
  <1>3. ASSUME NEW s \in Sessions, Start(s) PROVE DayStopsItsTeam'
    BY <1>3 DEF Start, Goto
  <1>4. ASSUME NEW s \in Sessions, Abort(s) PROVE DayStopsItsTeam'
    BY <1>4 DEF Abort
  <1>5. ASSUME NEW s \in Sessions, Report(s) PROVE DayStopsItsTeam'
    BY <1>5 DEF Report, Goto
  <1>6. ASSUME NEW s \in Sessions, Charge(s) PROVE DayStopsItsTeam'
    BY <1>6 DEF Charge, Goto
  <1>7. ASSUME NEW s \in Sessions, NoteWas(s) PROVE DayStopsItsTeam'
    BY <1>7 DEF NoteWas, Goto
  <1>8. ASSUME NEW s \in Sessions, RecordSpend(s) PROVE DayStopsItsTeam'
    BY <1>8 DEF RecordSpend, Goto
  <1>9. ASSUME NEW s \in Sessions, NoteCapped(s) PROVE DayStopsItsTeam'
    BY <1>9 DEF NoteCapped, StopOthers, Goto
  <1>10. ASSUME NEW s \in Sessions, Judge(s) PROVE DayStopsItsTeam'
    BY <1>10 DEF Judge, Goto
  <1>11. ASSUME NEW s \in Sessions, Cross(s) PROVE DayStopsItsTeam'
    BY <1>11 DEF Cross, StopOthers, Goto
  <1>12. ASSUME NEW s \in Sessions, Errs(s) PROVE DayStopsItsTeam'
    BY <1>12 DEF Errs, Goto
  <1>13. ASSUME NEW s \in Sessions, Ends(s) PROVE DayStopsItsTeam'
    BY <1>13 DEF Ends, Goto
  <1>14. ASSUME NEW s \in Sessions, CountZero(s) PROVE DayStopsItsTeam'
    BY <1>14 DEF CountZero, StopOthers, Goto
  <1>15. ASSUME NEW s \in Sessions, RecordEnd(s) PROVE DayStopsItsTeam'
    BY <1>15 DEF RecordEnd, Goto
  <1>16. ASSUME NEW s \in Sessions, Return(s) PROVE DayStopsItsTeam'
    BY <1>16 DEF Return, StopOthers, Forget, Goto
  <1>17. ASSUME NEW t \in Teams, Make(t) PROVE DayStopsItsTeam'
    BY <1>17 DEF Make
  <1>18. ASSUME NEW t \in Teams, RecoverEnd(t) PROVE DayStopsItsTeam'
    BY <1>18 DEF RecoverEnd
  <1>19. ASSUME NEW t \in Teams, RecoverCost(t) PROVE DayStopsItsTeam'
    BY <1>19 DEF RecoverCost
  <1>20. ASSUME NEW t \in Teams, RecoverFails(t) PROVE DayStopsItsTeam'
    BY <1>20 DEF RecoverFails
  <1>21. ASSUME NEW t \in Teams, Recovered(t) PROVE DayStopsItsTeam'
    BY <1>21 DEF Recovered
  <1>22. ASSUME NEW t \in Teams, StopDrive(t) PROVE DayStopsItsTeam'
    BY <1>22 DEF StopDrive
  <1>23. ASSUME NEW t \in Teams, Finished(t) PROVE DayStopsItsTeam'
    BY <1>23 DEF Finished
  <1>24. ASSUME NEW c \in Caps, SetDailyCap(c) PROVE DayStopsItsTeam'
    BY <1>24 DEF SetDailyCap
  <1>25. ASSUME Kill PROVE DayStopsItsTeam'
    BY <1>25 DEF Kill, Forget
  <1>26. ASSUME NEW s \in Sessions, ReplanForIdle(s) PROVE DayStopsItsTeam'
    BY <1>26 DEF ReplanForIdle, TakeTurn, Goto
  <1> QED
    BY <1>0, <1>1, <1>2, <1>3, <1>4, <1>5, <1>6, <1>7, <1>8, <1>9, <1>10, <1>11,
       <1>12, <1>13, <1>14, <1>15, <1>16, <1>17, <1>18, <1>19, <1>20, <1>21, <1>22,
       <1>23, <1>24, <1>25, <1>26 DEF Next, TickNext, SessionNext, TeamNext

\* Once the session that spent the day is over, every session of the team was asked
\* to stop, whoever was starting meanwhile (stop_when_the_day_is_crossed, twice), but
\* one started without reading the day (replan_for_idle).
THEOREM DayStopsItsTeamAlways == Spec => []DayStopsItsTeam
  <1>1. Init => DayStopsItsTeam
    BY DEF Init, DayStopsItsTeam
  <1> QED
    BY Invariance, SpentStaysAlways, StepDayStopsItsTeam, <1>1, PTL DEF Spec

-----------------------------------------------------------------------------
(* Whoever started is counted.                                             *)

\* A session is counted before its end is recorded, by its tick; a recovery counts
\* it after.
LEMMA StepCountedFirst == IInv /\ CountedFirst /\ [Next]_vars => CountedFirst'
  <1> SUFFICES ASSUME IInv, CountedFirst, [Next]_vars PROVE CountedFirst'
    OBVIOUS
  <1> USE DEF IInv, TypeOK, StartRecorded, OnlyTheDrivenRun, CountedFirst, Of, Live,
             Registered, Running, Charging, Noting, Places, logVars, slotVars,
             driveVars, ownVars, histVars
  <1>0. CASE UNCHANGED vars
    BY <1>0 DEF vars
  <1>1. ASSUME NEW s \in Sessions, TickChecks(s) PROVE CountedFirst'
    BY <1>1 DEF TickChecks, TakeTurn, Goto
  <1>2. ASSUME NEW s \in Sessions, Register(s) PROVE CountedFirst'
    BY <1>2 DEF Register, Goto
  <1>3. ASSUME NEW s \in Sessions, Start(s) PROVE CountedFirst'
    BY <1>3 DEF Start, Goto
  <1>4. ASSUME NEW s \in Sessions, Abort(s) PROVE CountedFirst'
    BY <1>4 DEF Abort
  <1>5. ASSUME NEW s \in Sessions, Report(s) PROVE CountedFirst'
    BY <1>5 DEF Report, Goto
  <1>6. ASSUME NEW s \in Sessions, Charge(s) PROVE CountedFirst'
    BY <1>6 DEF Charge, Goto
  <1>7. ASSUME NEW s \in Sessions, NoteWas(s) PROVE CountedFirst'
    BY <1>7 DEF NoteWas, Goto
  <1>8. ASSUME NEW s \in Sessions, RecordSpend(s) PROVE CountedFirst'
    BY <1>8 DEF RecordSpend, Goto
  <1>9. ASSUME NEW s \in Sessions, NoteCapped(s) PROVE CountedFirst'
    BY <1>9 DEF NoteCapped, StopOthers, Goto
  <1>10. ASSUME NEW s \in Sessions, Judge(s) PROVE CountedFirst'
    BY <1>10 DEF Judge, Goto
  <1>11. ASSUME NEW s \in Sessions, Cross(s) PROVE CountedFirst'
    BY <1>11 DEF Cross, StopOthers, Goto
  <1>12. ASSUME NEW s \in Sessions, Errs(s) PROVE CountedFirst'
    BY <1>12 DEF Errs, Goto
  <1>13. ASSUME NEW s \in Sessions, Ends(s) PROVE CountedFirst'
    BY <1>13 DEF Ends, Goto
  <1>14. ASSUME NEW s \in Sessions, CountZero(s) PROVE CountedFirst'
    BY <1>14 DEF CountZero, StopOthers, Goto
  <1>15. ASSUME NEW s \in Sessions, RecordEnd(s) PROVE CountedFirst'
    BY <1>15 DEF RecordEnd, Goto
  <1>16. ASSUME NEW s \in Sessions, Return(s) PROVE CountedFirst'
    BY <1>16 DEF Return, StopOthers, Forget, Goto
  <1>17. ASSUME NEW t \in Teams, Make(t) PROVE CountedFirst'
    BY <1>17 DEF Make
  <1>18. ASSUME NEW t \in Teams, RecoverEnd(t) PROVE CountedFirst'
    BY <1>18 DEF RecoverEnd
  <1>19. ASSUME NEW t \in Teams, RecoverCost(t) PROVE CountedFirst'
    BY <1>19 DEF RecoverCost
  <1>20. ASSUME NEW t \in Teams, RecoverFails(t) PROVE CountedFirst'
    BY <1>20 DEF RecoverFails
  <1>21. ASSUME NEW t \in Teams, Recovered(t) PROVE CountedFirst'
    BY <1>21 DEF Recovered
  <1>22. ASSUME NEW t \in Teams, StopDrive(t) PROVE CountedFirst'
    BY <1>22 DEF StopDrive
  <1>23. ASSUME NEW t \in Teams, Finished(t) PROVE CountedFirst'
    BY <1>23 DEF Finished
  <1>24. ASSUME NEW c \in Caps, SetDailyCap(c) PROVE CountedFirst'
    BY <1>24 DEF SetDailyCap
  <1>25. ASSUME Kill PROVE CountedFirst'
    BY <1>25 DEF Kill, Forget
  <1>26. ASSUME NEW s \in Sessions, ReplanForIdle(s) PROVE CountedFirst'
    BY <1>26 DEF ReplanForIdle, TakeTurn, Goto
  <1> QED
    BY <1>0, <1>1, <1>2, <1>3, <1>4, <1>5, <1>6, <1>7, <1>8, <1>9, <1>10, <1>11,
       <1>12, <1>13, <1>14, <1>15, <1>16, <1>17, <1>18, <1>19, <1>20, <1>21, <1>22,
       <1>23, <1>24, <1>25, <1>26 DEF Next, TickNext, SessionNext, TeamNext

\* No session of a driven team's log is neither running nor ended and counted
\* (drive, recover), unless its recovery was killed between the two.
THEOREM SessionsCountedAlways == Spec => []SessionsCounted
  <1>1. Init => CountedFirst
    BY DEF Init, CountedFirst, Live, Registered, Running, Charging, Noting
  <1>2. IInv /\ CountedFirst => SessionsCounted
    BY DEF IInv, TypeOK, OnlyTheDrivenRun, CountedFirst, SessionsCounted
  <1> QED
    BY Invariance, StepCountedFirst, <1>1, <1>2, PTL DEF Spec

-----------------------------------------------------------------------------
(* The owner is told.                                                      *)

\* The session that spends a day records it, and nobody else takes it for recorded.
LEMMA StepTheOwnerIsTold ==
  IInv /\ SpentStays /\ TheOwnerIsTold /\ [Next]_vars => TheOwnerIsTold'
  <1> SUFFICES ASSUME IInv, SpentStays, TheOwnerIsTold, [Next]_vars PROVE TheOwnerIsTold'
    OBVIOUS
  <1> USE DEF IInv, TypeOK, SpentStays, DaySpent, TheOwnerIsTold, Of, Noting, logVars,
             slotVars, driveVars, ownVars, histVars
  <1>0. CASE UNCHANGED vars
    BY <1>0 DEF vars
  <1>1. ASSUME NEW s \in Sessions, TickChecks(s) PROVE TheOwnerIsTold'
    BY <1>1 DEF TickChecks, TakeTurn, Goto
  <1>2. ASSUME NEW s \in Sessions, Register(s) PROVE TheOwnerIsTold'
    BY <1>2 DEF Register, Goto
  <1>3. ASSUME NEW s \in Sessions, Start(s) PROVE TheOwnerIsTold'
    BY <1>3 DEF Start, Goto
  <1>4. ASSUME NEW s \in Sessions, Abort(s) PROVE TheOwnerIsTold'
    BY <1>4 DEF Abort
  <1>5. ASSUME NEW s \in Sessions, Report(s) PROVE TheOwnerIsTold'
    BY <1>5 DEF Report, Goto
  <1>6. ASSUME NEW s \in Sessions, Charge(s) PROVE TheOwnerIsTold'
    BY <1>6 DEF Charge, Goto
  <1>7. ASSUME NEW s \in Sessions, NoteWas(s) PROVE TheOwnerIsTold'
    BY <1>7 DEF NoteWas, Goto
  <1>8. ASSUME NEW s \in Sessions, RecordSpend(s) PROVE TheOwnerIsTold'
    BY <1>8 DEF RecordSpend, Goto
  <1>9. ASSUME NEW s \in Sessions, NoteCapped(s) PROVE TheOwnerIsTold'
    BY <1>9 DEF NoteCapped, StopOthers, Goto
  <1>10. ASSUME NEW s \in Sessions, Judge(s) PROVE TheOwnerIsTold'
    BY <1>10 DEF Judge, Goto
  <1>11. ASSUME NEW s \in Sessions, Cross(s) PROVE TheOwnerIsTold'
    BY <1>11 DEF Cross, StopOthers, Goto
  <1>12. ASSUME NEW s \in Sessions, Errs(s) PROVE TheOwnerIsTold'
    BY <1>12 DEF Errs, Goto
  <1>13. ASSUME NEW s \in Sessions, Ends(s) PROVE TheOwnerIsTold'
    BY <1>13 DEF Ends, Goto
  <1>14. ASSUME NEW s \in Sessions, CountZero(s) PROVE TheOwnerIsTold'
    BY <1>14 DEF CountZero, StopOthers, Goto
  <1>15. ASSUME NEW s \in Sessions, RecordEnd(s) PROVE TheOwnerIsTold'
    BY <1>15 DEF RecordEnd, Goto
  <1>16. ASSUME NEW s \in Sessions, Return(s) PROVE TheOwnerIsTold'
    BY <1>16 DEF Return, StopOthers, Forget, Goto
  <1>17. ASSUME NEW t \in Teams, Make(t) PROVE TheOwnerIsTold'
    BY <1>17 DEF Make
  <1>18. ASSUME NEW t \in Teams, RecoverEnd(t) PROVE TheOwnerIsTold'
    BY <1>18 DEF RecoverEnd
  <1>19. ASSUME NEW t \in Teams, RecoverCost(t) PROVE TheOwnerIsTold'
    BY <1>19 DEF RecoverCost
  <1>20. ASSUME NEW t \in Teams, RecoverFails(t) PROVE TheOwnerIsTold'
    BY <1>20 DEF RecoverFails
  <1>21. ASSUME NEW t \in Teams, Recovered(t) PROVE TheOwnerIsTold'
    BY <1>21 DEF Recovered
  <1>22. ASSUME NEW t \in Teams, StopDrive(t) PROVE TheOwnerIsTold'
    BY <1>22 DEF StopDrive
  <1>23. ASSUME NEW t \in Teams, Finished(t) PROVE TheOwnerIsTold'
    BY <1>23 DEF Finished
  <1>24. ASSUME NEW c \in Caps, SetDailyCap(c) PROVE TheOwnerIsTold'
    BY <1>24 DEF SetDailyCap
  <1>25. ASSUME Kill PROVE TheOwnerIsTold'
    BY <1>25 DEF Kill, Forget
  <1>26. ASSUME NEW s \in Sessions, ReplanForIdle(s) PROVE TheOwnerIsTold'
    BY <1>26 DEF ReplanForIdle, TakeTurn, Goto
  <1> QED
    BY <1>0, <1>1, <1>2, <1>3, <1>4, <1>5, <1>6, <1>7, <1>8, <1>9, <1>10, <1>11,
       <1>12, <1>13, <1>14, <1>15, <1>16, <1>17, <1>18, <1>19, <1>20, <1>21, <1>22,
       <1>23, <1>24, <1>25, <1>26 DEF Next, TickNext, SessionNext, TeamNext

\* A spent day is recorded as exhausted, however the sessions' reports interleave,
\* unless the charge was broken off (record_exhaustion).
THEOREM TheOwnerIsToldAlways == Spec => []TheOwnerIsTold
  <1>1. Init => TheOwnerIsTold
    BY DEF Init, TheOwnerIsTold, DaySpent
  <1> QED
    BY Invariance, SpentStaysAlways, StepTheOwnerIsTold, <1>1, PTL DEF Spec

-----------------------------------------------------------------------------
(* The cap counts what was spent.                                          *)

\* What a session was charged and the places have not counted yet.
Pending == [s \in Sessions |-> IF at[s] \in {"noting", "adding"} THEN usd[s] ELSE 0]

\* A team whose day was read, that has an orchestrator and whose sessions all
\* note what they are charged.
Counting(t) == t \notin unread /\ drive[t] # "down" /\ \A s \in Of(t) : s \notin failed

\* What is counted of such a team and what its sessions are about to count make
\* up for its day.
Covered(t) == Counting(t) => day[t] <= noted[t] + SumFunctionOnSet(Pending, Of(t))

\* The sessions of a team are finitely many, and so is what is pending of each.
LEMMA PendingType ==
  ASSUME IInv, NEW t \in Teams
  PROVE  /\ IsFiniteSet(Of(t)) /\ Of(t) \subseteq Sessions
         /\ \A s \in Of(t) : Pending[s] \in Nat
         /\ SumFunctionOnSet(Pending, Of(t)) \in Nat
         /\ day[t] \in Nat /\ noted[t] \in Nat
<1>1. IsFiniteSet(Of(t)) /\ Of(t) \subseteq Sessions
  BY FS_Subset DEF Of
<1>2. \A s \in Sessions : Pending[s] \in Nat
  <2>1. \A s \in Sessions : usd[s] \in Costs \cup {0}
    BY DEF IInv, TypeOK
  <2>2. Costs \cup {0} \subseteq Nat
    OBVIOUS
  <2> QED
    BY <2>1, <2>2 DEF Pending
<1>3. \A s \in Of(t) : Pending[s] \in Nat
  BY <1>1, <1>2
<1>4. SumFunctionOnSet(Pending, Of(t)) \in Nat
  BY <1>1, <1>3, SumIsNat
<1> QED
  BY <1>1, <1>3, <1>4 DEF IInv, TypeOK

\* A step that charges and counts nothing of team t.
QuietFor(t) ==
  /\ \A s \in Of(t) : Pending'[s] = Pending[s]
  /\ day'[t] = day[t] /\ noted'[t] = noted[t]
  /\ Counting(t)' => Counting(t)

\* It leaves what is covered covered.
LEMMA QuietStep ==
  ASSUME IInv, NEW t \in Teams, Covered(t), QuietFor(t)
  PROVE  Covered(t)'
<1>1. SumFunctionOnSet(Pending, Of(t))' = SumFunctionOnSet(Pending', Of(t))
  BY DEF Of
<1>2. SumFunctionOnSet(Pending', Of(t)) = SumFunctionOnSet(Pending, Of(t))
  BY PendingType, SumSame DEF QuietFor
<1> QED
  BY <1>1, <1>2 DEF Covered, QuietFor

\* A session is charged: it was charged nothing, and will count what it is.
LEMMA ChargeCovered ==
  ASSUME IInv, NEW t \in Teams, Covered(t), NEW s \in Sessions, Charge(s)
  PROVE  Covered(t)'
<1> USE DEF IInv, TypeOK, Counting, QuietFor, Pending, Of, slotVars, driveVars
<1>1. CASE TeamOf[s] # t
  <2>1. QuietFor(t)
    BY <1>1 DEF Charge, Goto
  <2> QED
    BY <2>1, QuietStep
<1>2. CASE TeamOf[s] = t /\ s \in failed'
  BY <1>2 DEF Covered
<1>3. CASE TeamOf[s] = t /\ s \notin failed'
  <2>1. PICK cost \in Costs : /\ day' = [day EXCEPT ![TeamOf[s]] = @ + cost]
                              /\ usd' = [usd EXCEPT ![s] = cost]
    BY DEF Charge
  <2>2. at' = [at EXCEPT ![s] = "noting"] /\ at[s] = "reporting" /\ UNCHANGED failed
    BY <1>3 DEF Charge, Goto
  <2>3. cost \in Nat
    OBVIOUS
  <2>4. /\ s \in Of(t) /\ Pending[s] = 0 /\ Pending'[s] = cost
        /\ \A o \in Of(t) \ {s} : Pending'[o] = Pending[o]
    BY <1>3, <2>1, <2>2
  <2>5. \A o \in Of(t) : Pending[o] \in Nat /\ Pending'[o] \in Nat
    <3> HIDE DEF Pending, IInv, TypeOK
    <3> QED
      BY <2>3, <2>4, PendingType
  <2>6. SumFunctionOnSet(Pending', Of(t)) + 0 = SumFunctionOnSet(Pending, Of(t)) + cost
    <3> HIDE DEF Pending, IInv, TypeOK, Of
    <3>1. IsFiniteSet(Of(t))
      BY PendingType
    <3> QED
      BY <2>4, <2>5, <3>1, SumChanges
  <2>7. day'[t] = day[t] + cost /\ noted'[t] = noted[t] /\ (Counting(t)' => Counting(t))
    BY <1>3, <2>1, <2>2 DEF Charge
  <2>8. SumFunctionOnSet(Pending, Of(t))' = SumFunctionOnSet(Pending', Of(t))
    OBVIOUS
  <2> HIDE DEF Pending, IInv, TypeOK, Of, Counting
  <2>9. SumFunctionOnSet(Pending', Of(t)) = SumFunctionOnSet(Pending, Of(t)) + cost
    <3>1. SumFunctionOnSet(Pending', Of(t)) \in Nat
      BY <2>5, PendingType, SumIsNat
    <3> QED
      BY <2>6, <3>1
  <2> QED
    BY <2>3, <2>7, <2>8, <2>9, PendingType DEF Covered
<1> QED
  BY <1>1, <1>2, <1>3

\* A session counts what it was charged: it is pending no longer.
LEMMA RecordCovered ==
  ASSUME IInv, NEW t \in Teams, Covered(t), NEW s \in Sessions, RecordSpend(s)
  PROVE  Covered(t)'
<1> USE DEF IInv, TypeOK, Counting, QuietFor, Pending, Of, logVars, driveVars, histVars
<1>1. CASE TeamOf[s] # t
  <2>1. QuietFor(t)
    BY <1>1 DEF RecordSpend, Goto
  <2> QED
    BY <2>1, QuietStep
<1>2. CASE TeamOf[s] = t
  <2>1. /\ s \in Of(t) /\ Pending[s] = usd[s] /\ Pending'[s] = 0
        /\ \A o \in Of(t) \ {s} : Pending'[o] = Pending[o]
    BY <1>2 DEF RecordSpend, Goto
  <2>2. /\ noted' = [noted EXCEPT ![t] = @ + usd[s]]
        /\ day' = day /\ (Counting(t)' => Counting(t))
    BY <1>2 DEF RecordSpend
  <2>3. SumFunctionOnSet(Pending, Of(t))' = SumFunctionOnSet(Pending', Of(t))
    OBVIOUS
  <2>4. noted'[t] = noted[t] + Pending[s]
    BY <2>1, <2>2
  <2> HIDE DEF Pending, IInv, TypeOK, Of, Counting
  <2>5. \A o \in Of(t) : Pending[o] \in Nat /\ Pending'[o] \in Nat
    BY <2>1, PendingType
  <2>6. SumFunctionOnSet(Pending', Of(t)) + Pending[s] = SumFunctionOnSet(Pending, Of(t)) + 0
    <3>1. IsFiniteSet(Of(t))
      BY PendingType
    <3> QED
      BY <2>1, <2>5, <3>1, SumChanges
  <2>7. SumFunctionOnSet(Pending', Of(t)) \in Nat
    BY <2>5, PendingType, SumIsNat
  <2> QED
    BY <2>1, <2>2, <2>3, <2>4, <2>5, <2>6, <2>7, PendingType DEF Covered
<1> QED
  BY <1>1, <1>2

\* An orchestrator is made: the whole day is counted, or the team is unread.
LEMMA MakeCovered ==
  ASSUME IInv, NEW t \in Teams, Covered(t), NEW u \in Teams, Make(u)
  PROVE  Covered(t)'
<1> USE DEF IInv, TypeOK, Counting, QuietFor, Pending, Of, logVars, slotVars, ownVars
<1>1. CASE u # t
  <2>1. QuietFor(t)
    BY <1>1 DEF Make
  <2> QED
    BY <2>1, QuietStep
<1>2. CASE u = t /\ t \in unread'
  BY <1>2 DEF Covered
<1>3. CASE u = t /\ t \notin unread'
  <2>1. noted'[t] = noted[t] + day[t] /\ day'[t] = day[t] /\ Pending' = Pending
    BY <1>3 DEF Make
  <2>2. SumFunctionOnSet(Pending, Of(t))' = SumFunctionOnSet(Pending, Of(t))
    BY <2>1
  <2> HIDE DEF Pending, IInv, TypeOK, Of, Counting
  <2> QED
    BY <2>1, <2>2, PendingType DEF Covered
<1> QED
  BY <1>1, <1>2, <1>3

\* Every other step is quiet, or leaves the team without its orchestrator.
LEMMA StepCovered ==
  ASSUME IInv, NEW t \in Teams, Covered(t), [Next]_vars
  PROVE  Covered(t)'
<1> USE DEF IInv, TypeOK, Counting, QuietFor, Pending, Of, logVars, slotVars, driveVars,
            ownVars, histVars
<1>0. ASSUME QuietFor(t) PROVE Covered(t)'
  BY <1>0, QuietStep
<1>1. CASE UNCHANGED vars
  BY <1>0, <1>1 DEF vars
<1>2. ASSUME NEW s \in Sessions, TickChecks(s) \/ ReplanForIdle(s) PROVE QuietFor(t)
  BY <1>2 DEF TickChecks, ReplanForIdle, TakeTurn, Goto
<1>3. ASSUME NEW s \in Sessions, Register(s) PROVE QuietFor(t)
  BY <1>3 DEF Register, Goto
<1>4. ASSUME NEW s \in Sessions, Start(s) PROVE QuietFor(t)
  BY <1>4 DEF Start, Goto
<1>5. ASSUME NEW s \in Sessions, Abort(s) PROVE QuietFor(t)
  BY <1>5 DEF Abort
<1>6. ASSUME NEW s \in Sessions, Report(s) PROVE QuietFor(t)
  BY <1>6 DEF Report, Goto
<1>7. ASSUME NEW s \in Sessions, NoteWas(s) PROVE QuietFor(t)
  BY <1>7 DEF NoteWas, Goto
<1>8. ASSUME NEW s \in Sessions, NoteCapped(s) PROVE QuietFor(t)
  BY <1>8 DEF NoteCapped, StopOthers, Goto
<1>9. ASSUME NEW s \in Sessions, Judge(s) PROVE QuietFor(t)
  BY <1>9 DEF Judge, Goto
<1>10. ASSUME NEW s \in Sessions, Cross(s) PROVE QuietFor(t)
  BY <1>10 DEF Cross, StopOthers, Goto
<1>11. ASSUME NEW s \in Sessions, Errs(s) PROVE QuietFor(t)
  BY <1>11 DEF Errs, Goto
<1>12. ASSUME NEW s \in Sessions, Ends(s) PROVE QuietFor(t)
  BY <1>12 DEF Ends, Goto
<1>13. ASSUME NEW s \in Sessions, CountZero(s) PROVE QuietFor(t)
  BY <1>13 DEF CountZero, StopOthers, Goto
<1>14. ASSUME NEW s \in Sessions, RecordEnd(s) PROVE QuietFor(t)
  BY <1>14 DEF RecordEnd, Goto
<1>15. ASSUME NEW s \in Sessions, Return(s) PROVE QuietFor(t)
  BY <1>15 DEF Return, StopOthers, Forget, Goto
<1>16. ASSUME NEW u \in Teams, RecoverEnd(u) PROVE QuietFor(t)
  BY <1>16 DEF RecoverEnd
<1>17. ASSUME NEW u \in Teams, RecoverCost(u) PROVE QuietFor(t)
  BY <1>17 DEF RecoverCost
<1>18. ASSUME NEW u \in Teams, RecoverFails(u) PROVE QuietFor(t)
  BY <1>18 DEF RecoverFails
<1>19. ASSUME NEW u \in Teams, Recovered(u) PROVE QuietFor(t)
  BY <1>19 DEF Recovered
<1>20. ASSUME NEW u \in Teams, StopDrive(u) PROVE QuietFor(t)
  BY <1>20 DEF StopDrive
<1>21. ASSUME NEW u \in Teams, Finished(u) PROVE QuietFor(t)
  BY <1>21 DEF Finished
<1>22. ASSUME NEW c \in Caps, SetDailyCap(c) PROVE QuietFor(t)
  BY <1>22 DEF SetDailyCap
<1>23. ASSUME Kill PROVE ~Counting(t)'
  BY <1>23 DEF Kill
<1>24. CASE Kill
  BY <1>23, <1>24 DEF Covered
<1> QED
  BY <1>0, <1>1, <1>2, <1>3, <1>4, <1>5, <1>6, <1>7, <1>8, <1>9, <1>10, <1>11, <1>12,
     <1>13, <1>14, <1>15, <1>16, <1>17, <1>18, <1>19, <1>20, <1>21, <1>22, <1>24,
     ChargeCovered, RecordCovered, MakeCovered DEF Next, TickNext, SessionNext, TeamNext

\* What is counted toward the cap never falls behind the log of a driven team, but
\* for what is being counted (Orchestrator::new, record_session_cost, note_spend).
THEOREM CapNeverUndercountsAlways == Spec => []CapNeverUndercounts
<1> DEFINE AllCovered == \A t \in Teams : Covered(t)
<1>1. Init => AllCovered
  BY DEF Init, Covered, Counting
<1>2. IInv /\ AllCovered /\ [Next]_vars => AllCovered'
  BY StepCovered
<1>3. IInv /\ AllCovered => CapNeverUndercounts
  <2> SUFFICES ASSUME IInv, NEW t \in Teams \ unread, Covered(t), drive[t] = "up",
                      \A s \in Of(t) : at[s] \notin {"noting", "adding"} /\ s \notin failed
               PROVE  noted[t] >= day[t]
    BY DEF CapNeverUndercounts
  <2>1. \A s \in Of(t) : Pending[s] = 0
    BY DEF Pending, Of
  <2>2. SumFunctionOnSet(Pending, Of(t)) = 0
    BY <2>1, PendingType, SumOfZeros
  <2>3. day[t] <= noted[t] + 0
    BY <2>2 DEF Covered, Counting
  <2> QED
    BY <2>3, PendingType
<1> QED
  BY Invariance, <1>1, <1>2, <1>3, PTL DEF Spec

\* Every team's day was read, it is driven, and its sessions have counted what
\* they were charged.
AllCounted ==
  \A t \in Teams : /\ t \notin unread /\ drive[t] = "up"
                   /\ \A s \in Of(t) : at[s] \notin {"noting", "adding"} /\ s \notin failed

\* The days of the teams are within the cap while it is not reached.
CapBoundsTheDays == (AllCounted /\ cap # NoLimit /\ ~Capped) => SumFunction(day) < cap

\* The cap is one of the days in the logs and not of a count beside them: while
\* `day_capped` lets a session start, what the teams together spent today, as
\* their logs have it and over every kill of the serve, is below the owner's cap
\* (Slots::record_spend, day_capped).
THEOREM CapBoundsTheDaysAlways == Spec => []CapBoundsTheDays
<1>1. IInv /\ CapNeverUndercounts => CapBoundsTheDays
  <2> SUFFICES ASSUME IInv, CapNeverUndercounts, AllCounted, cap # NoLimit, ~Capped
               PROVE  SumFunction(day) < cap
    BY DEF CapBoundsTheDays
  <2>1. /\ day \in [Teams -> Nat] /\ noted \in [Teams -> Nat] /\ cap \in Nat
        /\ IsFiniteSet(Teams)
    BY SessionsAssumption, LimitsAssumption DEF IInv, TypeOK
  <2>2. \A t \in Teams : day[t] \in Nat /\ noted[t] \in Nat /\ day[t] <= noted[t]
    BY <2>1 DEF CapNeverUndercounts, AllCounted
  <2>3. SumFunctionOnSet(day, Teams) <= SumFunctionOnSet(noted, Teams)
    BY <2>1, <2>2, SumMonotonic
  <2>4. SumFunctionOnSet(day, Teams) \in Nat /\ SumFunctionOnSet(noted, Teams) \in Nat
    BY <2>1, <2>2, SumIsNat
  <2>5. DOMAIN day = Teams /\ DOMAIN noted = Teams
    BY <2>1
  <2>6. SumFunctionOnSet(noted, Teams) < cap
    <3>1. ~(SumFunctionOnSet(noted, Teams) >= cap)
      BY <2>5 DEF Capped, SumFunction
    <3> QED
      BY <2>1, <2>4, <3>1
  <2>7. SumFunctionOnSet(day, Teams) < cap
    BY <2>1, <2>3, <2>4, <2>6
  <2> QED
    BY <2>5, <2>7 DEF SumFunction
<1> QED
  BY Invariance, CapNeverUndercountsAlways, <1>1, PTL
=============================================================================
