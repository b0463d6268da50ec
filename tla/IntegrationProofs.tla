------------------------- MODULE IntegrationProofs -------------------------
(***************************************************************************)
(* Proofs about Integration, for every set of cases, of commits and every  *)
(* bound: its type invariant, that it implements Landing, and its safety   *)
(* invariants and action property.                                         *)
(*                                                                         *)
(* Each invariant is proved step by step: first the actions that leave its *)
(* variables alone, a group at a time, then every other action by itself.  *)
(***************************************************************************)
EXTENDS Integration, SequenceTheorems, FiniteSetTheorems, TLAPS

-----------------------------------------------------------------------------
(* Types.                                                                  *)

\* Every commit a step makes is one of the model's.
LEMMA CommitsAre ==
  /\ \A n \in 1..MaxRounds : Work(n) \in Commits /\ Squash(n) \in Commits
  /\ \A b \in Bases : Base(b) \in Commits
  /\ ByOwner("push") \in Commits /\ ByOwner("merge") \in Commits /\ ByOwner("landed") \in Commits
  BY DEF Commits

\* Whatever is appended leaves the log well typed.
LEMMA LogStep == TypeOK /\ [Next]_vars => LogTypes'
<1> SUFFICES ASSUME TypeOK, [Next]_vars PROVE LogTypes'
  OBVIOUS
<1>1. ASSUME \/ TickReads \/ Cleanup \/ CleanupPasses \/ Recover \/ Decide \/ Errs
             \/ Finish \/ OpenByHand
      PROVE  UNCHANGED <<given, logVars>>
  BY <1>1 DEF TickReads, Cleanup, CleanupPasses, Recover, Decide, Errs, Finish,
    OpenByHand, given, logVars, quiet
<1>2. ASSUME \/ OpenPushes \/ Create \/ ReadMerged \/ ReadClosed \/ MergeWhenChecksPass
             \/ Reread \/ CatchUp \/ SwitchFetches
      PROVE  UNCHANGED <<given, logVars>>
  BY <1>2 DEF OpenPushes, Create, ReadMerged, ReadClosed, MergeWhenChecksPass, Reread,
    CatchUp, SwitchFetches, given, logVars, quiet
<1>3. ASSUME \/ ClosedForTheHuman \/ FetchBehind \/ AddWorktree \/ MergeInWorktree
             \/ PushRefreshed \/ PushRefused \/ LandFound \/ LandMerges
      PROVE  UNCHANGED <<given, logVars>>
  BY <1>3 DEF ClosedForTheHuman, FetchBehind, AddWorktree, MergeInWorktree,
    PushRefreshed, PushRefused, LandFound, LandMerges, given, logVars, quiet
<1>4. ASSUME \/ LandConflicts \/ OwnerPushes \/ OwnerMergesByHand \/ OwnerPublishes
             \/ OwnerSwitches \/ OthersFetch \/ ChecksRegister \/ ChecksReport \/ QueueMoves
      PROVE  UNCHANGED <<given, logVars>>
  BY <1>4 DEF LandConflicts, OwnerPushes, OwnerMergesByHand, OwnerPublishes,
    OwnerSwitches, OthersFetch, ChecksRegister, ChecksReport, QueueMoves, given, logVars, quiet
<1>5. ASSUME \/ \E n \in 1..MaxPrs : OwnerMerges(n)
             \/ \E n \in 1..MaxPrs : OwnerCloses(n)
             \/ \E n \in 1..MaxPrs : OwnerReopens(n)
             \/ \E b \in Bases : OthersLand(b)
             \/ \E p \in Askers : TakeLock(p)
             \/ \E ps \in SUBSET Askers \ {{}} : Kill(ps)
      PROVE  UNCHANGED <<given, logVars>>
  BY <1>5 DEF OwnerMerges, OwnerCloses, OwnerReopens, OthersLand, TakeLock, Kill, given,
    logVars, quiet
<1> USE BoundsAssumption DEF TypeOK, LogTypes
<1>6. CASE UNCHANGED <<given, logVars>>
  BY <1>6 DEF given, logVars, quiet
<1>7. CASE Fails
  BY <1>7 DEF Fails, given, logVars, Escalate
<1>8. CASE Record
  <2>1. recorded' \in Nat
    BY <1>8 DEF Record
  <2>2. awaiting' = FALSE
    BY <1>8 DEF Record
  <2> QED
    BY <1>8, <2>1, <2>2 DEF Record, given
<1>9. CASE FileTheRederive
  BY <1>9 DEF FileTheRederive, given, logVars, Escalate
<1>10. CASE NoteOpened
  BY <1>10 DEF NoteOpened, given, logVars, Escalate, ProcessTypes
<1>11. CASE ReadOpen
  BY <1>11 DEF ReadOpen, given, logVars, Escalate
<1>12. CASE EscalateClosed
  BY <1>12 DEF EscalateClosed, given, logVars, Escalate
<1>13. CASE RevertTheSwitch
  BY <1>13 DEF RevertTheSwitch, given, logVars, Escalate
<1>14. CASE MergeAnswerLost
  BY <1>14 DEF MergeAnswerLost, given, logVars, Escalate
<1>15. CASE RemoveWorktree
  BY <1>15 DEF RemoveWorktree, given, logVars, Escalate
<1>16. CASE SendBack
  BY <1>16 DEF SendBack, given, logVars, Escalate
<1>17. CASE SendBackRefused
  BY <1>17 DEF SendBackRefused, given, logVars, Escalate
<1>18. CASE Abort
  BY <1>18 DEF Abort, given, logVars, Escalate
<1>19. CASE TeamReopens
  BY <1>19 DEF TeamReopens, given, logVars, Escalate
<1>20. CASE Start
  BY <1>20 DEF Start, given, logVars, Escalate
<1>21. CASE AcceptAgain
  <2>1. round' \in 1..MaxRounds
    BY <1>21 DEF AcceptAgain
  <2>2. url' \in 0..MaxPrs
    BY <1>21 DEF AcceptAgain
  <2> QED
    BY <1>21, <2>1, <2>2 DEF AcceptAgain, given
<1>22. CASE OwnerKeepsLocal
  BY <1>22 DEF OwnerKeepsLocal, given, logVars, Escalate, Choices
<1> QED
  BY <1>1, <1>2, <1>3, <1>4, <1>5, <1>6, <1>7, <1>8, <1>9, <1>10, <1>11, <1>12, <1>13,
    <1>14, <1>15, <1>16, <1>17, <1>18, <1>19, <1>20, <1>21, <1>22 DEF Next, TickNext,
    HolderNext, OwnerNext, OthersNext, vars, given, logVars, quiet

\* A branch that moves still holds commits, the documents are there or gone.
LEMMA MoveLocalTypes ==
  ASSUME GitTypes, NEW commits \in SUBSET Commits, MoveLocal(commits)
  PROVE  local' \subseteq Commits /\ disk' \in {"kept", "gone", "switched"}
  BY DEF GitTypes, MoveLocal

\* Whatever git and the owner do leaves the branches and the worktree well typed.
LEMMA GitStep == TypeOK /\ [Next]_vars => GitTypes'
<1> SUFFICES ASSUME TypeOK, [Next]_vars PROVE GitTypes'
  OBVIOUS
<1>1. ASSUME \/ TickReads \/ CleanupPasses \/ Start \/ Decide \/ Fails \/ Errs \/ Record
             \/ FileTheRederive
      PROVE  UNCHANGED gitVars
  BY <1>1 DEF TickReads, CleanupPasses, Start, Decide, Fails, Errs, Record,
    FileTheRederive, gitVars, quiet
<1>2. ASSUME \/ OpenByHand \/ Create \/ NoteOpened \/ ReadOpen \/ ReadMerged \/ ReadClosed
             \/ EscalateClosed \/ RevertTheSwitch
      PROVE  UNCHANGED gitVars
  BY <1>2 DEF OpenByHand, Create, NoteOpened, ReadOpen, ReadMerged, ReadClosed,
    EscalateClosed, RevertTheSwitch, gitVars, quiet
<1>3. ASSUME \/ Reread \/ PushRefused \/ SendBack \/ LandFound \/ OwnerKeepsLocal
             \/ TeamReopens \/ ChecksRegister \/ ChecksReport
             \/ \E n \in 1..MaxPrs : OwnerCloses(n)
      PROVE  UNCHANGED gitVars
  BY <1>3 DEF Reread, PushRefused, SendBack, LandFound, OwnerKeepsLocal, TeamReopens,
    ChecksRegister, ChecksReport, OwnerCloses, gitVars, quiet
<1>4. ASSUME \/ \E n \in 1..MaxPrs : OwnerReopens(n)
             \/ \E p \in Askers : TakeLock(p)
             \/ \E ps \in SUBSET Askers \ {{}} : Kill(ps)
      PROVE  UNCHANGED gitVars
  BY <1>4 DEF OwnerReopens, TakeLock, Kill, gitVars, quiet
<1> USE BoundsAssumption, CommitsAre DEF TypeOK, GitTypes
<1>5. CASE UNCHANGED gitVars
  BY <1>5 DEF gitVars, quiet
<1>6. CASE Cleanup
  BY <1>6 DEF Cleanup, gitVars
<1>7. CASE Recover
  BY <1>7 DEF Recover, gitVars
<1>8. CASE Finish
  BY <1>8 DEF Finish, gitVars
<1>9. CASE OpenPushes
  BY <1>9 DEF OpenPushes, gitVars, Push, NewHead
<1>10. CASE MergeWhenChecksPass
  BY <1>10 DEF MergeWhenChecksPass, gitVars, MergePr, LogTypes
<1>11. CASE MergeAnswerLost
  <2>1. origin' \subseteq Commits
    BY <1>11 DEF MergeAnswerLost, MergePr, LogTypes
  <2> QED
    BY <1>11, <2>1 DEF MergeAnswerLost
<1>12. CASE CatchUp
  BY <1>12, MoveLocalTypes DEF CatchUp, gitVars, FastForward
<1>13. CASE SwitchFetches
  BY <1>13, MoveLocalTypes DEF SwitchFetches, gitVars, FastForward
<1>14. CASE ClosedForTheHuman
  BY <1>14, MoveLocalTypes DEF ClosedForTheHuman, gitVars, FastForward
<1>15. CASE FetchBehind
  BY <1>15, MoveLocalTypes DEF FetchBehind, gitVars, FastForward
<1>16. CASE AddWorktree
  BY <1>16 DEF AddWorktree, gitVars
<1>17. CASE MergeInWorktree
  BY <1>17 DEF MergeInWorktree, gitVars
<1>18. CASE PushRefreshed
  BY <1>18 DEF PushRefreshed, gitVars, Push, NewHead
<1>19. CASE RemoveWorktree
  BY <1>19 DEF RemoveWorktree, gitVars
<1>20. CASE SendBackRefused
  BY <1>20 DEF SendBackRefused, gitVars
<1>21. CASE LandMerges
  BY <1>21, MoveLocalTypes DEF LandMerges, gitVars, FastForward
<1>22. CASE LandConflicts
  BY <1>22 DEF LandConflicts, gitVars
<1>23. CASE Abort
  BY <1>23 DEF Abort, gitVars
<1>24. CASE \E b \in Bases : OthersLand(b)
  BY <1>24, MoveLocalTypes DEF OthersLand, gitVars, FastForward
<1>25. CASE OthersFetch
  BY <1>25, MoveLocalTypes DEF OthersFetch, gitVars, FastForward
<1>26. CASE \E n \in 1..MaxPrs : OwnerMerges(n)
  BY <1>26 DEF OwnerMerges, gitVars, MergePr, LogTypes
<1>27. CASE QueueMoves
  BY <1>27 DEF QueueMoves, gitVars, MergePr, LogTypes
<1>28. CASE OwnerPushes
  BY <1>28 DEF OwnerPushes, gitVars, NewHead
<1>29. CASE OwnerMergesByHand
  BY <1>29, MoveLocalTypes DEF OwnerMergesByHand, gitVars, FastForward
<1>30. CASE OwnerPublishes
  BY <1>30 DEF OwnerPublishes, gitVars
<1>31. CASE OwnerSwitches
  BY <1>31 DEF OwnerSwitches, gitVars
<1>32. CASE AcceptAgain
  BY <1>32 DEF AcceptAgain, gitVars, LogTypes
<1> QED
  BY <1>1, <1>2, <1>3, <1>4, <1>5, <1>6, <1>7, <1>8, <1>9, <1>10, <1>11, <1>12, <1>13,
    <1>14, <1>15, <1>16, <1>17, <1>18, <1>19, <1>20, <1>21, <1>22, <1>23, <1>24, <1>25,
    <1>26, <1>27, <1>28, <1>29, <1>30, <1>31, <1>32 DEF Next, TickNext, HolderNext,
    OwnerNext, OthersNext, vars, gitVars, quiet

\* A pull request changes its state.
LEMMA PrChanges ==
  ASSUME prs \in Seq({"open", "merged", "closed"}), NEW n \in DOMAIN prs,
         NEW s \in {"open", "merged", "closed"}, prs' = [prs EXCEPT ![n] = s]
  PROVE  prs' \in Seq({"open", "merged", "closed"}) /\ Len(prs') = Len(prs)
  BY ExceptSeq, LenProperties

\* The forge keeps as many pull requests as are opened, each in one of three states.
LEMMA ForgeStep == TypeOK /\ [Next]_vars => ForgeTypes'
<1> SUFFICES ASSUME TypeOK, [Next]_vars PROVE ForgeTypes'
  OBVIOUS
<1>1. ASSUME \/ TickReads \/ Cleanup \/ CleanupPasses \/ Start \/ Recover \/ Decide
             \/ Fails \/ Errs
      PROVE  UNCHANGED forgeVars
  BY <1>1 DEF TickReads, Cleanup, CleanupPasses, Start, Recover, Decide, Fails, Errs,
    forgeVars, quiet
<1>2. ASSUME \/ Finish \/ Record \/ FileTheRederive \/ OpenByHand \/ NoteOpened
             \/ ReadMerged \/ ReadClosed
      PROVE  UNCHANGED forgeVars
  BY <1>2 DEF Finish, Record, FileTheRederive, OpenByHand, NoteOpened, ReadMerged,
    ReadClosed, forgeVars, quiet
<1>3. ASSUME \/ EscalateClosed \/ RevertTheSwitch \/ Reread \/ CatchUp \/ SwitchFetches
             \/ ClosedForTheHuman \/ FetchBehind \/ AddWorktree
      PROVE  UNCHANGED forgeVars
  BY <1>3 DEF EscalateClosed, RevertTheSwitch, Reread, CatchUp, SwitchFetches,
    ClosedForTheHuman, FetchBehind, AddWorktree, forgeVars, quiet
<1>4. ASSUME \/ MergeInWorktree \/ PushRefused \/ RemoveWorktree \/ SendBack
             \/ SendBackRefused \/ LandFound \/ LandMerges \/ LandConflicts
      PROVE  UNCHANGED forgeVars
  BY <1>4 DEF MergeInWorktree, PushRefused, RemoveWorktree, SendBack, SendBackRefused,
    LandFound, LandMerges, LandConflicts, forgeVars, quiet
<1>5. ASSUME \/ Abort \/ OwnerMergesByHand \/ OwnerPublishes \/ OwnerSwitches
             \/ OwnerKeepsLocal \/ TeamReopens \/ OthersFetch \/ AcceptAgain
      PROVE  UNCHANGED forgeVars
  BY <1>5 DEF Abort, OwnerMergesByHand, OwnerPublishes, OwnerSwitches, OwnerKeepsLocal,
    TeamReopens, OthersFetch, AcceptAgain, forgeVars, quiet
<1>6. ASSUME \/ \E b \in Bases : OthersLand(b)
             \/ \E p \in Askers : TakeLock(p)
             \/ \E ps \in SUBSET Askers \ {{}} : Kill(ps)
      PROVE  UNCHANGED forgeVars
  BY <1>6 DEF OthersLand, TakeLock, Kill, forgeVars, quiet
<1> USE BoundsAssumption DEF TypeOK, ForgeTypes
<1>7. CASE UNCHANGED forgeVars
  BY <1>7 DEF forgeVars, quiet
<1>8. CASE OpenPushes
  BY <1>8 DEF OpenPushes, Push, NewHead
<1>9. CASE Create
  BY <1>9 DEF Create, OpenPullRequest
<1>10. CASE MergeWhenChecksPass
  BY <1>10, PrChanges DEF MergeWhenChecksPass, MergePr, Open
<1>11. CASE MergeAnswerLost
  BY <1>11, PrChanges DEF MergeAnswerLost, MergePr, Open
<1>12. CASE PushRefreshed
  BY <1>12 DEF PushRefreshed, Push, NewHead
<1>13. CASE \E n \in 1..MaxPrs : OwnerMerges(n)
  BY <1>13, PrChanges DEF OwnerMerges, MergePr, Open
<1>14. CASE \E n \in 1..MaxPrs : OwnerCloses(n)
  BY <1>14, PrChanges DEF OwnerCloses, MergePr, Open
<1>15. CASE \E n \in 1..MaxPrs : OwnerReopens(n)
  BY <1>15, PrChanges DEF OwnerReopens
<1>16. CASE ChecksRegister \/ ChecksReport
  BY <1>16 DEF ChecksRegister, ChecksReport
<1>17. CASE QueueMoves
  BY <1>17, PrChanges DEF QueueMoves, MergePr, Open
<1>18. CASE OwnerPushes
  BY <1>18 DEF OwnerPushes, NewHead
<1>19. CASE ReadOpen
  BY <1>19 DEF ReadOpen
<1> QED
  BY <1>1, <1>2, <1>3, <1>4, <1>5, <1>6, <1>7, <1>8, <1>9, <1>10, <1>11, <1>12, <1>13,
    <1>14, <1>15, <1>16, <1>17, <1>18, <1>19 DEF Next, TickNext, HolderNext, OwnerNext,
    OthersNext, vars, forgeVars, quiet

\* What is forgotten is well typed.
LEMMA Records ==
  /\ Unread \in [accepted: BOOLEAN, awaiting: BOOLEAN, keeps: BOOLEAN]
  /\ Nothing \in [head: SUBSET Commits, pr: 0..MaxPrs]
  BY BoundsAssumption DEF Unread, Nothing

\* Who answers gives up the lock and the step together.
LEMMA AnswerTypes ==
  ASSUME ProcessTypes, Answer, UNCHANGED kills
  PROVE  ProcessTypes'
<1>1. CASE holder = "tick"
  BY <1>1, Records DEF ProcessTypes, Answer, TickEnds, Steps
<1>2. CASE holder # "tick"
  BY <1>2, Records DEF ProcessTypes, Answer, Steps
<1> QED
  BY <1>1, <1>2

\* A holder that goes on keeps the lock.
LEMMA GotoTypes ==
  ASSUME ProcessTypes, holder \in Askers, NEW next \in Steps \ {"none"}, Goto(next),
         mem' \in [head: SUBSET Commits, pr: 0..MaxPrs], UNCHANGED kills
  PROVE  ProcessTypes'
  BY DEF ProcessTypes, Goto, Askers

\* `open_pull_request` answers an open pull request of the branch.
LEMMA Opened ==
  ASSUME TypeOK, OpenPullRequest
  PROVE  /\ prs' \in Seq({"open", "merged", "closed"})
         /\ mem' \in [head: SUBSET Commits, pr: 0..MaxPrs]
         /\ mem'.pr \in 1..Len(prs') /\ prs'[mem'.pr] = "open"
         /\ Len(prs) <= Len(prs')
<1> DEFINE new == CHOOSE n \in DOMAIN prs' : prs'[n] = "open"
<1> USE BoundsAssumption
<1>1. \E n \in DOMAIN prs' : prs'[n] = "open"
  <2>1. CASE OpenPrs # {}
    BY <2>1 DEF OpenPullRequest, OpenPrs
  <2>2. CASE OpenPrs = {}
    BY <2>2 DEF OpenPullRequest, OpenPrs, TypeOK, ForgeTypes
  <2> QED
    BY <2>1, <2>2
<1>2. new \in DOMAIN prs' /\ prs'[new] = "open"
  BY <1>1
<1>3. prs' \in Seq({"open", "merged", "closed"}) /\ Len(prs) <= Len(prs') /\ Len(prs') <= MaxPrs
  BY DEF OpenPullRequest, TypeOK, ForgeTypes
<1>4. new \in 1..Len(prs')
  BY <1>2, <1>3
<1>5. mem' = [mem EXCEPT !.pr = new]
  BY DEF OpenPullRequest
<1> HIDE DEF new
<1>6. mem' \in [head: SUBSET Commits, pr: 0..MaxPrs] /\ mem'.pr = new
  BY <1>3, <1>4, <1>5 DEF TypeOK, ProcessTypes
<1> QED
  BY <1>2, <1>3, <1>4, <1>6

\* Only a holder has a step to take, through answers, errors and kills.
LEMMA ProcessStep == TypeOK /\ [Next]_vars => ProcessTypes'
<1> SUFFICES ASSUME TypeOK, [Next]_vars PROVE ProcessTypes'
  OBVIOUS
<1>1. ASSUME \/ Start \/ OwnerPushes \/ OwnerMergesByHand \/ OwnerPublishes
             \/ OwnerSwitches \/ OwnerKeepsLocal \/ TeamReopens \/ OthersFetch
      PROVE  UNCHANGED <<tick, row, holder, step, mem, kills>>
  BY <1>1 DEF Start, OwnerPushes, OwnerMergesByHand, OwnerPublishes, OwnerSwitches,
    OwnerKeepsLocal, TeamReopens, OthersFetch, quiet
<1>2. ASSUME \/ ChecksRegister \/ ChecksReport \/ QueueMoves \/ AcceptAgain
             \/ \E n \in 1..MaxPrs : OwnerMerges(n)
             \/ \E n \in 1..MaxPrs : OwnerCloses(n)
             \/ \E n \in 1..MaxPrs : OwnerReopens(n)
             \/ \E b \in Bases : OthersLand(b)
      PROVE  UNCHANGED <<tick, row, holder, step, mem, kills>>
  BY <1>2 DEF ChecksRegister, ChecksReport, QueueMoves, AcceptAgain, OwnerMerges, OwnerCloses,
    OwnerReopens, OthersLand, quiet
<1>mem. mem \in [head: SUBSET Commits, pr: 0..MaxPrs] /\ ProcessTypes
  BY DEF TypeOK, ProcessTypes
<1> USE BoundsAssumption, AnswerTypes, GotoTypes, <1>mem DEF Holding, Steps
<1>3. CASE UNCHANGED <<tick, row, holder, step, mem, kills>>
  BY <1>3 DEF ProcessTypes
<1>4. CASE TickReads
  <2>1. row' \in [accepted: BOOLEAN, awaiting: BOOLEAN, keeps: BOOLEAN]
    BY <1>4 DEF TickReads, TypeOK, LogTypes, Choices
  <2> QED
    BY <1>4, <2>1 DEF TickReads, ProcessTypes
<1>5. CASE Cleanup
  BY <1>5, Records DEF Cleanup, ProcessTypes, TickEnds
<1>6. CASE CleanupPasses
  BY <1>6, Records DEF CleanupPasses, ProcessTypes, TickEnds
<1>7. CASE Recover
  BY <1>7 DEF Recover, ProcessTypes
<1>8. CASE Decide
  BY <1>8 DEF Decide
<1>9. CASE Fails
  BY <1>9 DEF Fails, Escalate
<1>10. CASE Errs
  BY <1>10 DEF Errs
<1>11. CASE Finish
  BY <1>11 DEF Finish
<1>12. CASE Record
  BY <1>12 DEF Record
<1>13. CASE FileTheRederive
  BY <1>13 DEF FileTheRederive
<1>14. CASE OpenByHand
  BY <1>14 DEF OpenByHand, ToRecord
<1>15. CASE OpenPushes
  BY <1>15 DEF OpenPushes
<1>16. CASE Create
  BY <1>16, Opened DEF Create
<1>17. CASE NoteOpened
  BY <1>17 DEF NoteOpened
<1>18. CASE ReadOpen
  BY <1>18 DEF ReadOpen, TypeOK, GitTypes
<1>19. CASE ReadMerged
  BY <1>19 DEF ReadMerged, TypeOK, LogTypes
<1>20. CASE ReadClosed
  BY <1>20 DEF ReadClosed
<1>21. CASE EscalateClosed
  BY <1>21 DEF EscalateClosed
<1>22. CASE RevertTheSwitch
  BY <1>22 DEF RevertTheSwitch
<1>23. CASE MergeWhenChecksPass
  BY <1>23 DEF MergeWhenChecksPass
<1>24. CASE MergeAnswerLost
  BY <1>24 DEF MergeAnswerLost, Escalate
<1>25. CASE Reread
  BY <1>25 DEF Reread, TypeOK, LogTypes
<1>26. CASE CatchUp
  BY <1>26 DEF CatchUp
<1>27. CASE SwitchFetches
  BY <1>27 DEF SwitchFetches
<1>28. CASE ClosedForTheHuman
  BY <1>28 DEF ClosedForTheHuman, ToRecord
<1>29. CASE FetchBehind
  BY <1>29 DEF FetchBehind
<1>30. CASE AddWorktree
  BY <1>30 DEF AddWorktree
<1>31. CASE MergeInWorktree
  BY <1>31 DEF MergeInWorktree
<1>32. CASE PushRefreshed
  BY <1>32 DEF PushRefreshed
<1>33. CASE PushRefused
  BY <1>33 DEF PushRefused
<1>34. CASE RemoveWorktree
  BY <1>34 DEF RemoveWorktree, Escalate
<1>35. CASE SendBack
  BY <1>35 DEF SendBack
<1>36. CASE SendBackRefused
  BY <1>36 DEF SendBackRefused, Escalate
<1>37. CASE LandFound
  BY <1>37 DEF LandFound, ToRecord
<1>38. CASE LandMerges
  BY <1>38 DEF LandMerges, ToRecord
<1>39. CASE LandConflicts
  BY <1>39 DEF LandConflicts
<1>40. CASE Abort
  BY <1>40 DEF Abort, Escalate
<1>41. CASE \E p \in Askers : TakeLock(p)
  BY <1>41 DEF TakeLock, ProcessTypes, Askers
<1>42. CASE \E ps \in SUBSET Askers \ {{}} : Kill(ps)
  BY <1>42, Records DEF Kill, ProcessTypes, Askers
<1> QED
  BY <1>1, <1>2, <1>3, <1>4, <1>5, <1>6, <1>7, <1>8, <1>9, <1>10, <1>11, <1>12, <1>13,
    <1>14, <1>15, <1>16, <1>17, <1>18, <1>19, <1>20, <1>21, <1>22, <1>23, <1>24, <1>25,
    <1>26, <1>27, <1>28, <1>29, <1>30, <1>31, <1>32, <1>33, <1>34, <1>35, <1>36, <1>37,
    <1>38, <1>39, <1>40, <1>41, <1>42 DEF Next, TickNext, HolderNext, OwnerNext,
    OthersNext, vars, quiet

-----------------------------------------------------------------------------
(* What no step takes back.                                                *)

\* Branches only gain commits, at the remote too: a push that would take any back is
\* refused.
LEMMA Grows ==
  ASSUME TypeOK, [Next]_vars
  PROVE  local \subseteq local' /\ origin \subseteq origin' /\ branch \subseteq branch'
         /\ pushed \subseteq pushed'
<1>1. ASSUME \/ TickReads \/ Cleanup \/ CleanupPasses \/ Start \/ Recover \/ Decide
             \/ Fails \/ Errs
      PROVE  UNCHANGED <<local, origin, branch, pushed>>
  BY <1>1 DEF TickReads, Cleanup, CleanupPasses, Start, Recover, Decide, Fails, Errs,
    gitVars, quiet
<1>2. ASSUME \/ Finish \/ Record \/ FileTheRederive \/ OpenByHand \/ Create \/ NoteOpened
             \/ ReadOpen \/ ReadMerged
      PROVE  UNCHANGED <<local, origin, branch, pushed>>
  BY <1>2 DEF Finish, Record, FileTheRederive, OpenByHand, Create, NoteOpened, ReadOpen,
    ReadMerged, gitVars, quiet
<1>3. ASSUME \/ ReadClosed \/ EscalateClosed \/ RevertTheSwitch \/ Reread \/ AddWorktree
             \/ PushRefused \/ RemoveWorktree \/ SendBack
      PROVE  UNCHANGED <<local, origin, branch, pushed>>
  BY <1>3 DEF ReadClosed, EscalateClosed, RevertTheSwitch, Reread, AddWorktree,
    PushRefused, RemoveWorktree, SendBack, gitVars, quiet
<1>4. ASSUME \/ SendBackRefused \/ LandFound \/ LandConflicts \/ Abort \/ OwnerSwitches
             \/ OwnerKeepsLocal \/ TeamReopens \/ ChecksRegister \/ ChecksReport
      PROVE  UNCHANGED <<local, origin, branch, pushed>>
  BY <1>4 DEF SendBackRefused, LandFound, LandConflicts, Abort, OwnerSwitches,
    OwnerKeepsLocal, TeamReopens, ChecksRegister, ChecksReport, gitVars, quiet
<1>5. ASSUME \/ \E n \in 1..MaxPrs : OwnerCloses(n)
             \/ \E n \in 1..MaxPrs : OwnerReopens(n)
             \/ \E p \in Askers : TakeLock(p)
             \/ \E ps \in SUBSET Askers \ {{}} : Kill(ps)
      PROVE  UNCHANGED <<local, origin, branch, pushed>>
  BY <1>5 DEF OwnerCloses, OwnerReopens, TakeLock, Kill, gitVars, quiet
<1>6. CASE UNCHANGED <<local, origin, branch, pushed>>
  BY <1>6 DEF gitVars, quiet
<1>7. CASE OpenPushes
  BY <1>7 DEF OpenPushes, Push, NewHead
<1>8. CASE MergeWhenChecksPass
  BY <1>8 DEF MergeWhenChecksPass, MergePr
<1>9. CASE MergeAnswerLost
  BY <1>9 DEF MergeAnswerLost, MergePr
<1>10. CASE CatchUp
  BY <1>10 DEF CatchUp, MoveLocal, FastForward
<1>11. CASE SwitchFetches
  BY <1>11 DEF SwitchFetches, MoveLocal, FastForward
<1>12. CASE ClosedForTheHuman
  BY <1>12 DEF ClosedForTheHuman, MoveLocal, FastForward
<1>13. CASE FetchBehind
  BY <1>13 DEF FetchBehind, MoveLocal, FastForward
<1>14. CASE MergeInWorktree
  BY <1>14 DEF MergeInWorktree
<1>15. CASE PushRefreshed
  BY <1>15 DEF PushRefreshed, Push, NewHead
<1>16. CASE LandMerges
  BY <1>16 DEF LandMerges, MoveLocal, FastForward
<1>17. CASE \E b \in Bases : OthersLand(b)
  BY <1>17 DEF OthersLand, MoveLocal, FastForward
<1>18. CASE OthersFetch
  BY <1>18 DEF OthersFetch, MoveLocal, FastForward
<1>19. CASE \E n \in 1..MaxPrs : OwnerMerges(n)
  BY <1>19 DEF OwnerMerges, MergePr
<1>20. CASE QueueMoves
  BY <1>20 DEF QueueMoves, MergePr
<1>21. CASE OwnerPushes
  BY <1>21 DEF OwnerPushes, NewHead
<1>22. CASE OwnerMergesByHand
  BY <1>22 DEF OwnerMergesByHand, MoveLocal, FastForward
<1>23. CASE OwnerPublishes
  BY <1>23 DEF OwnerPublishes
<1>24. CASE AcceptAgain
  BY <1>24 DEF AcceptAgain
<1> QED
  BY <1>1, <1>2, <1>3, <1>4, <1>5, <1>6, <1>7, <1>8, <1>9, <1>10, <1>11, <1>12, <1>13,
    <1>14, <1>15, <1>16, <1>17, <1>18, <1>19, <1>20, <1>21, <1>22, <1>23, <1>24 DEF
    Next, TickNext, HolderNext, OwnerNext, OthersNext, vars, gitVars, quiet

\* Only an acceptance changes what was accepted last, and nothing what it is.
LEMMA RoundStays ==
  ASSUME [Next]_vars
  PROVE  /\ UNCHANGED subject
         /\ ~AcceptAgain => UNCHANGED round
<1>1. ASSUME \/ TickReads \/ Cleanup \/ CleanupPasses \/ Start \/ Recover \/ Decide
             \/ Errs \/ Finish
      PROVE  UNCHANGED <<subject, round>>
  BY <1>1 DEF TickReads, Cleanup, CleanupPasses, Start, Recover, Decide, Errs, Finish,
    given, logVars, quiet
<1>2. ASSUME \/ Record \/ FileTheRederive \/ OpenByHand \/ OpenPushes \/ Create
             \/ NoteOpened \/ ReadOpen \/ ReadMerged
      PROVE  UNCHANGED <<subject, round>>
  BY <1>2 DEF Record, FileTheRederive, OpenByHand, OpenPushes, Create, NoteOpened,
    ReadOpen, ReadMerged, given, logVars, quiet
<1>3. ASSUME \/ ReadClosed \/ EscalateClosed \/ RevertTheSwitch \/ MergeWhenChecksPass
             \/ Reread \/ CatchUp \/ SwitchFetches \/ ClosedForTheHuman
      PROVE  UNCHANGED <<subject, round>>
  BY <1>3 DEF ReadClosed, EscalateClosed, RevertTheSwitch, MergeWhenChecksPass, Reread,
    CatchUp, SwitchFetches, ClosedForTheHuman, given, logVars, quiet
<1>4. ASSUME \/ FetchBehind \/ AddWorktree \/ MergeInWorktree \/ PushRefreshed
             \/ PushRefused \/ SendBack \/ LandFound \/ LandMerges
      PROVE  UNCHANGED <<subject, round>>
  BY <1>4 DEF FetchBehind, AddWorktree, MergeInWorktree, PushRefreshed, PushRefused,
    SendBack, LandFound, LandMerges, given, logVars, quiet
<1>5. ASSUME \/ LandConflicts \/ OwnerPushes \/ OwnerMergesByHand \/ OwnerPublishes
             \/ OwnerSwitches \/ TeamReopens \/ OthersFetch \/ ChecksRegister \/ ChecksReport
      PROVE  UNCHANGED <<subject, round>>
  BY <1>5 DEF LandConflicts, OwnerPushes, OwnerMergesByHand, OwnerPublishes,
    OwnerSwitches, TeamReopens, OthersFetch, ChecksRegister, ChecksReport, given, logVars, quiet
<1>6. ASSUME \/ QueueMoves
             \/ \E n \in 1..MaxPrs : OwnerMerges(n)
             \/ \E n \in 1..MaxPrs : OwnerCloses(n)
             \/ \E n \in 1..MaxPrs : OwnerReopens(n)
             \/ \E b \in Bases : OthersLand(b)
             \/ \E p \in Askers : TakeLock(p)
             \/ \E ps \in SUBSET Askers \ {{}} : Kill(ps)
      PROVE  UNCHANGED <<subject, round>>
  BY <1>6 DEF QueueMoves, OwnerMerges, OwnerCloses, OwnerReopens, OthersLand, TakeLock,
    Kill, given, logVars, quiet
<1>7. CASE UNCHANGED <<subject, round>>
  BY <1>7 DEF given, logVars, quiet
<1>8. CASE Fails
  BY <1>8 DEF Fails, given, logVars, Escalate, quiet
<1>9. CASE MergeAnswerLost
  BY <1>9 DEF MergeAnswerLost, given, logVars, Escalate, quiet
<1>10. CASE RemoveWorktree
  BY <1>10 DEF RemoveWorktree, given, logVars, Escalate, quiet
<1>11. CASE SendBackRefused
  BY <1>11 DEF SendBackRefused, given, logVars, Escalate, quiet
<1>12. CASE Abort
  BY <1>12 DEF Abort, given, logVars, Escalate, quiet
<1>13. CASE OwnerKeepsLocal
  BY <1>13 DEF OwnerKeepsLocal, given, logVars, Escalate, quiet
<1>14. CASE AcceptAgain
  BY <1>14 DEF AcceptAgain, given, logVars, Escalate, quiet
<1> QED
  BY <1>1, <1>2, <1>3, <1>4, <1>5, <1>6, <1>7, <1>8, <1>9, <1>10, <1>11, <1>12, <1>13,
    <1>14 DEF Next, TickNext, HolderNext, OwnerNext, OthersNext, vars, given, logVars,
    quiet

\* A pull request is never forgotten.
LEMMA PrsStay == TypeOK /\ [Next]_vars => Len(prs) <= Len(prs')
<1> SUFFICES ASSUME TypeOK, [Next]_vars PROVE Len(prs) <= Len(prs')
  OBVIOUS
<1>1. ASSUME \/ TickReads \/ Cleanup \/ CleanupPasses \/ Start \/ Recover \/ Decide
             \/ Fails \/ Errs
      PROVE  UNCHANGED prs
  BY <1>1 DEF TickReads, Cleanup, CleanupPasses, Start, Recover, Decide, Fails, Errs,
    forgeVars, quiet
<1>2. ASSUME \/ Finish \/ Record \/ FileTheRederive \/ OpenByHand \/ OpenPushes
             \/ NoteOpened \/ ReadOpen \/ ReadMerged
      PROVE  UNCHANGED prs
  BY <1>2 DEF Finish, Record, FileTheRederive, OpenByHand, OpenPushes, NoteOpened,
    ReadOpen, ReadMerged, forgeVars, quiet
<1>3. ASSUME \/ ReadClosed \/ EscalateClosed \/ RevertTheSwitch \/ Reread \/ CatchUp
             \/ SwitchFetches \/ ClosedForTheHuman \/ FetchBehind
      PROVE  UNCHANGED prs
  BY <1>3 DEF ReadClosed, EscalateClosed, RevertTheSwitch, Reread, CatchUp,
    SwitchFetches, ClosedForTheHuman, FetchBehind, forgeVars, quiet
<1>4. ASSUME \/ AddWorktree \/ MergeInWorktree \/ PushRefreshed \/ PushRefused
             \/ RemoveWorktree \/ SendBack \/ SendBackRefused \/ LandFound
      PROVE  UNCHANGED prs
  BY <1>4 DEF AddWorktree, MergeInWorktree, PushRefreshed, PushRefused, RemoveWorktree,
    SendBack, SendBackRefused, LandFound, forgeVars, quiet
<1>5. ASSUME \/ LandMerges \/ LandConflicts \/ Abort \/ OwnerPushes \/ OwnerMergesByHand
             \/ OwnerPublishes \/ OwnerSwitches \/ OwnerKeepsLocal
      PROVE  UNCHANGED prs
  BY <1>5 DEF LandMerges, LandConflicts, Abort, OwnerPushes, OwnerMergesByHand,
    OwnerPublishes, OwnerSwitches, OwnerKeepsLocal, forgeVars, quiet
<1>6. ASSUME \/ TeamReopens \/ OthersFetch \/ ChecksRegister \/ ChecksReport \/ AcceptAgain
             \/ \E b \in Bases : OthersLand(b)
             \/ \E p \in Askers : TakeLock(p)
             \/ \E ps \in SUBSET Askers \ {{}} : Kill(ps)
      PROVE  UNCHANGED prs
  BY <1>6 DEF TeamReopens, OthersFetch, ChecksRegister, ChecksReport, AcceptAgain,
    OthersLand, TakeLock, Kill, forgeVars, quiet
<1> USE DEF TypeOK, ForgeTypes
<1>7. CASE UNCHANGED prs
  BY <1>7 DEF forgeVars, quiet
<1>8. CASE Create
  BY <1>8, Opened DEF Create
<1>9. CASE MergeWhenChecksPass
  BY <1>9, PrChanges DEF MergeWhenChecksPass, MergePr, Open
<1>10. CASE MergeAnswerLost
  BY <1>10, PrChanges DEF MergeAnswerLost, MergePr, Open
<1>11. CASE \E n \in 1..MaxPrs : OwnerMerges(n)
  BY <1>11, PrChanges DEF OwnerMerges, MergePr, Open
<1>12. CASE \E n \in 1..MaxPrs : OwnerCloses(n)
  BY <1>12, PrChanges DEF OwnerCloses, MergePr, Open
<1>13. CASE \E n \in 1..MaxPrs : OwnerReopens(n)
  BY <1>13, PrChanges DEF OwnerReopens
<1>14. CASE QueueMoves
  BY <1>14, PrChanges DEF QueueMoves, MergePr, Open
<1> QED
  BY <1>1, <1>2, <1>3, <1>4, <1>5, <1>6, <1>7, <1>8, <1>9, <1>10, <1>11, <1>12, <1>13,
    <1>14 DEF Next, TickNext, HolderNext, OwnerNext, OthersNext, vars, forgeVars, quiet

\* A pull request that is named is there.
LEMMA NamedStep == TypeOK /\ [Next]_vars => url' <= Len(prs') /\ mem'.pr <= Len(prs')
<1> SUFFICES ASSUME TypeOK, [Next]_vars PROVE url' <= Len(prs') /\ mem'.pr <= Len(prs')
  OBVIOUS
<1>0. Len(prs) <= Len(prs') /\ Len(prs) \in Nat /\ Len(prs') \in Nat
      /\ url \in Nat /\ url <= Len(prs) /\ mem.pr \in Nat /\ mem.pr <= Len(prs)
  BY PrsStay, ForgeStep DEF TypeOK, ForgeTypes, LogTypes, ProcessTypes
<1>mem. mem \in [head: SUBSET Commits, pr: 0..MaxPrs]
  BY DEF TypeOK, ProcessTypes
<1>1. ASSUME \/ TickReads \/ Cleanup \/ CleanupPasses \/ Start \/ Recover \/ Finish
             \/ OpenPushes \/ MergeWhenChecksPass
      PROVE  UNCHANGED <<url, mem>>
  BY <1>1 DEF TickReads, Cleanup, CleanupPasses, Start, Recover, Finish, OpenPushes,
    MergeWhenChecksPass, logVars, quiet
<1>2. ASSUME \/ SwitchFetches \/ ClosedForTheHuman \/ AddWorktree \/ PushRefreshed
             \/ PushRefused \/ LandFound \/ LandMerges \/ LandConflicts
      PROVE  UNCHANGED <<url, mem>>
  BY <1>2 DEF SwitchFetches, ClosedForTheHuman, AddWorktree, PushRefreshed, PushRefused,
    LandFound, LandMerges, LandConflicts, logVars, quiet
<1>3. ASSUME \/ OwnerPushes \/ OwnerMergesByHand \/ OwnerPublishes \/ OwnerSwitches
             \/ OwnerKeepsLocal \/ TeamReopens \/ OthersFetch \/ ChecksRegister \/ ChecksReport
      PROVE  UNCHANGED <<url, mem>>
  BY <1>3 DEF OwnerPushes, OwnerMergesByHand, OwnerPublishes, OwnerSwitches,
    OwnerKeepsLocal, TeamReopens, OthersFetch, ChecksRegister, ChecksReport, logVars, quiet
<1>4. ASSUME \/ QueueMoves
             \/ \E n \in 1..MaxPrs : OwnerMerges(n)
             \/ \E n \in 1..MaxPrs : OwnerCloses(n)
             \/ \E n \in 1..MaxPrs : OwnerReopens(n)
             \/ \E b \in Bases : OthersLand(b)
             \/ \E p \in Askers : TakeLock(p)
      PROVE  UNCHANGED <<url, mem>>
  BY <1>4 DEF QueueMoves, OwnerMerges, OwnerCloses, OwnerReopens, OthersLand, TakeLock,
    logVars, quiet
<1> USE <1>0, <1>mem DEF Answer, Nothing
<1>5. CASE UNCHANGED <<url, mem>>
  BY <1>5 DEF logVars, quiet
<1>6. CASE Decide
  BY <1>6 DEF Decide, logVars, Escalate
<1>7. CASE Fails
  BY <1>7 DEF Fails, logVars, Escalate
<1>8. CASE Errs
  BY <1>8 DEF Errs, logVars, Escalate
<1>9. CASE Record
  BY <1>9 DEF Record, logVars, Escalate
<1>10. CASE FileTheRederive
  BY <1>10 DEF FileTheRederive, logVars, Escalate
<1>11. CASE OpenByHand
  BY <1>11 DEF OpenByHand, logVars, Escalate
<1>12. CASE Create
  BY <1>12, Opened DEF Create, logVars, Escalate
<1>13. CASE NoteOpened
  BY <1>13 DEF NoteOpened, logVars, Escalate
<1>14. CASE ReadOpen
  BY <1>14 DEF ReadOpen, logVars, Escalate
<1>15. CASE ReadMerged
  BY <1>15 DEF ReadMerged, logVars, Escalate
<1>16. CASE ReadClosed
  BY <1>16 DEF ReadClosed, logVars, Escalate
<1>17. CASE EscalateClosed
  BY <1>17 DEF EscalateClosed, logVars, Escalate
<1>18. CASE RevertTheSwitch
  BY <1>18 DEF RevertTheSwitch, logVars, Escalate
<1>19. CASE MergeAnswerLost
  BY <1>19 DEF MergeAnswerLost, logVars, Escalate
<1>20. CASE Reread
  BY <1>20 DEF Reread, logVars, Escalate
<1>21. CASE CatchUp
  BY <1>21 DEF CatchUp, logVars, Escalate
<1>22. CASE FetchBehind
  BY <1>22 DEF FetchBehind, logVars, Escalate
<1>23. CASE MergeInWorktree
  BY <1>23 DEF MergeInWorktree, logVars, Escalate
<1>24. CASE RemoveWorktree
  BY <1>24 DEF RemoveWorktree, logVars, Escalate
<1>25. CASE SendBack
  BY <1>25 DEF SendBack, logVars, Escalate
<1>26. CASE SendBackRefused
  BY <1>26 DEF SendBackRefused, logVars, Escalate
<1>27. CASE Abort
  BY <1>27 DEF Abort, logVars, Escalate
<1>28. CASE \E ps \in SUBSET Askers \ {{}} : Kill(ps)
  BY <1>28 DEF Kill, logVars, Escalate
<1>29. CASE AcceptAgain
  BY <1>29 DEF AcceptAgain, logVars, Escalate, quiet
<1> QED
  BY <1>1, <1>2, <1>3, <1>4, <1>5, <1>6, <1>7, <1>8, <1>9, <1>10, <1>11, <1>12, <1>13,
    <1>14, <1>15, <1>16, <1>17, <1>18, <1>19, <1>20, <1>21, <1>22, <1>23, <1>24, <1>25,
    <1>26, <1>27, <1>28, <1>29 DEF Next, TickNext, HolderNext, OwnerNext, OthersNext,
    vars, logVars, quiet

\* Every state is well typed.
THEOREM TypeCorrect == Spec => []TypeOK
<1>1. Init => TypeOK
  <2> SUFFICES ASSUME Init PROVE TypeOK
    OBVIOUS
  <2> USE BoundsAssumption, CasesAssumption DEF Init
  <2>1. LogTypes
    <3>1. PICK c \in Cases : subject = c[1] /\ policy = c[2]
      OBVIOUS
    <3>2. c \in Kinds \X Choices
      OBVIOUS
    <3>3. subject \in Kinds /\ policy \in Choices
      BY <3>1, <3>2
    <3>4. awaiting \in BOOLEAN /\ escalated \in BOOLEAN /\ followed \in BOOLEAN /\ reverted \in BOOLEAN
      BY Zenon
    <3>5. /\ status \in {"accepted", "assigned", "in_progress"}
          /\ round \in 1..MaxRounds /\ url \in 0..MaxPrs /\ recorded \in Nat
      OBVIOUS
    <3> HIDE DEF Init
    <3> QED
      BY <3>3, <3>4, <3>5 DEF LogTypes
  <2>2. GitTypes
    BY CommitsAre DEF GitTypes
  <2>3. ForgeTypes
    <3>1. prs = <<>> /\ checks = "none" /\ early \in BOOLEAN /\ queued \in BOOLEAN
      BY Zenon
    <3>2. prs \in Seq({"open", "merged", "closed"}) /\ Len(prs) <= MaxPrs
      BY <3>1, EmptySeq
    <3> HIDE DEF Init
    <3> QED
      BY <3>1, <3>2 DEF ForgeTypes
  <2>4. ProcessTypes
    BY Records DEF ProcessTypes, Steps
  <2>5. url <= Len(prs) /\ mem.pr <= Len(prs)
    BY EmptySeq DEF Nothing
  <2> QED
    BY <2>1, <2>2, <2>3, <2>4, <2>5 DEF TypeOK
<1>2. TypeOK /\ [Next]_vars => TypeOK'
  BY LogStep, GitStep, ForgeStep, ProcessStep, NamedStep DEF TypeOK
<1> QED
  BY <1>1, <1>2, PTL DEF Spec

-----------------------------------------------------------------------------
(* The books: what awaits its integration was not recorded, and only what  *)
(* awaits it is worked on under the lock.                                  *)

Working == Steps \ {"none", "deciding", "filing", "catching"}

Books ==
  /\ recorded \in {0, 1}
  /\ awaiting => recorded = 0 /\ status = "accepted"
  /\ status # "accepted" => recorded = 0
  /\ step \in Working => awaiting

\* No step but a holder's breaks the books, and a holder asks under the lock.
LEMMA BooksStep == TypeOK /\ Books /\ [Next]_vars => Books'
<1> SUFFICES ASSUME TypeOK, Books, [Next]_vars PROVE Books'
  OBVIOUS
<1>1. ASSUME \/ TickReads \/ Cleanup \/ CleanupPasses \/ Recover \/ OwnerPushes
             \/ OwnerMergesByHand \/ OwnerPublishes \/ OwnerSwitches
      PROVE  UNCHANGED <<status, awaiting, recorded, step>>
  BY <1>1 DEF TickReads, Cleanup, CleanupPasses, Recover, OwnerPushes,
    OwnerMergesByHand, OwnerPublishes, OwnerSwitches, logVars, quiet
<1>2. ASSUME \/ OwnerKeepsLocal \/ TeamReopens \/ OthersFetch \/ ChecksRegister \/ ChecksReport
             \/ QueueMoves
             \/ \E n \in 1..MaxPrs : OwnerMerges(n)
             \/ \E n \in 1..MaxPrs : OwnerCloses(n)
             \/ \E n \in 1..MaxPrs : OwnerReopens(n)
      PROVE  UNCHANGED <<status, awaiting, recorded, step>>
  BY <1>2 DEF OwnerKeepsLocal, TeamReopens, OthersFetch, ChecksRegister, ChecksReport, QueueMoves,
    OwnerMerges, OwnerCloses, OwnerReopens, logVars, quiet
<1>3. ASSUME \/ \E b \in Bases : OthersLand(b)
      PROVE  UNCHANGED <<status, awaiting, recorded, step>>
  BY <1>3 DEF OthersLand, logVars, quiet
<1> USE DEF Books, Working, Steps, Holding, Goto, Answer
<1>4. CASE UNCHANGED <<status, awaiting, recorded, step>>
  BY <1>4 DEF logVars, quiet
<1>5. CASE Decide
  BY <1>5 DEF Decide, logVars, quiet, Escalate, NothingToDo
<1>6. CASE Fails
  BY <1>6 DEF Fails, logVars, quiet, Escalate
<1>7. CASE Errs
  BY <1>7 DEF Errs, logVars, quiet, Escalate
<1>8. CASE Finish
  BY <1>8 DEF Finish, logVars, quiet, Escalate
<1>9. CASE Record
  BY <1>9 DEF Record, logVars, quiet, Escalate
<1>10. CASE FileTheRederive
  BY <1>10 DEF FileTheRederive, logVars, quiet, Escalate
<1>11. CASE OpenByHand
  BY <1>11 DEF OpenByHand, logVars, quiet, Escalate, ToRecord
<1>12. CASE OpenPushes
  BY <1>12 DEF OpenPushes, logVars, quiet, Escalate
<1>13. CASE Create
  BY <1>13 DEF Create, logVars, quiet, Escalate
<1>14. CASE NoteOpened
  BY <1>14 DEF NoteOpened, logVars, quiet, Escalate
<1>15. CASE ReadOpen
  BY <1>15 DEF ReadOpen, logVars, quiet, Escalate
<1>16. CASE ReadMerged
  BY <1>16 DEF ReadMerged, logVars, quiet, Escalate
<1>17. CASE ReadClosed
  BY <1>17 DEF ReadClosed, logVars, quiet, Escalate
<1>18. CASE EscalateClosed
  BY <1>18 DEF EscalateClosed, logVars, quiet, Escalate
<1>19. CASE RevertTheSwitch
  BY <1>19 DEF RevertTheSwitch, logVars, quiet, Escalate
<1>20. CASE MergeWhenChecksPass
  BY <1>20 DEF MergeWhenChecksPass, logVars, quiet, Escalate
<1>21. CASE MergeAnswerLost
  BY <1>21 DEF MergeAnswerLost, logVars, quiet, Escalate
<1>22. CASE Reread
  BY <1>22 DEF Reread, logVars, quiet, Escalate
<1>23. CASE CatchUp
  BY <1>23 DEF CatchUp, logVars, quiet, Escalate
<1>24. CASE SwitchFetches
  BY <1>24 DEF SwitchFetches, logVars, quiet, Escalate
<1>25. CASE ClosedForTheHuman
  BY <1>25 DEF ClosedForTheHuman, logVars, quiet, Escalate, ToRecord
<1>26. CASE FetchBehind
  BY <1>26 DEF FetchBehind, logVars, quiet, Escalate
<1>27. CASE AddWorktree
  BY <1>27 DEF AddWorktree, logVars, quiet, Escalate
<1>28. CASE MergeInWorktree
  BY <1>28 DEF MergeInWorktree, logVars, quiet, Escalate
<1>29. CASE PushRefreshed
  BY <1>29 DEF PushRefreshed, logVars, quiet, Escalate
<1>30. CASE PushRefused
  BY <1>30 DEF PushRefused, logVars, quiet, Escalate
<1>31. CASE RemoveWorktree
  BY <1>31 DEF RemoveWorktree, logVars, quiet, Escalate
<1>32. CASE SendBack
  BY <1>32 DEF SendBack, logVars, quiet, Escalate
<1>33. CASE SendBackRefused
  BY <1>33 DEF SendBackRefused, logVars, quiet, Escalate
<1>34. CASE LandFound
  BY <1>34 DEF LandFound, logVars, quiet, Escalate, ToRecord
<1>35. CASE LandMerges
  BY <1>35 DEF LandMerges, logVars, quiet, Escalate, ToRecord
<1>36. CASE LandConflicts
  BY <1>36 DEF LandConflicts, logVars, quiet, Escalate
<1>37. CASE Abort
  BY <1>37 DEF Abort, logVars, quiet, Escalate
<1>38. CASE \E p \in Askers : TakeLock(p)
  BY <1>38 DEF TakeLock, logVars, quiet, Escalate
<1>39. CASE \E ps \in SUBSET Askers \ {{}} : Kill(ps)
  BY <1>39 DEF Kill, logVars, quiet, Escalate
<1>40. CASE Start
  BY <1>40 DEF Start, logVars, quiet, Escalate
<1>41. CASE AcceptAgain
  BY <1>41 DEF AcceptAgain, logVars, quiet, Escalate
<1> QED
  BY <1>1, <1>2, <1>3, <1>4, <1>5, <1>6, <1>7, <1>8, <1>9, <1>10, <1>11, <1>12, <1>13,
    <1>14, <1>15, <1>16, <1>17, <1>18, <1>19, <1>20, <1>21, <1>22, <1>23, <1>24, <1>25,
    <1>26, <1>27, <1>28, <1>29, <1>30, <1>31, <1>32, <1>33, <1>34, <1>35, <1>36, <1>37,
    <1>38, <1>39, <1>40, <1>41 DEF Next, TickNext, HolderNext, OwnerNext, OthersNext,
    vars, logVars, quiet

-----------------------------------------------------------------------------
(* Where the work is.                                                      *)

\* What the forge merges holds the work that was pushed, squashed or not.
LEMMA MergeBrings ==
  ASSUME TypeOK, NEW n, MergePr(n), Work(round) \in pushed
  PROVE  Holds(origin', round)
  BY DEF MergePr, Holds, TypeOK, LogTypes

\* A pull request that is merged was merged before, or brings what was pushed.
LEMMA MergedNow ==
  ASSUME TypeOK, [Next]_vars, NEW k \in DOMAIN prs, prs'[k] = "merged"
  PROVE  prs[k] = "merged" \/ (Work(round) \in pushed => Holds(origin', round))
<1>1. ASSUME \/ TickReads \/ Cleanup \/ CleanupPasses \/ Start \/ Recover \/ Decide
             \/ Fails \/ Errs
      PROVE  UNCHANGED prs
  BY <1>1 DEF TickReads, Cleanup, CleanupPasses, Start, Recover, Decide, Fails, Errs,
    forgeVars, quiet
<1>2. ASSUME \/ Finish \/ Record \/ FileTheRederive \/ OpenByHand \/ OpenPushes
             \/ NoteOpened \/ ReadOpen \/ ReadMerged
      PROVE  UNCHANGED prs
  BY <1>2 DEF Finish, Record, FileTheRederive, OpenByHand, OpenPushes, NoteOpened,
    ReadOpen, ReadMerged, forgeVars, quiet
<1>3. ASSUME \/ ReadClosed \/ EscalateClosed \/ RevertTheSwitch \/ Reread \/ CatchUp
             \/ SwitchFetches \/ ClosedForTheHuman \/ FetchBehind
      PROVE  UNCHANGED prs
  BY <1>3 DEF ReadClosed, EscalateClosed, RevertTheSwitch, Reread, CatchUp,
    SwitchFetches, ClosedForTheHuman, FetchBehind, forgeVars, quiet
<1>4. ASSUME \/ AddWorktree \/ MergeInWorktree \/ PushRefreshed \/ PushRefused
             \/ RemoveWorktree \/ SendBack \/ SendBackRefused \/ LandFound
      PROVE  UNCHANGED prs
  BY <1>4 DEF AddWorktree, MergeInWorktree, PushRefreshed, PushRefused, RemoveWorktree,
    SendBack, SendBackRefused, LandFound, forgeVars, quiet
<1>5. ASSUME \/ LandMerges \/ LandConflicts \/ Abort \/ OwnerPushes \/ OwnerMergesByHand
             \/ OwnerPublishes \/ OwnerSwitches \/ OwnerKeepsLocal
      PROVE  UNCHANGED prs
  BY <1>5 DEF LandMerges, LandConflicts, Abort, OwnerPushes, OwnerMergesByHand,
    OwnerPublishes, OwnerSwitches, OwnerKeepsLocal, forgeVars, quiet
<1>6. ASSUME \/ TeamReopens \/ OthersFetch \/ ChecksRegister \/ ChecksReport \/ AcceptAgain
             \/ \E b \in Bases : OthersLand(b)
             \/ \E p \in Askers : TakeLock(p)
             \/ \E ps \in SUBSET Askers \ {{}} : Kill(ps)
      PROVE  UNCHANGED prs
  BY <1>6 DEF TeamReopens, OthersFetch, ChecksRegister, ChecksReport, AcceptAgain,
    OthersLand, TakeLock, Kill, forgeVars, quiet
<1>7. CASE UNCHANGED prs
  BY <1>7 DEF forgeVars, quiet
<1>8. CASE Create
  BY <1>8 DEF Create, OpenPullRequest, TypeOK, ForgeTypes
<1>9. CASE MergeWhenChecksPass
  BY <1>9, MergeBrings DEF MergeWhenChecksPass, MergePr, Open, TypeOK, ForgeTypes
<1>10. CASE MergeAnswerLost
  BY <1>10, MergeBrings DEF MergeAnswerLost, MergePr, Open, TypeOK, ForgeTypes
<1>11. CASE \E n \in 1..MaxPrs : OwnerMerges(n)
  BY <1>11, MergeBrings DEF OwnerMerges, MergePr, Open, TypeOK, ForgeTypes
<1>12. CASE \E n \in 1..MaxPrs : OwnerCloses(n)
  BY <1>12 DEF OwnerCloses, Open, TypeOK, ForgeTypes
<1>13. CASE \E n \in 1..MaxPrs : OwnerReopens(n)
  BY <1>13 DEF OwnerReopens, TypeOK, ForgeTypes
<1>14. CASE QueueMoves
  BY <1>14, MergeBrings DEF QueueMoves, MergePr, Open, TypeOK, ForgeTypes
<1> QED
  BY <1>1, <1>2, <1>3, <1>4, <1>5, <1>6, <1>7, <1>8, <1>9, <1>10, <1>11, <1>12, <1>13,
    <1>14 DEF Next, TickNext, HolderNext, OwnerNext, OthersNext, vars, forgeVars, quiet

\* The branch has the work accepted last, the remote has it once a pull request was
\* opened, and a pull request that merged brought it.
Forwarded ==
  /\ Work(round) \in branch
  /\ url # 0 \/ step \in {"creating", "noting"} => Work(round) \in pushed
  /\ url # 0 /\ prs[url] = "merged" => Holds(origin, round)
  /\ step = "noting" => mem.pr # 0 /\ (prs[mem.pr] = "merged" => Holds(origin, round))
  /\ step \in {"reading", "merging", "rereading"} => url # 0

\* Nothing that was forwarded is taken back.
LEMMA ForwardedStep == TypeOK /\ Forwarded /\ Books /\ [Next]_vars => Forwarded'
<1> SUFFICES ASSUME TypeOK, Forwarded, Books, [Next]_vars PROVE Forwarded'
  OBVIOUS
<1>ty. /\ prs \in Seq({"open", "merged", "closed"}) /\ prs' \in Seq({"open", "merged", "closed"})
       /\ Len(prs) <= Len(prs') /\ url \in 0..Len(prs)
       /\ mem \in [head: SUBSET Commits, pr: 0..MaxPrs] /\ mem.pr \in 0..Len(prs)
  BY PrsStay, ForgeStep DEF TypeOK, LogTypes, ForgeTypes, ProcessTypes
<1>grow. origin \subseteq origin' /\ branch \subseteq branch' /\ pushed \subseteq pushed'
  BY Grows
<1>held. Holds(origin, round) => Holds(origin', round)
  BY <1>grow DEF Holds
\* The parts that no step but an acceptance and the holder's can break.
<1>kept. ASSUME UNCHANGED round
         PROVE  /\ Work(round') \in branch'
                /\ Work(round) \in pushed => Work(round') \in pushed'
                /\ \A k \in 1..Len(prs) : prs'[k] = "merged" /\ Work(round) \in pushed
                                           /\ (prs[k] = "merged" => Holds(origin, round))
                     => Holds(origin', round')
  <2>1. Work(round') \in branch' /\ (Work(round) \in pushed => Work(round') \in pushed')
    BY <1>kept, <1>grow DEF Forwarded
  <2>2. ASSUME NEW k \in 1..Len(prs), prs'[k] = "merged", Work(round) \in pushed,
               prs[k] = "merged" => Holds(origin, round)
        PROVE  Holds(origin', round')
    BY <1>ty, <1>held, <1>kept, <2>2, MergedNow
  <2> QED
    BY <2>1, <2>2
<1>acc. CASE AcceptAgain
  <2>1. Work(round') \in branch' /\ url' = 0 /\ step' = step /\ step \notin Working
    BY <1>acc DEF AcceptAgain, Books, quiet
  <2> QED
    BY <2>1 DEF Forwarded, Working, Steps
<1>not. CASE ~AcceptAgain
  <2>r. UNCHANGED round
    BY <1>not, RoundStays
  <2>k. /\ Work(round') \in branch'
        /\ Work(round) \in pushed => Work(round') \in pushed'
        /\ \A k \in 1..Len(prs) : prs'[k] = "merged" /\ Work(round) \in pushed
                                   /\ (prs[k] = "merged" => Holds(origin, round))
             => Holds(origin', round')
    BY <2>r, <1>kept
  <2> QED
    <3>1. ASSUME \/ TickReads \/ Cleanup \/ CleanupPasses \/ Start \/ Recover \/ OwnerPushes
                 \/ OwnerMergesByHand \/ OwnerPublishes
          PROVE  UNCHANGED <<url, step, mem>>
      BY <3>1 DEF TickReads, Cleanup, CleanupPasses, Start, Recover, OwnerPushes,
        OwnerMergesByHand, OwnerPublishes, logVars, quiet
    <3>2. ASSUME \/ OwnerSwitches \/ OwnerKeepsLocal \/ TeamReopens \/ OthersFetch
                 \/ ChecksRegister \/ ChecksReport \/ QueueMoves
                 \/ \E n \in 1..MaxPrs : OwnerMerges(n)
          PROVE  UNCHANGED <<url, step, mem>>
      BY <3>2 DEF OwnerSwitches, OwnerKeepsLocal, TeamReopens, OthersFetch, ChecksRegister,
        ChecksReport, QueueMoves, OwnerMerges, logVars, quiet
    <3>3. ASSUME \/ \E n \in 1..MaxPrs : OwnerCloses(n)
                 \/ \E n \in 1..MaxPrs : OwnerReopens(n)
                 \/ \E b \in Bases : OthersLand(b)
          PROVE  UNCHANGED <<url, step, mem>>
      BY <3>3 DEF OwnerCloses, OwnerReopens, OthersLand, logVars, quiet
    <3> USE <2>k, <1>ty DEF Forwarded, Holding, Goto, Answer
    <3>4. CASE UNCHANGED <<url, step, mem>>
      BY <3>4 DEF logVars, quiet
    <3>5. CASE Decide
      BY <3>5 DEF Decide, logVars, quiet, Escalate, NothingToDo
    <3>6. CASE Fails
      BY <3>6 DEF Fails, logVars, quiet, Escalate
    <3>7. CASE Errs
      BY <3>7 DEF Errs, logVars, quiet, Escalate
    <3>8. CASE Finish
      BY <3>8 DEF Finish, logVars, quiet, Escalate
    <3>9. CASE Record
      BY <3>9 DEF Record, logVars, quiet, Escalate
    <3>10. CASE FileTheRederive
      BY <3>10 DEF FileTheRederive, logVars, quiet, Escalate
    <3>11. CASE OpenByHand
      BY <3>11 DEF OpenByHand, logVars, quiet, Escalate, ToRecord
    <3>12. CASE OpenPushes
      BY <3>12 DEF OpenPushes, logVars, quiet, Escalate, Push, NewHead
    <3>13. CASE Create
      BY <3>13, Opened DEF Create, logVars, quiet, Escalate
    <3>14. CASE NoteOpened
      BY <3>14 DEF NoteOpened, logVars, quiet, Escalate
    <3>15. CASE ReadOpen
      BY <3>15 DEF ReadOpen, logVars, quiet, Escalate
    <3>16. CASE ReadMerged
      BY <3>16 DEF ReadMerged, logVars, quiet, Escalate
    <3>17. CASE ReadClosed
      BY <3>17 DEF ReadClosed, logVars, quiet, Escalate
    <3>18. CASE EscalateClosed
      BY <3>18 DEF EscalateClosed, logVars, quiet, Escalate
    <3>19. CASE RevertTheSwitch
      BY <3>19 DEF RevertTheSwitch, logVars, quiet, Escalate
    <3>20. CASE MergeWhenChecksPass
      BY <3>20 DEF MergeWhenChecksPass, logVars, quiet, Escalate
    <3>21. CASE MergeAnswerLost
      BY <3>21 DEF MergeAnswerLost, logVars, quiet, Escalate
    <3>22. CASE Reread
      BY <3>22 DEF Reread, logVars, quiet, Escalate
    <3>23. CASE CatchUp
      BY <3>23 DEF CatchUp, logVars, quiet, Escalate
    <3>24. CASE SwitchFetches
      BY <3>24 DEF SwitchFetches, logVars, quiet, Escalate
    <3>25. CASE ClosedForTheHuman
      BY <3>25 DEF ClosedForTheHuman, logVars, quiet, Escalate, ToRecord
    <3>26. CASE FetchBehind
      BY <3>26 DEF FetchBehind, logVars, quiet, Escalate
    <3>27. CASE AddWorktree
      BY <3>27 DEF AddWorktree, logVars, quiet, Escalate
    <3>28. CASE MergeInWorktree
      BY <3>28 DEF MergeInWorktree, logVars, quiet, Escalate
    <3>29. CASE PushRefreshed
      BY <3>29 DEF PushRefreshed, logVars, quiet, Escalate
    <3>30. CASE PushRefused
      BY <3>30 DEF PushRefused, logVars, quiet, Escalate
    <3>31. CASE RemoveWorktree
      BY <3>31 DEF RemoveWorktree, logVars, quiet, Escalate
    <3>32. CASE SendBack
      BY <3>32 DEF SendBack, logVars, quiet, Escalate
    <3>33. CASE SendBackRefused
      BY <3>33 DEF SendBackRefused, logVars, quiet, Escalate
    <3>34. CASE LandFound
      BY <3>34 DEF LandFound, logVars, quiet, Escalate, ToRecord
    <3>35. CASE LandMerges
      BY <3>35 DEF LandMerges, logVars, quiet, Escalate, ToRecord
    <3>36. CASE LandConflicts
      BY <3>36 DEF LandConflicts, logVars, quiet, Escalate
    <3>37. CASE Abort
      BY <3>37 DEF Abort, logVars, quiet, Escalate
    <3>38. CASE \E p \in Askers : TakeLock(p)
      BY <3>38 DEF TakeLock, logVars, quiet, Escalate
    <3>39. CASE \E ps \in SUBSET Askers \ {{}} : Kill(ps)
      BY <3>39 DEF Kill, logVars, quiet, Escalate
    <3> QED
      BY <1>not, <3>1, <3>2, <3>3, <3>4, <3>5, <3>6, <3>7, <3>8, <3>9, <3>10, <3>11, <3>12, <3>13,
        <3>14, <3>15, <3>16, <3>17, <3>18, <3>19, <3>20, <3>21, <3>22, <3>23, <3>24, <3>25,
        <3>26, <3>27, <3>28, <3>29, <3>30, <3>31, <3>32, <3>33, <3>34, <3>35, <3>36, <3>37,
        <3>38, <3>39 DEF Next, TickNext, HolderNext, OwnerNext, OthersNext, vars, logVars,
        quiet
<1> QED
  BY <1>acc, <1>not

\* Only `record_integrated` records.
LEMMA RecordedStays == [Next]_vars /\ ~Record => UNCHANGED recorded
<1> SUFFICES ASSUME [Next]_vars, ~Record PROVE UNCHANGED recorded
  OBVIOUS
<1>1. ASSUME \/ TickReads \/ Cleanup \/ CleanupPasses \/ Start \/ Recover \/ Decide
             \/ Errs \/ Finish
      PROVE  UNCHANGED recorded
  BY <1>1 DEF TickReads, Cleanup, CleanupPasses, Start, Recover, Decide, Errs, Finish,
    logVars, quiet
<1>2. ASSUME\/ FileTheRederive \/ OpenByHand \/ OpenPushes \/ Create
             \/ NoteOpened \/ ReadOpen \/ ReadMerged
      PROVE  UNCHANGED recorded
  BY <1>2 DEF FileTheRederive, OpenByHand, OpenPushes, Create, NoteOpened,
    ReadOpen, ReadMerged, logVars, quiet
<1>3. ASSUME \/ ReadClosed \/ EscalateClosed \/ RevertTheSwitch \/ MergeWhenChecksPass
             \/ Reread \/ CatchUp \/ SwitchFetches \/ ClosedForTheHuman
      PROVE  UNCHANGED recorded
  BY <1>3 DEF ReadClosed, EscalateClosed, RevertTheSwitch, MergeWhenChecksPass, Reread,
    CatchUp, SwitchFetches, ClosedForTheHuman, logVars, quiet
<1>4. ASSUME \/ FetchBehind \/ AddWorktree \/ MergeInWorktree \/ PushRefreshed
             \/ PushRefused \/ SendBack \/ LandFound \/ LandMerges
      PROVE  UNCHANGED recorded
  BY <1>4 DEF FetchBehind, AddWorktree, MergeInWorktree, PushRefreshed, PushRefused,
    SendBack, LandFound, LandMerges, logVars, quiet
<1>5. ASSUME \/ LandConflicts \/ OwnerPushes \/ OwnerMergesByHand \/ OwnerPublishes
             \/ OwnerSwitches \/ OwnerKeepsLocal \/ TeamReopens \/ OthersFetch
      PROVE  UNCHANGED recorded
  BY <1>5 DEF LandConflicts, OwnerPushes, OwnerMergesByHand, OwnerPublishes,
    OwnerSwitches, OwnerKeepsLocal, TeamReopens, OthersFetch, logVars, quiet
<1>6. ASSUME \/ ChecksRegister \/ ChecksReport \/ QueueMoves \/ AcceptAgain
             \/ \E n \in 1..MaxPrs : OwnerMerges(n)
             \/ \E n \in 1..MaxPrs : OwnerCloses(n)
             \/ \E n \in 1..MaxPrs : OwnerReopens(n)
             \/ \E b \in Bases : OthersLand(b)
             \/ \E p \in Askers : TakeLock(p)
      PROVE  UNCHANGED recorded
  BY <1>6 DEF ChecksRegister, ChecksReport, QueueMoves, AcceptAgain, OwnerMerges, OwnerCloses,
    OwnerReopens, OthersLand, TakeLock, logVars, quiet
<1>7. ASSUME \/ \E ps \in SUBSET Askers \ {{}} : Kill(ps)
      PROVE  UNCHANGED recorded
  BY <1>7 DEF Kill, logVars, quiet
<1>8. CASE UNCHANGED recorded
  BY <1>8 DEF logVars, quiet
<1>9. CASE Fails
  BY <1>9 DEF Fails, logVars, Escalate
<1>10. CASE MergeAnswerLost
  BY <1>10 DEF MergeAnswerLost, logVars, Escalate
<1>11. CASE RemoveWorktree
  BY <1>11 DEF RemoveWorktree, logVars, Escalate
<1>12. CASE SendBackRefused
  BY <1>12 DEF SendBackRefused, logVars, Escalate
<1>13. CASE Abort
  BY <1>13 DEF Abort, logVars, Escalate
<1> QED
  BY <1>1, <1>2, <1>3, <1>4, <1>5, <1>6, <1>7, <1>8, <1>9, <1>10, <1>11, <1>12, <1>13
    DEF Next, TickNext, HolderNext, OwnerNext, OthersNext, vars, logVars, quiet

\* What is in the integration branch stays there.
LEMMA LandedStays ==
  ASSUME TypeOK, [Next]_vars, ~AcceptAgain, Landed
  PROVE  Landed'
  BY Grows, RoundStays DEF Landed, Arrived, Holds

\* Work that is about to be recorded is in the integration branch.
Arrival == step \in {"recording", "finishing", "switching"} => Landed

\* The work arrived with a merge: of the forge, the owner or `land_here`.
LEMMA ArrivesWith ==
  ASSUME TypeOK, Holds(local \cup origin, round)
  PROVE  Landed
  BY DEF Landed, Arrived, TypeOK, LogTypes

\* Every way to the record passes a place where the work was seen.
LEMMA ArrivalStep == TypeOK /\ Books /\ Forwarded /\ Arrival /\ [Next]_vars => Arrival'
<1> SUFFICES ASSUME TypeOK, Books, Forwarded, Arrival, [Next]_vars,
                    step' \in {"recording", "finishing", "switching"}
             PROVE  Landed'
  BY DEF Arrival
<1>acc. CASE AcceptAgain
  BY <1>acc DEF AcceptAgain, Books, Working, Steps, quiet
<1> SUFFICES ASSUME ~AcceptAgain PROVE Landed'
  BY <1>acc
<1>stay. Landed => Landed'
  BY LandedStays
<1>work. Work(round) \in branch /\ UNCHANGED <<round, subject>>
  BY RoundStays DEF Forwarded
<1>1. ASSUME \/ TickReads \/ Cleanup \/ CleanupPasses \/ Start \/ Recover \/ OwnerPushes
             \/ OwnerMergesByHand \/ OwnerPublishes
      PROVE  UNCHANGED step
  BY <1>1 DEF TickReads, Cleanup, CleanupPasses, Start, Recover, OwnerPushes,
    OwnerMergesByHand, OwnerPublishes, quiet
<1>2. ASSUME \/ OwnerSwitches \/ OwnerKeepsLocal \/ TeamReopens \/ OthersFetch
             \/ ChecksRegister \/ ChecksReport \/ QueueMoves
             \/ \E n \in 1..MaxPrs : OwnerMerges(n)
      PROVE  UNCHANGED step
  BY <1>2 DEF OwnerSwitches, OwnerKeepsLocal, TeamReopens, OthersFetch, ChecksRegister,
    ChecksReport, QueueMoves, OwnerMerges, quiet
<1>3. ASSUME \/ \E n \in 1..MaxPrs : OwnerCloses(n)
             \/ \E n \in 1..MaxPrs : OwnerReopens(n)
             \/ \E b \in Bases : OthersLand(b)
      PROVE  UNCHANGED step
  BY <1>3 DEF OwnerCloses, OwnerReopens, OthersLand, quiet
<1> USE <1>stay DEF Arrival
<1>4. CASE UNCHANGED step
  BY <1>4 DEF quiet
<1>5. CASE Decide
  <2>1. Carried
    BY <1>5 DEF Decide, Answer, Goto
  <2> QED
    BY <2>1, <1>stay DEF Carried, Landed, Arrived, Holds
<1>6. CASE Fails
  BY <1>6 DEF Fails, Holding, Goto, Answer, Escalate
<1>7. CASE Errs
  BY <1>7 DEF Errs, Holding, Goto, Answer, Escalate
<1>8. CASE Finish
  BY <1>8 DEF Finish, Holding, Goto, Answer, Escalate
<1>9. CASE Record
  BY <1>9 DEF Record, Holding, Goto, Answer, Escalate
<1>10. CASE FileTheRederive
  BY <1>10 DEF FileTheRederive, Holding, Goto, Answer, Escalate
<1>11. CASE OpenByHand
  <2>1. CASE branch \subseteq local
    <3>1. Holds(local \cup origin, round)
      BY <2>1, <1>work DEF Holds
    <3> QED
      BY <3>1, ArrivesWith, <1>stay
  <2>2. CASE ~(branch \subseteq local)
    BY <1>11, <2>2 DEF OpenByHand, Answer
  <2> QED
    BY <2>1, <2>2
<1>12. CASE OpenPushes
  BY <1>12 DEF OpenPushes, Holding, Goto, Answer, Escalate
<1>13. CASE Create
  BY <1>13 DEF Create, Holding, Goto, Answer, Escalate
<1>14. CASE NoteOpened
  BY <1>14 DEF NoteOpened, Holding, Goto, Answer, Escalate
<1>15. CASE ReadOpen
  BY <1>15 DEF ReadOpen, Holding, Goto, Answer, Escalate
<1>16. CASE ReadMerged
  <2>1. CASE prs[url] = "merged"
    <3>1. Holds(local \cup origin, round)
      BY <1>16, <2>1 DEF ReadMerged, Holding, Forwarded, Holds
    <3> QED
      BY <3>1, ArrivesWith, <1>stay
  <2>2. CASE prs[url] # "merged"
    BY <1>16, <2>2 DEF ReadMerged, Answer
  <2> QED
    BY <2>1, <2>2
<1>17. CASE ReadClosed
  BY <1>17 DEF ReadClosed, Holding, Goto, Answer, Escalate
<1>18. CASE EscalateClosed
  BY <1>18 DEF EscalateClosed, Holding, Goto, Answer, Escalate
<1>19. CASE RevertTheSwitch
  BY <1>19 DEF RevertTheSwitch, Holding, Goto, Answer, Escalate
<1>20. CASE MergeWhenChecksPass
  BY <1>20 DEF MergeWhenChecksPass, Holding, Goto, Answer, Escalate
<1>21. CASE MergeAnswerLost
  BY <1>21 DEF MergeAnswerLost, Holding, Goto, Answer, Escalate
<1>22. CASE Reread
  <2>1. CASE prs[url] = "merged"
    <3>1. Holds(local \cup origin, round)
      BY <1>22, <2>1 DEF Reread, Holding, Forwarded, Holds
    <3> QED
      BY <3>1, ArrivesWith, <1>stay
  <2>2. CASE prs[url] # "merged"
    BY <1>22, <2>2 DEF Reread, Answer
  <2> QED
    BY <2>1, <2>2
<1>23. CASE CatchUp
  BY <1>23 DEF CatchUp, Holding, Goto, Answer, Escalate
<1>24. CASE SwitchFetches
  BY <1>24 DEF SwitchFetches, Holding, Goto, Answer, Escalate
<1>25. CASE ClosedForTheHuman
  <2>1. CASE branch \subseteq local \cup origin
    <3>1. Holds(local \cup origin, round)
      BY <2>1, <1>work DEF Holds
    <3> QED
      BY <3>1, ArrivesWith, <1>stay
  <2>2. CASE ~(branch \subseteq local \cup origin)
    BY <1>25, <2>2 DEF ClosedForTheHuman, Goto
  <2> QED
    BY <2>1, <2>2
<1>26. CASE FetchBehind
  BY <1>26 DEF FetchBehind, Holding, Goto, Answer, Escalate
<1>27. CASE AddWorktree
  BY <1>27 DEF AddWorktree, Holding, Goto, Answer, Escalate
<1>28. CASE MergeInWorktree
  BY <1>28 DEF MergeInWorktree, Holding, Goto, Answer, Escalate
<1>29. CASE PushRefreshed
  BY <1>29 DEF PushRefreshed, Holding, Goto, Answer, Escalate
<1>30. CASE PushRefused
  BY <1>30 DEF PushRefused, Holding, Goto, Answer, Escalate
<1>31. CASE RemoveWorktree
  BY <1>31 DEF RemoveWorktree, Holding, Goto, Answer, Escalate
<1>32. CASE SendBack
  BY <1>32 DEF SendBack, Holding, Goto, Answer, Escalate
<1>33. CASE SendBackRefused
  BY <1>33 DEF SendBackRefused, Holding, Goto, Answer, Escalate
<1>34. CASE LandFound
  <2>1. Holds(local \cup origin, round)
    BY <1>34, <1>work DEF LandFound, Holds
  <2> QED
    BY <2>1, ArrivesWith, <1>stay
<1>35. CASE LandMerges
  <2>1. round \in 1..round /\ Holds(local', round)
    BY <1>35, <1>work DEF LandMerges, MoveLocal, Holds, TypeOK, LogTypes
  <2> QED
    BY <2>1, <1>work DEF Landed, Arrived, Holds
<1>36. CASE LandConflicts
  BY <1>36 DEF LandConflicts, Holding, Goto, Answer, Escalate
<1>37. CASE Abort
  BY <1>37 DEF Abort, Holding, Goto, Answer, Escalate
<1>38. CASE \E p \in Askers : TakeLock(p)
  BY <1>38 DEF TakeLock, Holding, Goto, Answer, Escalate
<1>39. CASE \E ps \in SUBSET Askers \ {{}} : Kill(ps)
  BY <1>39 DEF Kill, Holding, Goto, Answer, Escalate
<1> QED
  BY <1>1, <1>2, <1>3, <1>4, <1>5, <1>6, <1>7, <1>8, <1>9, <1>10, <1>11, <1>12, <1>13,
    <1>14, <1>15, <1>16, <1>17, <1>18, <1>19, <1>20, <1>21, <1>22, <1>23, <1>24, <1>25,
    <1>26, <1>27, <1>28, <1>29, <1>30, <1>31, <1>32, <1>33, <1>34, <1>35, <1>36, <1>37,
    <1>38, <1>39 DEF Next, TickNext, HolderNext, OwnerNext, OthersNext, vars, quiet

-----------------------------------------------------------------------------
(* The refinement.                                                         *)

IInv == TypeOK /\ Books /\ Forwarded /\ Arrival

\* The inductive invariant the refinement rests on.
THEOREM Invariance == Spec => []IInv
<1>1. Init => Books /\ Forwarded /\ Arrival
  BY DEF Init, Books, Forwarded, Arrival, Working, Steps
<1>2. TypeOK /\ TypeOK' /\ Books /\ Forwarded /\ Arrival /\ [Next]_vars
        => Books' /\ Forwarded' /\ Arrival'
  BY BooksStep, ForwardedStep, ArrivalStep
<1> QED
  BY <1>1, <1>2, TypeCorrect, PTL DEF Spec, IInv

\* The integration implements Landing: whoever asks, by whichever way, through two
\* acceptances, kills, lost answers and the owner's own merges, work is recorded as
\* integrated only once it is in the integration branch, and only once.
THEOREM Implements == Spec => LandingHonoured
<1>1. Init => Promise!Init
  BY DEF Init, Promise!Init, Landed, Arrived, Holds
<1>2. IInv /\ [Next]_vars => [Promise!Next]_(Promise!vars)
  <2> SUFFICES ASSUME IInv, [Next]_vars PROVE [Promise!Next]_(Promise!vars)
    OBVIOUS
  <2>1. CASE Record
    <3>1. Landed /\ recorded = 0 /\ recorded' = 1
      BY <2>1 DEF Record, Holding, IInv, Arrival, Books, Working, Steps
    <3>2. UNCHANGED <<subject, round, local, origin>>
      BY <2>1 DEF Record, given, gitVars
    <3>3. Landed' = Landed
      BY <3>2 DEF Landed, Arrived, Holds
    <3> QED
      BY <3>1, <3>2, <3>3 DEF Promise!Next, Promise!Record
  <2>2. CASE AcceptAgain
    <3>1. recorded = 0 /\ recorded' = recorded /\ round' = round + 1
      BY <2>2 DEF AcceptAgain, IInv, Books
    <3>2. Landed' \in BOOLEAN
      BY DEF Landed, Arrived
    <3> QED
      BY <3>1, <3>2 DEF Promise!Next, Promise!AcceptAgain
  <2>3. CASE ~Record /\ ~AcceptAgain
    <3>1. UNCHANGED <<round, recorded>>
      BY <2>3, RoundStays, RecordedStays
    <3>2. Landed => Landed'
      BY <2>3, LandedStays DEF IInv
    <3>3. Landed \in BOOLEAN /\ Landed' \in BOOLEAN
      BY DEF Landed, Arrived
    <3> QED
      BY <3>1, <3>2, <3>3 DEF Promise!Next, Promise!Land, Promise!vars
  <2> QED
    BY <2>1, <2>2, <2>3
<1> QED
  BY <1>1, <1>2, Invariance, PTL DEF Spec, LandingHonoured, Promise!Spec

-----------------------------------------------------------------------------
(* Pull requests.                                                          *)

\* Of two open pull requests of the branch, each is the other.
OneOpen == \A i, j \in DOMAIN prs : prs[i] = "open" /\ prs[j] = "open" => i = j

\* One is opened, or reopened, only when none is open.
LEMMA OneOpenStep == TypeOK /\ OneOpen /\ [Next]_vars => OneOpen'
<1> SUFFICES ASSUME TypeOK, OneOpen, [Next]_vars PROVE OneOpen'
  OBVIOUS
<1>1. ASSUME \/ TickReads \/ Cleanup \/ CleanupPasses \/ Start \/ Recover \/ Decide
             \/ Fails \/ Errs
      PROVE  UNCHANGED prs
  BY <1>1 DEF TickReads, Cleanup, CleanupPasses, Start, Recover, Decide, Fails, Errs,
    forgeVars, quiet
<1>2. ASSUME \/ Finish \/ Record \/ FileTheRederive \/ OpenByHand \/ OpenPushes
             \/ NoteOpened \/ ReadOpen \/ ReadMerged
      PROVE  UNCHANGED prs
  BY <1>2 DEF Finish, Record, FileTheRederive, OpenByHand, OpenPushes, NoteOpened,
    ReadOpen, ReadMerged, forgeVars, quiet
<1>3. ASSUME \/ ReadClosed \/ EscalateClosed \/ RevertTheSwitch \/ Reread \/ CatchUp
             \/ SwitchFetches \/ ClosedForTheHuman \/ FetchBehind
      PROVE  UNCHANGED prs
  BY <1>3 DEF ReadClosed, EscalateClosed, RevertTheSwitch, Reread, CatchUp,
    SwitchFetches, ClosedForTheHuman, FetchBehind, forgeVars, quiet
<1>4. ASSUME \/ AddWorktree \/ MergeInWorktree \/ PushRefreshed \/ PushRefused
             \/ RemoveWorktree \/ SendBack \/ SendBackRefused \/ LandFound
      PROVE  UNCHANGED prs
  BY <1>4 DEF AddWorktree, MergeInWorktree, PushRefreshed, PushRefused, RemoveWorktree,
    SendBack, SendBackRefused, LandFound, forgeVars, quiet
<1>5. ASSUME \/ LandMerges \/ LandConflicts \/ Abort \/ OwnerPushes \/ OwnerMergesByHand
             \/ OwnerPublishes \/ OwnerSwitches \/ OwnerKeepsLocal
      PROVE  UNCHANGED prs
  BY <1>5 DEF LandMerges, LandConflicts, Abort, OwnerPushes, OwnerMergesByHand,
    OwnerPublishes, OwnerSwitches, OwnerKeepsLocal, forgeVars, quiet
<1>6. ASSUME \/ TeamReopens \/ OthersFetch \/ ChecksRegister \/ ChecksReport \/ AcceptAgain
             \/ \E b \in Bases : OthersLand(b)
             \/ \E p \in Askers : TakeLock(p)
             \/ \E ps \in SUBSET Askers \ {{}} : Kill(ps)
      PROVE  UNCHANGED prs
  BY <1>6 DEF TeamReopens, OthersFetch, ChecksRegister, ChecksReport, AcceptAgain,
    OthersLand, TakeLock, Kill, forgeVars, quiet
<1> USE DEF OneOpen, TypeOK, ForgeTypes
<1>7. CASE UNCHANGED prs
  BY <1>7 DEF forgeVars, quiet
<1>8. CASE Create
  BY <1>8 DEF Create, OpenPullRequest, OpenPrs
<1>9. CASE MergeWhenChecksPass
  BY <1>9 DEF MergeWhenChecksPass, MergePr, Open
<1>10. CASE MergeAnswerLost
  BY <1>10 DEF MergeAnswerLost, MergePr, Open
<1>11. CASE \E n \in 1..MaxPrs : OwnerMerges(n)
  BY <1>11 DEF OwnerMerges, MergePr, Open
<1>12. CASE \E n \in 1..MaxPrs : OwnerCloses(n)
  BY <1>12 DEF OwnerCloses, Open
<1>13. CASE \E n \in 1..MaxPrs : OwnerReopens(n)
  BY <1>13 DEF OwnerReopens, OpenPrs
<1>14. CASE QueueMoves
  BY <1>14 DEF QueueMoves, MergePr, Open
<1> QED
  BY <1>1, <1>2, <1>3, <1>4, <1>5, <1>6, <1>7, <1>8, <1>9, <1>10, <1>11, <1>12, <1>13,
    <1>14 DEF Next, TickNext, HolderNext, OwnerNext, OthersNext, vars, forgeVars, quiet

\* A branch never has two open pull requests, whichever call a kill comes between.
THEOREM OnePullRequest == Spec => []OneOpenPullRequest
<1>1. Init => OneOpen
  BY DEF Init, OneOpen
<1>2. TypeOK /\ OneOpen /\ [Next]_vars => OneOpen'
  BY OneOpenStep
<1>3. OneOpen => OneOpenPullRequest
  <2> SUFFICES ASSUME OneOpen PROVE Cardinality(OpenPrs) <= 1
    BY DEF OneOpenPullRequest
  <2>1. CASE OpenPrs = {}
    BY <2>1, FS_EmptySet
  <2>2. CASE OpenPrs # {}
    <3>1. PICK i \in OpenPrs : TRUE
      BY <2>2
    <3>2. OpenPrs = {i}
      BY <3>1 DEF OneOpen, OpenPrs
    <3> QED
      BY <3>2, FS_Singleton
  <2> QED
    BY <2>1, <2>2
<1> QED
  BY <1>1, <1>2, <1>3, TypeCorrect, PTL DEF Spec

\* What the holder is about to merge is a head whose checks passed, or whose merge was
\* decided on early, unless it is no longer the head; so is what the merge queue holds.
Passed ==
  /\ step = "merging" => /\ mem.head \subseteq pushed
                         /\ pushed = mem.head => checks \in {"none", "passed"} \/ early
  /\ queued => checks \in {"none", "passed"} \/ early

\* A push has the checks run anew, and another head.
LEMMA NewHeadPasses ==
  ASSUME TypeOK, Passed, NEW commits, pushed \subseteq commits, NewHead(commits)
  PROVE  /\ step = "merging" /\ pushed' = mem.head => checks' \in {"none", "passed"} \/ early'
         /\ queued' => checks' \in {"none", "passed"} \/ early'
<1>1. CASE pushed = commits
  BY <1>1 DEF Passed, NewHead
<1>2. CASE pushed # commits
  BY <1>2 DEF Passed, NewHead
<1> QED
  BY <1>1, <1>2

\* Neither a push nor a check that reports late lets a head pass that has not.
LEMMA PassedStep == TypeOK /\ Passed /\ [Next]_vars => Passed'
<1> SUFFICES ASSUME TypeOK, Passed, [Next]_vars PROVE Passed'
  OBVIOUS
<1>grow. pushed \subseteq pushed'
  BY Grows
<1>mem. mem \in [head: SUBSET Commits, pr: 0..MaxPrs]
  BY DEF TypeOK, ProcessTypes
<1>1. ASSUME \/ TickReads \/ Cleanup \/ CleanupPasses \/ Start \/ Recover
             \/ OwnerMergesByHand \/ OwnerPublishes \/ OwnerSwitches
      PROVE  UNCHANGED <<step, mem, pushed, checks, early, queued>>
  BY <1>1 DEF TickReads, Cleanup, CleanupPasses, Start, Recover, OwnerMergesByHand,
    OwnerPublishes, OwnerSwitches, gitVars, forgeVars, quiet
<1>2. ASSUME \/ OwnerKeepsLocal \/ TeamReopens \/ OthersFetch \/ AcceptAgain
             \/ \E n \in 1..MaxPrs : OwnerReopens(n)
             \/ \E b \in Bases : OthersLand(b)
      PROVE  UNCHANGED <<step, mem, pushed, checks, early, queued>>
  BY <1>2 DEF OwnerKeepsLocal, TeamReopens, OthersFetch, AcceptAgain, OwnerReopens,
    OthersLand, gitVars, forgeVars, quiet
<1> USE <1>grow, <1>mem DEF Passed, Holding, Goto, Answer
<1>3. CASE UNCHANGED <<step, mem, pushed, checks, early, queued>>
  BY <1>3 DEF gitVars, forgeVars, quiet
<1>4. CASE Decide
  BY <1>4 DEF Decide, gitVars, forgeVars, quiet
<1>5. CASE Fails
  BY <1>5 DEF Fails, gitVars, forgeVars, quiet, Escalate
<1>6. CASE Errs
  BY <1>6 DEF Errs, gitVars, forgeVars, quiet
<1>7. CASE Finish
  BY <1>7 DEF Finish, gitVars, forgeVars, quiet
<1>8. CASE Record
  BY <1>8 DEF Record, gitVars, forgeVars, quiet
<1>9. CASE FileTheRederive
  BY <1>9 DEF FileTheRederive, gitVars, forgeVars, quiet
<1>10. CASE OpenByHand
  BY <1>10 DEF OpenByHand, gitVars, forgeVars, quiet, ToRecord
<1>11. CASE OpenPushes
  BY <1>11, NewHeadPasses DEF OpenPushes, gitVars, forgeVars, quiet, Push
<1>12. CASE Create
  BY <1>12 DEF Create, gitVars, forgeVars, quiet
<1>13. CASE NoteOpened
  BY <1>13 DEF NoteOpened, gitVars, forgeVars, quiet
<1>14. CASE ReadOpen
  <2>1. CASE step' = "merging"
    <3>1. checks \in {"none", "passed"} \/ early'
      BY <1>14, <2>1 DEF ReadOpen
    <3> QED
      BY <1>14, <2>1, <3>1 DEF ReadOpen, gitVars
  <2>2. CASE step' # "merging"
    BY <1>14, <2>2 DEF ReadOpen, gitVars
  <2> QED
    BY <2>1, <2>2
<1>15. CASE ReadMerged
  BY <1>15 DEF ReadMerged, gitVars, forgeVars, quiet
<1>16. CASE ReadClosed
  BY <1>16 DEF ReadClosed, gitVars, forgeVars, quiet
<1>17. CASE EscalateClosed
  BY <1>17 DEF EscalateClosed, gitVars, forgeVars, quiet
<1>18. CASE RevertTheSwitch
  BY <1>18 DEF RevertTheSwitch, gitVars, forgeVars, quiet
<1>19. CASE MergeWhenChecksPass
  BY <1>19 DEF MergeWhenChecksPass, gitVars, forgeVars, quiet, MergePr, Pinned, Escalate
<1>20. CASE MergeAnswerLost
  BY <1>20 DEF MergeAnswerLost, gitVars, forgeVars, quiet, MergePr, Pinned, Escalate
<1>21. CASE Reread
  BY <1>21 DEF Reread, gitVars, forgeVars, quiet
<1>22. CASE CatchUp
  BY <1>22 DEF CatchUp, gitVars, forgeVars, quiet
<1>23. CASE SwitchFetches
  BY <1>23 DEF SwitchFetches, gitVars, forgeVars, quiet
<1>24. CASE ClosedForTheHuman
  BY <1>24 DEF ClosedForTheHuman, gitVars, forgeVars, quiet, ToRecord
<1>25. CASE FetchBehind
  BY <1>25 DEF FetchBehind, gitVars, forgeVars, quiet
<1>26. CASE AddWorktree
  BY <1>26 DEF AddWorktree, gitVars, forgeVars, quiet
<1>27. CASE MergeInWorktree
  BY <1>27 DEF MergeInWorktree, gitVars, forgeVars, quiet
<1>28. CASE PushRefreshed
  BY <1>28, NewHeadPasses DEF PushRefreshed, gitVars, forgeVars, quiet, Push
<1>29. CASE PushRefused
  BY <1>29 DEF PushRefused, gitVars, forgeVars, quiet
<1>30. CASE RemoveWorktree
  BY <1>30 DEF RemoveWorktree, gitVars, forgeVars, quiet, Escalate
<1>31. CASE SendBack
  BY <1>31 DEF SendBack, gitVars, forgeVars, quiet
<1>32. CASE SendBackRefused
  BY <1>32 DEF SendBackRefused, gitVars, forgeVars, quiet, Escalate
<1>33. CASE LandFound
  BY <1>33 DEF LandFound, gitVars, forgeVars, quiet, ToRecord
<1>34. CASE LandMerges
  BY <1>34 DEF LandMerges, gitVars, forgeVars, quiet, ToRecord
<1>35. CASE LandConflicts
  BY <1>35 DEF LandConflicts, gitVars, forgeVars, quiet
<1>36. CASE Abort
  BY <1>36 DEF Abort, gitVars, forgeVars, quiet, Escalate
<1>37. CASE \E p \in Askers : TakeLock(p)
  BY <1>37 DEF TakeLock, gitVars, forgeVars, quiet
<1>38. CASE \E ps \in SUBSET Askers \ {{}} : Kill(ps)
  BY <1>38 DEF Kill, gitVars, forgeVars, quiet
<1>39. CASE OwnerPushes
  BY <1>39, NewHeadPasses DEF OwnerPushes, gitVars, forgeVars, quiet, Push
<1>40. CASE \E n \in 1..MaxPrs : OwnerMerges(n)
  BY <1>40 DEF OwnerMerges, gitVars, forgeVars, quiet, MergePr, Pinned, Escalate
<1>41. CASE \E n \in 1..MaxPrs : OwnerCloses(n)
  BY <1>41 DEF OwnerCloses, gitVars, forgeVars, quiet
<1>42. CASE ChecksRegister \/ ChecksReport
  BY <1>42 DEF ChecksRegister, ChecksReport, gitVars, forgeVars, quiet
<1>43. CASE QueueMoves
  BY <1>43 DEF QueueMoves, gitVars, forgeVars, quiet, MergePr, Pinned, Escalate
<1> QED
  BY <1>1, <1>2, <1>3, <1>4, <1>5, <1>6, <1>7, <1>8, <1>9, <1>10, <1>11, <1>12, <1>13,
    <1>14, <1>15, <1>16, <1>17, <1>18, <1>19, <1>20, <1>21, <1>22, <1>23, <1>24, <1>25,
    <1>26, <1>27, <1>28, <1>29, <1>30, <1>31, <1>32, <1>33, <1>34, <1>35, <1>36, <1>37,
    <1>38, <1>39, <1>40, <1>41, <1>42, <1>43 DEF Next, TickNext, HolderNext, OwnerNext,
    OthersNext, vars, gitVars, forgeVars, quiet

\* A holder that is about to merge leaves the pull requests alone but to merge.
LEMMA OnlyMergesMerge ==
  ASSUME [Next]_vars, step = "merging", ~MergeWhenChecksPass, ~MergeAnswerLost
  PROVE  UNCHANGED prs \/ UNCHANGED step
<1>1. ASSUME \/ TickReads \/ Cleanup \/ CleanupPasses \/ Start \/ Recover \/ Decide
             \/ Fails \/ Errs
      PROVE  UNCHANGED prs
  BY <1>1 DEF TickReads, Cleanup, CleanupPasses, Start, Recover, Decide, Fails, Errs,
    forgeVars, quiet
<1>2. ASSUME \/ Finish \/ Record \/ FileTheRederive \/ OpenByHand \/ OpenPushes
             \/ NoteOpened \/ ReadOpen \/ ReadMerged
      PROVE  UNCHANGED prs
  BY <1>2 DEF Finish, Record, FileTheRederive, OpenByHand, OpenPushes, NoteOpened,
    ReadOpen, ReadMerged, forgeVars, quiet
<1>3. ASSUME \/ ReadClosed \/ EscalateClosed \/ RevertTheSwitch
             \/ Reread \/ CatchUp \/ SwitchFetches
      PROVE  UNCHANGED prs
  BY <1>3 DEF ReadClosed, EscalateClosed, RevertTheSwitch,
    Reread, CatchUp, SwitchFetches, forgeVars, quiet
<1>4. ASSUME \/ ClosedForTheHuman \/ FetchBehind \/ AddWorktree \/ MergeInWorktree
             \/ PushRefreshed \/ PushRefused \/ RemoveWorktree \/ SendBack
      PROVE  UNCHANGED prs
  BY <1>4 DEF ClosedForTheHuman, FetchBehind, AddWorktree, MergeInWorktree,
    PushRefreshed, PushRefused, RemoveWorktree, SendBack, forgeVars, quiet
<1>5. ASSUME \/ SendBackRefused \/ LandFound \/ LandMerges \/ LandConflicts \/ Abort
             \/ OwnerPushes \/ OwnerMergesByHand \/ OwnerPublishes
      PROVE  UNCHANGED prs
  BY <1>5 DEF SendBackRefused, LandFound, LandMerges, LandConflicts, Abort, OwnerPushes,
    OwnerMergesByHand, OwnerPublishes, forgeVars, quiet
<1>6. ASSUME \/ OwnerSwitches \/ OwnerKeepsLocal \/ TeamReopens \/ OthersFetch
             \/ ChecksRegister \/ ChecksReport \/ AcceptAgain
             \/ \E b \in Bases : OthersLand(b)
             \/ \E p \in Askers : TakeLock(p)
      PROVE  UNCHANGED prs
  BY <1>6 DEF OwnerSwitches, OwnerKeepsLocal, TeamReopens, OthersFetch, ChecksRegister,
    ChecksReport, AcceptAgain, OthersLand, TakeLock, forgeVars, quiet
<1>7. ASSUME \/ \E ps \in SUBSET Askers \ {{}} : Kill(ps)
      PROVE  UNCHANGED prs
  BY <1>7 DEF Kill, forgeVars, quiet
<1>8. CASE UNCHANGED prs
  BY <1>8 DEF forgeVars, quiet
<1>9. CASE Create
  BY <1>9 DEF Create, quiet, Holding
<1>10. CASE \E n \in 1..MaxPrs : OwnerMerges(n)
  BY <1>10 DEF OwnerMerges, quiet, Holding
<1>11. CASE \E n \in 1..MaxPrs : OwnerCloses(n)
  BY <1>11 DEF OwnerCloses, quiet, Holding
<1>12. CASE \E n \in 1..MaxPrs : OwnerReopens(n)
  BY <1>12 DEF OwnerReopens, quiet, Holding
<1>13. CASE QueueMoves
  BY <1>13 DEF QueueMoves, quiet, Holding
<1> QED
  BY <1>1, <1>2, <1>3, <1>4, <1>5, <1>6, <1>7, <1>8, <1>9, <1>10, <1>11, <1>12, <1>13
    DEF Next, TickNext, HolderNext, OwnerNext, OthersNext, vars, forgeVars, quiet

\* Catervas merges, and has the merge queue merge, only a head whose checks passed or
\* that has none, or that it decided to merge before they were all registered, whatever
\* was pushed since it read them.
THEOREM MergesPassed == Spec => MergesWhatPassed
<1> DEFINE A == \A n \in DOMAIN prs :
       prs[n] = "open" /\ prs'[n] = "merged" /\ ((step = "merging" /\ step' # step) \/ queued)
         => checks \in {"none", "passed"} \/ early
<1>1. Init => Passed
  BY DEF Init, Passed
<1>2. TypeOK /\ Passed /\ [Next]_vars => Passed'
  BY PassedStep
<1>3. TypeOK /\ Passed /\ [Next]_vars => [A]_vars
  <2> SUFFICES ASSUME TypeOK, Passed, [Next]_vars, NEW n \in DOMAIN prs,
                      prs[n] = "open", prs'[n] = "merged", step = "merging", step' # step, ~queued
               PROVE  checks \in {"none", "passed"} \/ early
    BY DEF Passed
  <2>1. CASE MergeWhenChecksPass
    BY <2>1 DEF MergeWhenChecksPass, Passed, Pinned
  <2>2. CASE MergeAnswerLost
    BY <2>2 DEF MergeAnswerLost, Passed, Pinned
  <2>3. CASE ~MergeWhenChecksPass /\ ~MergeAnswerLost
    <3>1. UNCHANGED prs \/ UNCHANGED step
      BY <2>3, OnlyMergesMerge
    <3> QED
      BY <3>1
  <2> QED
    BY <2>1, <2>2, <2>3
<1> QED
  BY <1>1, <1>2, <1>3, TypeCorrect, PTL DEF Spec, MergesWhatPassed

-----------------------------------------------------------------------------
(* The documents of a storage change.                                      *)

\* Only git takes the documents away, and only when the change comes in: what the owner
\* takes away is not taken out by it.
LEMMA DiskStays ==
  ASSUME [Next]_vars, Holds(local, 1), disk # "gone"
  PROVE  disk' # "gone"
<1>1. ASSUME \/ TickReads \/ Cleanup \/ CleanupPasses \/ Start \/ Recover \/ Decide
             \/ Fails \/ Errs
      PROVE  UNCHANGED disk
  BY <1>1 DEF TickReads, Cleanup, CleanupPasses, Start, Recover, Decide, Fails, Errs,
    gitVars, quiet
<1>2. ASSUME \/ Record \/ FileTheRederive \/ OpenByHand \/ OpenPushes \/ Create
             \/ NoteOpened \/ ReadOpen \/ ReadMerged
      PROVE  UNCHANGED disk
  BY <1>2 DEF Record, FileTheRederive, OpenByHand, OpenPushes, Create, NoteOpened,
    ReadOpen, ReadMerged, gitVars, quiet
<1>3. ASSUME \/ ReadClosed \/ EscalateClosed \/ RevertTheSwitch \/ MergeWhenChecksPass
             \/ MergeAnswerLost \/ Reread \/ AddWorktree \/ MergeInWorktree
      PROVE  UNCHANGED disk
  BY <1>3 DEF ReadClosed, EscalateClosed, RevertTheSwitch, MergeWhenChecksPass,
    MergeAnswerLost, Reread, AddWorktree, MergeInWorktree, gitVars, quiet
<1>4. ASSUME \/ PushRefreshed \/ PushRefused \/ RemoveWorktree \/ SendBack
             \/ SendBackRefused \/ LandFound \/ LandConflicts \/ Abort
      PROVE  UNCHANGED disk
  BY <1>4 DEF PushRefreshed, PushRefused, RemoveWorktree, SendBack, SendBackRefused,
    LandFound, LandConflicts, Abort, gitVars, quiet
<1>5. ASSUME \/ OwnerPushes \/ OwnerPublishes \/ OwnerKeepsLocal \/ TeamReopens
             \/ ChecksRegister \/ ChecksReport \/ QueueMoves \/ AcceptAgain
      PROVE  UNCHANGED disk
  BY <1>5 DEF OwnerPushes, OwnerPublishes, OwnerKeepsLocal, TeamReopens, ChecksRegister,
    ChecksReport, QueueMoves, AcceptAgain, gitVars, quiet
<1>6. ASSUME \/ \E n \in 1..MaxPrs : OwnerMerges(n)
             \/ \E n \in 1..MaxPrs : OwnerCloses(n)
             \/ \E n \in 1..MaxPrs : OwnerReopens(n)
             \/ \E p \in Askers : TakeLock(p)
             \/ \E ps \in SUBSET Askers \ {{}} : Kill(ps)
      PROVE  UNCHANGED disk
  BY <1>6 DEF OwnerMerges, OwnerCloses, OwnerReopens, TakeLock, Kill, gitVars, quiet
<1>7. CASE UNCHANGED disk
  BY <1>7 DEF gitVars, quiet
<1>8. CASE Finish
  BY <1>8 DEF Finish, FastForward, MoveLocal
<1>9. CASE CatchUp
  BY <1>9 DEF CatchUp, FastForward, MoveLocal
<1>10. CASE SwitchFetches
  BY <1>10 DEF SwitchFetches, FastForward, MoveLocal
<1>11. CASE ClosedForTheHuman
  BY <1>11 DEF ClosedForTheHuman, FastForward, MoveLocal
<1>12. CASE FetchBehind
  BY <1>12 DEF FetchBehind, FastForward, MoveLocal
<1>13. CASE LandMerges
  BY <1>13 DEF LandMerges, FastForward, MoveLocal
<1>14. CASE \E b \in Bases : OthersLand(b)
  BY <1>14 DEF OthersLand, FastForward, MoveLocal
<1>15. CASE OthersFetch
  BY <1>15 DEF OthersFetch, FastForward, MoveLocal
<1>16. CASE OwnerMergesByHand
  BY <1>16 DEF OwnerMergesByHand, FastForward, MoveLocal
<1>17. CASE OwnerSwitches
  BY <1>17 DEF OwnerSwitches
<1> QED
  BY <1>1, <1>2, <1>3, <1>4, <1>5, <1>6, <1>7, <1>8, <1>9, <1>10, <1>11, <1>12, <1>13,
    <1>14, <1>15, <1>16, <1>17 DEF Next, TickNext, HolderNext, OwnerNext, OthersNext,
    vars, gitVars, quiet

\* A folder change is accepted once, and a storage change that is finished or recorded
\* is in the local branch, what it took out of the checkout back on the disk.
Kept ==
  /\ ~IsTask => round = 1 /\ status = "accepted"
  /\ step \in {"adding", "bringing", "conflicted"} => IsTask
  /\ step \in {"switching", "finishing"} => subject = "storage"
  /\ step = "finishing" => Holds(local, 1)
  /\ subject = "storage" /\ (step = "recording" \/ recorded > 0) => Holds(local, 1) /\ disk # "gone"

\* A storage change is recorded only by way of `finish_the_switch`.
LEMMA KeptStep == IInv /\ Kept /\ [Next]_vars => Kept'
<1> SUFFICES ASSUME IInv, Kept, [Next]_vars PROVE Kept'
  OBVIOUS
<1>ty. TypeOK /\ (Holds(local, 1) => Holds(local', 1))
       /\ (Holds(local, 1) /\ disk # "gone" => disk' # "gone")
       /\ UNCHANGED subject /\ (IsTask' <=> IsTask)
  BY Grows, DiskStays, RoundStays DEF IInv, Holds, IsTask
<1>work. Work(round) \in branch
  BY DEF IInv, Forwarded
<1>1. ASSUME \/ TickReads \/ Cleanup \/ CleanupPasses \/ Recover \/ OwnerPushes
             \/ OwnerMergesByHand \/ OwnerPublishes \/ OwnerSwitches
      PROVE  UNCHANGED <<status, round, recorded, step>>
  BY <1>1 DEF TickReads, Cleanup, CleanupPasses, Recover, OwnerPushes,
    OwnerMergesByHand, OwnerPublishes, OwnerSwitches, logVars, quiet
<1>2. ASSUME \/ OwnerKeepsLocal \/ TeamReopens \/ OthersFetch \/ ChecksRegister \/ ChecksReport
             \/ QueueMoves
             \/ \E n \in 1..MaxPrs : OwnerMerges(n)
             \/ \E n \in 1..MaxPrs : OwnerCloses(n)
             \/ \E n \in 1..MaxPrs : OwnerReopens(n)
      PROVE  UNCHANGED <<status, round, recorded, step>>
  BY <1>2 DEF OwnerKeepsLocal, TeamReopens, OthersFetch, ChecksRegister, ChecksReport, QueueMoves,
    OwnerMerges, OwnerCloses, OwnerReopens, logVars, quiet
<1>3. ASSUME \/ \E b \in Bases : OthersLand(b)
      PROVE  UNCHANGED <<status, round, recorded, step>>
  BY <1>3 DEF OthersLand, logVars, quiet
<1> USE <1>ty DEF Kept, Holding, Goto, Answer
<1>4. CASE UNCHANGED <<status, round, recorded, step>>
  BY <1>4 DEF logVars, quiet
<1>5. CASE Decide
  BY <1>5 DEF Decide, logVars, quiet, Carried
<1>6. CASE Fails
  BY <1>6 DEF Fails, logVars, quiet, Escalate
<1>7. CASE Errs
  BY <1>7 DEF Errs, logVars, quiet
<1>8. CASE Finish
  <2>1. disk' = "kept" /\ Holds(local', 1)
    BY <1>8 DEF Finish
  <2> QED
    BY <1>8, <2>1 DEF Finish, logVars, given
<1>9. CASE Record
  BY <1>9 DEF Record, logVars, quiet
<1>10. CASE FileTheRederive
  BY <1>10 DEF FileTheRederive, logVars, quiet
<1>11. CASE OpenByHand
  <2>1. CASE subject = "storage" /\ step' = "finishing"
    <3>1. Work(1) \in local'
      BY <1>11, <2>1, <1>work DEF OpenByHand, gitVars, IsTask
    <3> QED
      BY <1>11, <2>1, <3>1 DEF OpenByHand, logVars, Holds
  <2>2. CASE ~(subject = "storage" /\ step' = "finishing")
    BY <1>11, <2>2 DEF OpenByHand, ToRecord, logVars
  <2> QED
    BY <2>1, <2>2
<1>12. CASE OpenPushes
  BY <1>12 DEF OpenPushes, logVars, quiet
<1>13. CASE Create
  BY <1>13 DEF Create, logVars, quiet
<1>14. CASE NoteOpened
  BY <1>14 DEF NoteOpened, logVars, quiet
<1>15. CASE ReadOpen
  BY <1>15 DEF ReadOpen, logVars, quiet
<1>16. CASE ReadMerged
  BY <1>16 DEF ReadMerged, logVars, quiet
<1>17. CASE ReadClosed
  BY <1>17 DEF ReadClosed, logVars, quiet
<1>18. CASE EscalateClosed
  BY <1>18 DEF EscalateClosed, logVars, quiet
<1>19. CASE RevertTheSwitch
  BY <1>19 DEF RevertTheSwitch, logVars, quiet
<1>20. CASE MergeWhenChecksPass
  BY <1>20 DEF MergeWhenChecksPass, logVars, quiet
<1>21. CASE MergeAnswerLost
  BY <1>21 DEF MergeAnswerLost, logVars, quiet, Escalate
<1>22. CASE Reread
  BY <1>22 DEF Reread, logVars, quiet
<1>23. CASE CatchUp
  BY <1>23 DEF CatchUp, logVars, quiet
<1>24. CASE SwitchFetches
  <2>1. CASE subject = "storage"
    <3>1. Landed /\ round = 1
      BY <1>24, <2>1 DEF SwitchFetches, IInv, Arrival, IsTask
    <3>2. Holds(local', 1)
      BY <1>24, <3>1, <2>1 DEF SwitchFetches, FastForward, MoveLocal, Landed, Arrived, Holds
    <3> QED
      BY <1>24, <2>1, <3>2 DEF SwitchFetches, logVars
  <2>2. CASE subject # "storage"
    BY <1>24, <2>2 DEF SwitchFetches
  <2> QED
    BY <2>1, <2>2
<1>25. CASE ClosedForTheHuman
  <2>1. CASE subject = "storage" /\ step' = "finishing"
    <3>1. Work(1) \in local'
      BY <1>25, <2>1, <1>work DEF ClosedForTheHuman, MoveLocal, FastForward, IsTask
    <3> QED
      BY <1>25, <2>1, <3>1 DEF ClosedForTheHuman, logVars, Holds
  <2>2. CASE ~(subject = "storage" /\ step' = "finishing")
    BY <1>25, <2>2 DEF ClosedForTheHuman, ToRecord, logVars
  <2> QED
    BY <2>1, <2>2
<1>26. CASE FetchBehind
  BY <1>26 DEF FetchBehind, logVars, quiet
<1>27. CASE AddWorktree
  BY <1>27 DEF AddWorktree, logVars, quiet
<1>28. CASE MergeInWorktree
  BY <1>28 DEF MergeInWorktree, logVars, quiet
<1>29. CASE PushRefreshed
  BY <1>29 DEF PushRefreshed, logVars, quiet
<1>30. CASE PushRefused
  BY <1>30 DEF PushRefused, logVars, quiet
<1>31. CASE RemoveWorktree
  BY <1>31 DEF RemoveWorktree, logVars, quiet, Escalate
<1>32. CASE SendBack
  BY <1>32 DEF SendBack, logVars, quiet
<1>33. CASE SendBackRefused
  BY <1>33 DEF SendBackRefused, logVars, quiet, Escalate
<1>34. CASE LandFound
  <2>1. CASE subject = "storage" /\ step' = "finishing"
    <3>1. Work(1) \in local'
      BY <1>34, <2>1, <1>work DEF LandFound, gitVars, IsTask
    <3> QED
      BY <1>34, <2>1, <3>1 DEF LandFound, logVars, Holds
  <2>2. CASE ~(subject = "storage" /\ step' = "finishing")
    BY <1>34, <2>2 DEF LandFound, ToRecord, logVars
  <2> QED
    BY <2>1, <2>2
<1>35. CASE LandMerges
  <2>1. CASE subject = "storage" /\ step' = "finishing"
    <3>1. Work(1) \in local'
      BY <1>35, <2>1, <1>work DEF LandMerges, MoveLocal, IsTask
    <3> QED
      BY <1>35, <2>1, <3>1 DEF LandMerges, logVars, Holds
  <2>2. CASE ~(subject = "storage" /\ step' = "finishing")
    BY <1>35, <2>2 DEF LandMerges, ToRecord, logVars
  <2> QED
    BY <2>1, <2>2
<1>36. CASE LandConflicts
  BY <1>36 DEF LandConflicts, logVars, quiet
<1>37. CASE Abort
  BY <1>37 DEF Abort, logVars, quiet, Escalate
<1>38. CASE \E p \in Askers : TakeLock(p)
  BY <1>38 DEF TakeLock, logVars, quiet
<1>39. CASE \E ps \in SUBSET Askers \ {{}} : Kill(ps)
  BY <1>39 DEF Kill, logVars, quiet
<1>40. CASE Start
  BY <1>40 DEF Start, logVars, quiet
<1>41. CASE AcceptAgain
  BY <1>41 DEF AcceptAgain, logVars, quiet
<1> QED
  BY <1>1, <1>2, <1>3, <1>4, <1>5, <1>6, <1>7, <1>8, <1>9, <1>10, <1>11, <1>12, <1>13,
    <1>14, <1>15, <1>16, <1>17, <1>18, <1>19, <1>20, <1>21, <1>22, <1>23, <1>24, <1>25,
    <1>26, <1>27, <1>28, <1>29, <1>30, <1>31, <1>32, <1>33, <1>34, <1>35, <1>36, <1>37,
    <1>38, <1>39, <1>40, <1>41 DEF Next, TickNext, HolderNext, OwnerNext, OthersNext,
    vars, logVars, quiet

\* A change that takes the documents out of the repository is recorded only when what
\* git took out of the checkout is back on the disk, also after a kill in between.
THEOREM DocumentsStay == Spec => []DocumentsKept
<1>1. Init => Kept
  BY DEF Init, Kept
<1>2. IInv /\ Kept /\ [Next]_vars => Kept'
  BY KeptStep
<1>3. Kept => DocumentsKept
  BY DEF Kept, DocumentsKept
<1> QED
  BY <1>1, <1>2, <1>3, Invariance, PTL DEF Spec

-----------------------------------------------------------------------------
(* What goes with a record.                                                *)

\* What is in the local integration branch stays there.
LEMMA ArrivedStays ==
  ASSUME TypeOK, [Next]_vars, ~AcceptAgain, Arrived(local)
  PROVE  Arrived(local)'
  BY Grows, RoundStays DEF Arrived, Holds

\* Only a kill counts as one.
LEMMA KillsCount ==
  ASSUME [Next]_vars, kills \in Nat
  PROVE  IF \E ps \in SUBSET Askers \ {{}} : Kill(ps) THEN kills' > 0 ELSE UNCHANGED kills
<1>1. ASSUME \/ TickReads \/ Cleanup \/ CleanupPasses \/ Start \/ Recover \/ Decide
             \/ Fails \/ Errs
      PROVE  UNCHANGED kills
  BY <1>1 DEF TickReads, Cleanup, CleanupPasses, Start, Recover, Decide, Fails, Errs,
    quiet
<1>2. ASSUME \/ Finish \/ Record \/ FileTheRederive \/ OpenByHand \/ OpenPushes \/ Create
             \/ NoteOpened \/ ReadOpen
      PROVE  UNCHANGED kills
  BY <1>2 DEF Finish, Record, FileTheRederive, OpenByHand, OpenPushes, Create,
    NoteOpened, ReadOpen, quiet
<1>3. ASSUME \/ ReadMerged \/ ReadClosed \/ EscalateClosed \/ RevertTheSwitch
             \/ MergeWhenChecksPass \/ MergeAnswerLost \/ Reread \/ CatchUp
      PROVE  UNCHANGED kills
  BY <1>3 DEF ReadMerged, ReadClosed, EscalateClosed, RevertTheSwitch,
    MergeWhenChecksPass, MergeAnswerLost, Reread, CatchUp, quiet
<1>4. ASSUME \/ SwitchFetches \/ ClosedForTheHuman \/ FetchBehind \/ AddWorktree
             \/ MergeInWorktree \/ PushRefreshed \/ PushRefused \/ RemoveWorktree
      PROVE  UNCHANGED kills
  BY <1>4 DEF SwitchFetches, ClosedForTheHuman, FetchBehind, AddWorktree,
    MergeInWorktree, PushRefreshed, PushRefused, RemoveWorktree, quiet
<1>5. ASSUME \/ SendBack \/ SendBackRefused \/ LandFound \/ LandMerges \/ LandConflicts
             \/ Abort \/ OwnerPushes \/ OwnerMergesByHand
      PROVE  UNCHANGED kills
  BY <1>5 DEF SendBack, SendBackRefused, LandFound, LandMerges, LandConflicts, Abort,
    OwnerPushes, OwnerMergesByHand, quiet
<1>6. ASSUME \/ OwnerPublishes \/ OwnerSwitches \/ OwnerKeepsLocal \/ TeamReopens
             \/ OthersFetch \/ ChecksRegister \/ ChecksReport \/ QueueMoves \/ AcceptAgain
      PROVE  UNCHANGED kills
  BY <1>6 DEF OwnerPublishes, OwnerSwitches, OwnerKeepsLocal, TeamReopens, OthersFetch,
    ChecksRegister, ChecksReport, QueueMoves, AcceptAgain, quiet
<1>7. ASSUME \/ \E n \in 1..MaxPrs : OwnerMerges(n)
             \/ \E n \in 1..MaxPrs : OwnerCloses(n)
             \/ \E n \in 1..MaxPrs : OwnerReopens(n)
             \/ \E b \in Bases : OthersLand(b)
             \/ \E p \in Askers : TakeLock(p)
      PROVE  UNCHANGED kills
  BY <1>7 DEF OwnerMerges, OwnerCloses, OwnerReopens, OthersLand, TakeLock, quiet
<1>8. CASE UNCHANGED kills
  BY <1>8 DEF Kill
<1>9. CASE \E ps \in SUBSET Askers \ {{}} : Kill(ps)
  BY <1>9 DEF Kill
<1> QED
  BY <1>1, <1>2, <1>3, <1>4, <1>5, <1>6, <1>7, <1>8, <1>9 DEF Next, TickNext,
    HolderNext, OwnerNext, OthersNext, vars, quiet

\* Without a kill, what a record still owes is the step the holder is at, or told to
\* the owner.
Owed ==
  kills = 0 =>
    /\ recorded > 0 => \/ Arrived(local) \/ escalated \/ step = "catching"
                       \/ step = "filing" /\ FetchesAfter
    /\ step = "recording" => Arrived(local) \/ FetchesAfter
    /\ step \in {"filing", "catching"} => recorded > 0 /\ Landed
    /\ step = "filing" => subject = "folder"
    /\ subject = "folder" /\ recorded > 0 => followed \/ step = "filing"
    /\ checkout = "unmerged" => step = "aborting"

\* The holder pays what is owed before it answers.
LEMMA OwedStep == IInv /\ Kept /\ Owed /\ [Next]_vars => Owed'
<1> SUFFICES ASSUME IInv, Kept, Owed, [Next]_vars, kills' = 0 PROVE Owed'
  BY DEF Owed
<1>kills. kills = 0 /\ ~\E ps \in SUBSET Askers \ {{}} : Kill(ps)
  <2>1. kills \in Nat
    BY DEF IInv, TypeOK, ProcessTypes
  <2>2. CASE \E ps \in SUBSET Askers \ {{}} : Kill(ps)
    BY <2>1, <2>2, KillsCount
  <2>3. CASE ~\E ps \in SUBSET Askers \ {{}} : Kill(ps)
    BY <2>1, <2>3, KillsCount
  <2> QED
    BY <2>2, <2>3
<1> DEFINE Debts == /\ recorded > 0 => \/ Arrived(local) \/ escalated \/ step = "catching"
                                       \/ step = "filing" /\ FetchesAfter
                    /\ step = "recording" => Arrived(local) \/ FetchesAfter
                    /\ step \in {"filing", "catching"} => recorded > 0 /\ Landed
                    /\ step = "filing" => subject = "folder"
                    /\ subject = "folder" /\ recorded > 0 => followed \/ step = "filing"
                    /\ checkout = "unmerged" => step = "aborting"
<1>owed. Debts
  BY <1>kills DEF Owed
<1> SUFFICES Debts'
  BY DEF Owed
<1>acc. CASE AcceptAgain
  <2>1. recorded = 0 /\ UNCHANGED <<recorded, step, checkout>> /\ step \notin Working
    BY <1>acc DEF AcceptAgain, IInv, Books, quiet
  <2> QED
    BY <1>owed, <2>1 DEF Working, Steps
<1> SUFFICES ASSUME ~AcceptAgain PROVE Debts'
  BY <1>acc
<1>stay. (Landed => Landed') /\ (Arrived(local) => Arrived(local)') /\ UNCHANGED subject
  BY LandedStays, ArrivedStays, RoundStays DEF IInv
<1>fetch. UNCHANGED mem => UNCHANGED FetchesAfter
  BY <1>stay DEF FetchesAfter
<1>work. /\ Work(round) \in branch /\ UNCHANGED round
         /\ round \in 1..round /\ recorded \in Nat
  BY RoundStays DEF IInv, Forwarded, TypeOK, LogTypes
\* Work that is seen in the local branch has arrived.
<1>seen. branch \subseteq local' => Arrived(local)'
  BY <1>work DEF Arrived, Holds
<1>got. local \cup origin \subseteq local' /\ Landed => Arrived(local)'
  BY <1>work, <1>stay DEF Landed, Arrived, Holds
<1> HIDE DEF Debts
<1>1. ASSUME \/ TickReads \/ Cleanup \/ CleanupPasses \/ Start \/ Recover \/ OwnerPushes
             \/ OwnerMergesByHand \/ OwnerPublishes
      PROVE  UNCHANGED <<recorded, escalated, followed, step, mem, checkout>>
  BY <1>1 DEF TickReads, Cleanup, CleanupPasses, Start, Recover, OwnerPushes,
    OwnerMergesByHand, OwnerPublishes, logVars, gitVars, quiet
<1>2. ASSUME \/ OwnerKeepsLocal \/ OthersFetch \/ ChecksRegister \/ ChecksReport \/ QueueMoves
            
             \/ \E n \in 1..MaxPrs : OwnerMerges(n)
             \/ \E n \in 1..MaxPrs : OwnerCloses(n)
             \/ \E n \in 1..MaxPrs : OwnerReopens(n)
      PROVE  UNCHANGED <<recorded, escalated, followed, step, mem, checkout>>
  BY <1>2 DEF OwnerKeepsLocal, OthersFetch, ChecksRegister, ChecksReport, QueueMoves, AcceptAgain,
    OwnerMerges, OwnerCloses, OwnerReopens, logVars, gitVars, quiet
<1>3. ASSUME \/ \E b \in Bases : OthersLand(b)
      PROVE  UNCHANGED <<recorded, escalated, followed, step, mem, checkout>>
  BY <1>3 DEF OthersLand, logVars, gitVars, quiet
<1> USE <1>owed, <1>stay, <1>fetch DEF Debts, Holding, Goto, Answer
<1>4. CASE UNCHANGED <<recorded, escalated, followed, step, mem, checkout>>
  BY <1>4 DEF logVars, gitVars, quiet
<1>5. CASE Decide
  <2>1. CASE Carried
    <3>1. Arrived(local)
      BY <2>1 DEF Carried, Arrived
    <3> QED
      BY <1>5, <3>1 DEF Decide, logVars, gitVars
  <2>2. CASE ~Carried
    BY <1>5, <2>2 DEF Decide, logVars, gitVars
  <2> QED
    BY <2>1, <2>2
<1>6. CASE Fails
  BY <1>6 DEF Fails, logVars, gitVars, quiet, Escalate
<1>7. CASE Errs
  BY <1>7 DEF Errs, logVars, gitVars, quiet
<1>8. CASE Finish
  <2>1. Arrived(local)
    BY <1>8 DEF Finish, Kept, Arrived, IsTask
  <2> QED
    BY <1>8, <2>1 DEF Finish, logVars
<1>9. CASE Record
  <2>1. Landed
    BY <1>9 DEF Record, IInv, Arrival
  <2> QED
    BY <1>9, <2>1, <1>work DEF Record, gitVars
<1>10. CASE FileTheRederive
  BY <1>10 DEF FileTheRederive, logVars, gitVars, quiet
<1>11. CASE OpenByHand
  <2>1. CASE branch \subseteq local
    <3>1. Arrived(local)'
      BY <1>11, <2>1, <1>seen DEF OpenByHand, gitVars
    <3> QED
      BY <1>11, <2>1, <3>1 DEF OpenByHand, ToRecord, logVars, gitVars
  <2>2. CASE ~(branch \subseteq local)
    BY <1>11, <2>2 DEF OpenByHand, logVars, gitVars
  <2> QED
    BY <2>1, <2>2
<1>12. CASE OpenPushes
  BY <1>12 DEF OpenPushes, logVars, gitVars, quiet
<1>13. CASE Create
  BY <1>13 DEF Create, logVars, gitVars, quiet
<1>14. CASE NoteOpened
  BY <1>14 DEF NoteOpened, logVars, gitVars, quiet
<1>15. CASE ReadOpen
  BY <1>15 DEF ReadOpen, logVars, gitVars, quiet
<1>16. CASE ReadMerged
  <2>1. CASE prs[url] = "merged" /\ subject # "storage"
    <3>1. mem'.pr = url /\ url # 0
      BY <1>16, <2>1 DEF ReadMerged, IInv, Forwarded, TypeOK, ProcessTypes
    <3>2. FetchesAfter'
      BY <3>1, <2>1, <1>stay DEF FetchesAfter
    <3> QED
      BY <1>16, <2>1, <3>2 DEF ReadMerged, logVars, gitVars
  <2>2. CASE ~(prs[url] = "merged" /\ subject # "storage")
    BY <1>16, <2>2 DEF ReadMerged, logVars, gitVars
  <2> QED
    BY <2>1, <2>2
<1>17. CASE ReadClosed
  BY <1>17 DEF ReadClosed, logVars, gitVars, quiet
<1>18. CASE EscalateClosed
  BY <1>18 DEF EscalateClosed, logVars, gitVars, quiet
<1>19. CASE RevertTheSwitch
  BY <1>19 DEF RevertTheSwitch, logVars, gitVars, quiet
<1>20. CASE MergeWhenChecksPass
  BY <1>20 DEF MergeWhenChecksPass, logVars, gitVars, quiet
<1>21. CASE MergeAnswerLost
  BY <1>21 DEF MergeAnswerLost, logVars, gitVars, quiet, Escalate
<1>22. CASE Reread
  <2>1. CASE prs[url] = "merged" /\ subject # "storage"
    <3>1. mem'.pr = url /\ url # 0
      BY <1>22, <2>1 DEF Reread, IInv, Forwarded, TypeOK, ProcessTypes
    <3>2. FetchesAfter'
      BY <3>1, <2>1, <1>stay DEF FetchesAfter
    <3> QED
      BY <1>22, <2>1, <3>2 DEF Reread, logVars, gitVars
  <2>2. CASE ~(prs[url] = "merged" /\ subject # "storage")
    BY <1>22, <2>2 DEF Reread, logVars, gitVars
  <2> QED
    BY <2>1, <2>2
<1>23. CASE CatchUp
  <2>1. Arrived(local)'
    BY <1>23, <1>got DEF CatchUp, FastForward, MoveLocal
  <2> QED
    BY <1>23, <2>1 DEF CatchUp, logVars
<1>24. CASE SwitchFetches
  BY <1>24 DEF SwitchFetches, logVars, gitVars, quiet
<1>25. CASE ClosedForTheHuman
  <2>1. CASE branch \subseteq local \cup origin
    <3>1. Arrived(local)'
      BY <1>25, <2>1, <1>seen DEF ClosedForTheHuman, FastForward, MoveLocal
    <3> QED
      BY <1>25, <2>1, <3>1 DEF ClosedForTheHuman, ToRecord, logVars, gitVars
  <2>2. CASE ~(branch \subseteq local \cup origin)
    BY <1>25, <2>2 DEF ClosedForTheHuman, logVars, gitVars
  <2> QED
    BY <2>1, <2>2
<1>26. CASE FetchBehind
  BY <1>26 DEF FetchBehind, logVars, gitVars, quiet
<1>27. CASE AddWorktree
  BY <1>27 DEF AddWorktree, logVars, gitVars, quiet
<1>28. CASE MergeInWorktree
  BY <1>28 DEF MergeInWorktree, logVars, gitVars, quiet
<1>29. CASE PushRefreshed
  BY <1>29 DEF PushRefreshed, logVars, gitVars, quiet
<1>30. CASE PushRefused
  BY <1>30 DEF PushRefused, logVars, gitVars, quiet
<1>31. CASE RemoveWorktree
  BY <1>31 DEF RemoveWorktree, logVars, gitVars, quiet, Escalate
<1>32. CASE SendBack
  BY <1>32 DEF SendBack, logVars, gitVars, quiet
<1>33. CASE SendBackRefused
  BY <1>33 DEF SendBackRefused, logVars, gitVars, quiet, Escalate
<1>34. CASE LandFound
  <2>1. CASE branch \subseteq local
    <3>1. Arrived(local)'
      BY <1>34, <2>1, <1>seen DEF LandFound, gitVars
    <3> QED
      BY <1>34, <2>1, <3>1 DEF LandFound, ToRecord, logVars, gitVars
  <2>2. CASE ~(branch \subseteq local)
    BY <1>34, <2>2 DEF LandFound, logVars, gitVars
  <2> QED
    BY <2>1, <2>2
<1>35. CASE LandMerges
  <2>1. Arrived(local)'
    BY <1>35, <1>seen DEF LandMerges, MoveLocal
  <2> QED
    BY <1>35, <2>1 DEF LandMerges, ToRecord, logVars
<1>36. CASE LandConflicts
  BY <1>36 DEF LandConflicts, logVars, gitVars, quiet
<1>37. CASE Abort
  BY <1>37 DEF Abort, logVars, gitVars, quiet, Escalate
<1>38. CASE \E p \in Askers : TakeLock(p)
  BY <1>38 DEF TakeLock, logVars, gitVars, quiet, IInv, TypeOK, ProcessTypes
<1>39. CASE TeamReopens
  <2>1. recorded = 0
    BY <1>39 DEF TeamReopens, IInv, Books
  <2> QED
    BY <1>39, <2>1 DEF TeamReopens, quiet, gitVars
<1>40. CASE OwnerSwitches
  BY <1>40 DEF OwnerSwitches, logVars, gitVars, quiet
<1> QED
  BY <1>kills, <1>1, <1>2, <1>3, <1>4, <1>5, <1>6, <1>7, <1>8, <1>9, <1>10, <1>11, <1>12, <1>13,
    <1>14, <1>15, <1>16, <1>17, <1>18, <1>19, <1>20, <1>21, <1>22, <1>23, <1>24, <1>25,
    <1>26, <1>27, <1>28, <1>29, <1>30, <1>31, <1>32, <1>33, <1>34, <1>35, <1>36, <1>37,
    <1>38, <1>39, <1>40 DEF Next, TickNext, HolderNext, OwnerNext, OthersNext, vars,
    logVars, gitVars, quiet

\* Once the work is recorded and the lock is free, and no process was killed, nothing
\* that goes with the record is left undone without the owner being told.
THEOREM NothingLeft == Spec => []NothingLeftBehind
<1>1. Init => Kept /\ Owed
  BY DEF Init, Kept, Owed
<1>2. IInv /\ Kept /\ Owed /\ [Next]_vars => Kept' /\ Owed'
  BY KeptStep, OwedStep
<1>3. IInv /\ Owed => NothingLeftBehind
  BY DEF IInv, TypeOK, ProcessTypes, Owed, NothingLeftBehind, Askers
<1> QED
  BY <1>1, <1>2, <1>3, Invariance, PTL DEF Spec
=============================================================================
