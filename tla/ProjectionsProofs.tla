-------------------------- MODULE ProjectionsProofs --------------------------
(***************************************************************************)
(* Proofs about Projections, for any number of processes, events, stops    *)
(* and appends.  Whoever empties the tables and when, the board takes in   *)
(* events of the log in the order of the log and none of them twice.  As   *)
(* long as nobody empties them beside a call of another process it takes   *)
(* in all of them, and replays the log as BoardReplay says.                *)
(***************************************************************************)
EXTENDS Projections, TLAPS

-----------------------------------------------------------------------------
(* Whoever empties the tables, and beside whatever.                        *)

\* What a process would apply is in the log.
HoldsEvents ==
  \A p \in Procs :
    /\ ctl[p] \in {"apply", "in_order"} => seq[p] \in 1..Len(log)
    /\ ctl[p] = "replay" => seq[p] < end[p] /\ end[p] <= Len(log)

\* The board took in event taken[1], then taken[2], and so on: in the order of the
\* log, none twice, and none after the cursor.
TakenBy(taken) ==
  /\ \A i, j \in 1..Len(board) : i < j => taken[i] < taken[j]
  /\ \A i \in 1..Len(board) : board[i] = log[taken[i]]

BoardInOrder ==
  /\ cursor <= Len(log)
  /\ \E taken \in [1..Len(board) -> 1..cursor] : TakenBy(taken)

Kept == TypeOK /\ HoldsEvents /\ BoardInOrder

\* A step that leaves the tables alone, and what of the log there was.
LEMMA TablesKept ==
  ASSUME TypeOK, BoardInOrder, UNCHANGED <<cursor, board>>,
         log' \in Seq(Events), Len(log) <= Len(log'),
         \A i \in 1..Len(log) : log'[i] = log[i]
  PROVE  BoardInOrder'
<1>1. PICK taken \in [1..Len(board) -> 1..cursor] : TakenBy(taken)
  BY DEF BoardInOrder
<1>2. cursor' <= Len(log')
  BY DEF TypeOK, BoardInOrder
<1>3. \A i \in 1..Len(board) : board[i] = log'[taken[i]]
  <2> SUFFICES ASSUME NEW i \in 1..Len(board) PROVE board[i] = log'[taken[i]]
    OBVIOUS
  <2>1. taken[i] \in 1..cursor /\ board[i] = log[taken[i]]
    BY <1>1 DEF TakenBy
  <2>2. taken[i] \in 1..Len(log)
    BY <2>1 DEF TypeOK, BoardInOrder
  <2> QED
    BY <2>1, <2>2
<1>4. TakenBy(taken)'
  BY <1>1, <1>3 DEF TakenBy
<1> QED
  BY <1>2, <1>4 DEF BoardInOrder

\* An event of the log is applied: after the cursor, or not at all.
LEMMA InOrderKeepsOrder ==
  ASSUME TypeOK, BoardInOrder, NEW s \in 1..Len(log), ApplyInOrder(s), log' = log
  PROVE  cursor' \in Nat /\ board' \in Seq(Events) /\ BoardInOrder'
<1>1. CASE s <= cursor
  <2>1. UNCHANGED <<cursor, board>>
    BY <1>1 DEF ApplyInOrder
  <2>2. BoardInOrder'
    BY <2>1, TablesKept DEF TypeOK
  <2> QED
    BY <2>1, <2>2 DEF TypeOK
<1>2. CASE ~(s <= cursor)
  <2>1. PICK taken \in [1..Len(board) -> 1..cursor] : TakenBy(taken)
    BY DEF BoardInOrder
  <2>2. board' = Append(board, log[s]) /\ cursor' = s /\ log[s] \in Events
    BY <1>2 DEF TypeOK, ApplyInOrder
  <2>3. /\ board' \in Seq(Events)
        /\ Len(board') = Len(board) + 1 /\ Len(board) \in Nat
        /\ \A i \in 1..Len(board) : board'[i] = board[i]
        /\ board'[Len(board) + 1] = log[s]
    BY <2>2 DEF TypeOK
  <2> DEFINE last == Len(board) + 1
             more == [i \in 1..last |-> IF i = last THEN s ELSE taken[i]]
  <2>4. \A i \in 1..Len(board) : more[i] = taken[i] /\ taken[i] \in 1..cursor /\ i < last
    BY <2>1, <2>3 DEF TakenBy
  <2>5. more[last] = s /\ cursor < s /\ cursor \in Nat /\ s \in Nat
    BY <1>2, <2>3 DEF TypeOK
  <2>6. \A i \in 1..last : i = last \/ i \in 1..Len(board)
    BY <2>3
  <2>7. more \in [1..last -> 1..s]
    <3>1. \A i \in 1..last : more[i] \in 1..s
      <4> HIDE DEF more, last
      <4> QED
        BY <2>4, <2>5, <2>6
    <3> QED
      BY <3>1
  <2> HIDE DEF more
  <2>8. \A i, j \in 1..last : i < j => more[i] < more[j]
    <3> SUFFICES ASSUME NEW i \in 1..last, NEW j \in 1..last, i < j
                 PROVE  more[i] < more[j]
      OBVIOUS
    <3>1. i \in 1..Len(board)
      BY <2>3
    <3>2. CASE j = last
      BY <2>4, <2>5, <3>1, <3>2
    <3>3. CASE j \in 1..Len(board)
      BY <2>1, <2>4, <3>1, <3>3 DEF TakenBy
    <3> QED
      BY <2>6, <3>2, <3>3
  <2>9. \A i \in 1..last : board'[i] = log[more[i]]
    <3>1. \A i \in 1..Len(board) : board'[i] = log[more[i]]
      BY <2>1, <2>3, <2>4 DEF TakenBy
    <3>2. board'[last] = log[more[last]]
      BY <2>3, <2>5
    <3> QED
      BY <2>6, <3>1, <3>2
  <2>10. \E new \in [1..Len(board') -> 1..cursor'] : TakenBy(new)'
    <3>1. PICK new : new = more
      OBVIOUS
    <3>2. Len(board') = last /\ cursor' = s
      BY <2>2, <2>3
    <3> HIDE DEF last
    <3>3. new \in [1..Len(board') -> 1..cursor'] /\ TakenBy(new)'
      BY <2>7, <2>8, <2>9, <3>1, <3>2 DEF TakenBy
    <3> QED
      BY <3>3
  <2>11. cursor' <= Len(log')
    BY <2>2
  <2> QED
    BY <2>2, <2>3, <2>10, <2>11 DEF TypeOK, BoardInOrder
<1> QED
  BY <1>1, <1>2

\* No step of any process, an emptying of the tables among them, breaks it.
LEMMA NextKept ==
  ASSUME Kept, [Next]_vars
  PROVE  Kept'
<1> USE DEF Kept
<1>1. ASSUME NEW p \in Procs, AppendEvent(p) \/ FileRequest(p) PROVE Kept'
  <2>1. PICK e \in Events : log' = Append(log, e)
    BY <1>1 DEF AppendEvent, FileRequest
  <2>2. /\ log' \in Seq(Events) /\ Len(log') = Len(log) + 1 /\ Len(log) \in Nat
        /\ \A i \in 1..Len(log) : log'[i] = log[i]
    BY <2>1 DEF TypeOK
  <2>3. UNCHANGED <<cursor, board>>
    BY <1>1 DEF AppendEvent, FileRequest
  <2>4. BoardInOrder'
    BY <2>2, <2>3, TablesKept
  <2>5. CASE AppendEvent(p)
    <3>1. TypeOK'
      BY <2>2, <2>5 DEF AppendEvent, Goto, TypeOK, Places
    <3>2. HoldsEvents'
      BY <2>2, <2>5 DEF AppendEvent, Goto, TypeOK, HoldsEvents
    <3> QED
      BY <2>4, <3>1, <3>2
  <2>6. CASE FileRequest(p)
    <3>1. TypeOK'
      BY <2>2, <2>6 DEF FileRequest, TypeOK
    <3>2. HoldsEvents'
      BY <2>2, <2>6 DEF FileRequest, TypeOK, HoldsEvents
    <3> QED
      BY <2>4, <3>1, <3>2
  <2> QED
    BY <1>1, <2>5, <2>6
<1>2. ASSUME NEW p \in Procs,
             \/ Open(p) \/ CatchUp(p) \/ GapCheck(p) \/ ReadCursor(p)
             \/ ReadBehind(p) \/ Fail(p) \/ Stop(p)
      PROVE  Kept'
  <2>1. UNCHANGED <<log, cursor, board>>
    BY <1>2 DEF Open, CatchUp, GapCheck, ReadCursor, ReadBehind, Fail, Stop
  <2>2. BoardInOrder'
    BY <2>1, TablesKept DEF TypeOK
  <2>3. CASE Open(p) \/ CatchUp(p)
    BY <2>2, <2>3 DEF Open, CatchUp, Goto, TypeOK, Places, HoldsEvents
  <2>4. CASE Fail(p) \/ Stop(p)
    BY <2>2, <2>4 DEF Fail, Stop, Goto, TypeOK, Places, HoldsEvents
  <2>5. CASE GapCheck(p)
    BY <2>2, <2>5 DEF GapCheck, Goto, TypeOK, Places, HoldsEvents
  <2>6. CASE ReadCursor(p)
    BY <2>2, <2>6 DEF ReadCursor, Goto, TypeOK, Places, HoldsEvents
  <2>7. CASE ReadBehind(p)
    BY <2>2, <2>7 DEF ReadBehind, Goto, TypeOK, Places, HoldsEvents
  <2> QED
    BY <1>2, <2>3, <2>4, <2>5, <2>6, <2>7
<1>3. ASSUME NEW p \in Procs, Apply(p) PROVE Kept'
  <2>1. seq[p] \in 1..Len(log) /\ ApplyInOrder(seq[p]) /\ log' = log
    BY <1>3 DEF Apply, HoldsEvents
  <2>2. cursor' \in Nat /\ board' \in Seq(Events) /\ BoardInOrder'
    BY <2>1, InOrderKeepsOrder
  <2>3. TypeOK' /\ HoldsEvents'
    BY <1>3, <2>2 DEF Apply, Goto, TypeOK, Places, HoldsEvents
  <2> QED
    BY <2>2, <2>3
<1>4. ASSUME NEW p \in Procs, Replay(p) PROVE Kept'
  <2>1. seq[p] + 1 \in 1..Len(log) /\ ApplyInOrder(seq[p] + 1) /\ log' = log
    BY <1>4 DEF Replay, HoldsEvents, TypeOK
  <2>2. cursor' \in Nat /\ board' \in Seq(Events) /\ BoardInOrder'
    BY <2>1, InOrderKeepsOrder
  <2>3. TypeOK' /\ HoldsEvents'
    BY <1>4, <2>2 DEF Replay, Goto, TypeOK, Places, HoldsEvents
  <2> QED
    BY <2>2, <2>3
<1>5. ASSUME NEW p \in Procs, Empty(p) PROVE Kept'
  <2>1. /\ board' = <<>> /\ cursor' = 0
        /\ ctl' = [ctl EXCEPT ![p] = "catch_up"]
        /\ UNCHANGED <<log, seq, end, stops>>
    BY <1>5 DEF Empty, Goto
  <2>2. TypeOK' /\ HoldsEvents'
    <3>1. <<>> \in Seq(Events) /\ 0 \in Nat /\ ctl' \in [Procs -> Places]
      BY <2>1 DEF TypeOK, Places
    <3> QED
      BY <2>1, <3>1 DEF TypeOK, HoldsEvents
  <2>3. Len(board') = 0 /\ Len(log') \in Nat
    BY <2>1 DEF TypeOK
  <2>4. <<>> \in [1..Len(board') -> 1..cursor'] /\ TakenBy(<<>>)'
    BY <2>1, <2>3 DEF TakenBy
  <2>5. \E taken \in [1..Len(board') -> 1..cursor'] : TakenBy(taken)'
    BY <2>4, Zenon
  <2>6. cursor' <= Len(log')
    BY <2>1, <2>3
  <2>7. BoardInOrder'
    BY <2>5, <2>6, Zenon DEF BoardInOrder
  <2> QED
    BY <2>2, <2>7
<1>6. CASE UNCHANGED vars
  <2>1. BoardInOrder'
    BY <1>6, TablesKept DEF vars, TypeOK
  <2> QED
    BY <1>6, <2>1 DEF vars, TypeOK, HoldsEvents
<1> QED
  BY <1>1, <1>2, <1>3, <1>4, <1>5, <1>6 DEF Next, StepOf

LEMMA AlwaysKept == Spec => []Kept
<1>1. Init => Kept
  <2> SUFFICES ASSUME Init PROVE Kept
    OBVIOUS
  <2>1. TypeOK /\ HoldsEvents
    BY DEF Init, TypeOK, Places, HoldsEvents
  <2>2. Len(board) = 0 /\ Len(log) = 0 /\ cursor = 0
    BY DEF Init
  <2>3. <<>> \in [1..Len(board) -> 1..cursor] /\ TakenBy(<<>>)
    BY <2>2 DEF TakenBy
  <2>4. \E taken \in [1..Len(board) -> 1..cursor] : TakenBy(taken)
    BY <2>3, Zenon
  <2>5. cursor <= Len(log)
    BY <2>2
  <2>6. BoardInOrder
    BY <2>4, <2>5, Zenon DEF BoardInOrder
  <2> QED
    BY <2>1, <2>6 DEF Kept
<1> QED
  BY <1>1, NextKept, PTL DEF Spec

\* The state of the store is always of the declared type, also while the tables are
\* emptied beside others: nobody ever applies an event the log does not have.
THEOREM TypeCorrect == Spec => []TypeOK
<1>1. Kept => TypeOK
  BY DEF Kept
<1> QED
  BY <1>1, AlwaysKept, PTL

\* Whatever the processes do, the board takes in events in the order of the log and
\* none of them twice (`apply_in_order`): an emptying beside another's call may leave
\* events out (`rebuild`, and the migrations of a newer `catervas`), and can do no
\* other harm.
THEOREM AlwaysInOrder == Spec => []BoardInOrder
<1>1. Kept => BoardInOrder
  BY DEF Kept
<1> QED
  BY <1>1, AlwaysKept, PTL

-----------------------------------------------------------------------------
(* While nobody empties them beside a call of another process.             *)

\* The inductive invariant: the types, the prefix, and that no process holds
\* an event beyond the one after the cursor where it would apply it unasked.
IInv == TypeOK /\ BoardIsThePrefix /\ NoStepOver

\* Applying an event that is at most the next one keeps the board a prefix of
\* the log: it is either taken in already or the very next one.
LEMMA InOrderKeepsPrefix ==
  ASSUME TypeOK, BoardIsThePrefix, NEW s \in 1..Len(log), s <= cursor + 1,
         ApplyInOrder(s), log' = log
  PROVE  /\ cursor' \in Nat
         /\ board' \in Seq(Events)
         /\ BoardIsThePrefix'
         /\ cursor <= cursor' /\ s <= cursor'
<1>1. CASE s <= cursor
  BY <1>1 DEF TypeOK, BoardIsThePrefix, ApplyInOrder
<1>2. CASE ~(s <= cursor)
  <2>1. s = cursor + 1
    BY <1>2 DEF TypeOK
  <2>2. board' = Append(board, log[s]) /\ cursor' = s /\ log[s] \in Events
    BY <1>2 DEF TypeOK, ApplyInOrder
  <2>3. /\ board' \in Seq(Events)
        /\ Len(board') = cursor + 1
        /\ \A i \in 1..cursor : board'[i] = board[i]
        /\ board'[cursor + 1] = log[s]
    BY <2>2 DEF TypeOK, BoardIsThePrefix
  <2>4. \A i \in 1..cursor' : board'[i] = log'[i]
    BY <2>1, <2>2, <2>3 DEF TypeOK, BoardIsThePrefix
  <2> QED
    BY <2>1, <2>2, <2>3, <2>4 DEF TypeOK, BoardIsThePrefix
<1> QED
  BY <1>1, <1>2

\* An empty log and an empty board.
LEMMA InitIInv == Init => IInv
BY DEF Init, IInv, TypeOK, Places, BoardIsThePrefix, NoStepOver

\* Appending an event leaves every prefix of the log what it was.
LEMMA AppendKeepsPrefix ==
  ASSUME TypeOK, BoardIsThePrefix, NEW e \in Events, log' = Append(log, e),
         UNCHANGED <<cursor, board>>
  PROVE  /\ log' \in Seq(Events)
         /\ Len(log') = Len(log) + 1
         /\ BoardIsThePrefix'
<1>1. /\ log' \in Seq(Events)
      /\ Len(log') = Len(log) + 1
      /\ \A i \in 1..Len(log) : log'[i] = log[i]
  BY DEF TypeOK
<1> QED
  BY <1>1 DEF TypeOK, BoardIsThePrefix

\* No step of any process breaks the inductive invariant.
LEMMA NextIInv ==
  ASSUME ~Beside, IInv, [Next]_vars
  PROVE  IInv'
<1> USE DEF IInv
<1>1. CASE UNCHANGED vars
  BY <1>1 DEF vars, TypeOK, BoardIsThePrefix, NoStepOver
<1>2. ASSUME NEW p \in Procs, Open(p) PROVE IInv'
  BY <1>2 DEF Open, Goto, TypeOK, Places, BoardIsThePrefix, NoStepOver
<1>3. ASSUME NEW p \in Procs, AppendEvent(p) PROVE IInv'
  <2>1. PICK e \in Events : log' = Append(log, e)
    BY <1>3 DEF AppendEvent
  <2>2. /\ log' \in Seq(Events)
        /\ Len(log') = Len(log) + 1
        /\ BoardIsThePrefix'
    BY <1>3, <2>1, AppendKeepsPrefix DEF AppendEvent
  <2>3. TypeOK'
    BY <1>3, <2>2 DEF AppendEvent, Goto, TypeOK, Places
  <2>4. NoStepOver'
    BY <1>3, <2>2 DEF AppendEvent, Goto, TypeOK, Places, NoStepOver
  <2> QED
    BY <2>2, <2>3, <2>4
<1>4. ASSUME NEW p \in Procs, FileRequest(p) PROVE IInv'
  <2>1. PICK e \in Events : log' = Append(log, e)
    BY <1>4 DEF FileRequest
  <2>2. /\ log' \in Seq(Events)
        /\ Len(log') = Len(log) + 1
        /\ BoardIsThePrefix'
    BY <1>4, <2>1, AppendKeepsPrefix DEF FileRequest
  <2>3. TypeOK' /\ NoStepOver'
    BY <1>4, <2>2 DEF FileRequest, TypeOK, NoStepOver
  <2> QED
    BY <2>2, <2>3
<1>5. ASSUME NEW p \in Procs, CatchUp(p) PROVE IInv'
  BY <1>5 DEF CatchUp, Goto, TypeOK, Places, BoardIsThePrefix, NoStepOver
<1>6. ASSUME NEW p \in Procs, GapCheck(p) PROVE IInv'
  BY <1>6 DEF GapCheck, Goto, TypeOK, Places, BoardIsThePrefix, NoStepOver
<1>7. ASSUME NEW p \in Procs, Apply(p) PROVE IInv'
  <2>1. seq[p] \in 1..Len(log) /\ seq[p] <= cursor + 1
    BY <1>7 DEF Apply, NoStepOver
  <2>2. /\ cursor' \in Nat
        /\ board' \in Seq(Events)
        /\ BoardIsThePrefix'
        /\ cursor <= cursor'
    BY <1>7, <2>1, InOrderKeepsPrefix DEF Apply
  <2>3. TypeOK'
    BY <1>7, <2>2 DEF Apply, Goto, TypeOK, Places
  <2>4. NoStepOver'
    BY <1>7, <2>2 DEF Apply, Goto, TypeOK, NoStepOver
  <2> QED
    BY <2>2, <2>3, <2>4
<1>8. ASSUME NEW p \in Procs, ReadCursor(p) PROVE IInv'
  BY <1>8 DEF ReadCursor, Goto, TypeOK, Places, BoardIsThePrefix, NoStepOver
<1>9. ASSUME NEW p \in Procs, ReadBehind(p) PROVE IInv'
  BY <1>9 DEF ReadBehind, Goto, TypeOK, Places, BoardIsThePrefix, NoStepOver
<1>10. ASSUME NEW p \in Procs, Replay(p) PROVE IInv'
  <2>1. seq[p] \in Nat /\ seq[p] + 1 \in 1..Len(log) /\ seq[p] + 1 <= cursor + 1
    BY <1>10 DEF Replay, NoStepOver, TypeOK
  <2>2. /\ cursor' \in Nat
        /\ board' \in Seq(Events)
        /\ BoardIsThePrefix'
        /\ cursor <= cursor' /\ seq[p] + 1 <= cursor'
    BY <1>10, <2>1, InOrderKeepsPrefix DEF Replay
  <2>3. TypeOK'
    BY <1>10, <2>1, <2>2 DEF Replay, Goto, TypeOK, Places
  <2>4. NoStepOver'
    BY <1>10, <2>1, <2>2 DEF Replay, Goto, TypeOK, NoStepOver
  <2> QED
    BY <2>2, <2>3, <2>4
<1>11. ASSUME NEW p \in Procs, Fail(p) PROVE IInv'
  BY <1>11 DEF Fail, Goto, TypeOK, Places, BoardIsThePrefix, NoStepOver
<1>12. ASSUME NEW p \in Procs, Stop(p) PROVE IInv'
  BY <1>12 DEF Stop, Goto, TypeOK, Places, BoardIsThePrefix, NoStepOver
<1>13. ASSUME NEW p \in Procs, Empty(p) PROVE IInv'
  <2>1. /\ board' = <<>> /\ cursor' = 0
        /\ ctl' = [ctl EXCEPT ![p] = "catch_up"]
        /\ UNCHANGED <<log, seq, end, stops>>
    BY <1>13 DEF Empty, Goto
  <2>2. \A q \in Procs : ctl'[q] \in {"down", "idle", "catch_up"}
    BY <1>13, <2>1 DEF Empty, Alone, TypeOK
  <2>3. TypeOK'
    <3>1. <<>> \in Seq(Events) /\ 0 \in Nat /\ ctl' \in [Procs -> Places]
      BY <2>1 DEF TypeOK, Places
    <3> QED
      BY <2>1, <3>1 DEF TypeOK
  <2>4. BoardIsThePrefix'
    <3>1. Len(<<>>) = 0 /\ Len(log) \in Nat
      BY DEF TypeOK
    <3> QED
      BY <2>1, <3>1 DEF BoardIsThePrefix
  <2>5. NoStepOver'
    BY <2>2 DEF NoStepOver
  <2> QED
    BY <2>3, <2>4, <2>5
<1> QED
  BY <1>1, <1>2, <1>3, <1>4, <1>5, <1>6, <1>7, <1>8, <1>9, <1>10, <1>11,
     <1>12, <1>13 DEF Next, StepOf

\* The inductive invariant holds of every reachable state.
THEOREM Invariance == ASSUME ~Beside PROVE Spec => []IInv
<1>1. Init => IInv
  BY InitIInv
<1>2. IInv /\ [Next]_vars => IInv'
  BY NextIInv
<1> QED
  BY <1>1, <1>2, PTL DEF Spec

\* The board is a prefix of the log, whichever processes append and project,
\* in whatever order, and wherever one of them stops (`Projections::apply`,
\* `apply_in_order`, `catch_up`).
THEOREM BoardCorrect == ASSUME ~Beside PROVE Spec => []BoardIsThePrefix
<1>1. IInv => BoardIsThePrefix
  BY DEF IInv
<1> QED
  BY <1>1, Invariance, PTL

\* No process ever stands before an event beyond the next one with nothing left to
\* stop it: not past the gap check of `apply`, which reads the cursor in a statement of
\* its own, and not in `catch_up`, which goes by what it read before (`apply_in_order`).
THEOREM NobodyStepsOver == ASSUME ~Beside PROVE Spec => []NoStepOver
<1>1. IInv => NoStepOver
  BY DEF IInv
<1> QED
  BY <1>1, Invariance, PTL

\* A call that comes to its end leaves on the board the event it appended, or all
\* that it read of the log (`apply`, `catch_up`), as long as nobody empties the
\* tables beside it.
THEOREM LeavesItsEventsAlways == ASSUME ~Beside PROVE Spec => LeavesItsEvents
<1>1. ASSUME IInv, NEW p \in Procs, Apply(p) PROVE seq[p] <= cursor'
  BY <1>1 DEF IInv, TypeOK, Apply, ApplyInOrder
<1>2. ASSUME IInv, NEW p \in Procs, ReadBehind(p), ctl'[p] = "idle"
      PROVE  Len(log) <= cursor'
  <2>1. seq[p] <= cursor /\ cursor' = cursor
    BY <1>2 DEF IInv, NoStepOver, ReadBehind
  <2>2. ~(seq[p] < Len(log))
    BY <1>2 DEF IInv, TypeOK, ReadBehind, Goto
  <2> QED
    BY <1>2, <2>1, <2>2 DEF IInv, TypeOK
<1>3. ASSUME IInv, NEW p \in Procs, Replay(p), ctl'[p] = "idle"
      PROVE  end[p] <= cursor'
  <2>1. seq[p] < end[p] /\ ~(seq[p] + 1 < end[p])
    BY <1>3 DEF IInv, TypeOK, NoStepOver, Replay, Goto
  <2>2. seq[p] + 1 <= cursor'
    BY <1>3 DEF IInv, TypeOK, Replay, ApplyInOrder
  <2>3. seq[p] \in Nat /\ end[p] \in Nat
    BY <1>3 DEF IInv, TypeOK
  <2> QED
    BY <2>1, <2>2, <2>3
<1>4. IInv /\ [Next]_vars =>
        [\A p \in Procs :
           /\ Apply(p) => seq[p] <= cursor'
           /\ ReadBehind(p) /\ ctl'[p] = "idle" => Len(log) <= cursor'
           /\ Replay(p) /\ ctl'[p] = "idle" => end[p] <= cursor']_vars
  BY <1>1, <1>2, <1>3
<1> QED
  BY <1>4, Invariance, PTL DEF Spec, LeavesItsEvents

-----------------------------------------------------------------------------
\* A step that applies an event in order is a step of the careful reader.
LEMMA InOrderIsProject ==
  ASSUME TypeOK, BoardIsThePrefix, NEW s \in 1..Len(log), s <= cursor + 1,
         ApplyInOrder(s), log' = log
  PROVE  [Replayed!Next]_(Replayed!vars)
<1>1. CASE s <= cursor
  BY <1>1 DEF ApplyInOrder, Replayed!vars
<1>2. CASE ~(s <= cursor)
  <2>1. s = Len(board) + 1 /\ Len(board) < Len(log)
    BY <1>2 DEF TypeOK, BoardIsThePrefix
  <2>2. board' = Append(board, log[s])
    BY <1>2 DEF ApplyInOrder
  <2> QED
    BY <2>1, <2>2 DEF Replayed!Next, Replayed!Project
<1> QED
  BY <1>1, <1>2

\* The processes together implement BoardReplay: the log only grows, and the
\* board takes in its events one by one, in order, each exactly once, or is
\* forgotten as a whole.
THEOREM Refinement == ASSUME ~Beside PROVE Spec => ImplementsReplay
<1>1. Init => Replayed!Init
  BY DEF Init, Replayed!Init
<1>2. ASSUME IInv, [Next]_vars PROVE [Replayed!Next]_(Replayed!vars)
  <2> USE DEF IInv
  <2>1. CASE UNCHANGED vars
    BY <2>1 DEF vars, Replayed!vars
  <2>2. ASSUME NEW p \in Procs, AppendEvent(p) \/ FileRequest(p)
        PROVE  Replayed!Next
    BY <2>2 DEF AppendEvent, FileRequest, Replayed!Next, Replayed!Record
  <2>3. ASSUME NEW p \in Procs, Apply(p)
        PROVE  [Replayed!Next]_(Replayed!vars)
    <3>1. seq[p] \in 1..Len(log) /\ seq[p] <= cursor + 1
      BY <1>2, <2>3 DEF Apply, NoStepOver
    <3> QED
      BY <1>2, <2>3, <3>1, InOrderIsProject DEF Apply
  <2>4. ASSUME NEW p \in Procs, Replay(p)
        PROVE  [Replayed!Next]_(Replayed!vars)
    <3>1. seq[p] + 1 \in 1..Len(log) /\ seq[p] + 1 <= cursor + 1
      BY <1>2, <2>4 DEF Replay, NoStepOver, TypeOK
    <3> QED
      BY <1>2, <2>4, <3>1, InOrderIsProject DEF Replay
  <2>5. ASSUME NEW p \in Procs,
               \/ Open(p) \/ CatchUp(p) \/ GapCheck(p) \/ ReadCursor(p)
               \/ ReadBehind(p) \/ Fail(p) \/ Stop(p)
        PROVE  UNCHANGED Replayed!vars
    BY <2>5 DEF Open, CatchUp, GapCheck, ReadCursor, ReadBehind, Fail, Stop,
                Replayed!vars
  <2>6. ASSUME NEW p \in Procs, Empty(p) PROVE Replayed!Next
    BY <2>6 DEF Empty, Replayed!Next, Replayed!Forget
  <2> QED
    BY <1>2, <2>1, <2>2, <2>3, <2>4, <2>5, <2>6 DEF Next, StepOf
<1> QED
  BY <1>1, <1>2, Invariance, PTL DEF Spec, ImplementsReplay, Replayed!Spec
=============================================================================
