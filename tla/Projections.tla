----------------------------- MODULE Projections -----------------------------
(***************************************************************************)
(* The event log and the board projected from it, as several `catervas`    *)
(* processes share them through one SQLite file (crates/store/src/         *)
(* event_log.rs, projections.rs, migrations.rs).                           *)
(*                                                                         *)
(* Every SQL statement or transaction is one step; between two of them     *)
(* another process may run, and the process may stop.  The tables are kept *)
(* as the sequence of events they took in, so that two boards are equal    *)
(* exactly when they were computed from the same events in the same order: *)
(* whatever `apply_to` does with an event, it does it to that sequence.    *)
(***************************************************************************)
EXTENDS Naturals, Sequences

CONSTANTS
  Procs,       \* the processes (and threads) that open the project's log
  Events,      \* what an event may say
  Emptiers,    \* those of Procs that may empty the tables of an open log
  Beside,      \* whether they may while another process is in a call of the store
  MaxSeq,      \* bound: how many events are appended
  MaxStops     \* bound: how often a call fails or a process stops

ASSUME ProcsAssumption == Emptiers \subseteq Procs /\ Beside \in BOOLEAN
ASSUME BoundsAssumption == MaxSeq \in Nat /\ MaxStops \in Nat

VARIABLES
  log,       \* table `events`: log[s] is the event of sequence number s
  cursor,    \* `projection_cursor`: the last sequence number applied, or 0
  board,     \* the projection tables
  ctl,       \* ctl[p]: where process p is
  seq,       \* seq[p]: the sequence number p holds in its hands
  end,       \* end[p]: the last event of the `behind` p read in catch_up
  stops      \* how many calls failed and processes stopped so far

vars == <<log, cursor, board, ctl, seq, end, stops>>

\* "down": not running.  "idle": running, and in no call of the store.
\* "apply": `append` returned, `apply` not begun.  "in_order": past the gap
\* check of `apply`.  "catch_up": about to read the cursor.  "read": about to
\* read the events after it.  "replay": applying them.
Places == {"down", "idle", "apply", "in_order", "catch_up", "read", "replay"}

TypeOK ==
  /\ log \in Seq(Events)
  /\ cursor \in Nat
  /\ board \in Seq(Events)
  /\ ctl \in [Procs -> Places]
  /\ seq \in [Procs -> Nat]
  /\ end \in [Procs -> Nat]
  /\ stops \in Nat

Init ==
  /\ log = <<>>
  /\ cursor = 0
  /\ board = <<>>
  /\ ctl = [p \in Procs |-> "down"]
  /\ seq = [p \in Procs |-> 0]
  /\ end = [p \in Procs |-> 0]
  /\ stops = 0

Goto(p, place) == ctl' = [ctl EXCEPT ![p] = place]

\* No other process is in a call of the store.
Alone(p) == \A q \in Procs \ {p} : ctl[q] \in {"down", "idle"}

-----------------------------------------------------------------------------
\* Five mistakes the checks must catch; each stands for the definition its
\* name begins with in one run of PROJECT.json's "mutants" and nowhere else.

\* `apply` trusts that events arrive in order.
GapCheckUnguarded(p) ==
  /\ ctl[p] = "apply"
  /\ Goto(p, "in_order")
  /\ UNCHANGED <<log, cursor, board, seq, end, stops>>

\* `catch_up` starts one event before the cursor, and below zero at the start.
ReadCursorBefore(p) ==
  /\ ctl[p] = "catch_up"
  /\ seq' = [seq EXCEPT ![p] = cursor - 1]
  /\ Goto(p, "read")
  /\ UNCHANGED <<log, cursor, board, end, stops>>

\* `apply_in_order` takes in an event it is handed twice.
ApplyInOrderTwice(s) ==
  /\ board' = Append(board, log[s])
  /\ cursor' = s

\* `catch_up` leaves the last event it read.
ReplayShort(p) ==
  /\ ctl[p] = "replay"
  /\ IF seq[p] + 1 <= cursor \/ seq[p] + 1 = end[p]
     THEN UNCHANGED <<cursor, board>>
     ELSE board' = Append(board, log[seq[p] + 1]) /\ cursor' = seq[p] + 1
  /\ seq' = [seq EXCEPT ![p] = seq[p] + 1]
  /\ Goto(p, IF seq[p] + 1 < end[p] THEN "replay" ELSE "idle")
  /\ UNCHANGED <<log, end, stops>>

\* The tables are emptied and the cursor is left where it was.
EmptyKeepsCursor(p) ==
  /\ p \in Emptiers
  /\ Beside \/ Alone(p)
  /\ ctl[p] = "idle"
  /\ cursor > 0
  /\ board' = <<>>
  /\ Goto(p, "catch_up")
  /\ UNCHANGED <<log, cursor, seq, end, stops>>

-----------------------------------------------------------------------------
\* `open_projections`: a process opens the log and catches up with it.
Open(p) ==
  /\ ctl[p] = "down"
  /\ Goto(p, "catch_up")
  /\ UNCHANGED <<log, cursor, board, seq, end, stops>>

\* `EventLog::append`, from a caller that projects what it appended: the
\* insert gives the event the next sequence number.
AppendEvent(p) ==
  /\ ctl[p] = "idle"
  /\ Len(log) < MaxSeq
  /\ \E e \in Events : log' = Append(log, e)
  /\ seq' = [seq EXCEPT ![p] = Len(log) + 1]
  /\ Goto(p, "apply")
  /\ UNCHANGED <<cursor, board, end, stops>>

\* `requests::file`, which appends and leaves the projecting to a `catch_up`
\* of the caller's or of anybody's.
FileRequest(p) ==
  /\ ctl[p] = "idle"
  /\ Len(log) < MaxSeq
  /\ \E e \in Events : log' = Append(log, e)
  /\ UNCHANGED <<cursor, board, ctl, seq, end, stops>>

\* A caller that reads the board brings it up to the log first: each tick,
\* each command, each page.
CatchUp(p) ==
  /\ ctl[p] = "idle"
  /\ Goto(p, "catch_up")
  /\ UNCHANGED <<log, cursor, board, seq, end, stops>>

\* `Projections::apply` reads the cursor in a statement of its own: an event
\* past the next one is a gap, and the log is read instead.
GapCheck(p) ==
  /\ ctl[p] = "apply"
  /\ Goto(p, IF seq[p] > cursor + 1 THEN "catch_up" ELSE "in_order")
  /\ UNCHANGED <<log, cursor, board, seq, end, stops>>

\* The transaction of `apply_in_order`: an event at or before the cursor is
\* ignored, any other is applied and becomes the cursor.
ApplyInOrder(s) ==
  IF s <= cursor
  THEN UNCHANGED <<cursor, board>>
  ELSE /\ board' = Append(board, log[s])
       /\ cursor' = s

Apply(p) ==
  /\ ctl[p] = "in_order"
  /\ ApplyInOrder(seq[p])
  /\ Goto(p, "idle")
  /\ UNCHANGED <<log, seq, end, stops>>

\* `catch_up` reads the cursor ...
ReadCursor(p) ==
  /\ ctl[p] = "catch_up"
  /\ seq' = [seq EXCEPT ![p] = cursor]
  /\ Goto(p, "read")
  /\ UNCHANGED <<log, cursor, board, end, stops>>

\* ... then the events after it ...
ReadBehind(p) ==
  /\ ctl[p] = "read"
  /\ end' = [end EXCEPT ![p] = Len(log)]
  /\ Goto(p, IF seq[p] < Len(log) THEN "replay" ELSE "idle")
  /\ UNCHANGED <<log, cursor, board, seq, stops>>

\* ... and applies each of them in a transaction of its own.
Replay(p) ==
  /\ ctl[p] = "replay"
  /\ ApplyInOrder(seq[p] + 1)
  /\ seq' = [seq EXCEPT ![p] = seq[p] + 1]
  /\ Goto(p, IF seq[p] + 1 < end[p] THEN "replay" ELSE "idle")
  /\ UNCHANGED <<log, end, stops>>

\* The tables are emptied and the cursor set to zero, in one transaction: by
\* `rebuild`, and by the migrations 0007 to 0009 when a newer `catervas`
\* opens the log.  Either goes on to catch up.  Nothing in the code keeps others
\* out meanwhile, which is Beside; only without it is the board what it should be.
Empty(p) ==
  /\ p \in Emptiers
  /\ Beside \/ Alone(p)
  /\ ctl[p] = "idle"
  /\ cursor > 0
  /\ board' = <<>>
  /\ cursor' = 0
  /\ Goto(p, "catch_up")
  /\ UNCHANGED <<log, seq, end, stops>>

\* A call of the store fails (a lock waited for past `busy_timeout`, a full
\* disk): the process goes on without it, and what it had committed stays.
Fail(p) ==
  /\ ctl[p] \notin {"down", "idle"}
  /\ stops < MaxStops
  /\ stops' = stops + 1
  /\ Goto(p, "idle")
  /\ UNCHANGED <<log, cursor, board, seq, end>>

\* The process is killed, at any place: what it had read is lost, what it had
\* committed is not.
Stop(p) ==
  /\ ctl[p] # "down"
  /\ stops < MaxStops
  /\ stops' = stops + 1
  /\ Goto(p, "down")
  /\ UNCHANGED <<log, cursor, board, seq, end>>

StepOf(p) ==
  \/ GapCheck(p) \/ Apply(p) \/ ReadCursor(p) \/ ReadBehind(p) \/ Replay(p)

Next ==
  \E p \in Procs :
    \/ Open(p) \/ AppendEvent(p) \/ FileRequest(p) \/ CatchUp(p)
    \/ StepOf(p) \/ Empty(p) \/ Fail(p) \/ Stop(p)

Spec == Init /\ [][Next]_vars

-----------------------------------------------------------------------------
\* A process in the middle of a call of the store goes on with it, and a
\* project is opened again and read again: the owner starts `catervas` once
\* more, and a running one ticks.
Fairness ==
  \A p \in Procs : /\ WF_vars(StepOf(p))
                   /\ WF_vars(Open(p))
                   /\ WF_vars(CatchUp(p))

FairSpec == Spec /\ Fairness

\* The board is what the first `cursor` events of the log make, each taken in
\* once and in order, whichever processes appended them, in whatever order
\* they projected them and wherever one of them stopped (`apply`: "a cursor
\* that moved past an event nothing applied would leave the board short of
\* the log for good").
BoardIsThePrefix ==
  /\ cursor <= Len(log)
  /\ Len(board) = cursor
  /\ \A i \in 1..cursor : board[i] = log[i]

\* What makes the prefix inductive: a process past the gap check, or replaying
\* what it read, never holds an event beyond the one after the cursor.
NoStepOver ==
  \A p \in Procs :
    /\ ctl[p] \in {"apply", "in_order"} => seq[p] \in 1..Len(log)
    /\ ctl[p] = "in_order" => seq[p] <= cursor + 1
    /\ ctl[p] = "read" => seq[p] <= cursor
    /\ ctl[p] = "replay" => /\ seq[p] <= cursor
                            /\ seq[p] < end[p]
                            /\ end[p] <= Len(log)

\* A call of the store that comes to its end leaves the board no older than its
\* caller takes it to be: with the event it appended, or with all that the log had
\* when it was read, whatever other processes took in, or emptied, meanwhile
\* (`apply`, `catch_up`; the orchestrator decides on the board it then reads).
LeavesItsEvents ==
  [][\A p \in Procs :
       /\ Apply(p) => seq[p] <= cursor'
       /\ ReadBehind(p) /\ ctl'[p] = "idle" => Len(log) <= cursor'
       /\ Replay(p) /\ ctl'[p] = "idle" => end[p] <= cursor']_vars

\* The processes together do what one careful reader of the log would.
Replayed == INSTANCE BoardReplay
ImplementsReplay == Replayed!Spec

\* Whatever is appended reaches the board, also when the process that appended
\* it stopped before it projected it (`open_projections`: "self-healing").
EveryEventProjected ==
  \A n \in 1..MaxSeq : Len(log) >= n ~> cursor >= n

=============================================================================
