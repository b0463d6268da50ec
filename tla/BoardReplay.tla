----------------------------- MODULE BoardReplay -----------------------------
(***************************************************************************)
(* What the store promises about the board (`docs/SPEC.md` 8.4: the log is *)
(* the source of truth, the tables are a view of it): events are appended  *)
(* to a log that never changes behind its end, and the board is the log    *)
(* replayed event by event, in order, each one exactly once; or forgotten  *)
(* as a whole, and replayed anew.                                          *)
(***************************************************************************)
EXTENDS Naturals, Sequences

CONSTANT Events    \* what an event may say

VARIABLES
  log,     \* the events, in the order of their sequence numbers
  board    \* the events the tables have taken in, in the order they did

vars == <<log, board>>

Init ==
  /\ log = <<>>
  /\ board = <<>>

\* One event reaches the end of the log.
Record ==
  /\ \E e \in Events : log' = Append(log, e)
  /\ UNCHANGED board

\* The tables take in the first event they have not taken in yet.
Project ==
  /\ Len(board) < Len(log)
  /\ board' = Append(board, log[Len(board) + 1])
  /\ UNCHANGED log

\* The tables are dropped, to be filled again.
Forget ==
  /\ board' = <<>>
  /\ UNCHANGED log

Next == Record \/ Project \/ Forget

Spec == Init /\ [][Next]_vars
=============================================================================
