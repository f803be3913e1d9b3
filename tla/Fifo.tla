------------------------------- MODULE Fifo -------------------------------
(***************************************************************************)
(* What a shared ring promises its two users: a bounded first-in first-out *)
(* channel of bytes.  The k-th byte written is identified with its         *)
(* position k, so "the reader gets the writer's bytes, in order, each one  *)
(* once" is a statement about positions.                                   *)
(***************************************************************************)
EXTENDS Integers, Sequences

CONSTANT Cap    \* the most bytes the channel may hold

VARIABLES
  written,      \* number of bytes put into the channel so far
  taken,        \* number of bytes removed from it so far
  out           \* the block of bytes handed over by the last Get

fifoVars == <<written, taken, out>>

FifoInit == written = 0 /\ taken = 0 /\ out = <<>>

\* A block of n bytes is accepted whole, and never beyond the capacity.
Put == \E n \in 1 .. Cap :
         /\ written + n - taken <= Cap
         /\ written' = written + n
         /\ UNCHANGED <<taken, out>>

\* A block of n bytes leaves the channel: exactly the n oldest, in order.
Get == \E n \in 1 .. Cap :
         /\ n <= written - taken
         /\ out' = [i \in 1 .. n |-> taken + i - 1]
         /\ taken' = taken + n
         /\ UNCHANGED written

FifoSpec == FifoInit /\ [][Put \/ Get]_fifoVars
===========================================================================
