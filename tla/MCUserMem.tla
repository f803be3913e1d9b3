----------------------------- MODULE MCUserMem -----------------------------
(***************************************************************************)
(* UserMem for TLC.  Pages are interchangeable, so the lowest free one     *)
(* stands for any.                                                         *)
(***************************************************************************)
EXTENDS UserMem, FiniteSetsExt

\* A machine on which two processes fit, and a smaller one on
\* which an interrupt handler takes a page at some point and may return it.
Machines == {<<12, 0>>, <<9, 1>>}

Lowest(S) == IF S = {} THEN {} ELSE {Min(S)}
=============================================================================
