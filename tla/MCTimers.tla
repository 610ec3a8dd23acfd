------------------------------ MODULE MCTimers ------------------------------
(***************************************************************************)
(* Instances of TimerQueue for TLC.                                        *)
(***************************************************************************)
EXTENDS TimerQueue

\* Six coroutines, the fewest with which removal meets every case of the
\* red-black tree, on two deadlines; and four coroutines on four deadlines,
\* one more than there is memory for, with a cache that overflows.
MCSetups == {[coro |-> 1..6, ms |-> {1}, late |-> 0, left |-> 1],
             [coro |-> 1..4, ms |-> {1, 2}, late |-> 1, left |-> 2]}

=============================================================================
