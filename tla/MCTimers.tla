------------------------------ MODULE MCTimers ------------------------------
(* An instance of Timers for TLC: a process that sleeps and polls one          *)
(* terminal, and a reader that shares the file with it.                        *)
EXTENDS Timers

CONSTANTS p1, p2, serial

PollOne == {<<serial>>}
=============================================================================
