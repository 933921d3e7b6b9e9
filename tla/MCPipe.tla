------------------------------- MODULE MCPipe -------------------------------
(* An instance of Pipe for TLC. *)
EXTENDS Pipe, TLC

CONSTANTS p1, p2

Procs2 == {p1, p2}
=============================================================================
