----------------------------- MODULE MCProcLife -----------------------------
(***************************************************************************)
(* TLC instances of ProcLife.  Each cfg chooses the programs (who forks,   *)
(* kills, traces), the slots, the pids that are handed out and the cores.  *)
(***************************************************************************)
EXTENDS ProcLife

Blocking == {{}}
NonBlocking == {{}, {"WNOHANG"}}
Stops == {{"WSTOPPED"}}
=============================================================================
