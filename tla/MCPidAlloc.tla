---------------------------- MODULE MCPidAlloc -----------------------------
(* Five pids (1 .. 5) and at most four linked processes: every walk can     *)
(* wrap, restart and find a single hole anywhere.                           *)
EXTENDS PidAlloc
=============================================================================
