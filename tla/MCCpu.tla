------------------------------- MODULE MCCpu -------------------------------
(* Cpu with a few instruction addresses. *)
EXTENDS Cpu
=============================================================================
