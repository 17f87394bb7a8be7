------------------------------- MODULE Stages -------------------------------
(* The stages of an instruction and their order (cacpu.vhd). *)

Stage == {"InsF", "InsD", "Exe", "Mem1", "Mem2", "WriteB", "Exc"}

\* Seeded fault: Exc is never left.
StageAfterNoReturn(s, has_mem1, has_mem2) ==
  CASE s = "InsF" -> "InsD"
    [] s = "InsD" -> "Exe"
    [] s = "Exe" -> IF has_mem1 THEN "Mem1" ELSE "WriteB"
    [] s = "Mem1" -> IF has_mem2 THEN "Mem2" ELSE "WriteB"
    [] s = "Mem2" -> "WriteB"
    [] s = "WriteB" -> "InsF"
    [] s = "Exc" -> "Exc"

\* next_state after an edge that performs s; has_mem1 and has_mem2 tell how
\* many memory stages the instruction has.
StageAfter(s, has_mem1, has_mem2) ==
  CASE s = "InsF" -> "InsD"
    [] s = "InsD" -> "Exe"
    [] s = "Exe" -> IF has_mem1 THEN "Mem1" ELSE "WriteB"
    [] s = "Mem1" -> IF has_mem2 THEN "Mem2" ELSE "WriteB"
    [] s = "Mem2" -> "WriteB"
    [] s \in {"WriteB", "Exc"} -> "InsF"
=============================================================================
