------------------------------ MODULE PidSpec ------------------------------
(***************************************************************************)
(* What get_pid (kern/process/proc.c) promises the rest of the kernel: a   *)
(* process is given a legal pid that no linked process carries, keeps it   *)
(* while it is linked, and the pid may be given out again only after that. *)
(***************************************************************************)
EXTENDS Naturals

CONSTANTS Proc, MAX_PID

VARIABLE given      \* the pid of each process on proc_list

Init == given = [p \in {} |-> 0]

Allocate(p, n) ==
  /\ p \notin DOMAIN given /\ \A q \in DOMAIN given : given[q] # n
  /\ given' = [q \in DOMAIN given \union {p} |-> IF q = p THEN n ELSE given[q]]

Release(p) == /\ p \in DOMAIN given
              /\ given' = [q \in DOMAIN given \ {p} |-> given[q]]

Next == \E p \in Proc : (\E n \in 1 .. MAX_PID - 1 : Allocate(p, n)) \/ Release(p)

Spec == Init /\ [][Next]_given
=============================================================================
