------------------------------ MODULE TimerSpec -----------------------------
(***************************************************************************)
(* What the timers of kern/schedule/sched.c promise to do_sleep: a process *)
(* that sleeps for t ticks wakes at the t-th tick from now, not before     *)
(* unless it is killed, and not after.                                     *)
(***************************************************************************)
EXTENDS Naturals

CONSTANTS Proc,
          MaxSleep          \* bound: the longest sleep

VARIABLES left,             \* ticks until the timer of p fires, 0 without timer
          waiting           \* processes asleep on their timer

Init == left = [p \in Proc |-> 0] /\ waiting = {}

Sleep(p, t) == /\ left[p] = 0
               /\ left' = [left EXCEPT ![p] = t]
               /\ waiting' = waiting \union {p}

Tick == /\ left' = [p \in Proc |-> IF left[p] > 0 THEN left[p] - 1 ELSE 0]
        /\ waiting' = {p \in waiting : left[p] > 1}

Kill(p) == /\ waiting' = waiting \ {p}
           /\ UNCHANGED left

Return(p) == /\ p \notin waiting
             /\ left' = [left EXCEPT ![p] = 0]
             /\ UNCHANGED waiting

Next == \/ \E p \in Proc : (\E t \in 1 .. MaxSleep : Sleep(p, t)) \/ Kill(p) \/ Return(p)
        \/ Tick

Spec == Init /\ [][Next]_<<left, waiting>>
=============================================================================
