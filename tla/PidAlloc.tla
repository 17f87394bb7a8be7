----------------------------- MODULE PidAlloc ------------------------------
(***************************************************************************)
(* get_pid of kern/process/proc.c, one step per visited list entry.        *)
(*                                                                         *)
(* get_pid keeps two static variables, last_pid (the pid given out last)   *)
(* and next_safe, and hands out last_pid + 1 without looking at any        *)
(* process as long as it stays below next_safe.  Otherwise it walks        *)
(* proc_list, moving last_pid past the pids it meets and pulling next_safe *)
(* down to the next larger one, and restarts the walk whenever the two     *)
(* meet.  The order of the list is abstracted: a walk visits the entries   *)
(* in any order.                                                           *)
(***************************************************************************)
EXTENDS Naturals, FiniteSets

CONSTANTS Proc,         \* proc_struct objects
          MAX_PID,
          MAX_PROCESS

\* get_pid's static_assert, and enough objects for every process but idleproc.
ASSUME PidAssumption == /\ MAX_PID \in Nat
                        /\ MAX_PROCESS \in Nat \ {0}
                        /\ MAX_PID > MAX_PROCESS

VARIABLES proc_list,    \* the linked proc_structs (idleproc is never linked)
          pid,          \* proc->pid
          last_pid,
          next_safe,
          pc,           \* "ready", "scan" (in the while loop) or "return"
          unseen        \* entries of proc_list this walk has not visited

vars == <<proc_list, pid, last_pid, next_safe, pc, unseen>>

Init == /\ proc_list = {}
        /\ pid = [p \in Proc |-> 0]
        /\ last_pid = MAX_PID
        /\ next_safe = MAX_PID
        /\ pc = "ready"
        /\ unseen = {}

nr_process == Cardinality(proc_list) + 1

(***************************************************************************)
(* The label "inside" and the label "repeat" below it.                     *)
(***************************************************************************)
Rescan(n) == /\ last_pid' = n
             /\ next_safe' = MAX_PID
             /\ pc' = "scan"
             /\ unseen' = proc_list

\* do_fork refuses when the process table is full, else get_pid is entered.
CallWrap == /\ pc = "ready"
            /\ nr_process < MAX_PROCESS
            /\ last_pid + 1 >= MAX_PID
            /\ Rescan(1)
            /\ UNCHANGED <<proc_list, pid>>

\* Seeded fault: next_safe itself is taken for free.
CallFastLate == /\ pc = "ready"
                /\ nr_process < MAX_PROCESS
                /\ last_pid + 1 < MAX_PID
                /\ last_pid + 1 <= next_safe
                /\ last_pid' = last_pid + 1
                /\ pc' = "return"
                /\ UNCHANGED <<proc_list, pid, next_safe, unseen>>

CallFast == /\ pc = "ready"
            /\ nr_process < MAX_PROCESS
            /\ last_pid + 1 < MAX_PID
            /\ last_pid + 1 < next_safe
            /\ last_pid' = last_pid + 1
            /\ pc' = "return"
            /\ UNCHANGED <<proc_list, pid, next_safe, unseen>>

CallScan == /\ pc = "ready"
            /\ nr_process < MAX_PROCESS
            /\ last_pid + 1 < MAX_PID
            /\ last_pid + 1 >= next_safe
            /\ Rescan(last_pid + 1)
            /\ UNCHANGED <<proc_list, pid>>

\* The visited process carries last_pid and the next pid is not known safe.
VisitClash(p) == /\ pid[p] = last_pid
                 /\ last_pid + 1 >= next_safe
                 /\ Rescan(IF last_pid + 1 >= MAX_PID THEN 1 ELSE last_pid + 1)

VisitBump(p) == /\ pid[p] = last_pid
                /\ last_pid + 1 < next_safe
                /\ last_pid' = last_pid + 1
                /\ unseen' = unseen \ {p}
                /\ UNCHANGED <<next_safe, pc>>

\* Seeded fault: the walk does not move on.
VisitOtherAgain(p) == /\ pid[p] # last_pid
                      /\ next_safe' = IF pid[p] > last_pid /\ next_safe > pid[p]
                                      THEN pid[p] ELSE next_safe
                      /\ UNCHANGED <<last_pid, pc, unseen>>

VisitOther(p) == /\ pid[p] # last_pid
                 /\ next_safe' = IF pid[p] > last_pid /\ next_safe > pid[p]
                                 THEN pid[p] ELSE next_safe
                 /\ unseen' = unseen \ {p}
                 /\ UNCHANGED <<last_pid, pc>>

\* One round of the while loop.
Visit == /\ pc = "scan"
         /\ \E p \in unseen : VisitClash(p) \/ VisitBump(p) \/ VisitOther(p)
         /\ UNCHANGED <<proc_list, pid>>

ScanEnd == /\ pc = "scan"
           /\ unseen = {}
           /\ pc' = "return"
           /\ UNCHANGED <<proc_list, pid, last_pid, next_safe, unseen>>

\* do_fork stores the result and links the process (set_links).
Link(p) == /\ pc = "return"
           /\ p \in Proc \ proc_list
           /\ pid' = [pid EXCEPT ![p] = last_pid]
           /\ proc_list' = proc_list \union {p}
           /\ pc' = "ready"
           /\ UNCHANGED <<last_pid, next_safe, unseen>>

\* do_wait reaps a zombie (remove_links).
Unlink(p) == /\ pc = "ready"
             /\ p \in proc_list
             /\ proc_list' = proc_list \ {p}
             /\ UNCHANGED <<pid, last_pid, next_safe, pc, unseen>>

Next == \/ CallWrap \/ CallFast \/ CallScan
        \/ Visit \/ ScanEnd
        \/ \E p \in Proc : Link(p) \/ Unlink(p)

Spec == Init /\ [][Next]_vars

\* The walk runs with interrupts off and is never preempted.
FairSpec == Spec /\ WF_vars(Visit) /\ WF_vars(ScanEnd)

-----------------------------------------------------------------------------
TypeOK == /\ proc_list \subseteq Proc
          /\ pid \in [Proc -> 0 .. MAX_PID - 1]
          /\ last_pid \in 1 .. MAX_PID
          /\ next_safe \in 1 .. MAX_PID
          /\ pc \in {"ready", "scan", "return"}
          /\ unseen \subseteq proc_list

(***************************************************************************)
(* No two linked processes carry the same pid: find_proc, do_wait and      *)
(* do_kill look processes up by pid and take the first match.              *)
(***************************************************************************)
UniquePids == \A p, q \in proc_list : pid[p] = pid[q] => p = q

(***************************************************************************)
(* What get_pid is about to return is a legal pid (find_proc accepts only  *)
(* 1 .. MAX_PID - 1) that no linked process carries.                       *)
(***************************************************************************)
FreshResult == pc = "return" => /\ last_pid \in 1 .. MAX_PID - 1
                                /\ \A p \in proc_list : pid[p] # last_pid

(***************************************************************************)
(* The meaning of the two statics between calls: every pid strictly        *)
(* between last_pid and next_safe is free, whatever was reaped or forked   *)
(* since the last walk.  CallFast relies on it without looking.            *)
(***************************************************************************)
SafeGap == pc # "scan" =>
             \A p \in proc_list : ~(last_pid < pid[p] /\ pid[p] < next_safe)

(***************************************************************************)
(* The same for the part of the list the current walk of get_pid has       *)
(* visited; outside a walk nothing is left to visit.                       *)
(***************************************************************************)
ScanGap == IF pc = "scan"
           THEN /\ last_pid < next_safe
                /\ \A p \in proc_list \ unseen :
                      /\ pid[p] # last_pid
                      /\ pid[p] > last_pid => next_safe <= pid[p]
           ELSE unseen = {}

\* A walk restarts only finitely often: get_pid returns.
Terminates == pc = "scan" ~> pc = "return"

given == [p \in proc_list |-> pid[p]]

Abstract == INSTANCE PidSpec

\* get_pid with the linking and unlinking around it implements PidSpec: no pid
\* is ever carried by two linked processes, or changes while it is carried.
Implements == Abstract!Spec
=============================================================================
