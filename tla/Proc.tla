-------------------------------- MODULE Proc -------------------------------
(***************************************************************************)
(* Process life cycle and round-robin scheduling of ucore: do_fork,        *)
(* do_exit, do_wait, do_kill, do_sleep, do_yield and init_main             *)
(* (kern/process/proc.c), wakeup_proc, schedule and run_timer_list         *)
(* (kern/schedule), the way in and out of trap (kern/trap/trap.c).         *)
(*                                                                         *)
(* The kernel is not preemptible: __alltraps clears IE, and a trap taken   *)
(* in the kernel never calls schedule.  So only `current' takes steps, and *)
(* the timer interrupt comes in while a user program runs, or while        *)
(* idleproc or initproc, kernel threads with IE set, run.  A call that may *)
(* sleep is cut where it calls schedule; pc says where a process resumes.  *)
(* A pid is the process itself (PidAlloc shows that get_pid keeps pids     *)
(* apart), and the delta list of timers is the time left per process       *)
(* (TimerList shows that it is).                                           *)
(***************************************************************************)
EXTENDS Naturals, Sequences, FiniteSetsExt

CONSTANTS User,             \* proc_structs other than idleproc and initproc
          idleproc,
          initproc,
          NULL,
          MAX_PROCESS,
          MAX_TIME_SLICE,
          MaxSleep          \* bound: the longest do_sleep that is modelled

Process == User \union {idleproc, initproc}

ASSUME ProcAssumption ==
  /\ idleproc # initproc
  /\ {idleproc, initproc} \intersect User = {}
  /\ NULL \notin Process
  /\ IsFiniteSet(User)
  /\ MAX_PROCESS \in Nat
  /\ MAX_TIME_SLICE \in Nat \ {0}
  /\ MaxSleep \in Nat

VARIABLES
  current,
  state,            \* "UNINIT" when the proc_struct is free
  wait_state,       \* "0", "WT_CHILD" or "WT_TIMER" (both WT_INTERRUPTED)
  exiting,          \* processes with PF_EXITING
  need_resched,     \* processes with need_resched set
  time_slice,
  rq,               \* rq->run_list
  timer,            \* ticks left on the timer of do_sleep, 0 when not listed
  parent, cptr, yptr, optr,
  nr_process,
  pc,               \* where the process is, or resumes when scheduled
  target,           \* do_wait's pid argument, NULL for "any child"
  in_sched,         \* current is about to call schedule()
  panicked          \* "no", or the panic or failed assertion that stopped us

links == <<parent, cptr, yptr, optr, nr_process>>
sched == <<current, rq, time_slice, need_resched>>
vars == <<current, state, wait_state, exiting, need_resched, time_slice, rq,
          timer, parent, cptr, yptr, optr, nr_process, pc, target, in_sched,
          panicked>>

\* f with x set to v, unless x is the null pointer.
Store(f, x, v) == IF x = NULL THEN f ELSE [f EXCEPT ![x] = v]

\* On proc_list and in the hash table.
Linked == {p \in Process \ {idleproc} : state[p] # "UNINIT"}

\* proc_init has run: idleproc is current, initproc is its only child.
Init == /\ current = idleproc
        /\ state = [p \in Process |-> IF p \in User THEN "UNINIT" ELSE "RUNNABLE"]
        /\ wait_state = [p \in Process |-> "0"]
        /\ exiting = {}
        /\ need_resched = {idleproc}
        /\ time_slice = [p \in Process |-> IF p = initproc THEN MAX_TIME_SLICE ELSE 0]
        /\ rq = <<initproc>>
        /\ timer = [p \in Process |-> 0]
        /\ parent = [p \in Process |-> IF p = initproc THEN idleproc ELSE NULL]
        /\ cptr = [p \in Process |-> IF p = idleproc THEN initproc ELSE NULL]
        /\ yptr = [p \in Process |-> NULL]
        /\ optr = [p \in Process |-> NULL]
        /\ nr_process = 2
        /\ pc = [p \in Process |-> CASE p = idleproc -> "cpu_idle"
                                     [] p = initproc -> "init_main"
                                     [] OTHER -> "user"]
        /\ target = [p \in Process |-> NULL]
        /\ in_sched = FALSE
        /\ panicked = "no"

-----------------------------------------------------------------------------
(* kern/schedule *)

\* RR_enqueue's reset of an exhausted slice.
Refilled(f, p) == IF f[p] = 0 THEN [f EXCEPT ![p] = MAX_TIME_SLICE] ELSE f

(***************************************************************************)
(* wakeup_proc(p) for every p of the set ps, in some order, when the time  *)
(* slices are ts.  Waking a zombie fails an assertion, as does enqueueing  *)
(* a process twice; a runnable process is left alone.                      *)
(***************************************************************************)
Wakeup(ps, ts) ==
  LET woken  == {p \in ps : state[p] # "RUNNABLE"}
      queued == woken \ {current, idleproc}
  IN /\ panicked' = IF \E p \in woken : state[p] = "ZOMBIE" THEN "zombie woken"
                    ELSE IF queued \intersect Range(rq) # {} THEN "queued twice"
                    ELSE panicked
     /\ state' = [p \in Process |-> IF p \in woken THEN "RUNNABLE" ELSE state[p]]
     /\ wait_state' = [p \in Process |-> IF p \in woken THEN "0" ELSE wait_state[p]]
     /\ \E q \in Bijection(1 .. Cardinality(queued), queued) : rq' = rq \o q
     /\ time_slice' = [p \in Process |-> IF p \in queued /\ ts[p] = 0
                                         THEN MAX_TIME_SLICE ELSE ts[p]]

\* current goes back to the run queue.  Seeded fault: the state is not looked at.
PutBackAlways == current # idleproc

PutBack == state[current] = "RUNNABLE" /\ current # idleproc

\* schedule(), which ends in proc_run: the next process resumes at its pc.
Schedule ==
  /\ panicked = "no"
  /\ in_sched
  /\ LET queue == IF PutBack THEN Append(rq, current) ELSE rq
     IN /\ panicked' = IF PutBack /\ current \in Range(rq) THEN "queued twice" ELSE panicked
        /\ time_slice' = IF PutBack THEN Refilled(time_slice, current) ELSE time_slice
        /\ current' = IF queue = <<>> THEN idleproc ELSE Head(queue)
        /\ rq' = IF queue = <<>> THEN <<>> ELSE Tail(queue)
  /\ need_resched' = need_resched \ {current}
  /\ in_sched' = FALSE
  /\ UNCHANGED <<state, wait_state, exiting, timer, links, pc, target>>

\* current calls schedule() next and then goes on at l.
CallSchedule(l) == /\ in_sched' = TRUE
                   /\ pc' = [pc EXCEPT ![current] = l]

\* RR_proc_tick.  Seeded fault: no count.
RR_proc_tickStuck(p) == time_slice[p]

RR_proc_tick(p) == IF time_slice[p] > 0 THEN time_slice[p] - 1 ELSE 0

InUser == current \in User /\ pc[current] = "user" /\ ~in_sched

(***************************************************************************)
(* The timer interrupt: ticks++ (whose multiples of TICK_NUM set           *)
(* need_resched), run_timer_list with the wakeups it causes, and           *)
(* sched_class_proc_tick.  A trap from user mode goes on to trap's checks, *)
(* one from a kernel thread returns.                                       *)
(***************************************************************************)
TimerInterrupt ==
  /\ panicked = "no"
  /\ InUser \/ current \in {idleproc, initproc}
  /\ LET expired == {p \in Process : timer[p] = 1}
         slice   == RR_proc_tick(current)
         slices  == IF current = idleproc THEN time_slice
                    ELSE [time_slice EXCEPT ![current] = slice]
     IN /\ Wakeup(expired, slices)
        /\ timer' = [p \in Process |-> IF timer[p] > 0 THEN timer[p] - 1 ELSE 0]
        /\ \E tick_num \in BOOLEAN :
             need_resched' = IF tick_num \/ current = idleproc \/ slice = 0
                             THEN need_resched \union {current} ELSE need_resched
  /\ pc' = IF InUser THEN [pc EXCEPT ![current] = "trapret"] ELSE pc
  /\ UNCHANGED <<current, exiting, links, target, in_sched>>

-----------------------------------------------------------------------------
(* kern/process/proc.c *)

Running(l) == panicked = "no" /\ ~in_sched /\ pc[current] = l

Goto(l) == pc' = [pc EXCEPT ![current] = l]

\* set_links(p), the process of which current is the parent.
set_links(p) == /\ yptr' = Store([yptr EXCEPT ![p] = NULL], cptr[current], p)
                /\ optr' = [optr EXCEPT ![p] = cptr[current]]
                /\ cptr' = [cptr EXCEPT ![current] = p]
                /\ parent' = [parent EXCEPT ![p] = current]
                /\ nr_process' = nr_process + 1

\* Seeded fault: remove_links(p) that leaves the older sibling's yptr dangling.
remove_linksOneWay(p) ==
  /\ yptr' = [yptr EXCEPT ![p] = NULL]
  /\ optr' = [Store(optr, yptr[p], optr[p]) EXCEPT ![p] = NULL]
  /\ cptr' = IF yptr[p] = NULL THEN [cptr EXCEPT ![parent[p]] = optr[p]] ELSE cptr
  /\ parent' = [parent EXCEPT ![p] = NULL]
  /\ nr_process' = nr_process - 1

\* remove_links(p); the pointers inside p go with the freed proc_struct.
remove_links(p) ==
  /\ yptr' = [Store(yptr, optr[p], yptr[p]) EXCEPT ![p] = NULL]
  /\ optr' = [Store(optr, yptr[p], optr[p]) EXCEPT ![p] = NULL]
  /\ cptr' = IF yptr[p] = NULL THEN [cptr EXCEPT ![parent[p]] = optr[p]] ELSE cptr
  /\ parent' = [parent EXCEPT ![p] = NULL]
  /\ nr_process' = nr_process - 1

(***************************************************************************)
(* do_fork up to wakeup_proc(child).  The child starts at forkret, in user *)
(* mode.  Running out of memory, before anything is linked, returns.       *)
(***************************************************************************)
Fork(p) == /\ nr_process < MAX_PROCESS
           /\ p \in User /\ state[p] = "UNINIT"
           /\ set_links(p)
           /\ state' = [state EXCEPT ![p] = "RUNNABLE"]
           /\ rq' = Append(rq, p)
           /\ time_slice' = [time_slice EXCEPT ![p] = MAX_TIME_SLICE]
           /\ panicked' = IF wait_state[current] # "0" THEN "fork while waiting"
                          ELSE IF p \in Range(rq) THEN "queued twice" ELSE panicked

sys_fork == /\ Running("user")
            /\ \E p \in User : Fork(p)
            /\ Goto("trapret")
            /\ UNCHANGED <<current, wait_state, exiting, need_resched, timer,
                           target, in_sched>>

\* A call that returns without touching process state: fork without memory or
\* a free slot, wait with a bad pointer, kill of an unknown pid, sleep(0).
sys_nothing == /\ Running("user")
               /\ Goto("trapret")
               /\ UNCHANGED <<sched, state, wait_state, exiting, timer, links,
                              target, in_sched, panicked>>

sys_yield == /\ Running("user")
             /\ need_resched' = need_resched \union {current}
             /\ Goto("trapret")
             /\ UNCHANGED <<current, rq, time_slice, state, wait_state, exiting,
                            timer, links, target, in_sched, panicked>>

\* Whom do_kill(p) wakes.  Seeded fault: p, even when it does not sleep.
WokenByKillAlways(p) == {p}

\* Seeded fault: a process that waits for a child is left asleep.
WokenByKillTimer(p) == IF wait_state[p] = "WT_TIMER" THEN {p} ELSE {}

WokenByKill(p) == IF wait_state[p] # "0" THEN {p} ELSE {}

\* do_kill(p), p found in the hash table and not yet being shut down.
sys_kill == /\ Running("user")
            /\ \E p \in Linked \ exiting :
                 /\ exiting' = exiting \union {p}
                 /\ Wakeup(WokenByKill(p), time_slice)
            /\ Goto("trapret")
            /\ UNCHANGED <<current, need_resched, timer, links, target, in_sched>>

\* do_sleep(t) up to schedule(), and from there: del_timer.
sys_sleep == /\ Running("user")
             /\ \E t \in 1 .. MaxSleep : timer' = [timer EXCEPT ![current] = t]
             /\ state' = [state EXCEPT ![current] = "SLEEPING"]
             /\ wait_state' = [wait_state EXCEPT ![current] = "WT_TIMER"]
             /\ CallSchedule("del_timer")
             /\ UNCHANGED <<sched, exiting, links, target, panicked>>

sleep_return == /\ Running("del_timer")
                /\ timer' = [timer EXCEPT ![current] = 0]
                /\ Goto("trapret")
                /\ UNCHANGED <<sched, state, wait_state, exiting, links, target,
                               in_sched, panicked>>

sys_wait == /\ Running("user")
            /\ \E p \in User \union {initproc, NULL} :
                 target' = [target EXCEPT ![current] = p]
            /\ Goto("repeat")
            /\ UNCHANGED <<sched, state, wait_state, exiting, timer, links,
                           in_sched, panicked>>

\* The walk along optr from cptr[p]: the n-th process it meets, then NULL.
Chain(p) == LET at[n \in 1 .. Cardinality(Process)] ==
                  IF n = 1 THEN cptr[p]
                  ELSE IF at[n - 1] = NULL THEN NULL ELSE optr[at[n - 1]]
            IN at

\* The children on which do_wait settles, by that walk or by pid.
Candidates(p) == IF target[p] = NULL THEN Range(Chain(p)) \ {NULL}
                 ELSE {c \in Linked \intersect {target[p]} : parent[c] = p}

\* The label `found': the zombie is unlinked and its proc_struct freed.
Reap(c) == /\ panicked' = IF c = initproc THEN "wait initproc" ELSE panicked
           /\ remove_links(c)
           /\ state' = [state EXCEPT ![c] = "UNINIT"]
           /\ exiting' = exiting \ {c}
           /\ need_resched' = need_resched \ {c}
           /\ time_slice' = [time_slice EXCEPT ![c] = 0]
           /\ target' = [target EXCEPT ![c] = NULL, ![current] = NULL]

\* do_wait finds a zombie.  A walk takes the first one it meets.
wait_found ==
  /\ Running("repeat")
  /\ LET zombies == {c \in Candidates(current) : state[c] = "ZOMBIE"}
         walk    == Chain(current)
         first   == IF target[current] # NULL THEN target[current]
                    ELSE walk[Min({n \in DOMAIN walk : walk[n] \in zombies})]
     IN /\ zombies # {}
        /\ Reap(first)
        /\ pc' = [pc EXCEPT ![first] = "user",
                            ![current] = IF current = initproc THEN "reaped" ELSE "trapret"]
  /\ UNCHANGED <<current, rq, wait_state, timer, in_sched>>

wait_block == /\ Running("repeat")
              /\ Candidates(current) # {}
              /\ \A c \in Candidates(current) : state[c] # "ZOMBIE"
              /\ state' = [state EXCEPT ![current] = "SLEEPING"]
              /\ wait_state' = [wait_state EXCEPT ![current] = "WT_CHILD"]
              /\ CallSchedule("woken")
              /\ UNCHANGED <<sched, exiting, timer, links, target, panicked>>

\* Where do_wait goes after schedule().
AfterWait == IF current \in exiting THEN "do_exit" ELSE "repeat"

wait_woken == /\ Running("woken")
              /\ Goto(AfterWait)
              /\ UNCHANGED <<sched, state, wait_state, exiting, timer, links,
                             target, in_sched, panicked>>

\* No child to wait for: E_BAD_PROC.
wait_none == /\ Running("repeat")
             /\ Candidates(current) = {}
             /\ target' = [target EXCEPT ![current] = NULL]
             /\ Goto(IF current = initproc THEN "alone" ELSE "trapret")
             /\ UNCHANGED <<sched, state, wait_state, exiting, timer, links,
                            in_sched, panicked>>

\* sys_exit, and the traps that end in do_exit: an unhandled exception, an
\* undefined instruction, a failed exec.
sys_exit == /\ Running("user")
            /\ Goto("do_exit")
            /\ UNCHANGED <<sched, state, wait_state, exiting, timer, links,
                           target, in_sched, panicked>>

\* do_exit: give up memory and files, become a zombie, ...
exit_zombie == /\ Running("do_exit")
               /\ panicked' = IF current = initproc THEN "initproc exit" ELSE panicked
               /\ state' = [state EXCEPT ![current] = "ZOMBIE"]
               /\ Goto("notify")
               /\ UNCHANGED <<sched, wait_state, exiting, timer, links, target,
                              in_sched>>

\* Whom do_exit wakes, for itself and for a child c that it hands over.
\* Seeded faults: nobody.
WokenByExitNone == {}

WokenByExit == IF wait_state[parent[current]] = "WT_CHILD"
               THEN {parent[current]} ELSE {}

WokenByOrphanNone(c) == {}

WokenByOrphan(c) == IF state[c] = "ZOMBIE" /\ wait_state[initproc] = "WT_CHILD"
                    THEN {initproc} ELSE {}

\* ... wake a parent that waits for a child, ...
exit_notify == /\ Running("notify")
               /\ Wakeup(WokenByExit, time_slice)
               /\ Goto("reparent")
               /\ UNCHANGED <<current, exiting, need_resched, timer, links,
                              target, in_sched>>

\* ... hand the children to initproc, one round of the while loop each, ...
hand_over(c) == /\ yptr' = Store([yptr EXCEPT ![c] = NULL], cptr[initproc], c)
                /\ optr' = [optr EXCEPT ![c] = cptr[initproc]]
                /\ cptr' = [cptr EXCEPT ![current] = optr[c], ![initproc] = c]
                /\ parent' = [parent EXCEPT ![c] = initproc]
                /\ UNCHANGED nr_process

exit_reparent == /\ Running("reparent")
                 /\ cptr[current] # NULL
                 /\ hand_over(cptr[current])
                 /\ Wakeup(WokenByOrphan(cptr[current]), time_slice)
                 /\ UNCHANGED <<current, exiting, need_resched, timer, pc, target,
                                in_sched>>

\* ... and call schedule(), which does not return.
exit_schedule == /\ Running("reparent")
                 /\ cptr[current] = NULL
                 /\ CallSchedule("dead")
                 /\ UNCHANGED <<sched, state, wait_state, exiting, timer, links,
                                target, panicked>>

\* The end of trap() for a trap from user mode.
trap_return ==
  /\ Running("trapret")
  /\ \/ current \in exiting /\ Goto("do_exit") /\ UNCHANGED in_sched
     \/ /\ current \notin exiting /\ current \in need_resched
        /\ CallSchedule("user")
     \/ /\ current \notin exiting /\ current \notin need_resched
        /\ Goto("user") /\ UNCHANGED in_sched
  /\ UNCHANGED <<sched, state, wait_state, exiting, timer, links, target,
                 panicked>>

-----------------------------------------------------------------------------
(* The kernel threads *)

cpu_idle == /\ Running("cpu_idle")
            /\ idleproc \in need_resched
            /\ CallSchedule("cpu_idle")
            /\ UNCHANGED <<sched, state, wait_state, exiting, timer, links,
                           target, panicked>>

\* init_main creates user_main and then reaps whatever it can.
init_start == /\ Running("init_main")
              /\ \E p \in User : Fork(p)
              /\ Goto("repeat")
              /\ UNCHANGED <<current, wait_state, exiting, need_resched, timer,
                             target, in_sched>>

init_reaped == /\ Running("reaped")
               /\ CallSchedule("repeat")
               /\ UNCHANGED <<sched, state, wait_state, exiting, timer, links,
                              target, panicked>>

\* The assertions at the end of init_main, which then returns into do_exit.
init_alone ==
  /\ Running("alone")
  /\ panicked' = IF /\ cptr[initproc] = NULL
                    /\ yptr[initproc] = NULL
                    /\ optr[initproc] = NULL
                    /\ nr_process = 2
                    /\ Linked = {initproc}
                 THEN "initproc exit" ELSE "init check failed"
  /\ UNCHANGED <<sched, state, wait_state, exiting, timer, links, pc, target,
                 in_sched>>

\* After a panic the machine stays in the kernel monitor.
Halted == panicked # "no" /\ UNCHANGED vars

Kernel == \/ Schedule \/ sleep_return \/ wait_found \/ wait_block \/ wait_woken
          \/ wait_none \/ exit_zombie \/ exit_notify \/ exit_reparent
          \/ exit_schedule \/ trap_return \/ cpu_idle \/ init_start
          \/ init_reaped \/ init_alone

Syscall == sys_fork \/ sys_nothing \/ sys_yield \/ sys_kill \/ sys_sleep
           \/ sys_wait \/ sys_exit

Next == Kernel \/ Syscall \/ TimerInterrupt \/ Halted

Spec == Init /\ [][Next]_vars

(***************************************************************************)
(* An assumption on the hardware, which Cpu does not fully bear out: every *)
(* tick that is pending when interrupts are on is served.  The request of  *)
(* the timer stays pending while they are off, so that a program cannot    *)
(* dodge it by calling the kernel: strong fairness.  But a tick that is    *)
(* pending when ERET clears EXL is taken back without a handler, with EXL  *)
(* left set (IFetch.vhd:50-57, CP0.vhd:107-127); a program that never      *)
(* traps again then keeps the CPU.  What follows from TicksServed holds    *)
(* for behaviours without that coincidence.                                *)
(***************************************************************************)
TicksServed == SF_vars(TimerInterrupt)

\* The CPU always executes the current process.  A user program itself owes us
\* nothing: it may compute for ever.
FairSpec == Spec /\ WF_vars(Kernel) /\ TicksServed

-----------------------------------------------------------------------------
(***************************************************************************)
(* The only way the kernel panics is that initproc exits, because it was   *)
(* killed or because every user process is gone: no assertion of           *)
(* wakeup_proc, RR_enqueue, do_fork, do_wait or init_main ever fails.      *)
(***************************************************************************)
NoFailedAssertion == panicked \in {"no", "initproc exit"}

(***************************************************************************)
(* The run queue of the round-robin class holds exactly the runnable       *)
(* processes that do not run, each once, and never idleproc: schedule      *)
(* loses no process and runs none that sleeps or is dead.                  *)
(***************************************************************************)
RunQueueExact ==
  /\ Range(rq) = {p \in Process \ {idleproc, current} : state[p] = "RUNNABLE"}
  /\ \A i, j \in DOMAIN rq : rq[i] = rq[j] => i = j

(***************************************************************************)
(* do_exit and do_wait between them lose no wakeup: a process asleep in    *)
(* do_wait has no zombie among the children it waits for, except while     *)
(* the do_exit that will wake it is under way.                             *)
(***************************************************************************)
NoLostChild ==
  \A p \in Process : wait_state[p] = "WT_CHILD" =>
    \A c \in Candidates(p) :
      /\ parent[c] = p
      /\ state[c] = "ZOMBIE" => c = current /\ pc[c] = "notify"

(***************************************************************************)
(* cptr, optr and yptr describe the process tree: the walk from cptr meets *)
(* every child of p once, youngest first, and yptr is the way back.  The   *)
(* children of a process in do_exit's loop are exempt.                     *)
(***************************************************************************)
ChildListsExact ==
  \A p \in Process : pc[p] # "reparent" =>
    LET c == Chain(p) IN
    /\ Range(c) \ {NULL} = {q \in Process : parent[q] = p}
    /\ \A i \in DOMAIN c : c[i] # NULL => yptr[c[i]] = IF i = 1 THEN NULL ELSE c[i - 1]
    /\ \A i, j \in DOMAIN c : c[i] = c[j] /\ c[i] # NULL => i = j

Stopped == panicked # "no"

Gone(p) == state[p] \in {"ZOMBIE", "UNINIT"}

(***************************************************************************)
(* Round robin starves nobody: given TicksServed, a runnable user process  *)
(* runs although the others compute for ever or keep calling the kernel,   *)
(* because the ticks exhaust their slices.                                 *)
(***************************************************************************)
NoStarvation == \A p \in User : state[p] = "RUNNABLE" ~> current = p \/ Stopped

Orphans == {p \in User : state[p] = "ZOMBIE" /\ parent[p] = initproc}

(***************************************************************************)
(* Zombies do not pile up behind a sleeping initproc: as long as it has    *)
(* zombies among its children, born so or handed to it by do_exit, it goes *)
(* on reaping.  It need not reap a given one: do_wait takes the youngest   *)
(* first, and an old zombie waits while younger ones keep coming.          *)
(***************************************************************************)
OrphansAreReaped ==
  <>[](Orphans # {} /\ ~Stopped) => []<><<current = initproc /\ wait_found>>_vars

(***************************************************************************)
(* A process that is killed while it sleeps in do_sleep or do_wait exits:  *)
(* do_kill makes it runnable in the same step, do_wait looks at PF_EXITING *)
(* when it returns, do_sleep runs into the check at the end of trap.       *)
(***************************************************************************)
KilledSleeperExits ==
  /\ [][\A p \in exiting' \ exiting : state[p] = "SLEEPING" => state'[p] = "RUNNABLE"]_vars
  /\ \A p \in User :
       p \in exiting /\ (pc[p] = "del_timer" \/ (pc[p] = "woken" /\ state[p] = "RUNNABLE"))
         ~> Gone(p) \/ Stopped

(***************************************************************************)
(* "do_kill - kill process with pid by set this process's flags with       *)
(* PF_EXITING" (proc.c): every process that was killed exits.              *)
(***************************************************************************)
KilledProcessExits == \A p \in User : p \in exiting ~> Gone(p) \/ Stopped
=============================================================================
