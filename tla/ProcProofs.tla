----------------------------- MODULE ProcProofs ----------------------------
(***************************************************************************)
(* Theorems about Proc, for any number of processes: the run queue and the *)
(* process tree are exact, no wakeup of do_wait is lost, and the kernel    *)
(* fails none of its assertions.                                           *)
(***************************************************************************)
EXTENDS ProcTree

-----------------------------------------------------------------------------
(* The steps of the kernel *)

\* The process that runs is runnable unless it is in do_exit or calls schedule().
LEMMA CurrentRuns ==
  ASSUME IInv, ~in_sched, pc[current] \notin {"notify", "reparent"}
  PROVE  /\ current \in Process
         /\ state[current] = "RUNNABLE" /\ wait_state[current] = "0"
         /\ pc[current] \notin {"notify", "reparent", "dead"}
BY Zenon DEF IInv, TypeOK, Life, Current

\* A step of a runnable process that changes no process's state and no pointer,
\* and moves the process to a label outside do_exit.
LEMMA QuietStep ==
  ASSUME IInv, ~in_sched, pc[current] \notin {"notify", "reparent"},
         UNCHANGED <<current, state, wait_state, rq, time_slice, links, panicked>>,
         exiting' \in SUBSET Process, need_resched' \in SUBSET Process, in_sched' \in BOOLEAN,
         timer' \in [Process -> Nat], timer'[current] = 0,
         \A p \in Process : timer'[p] > 0 => timer[p] > 0,
         target' \in [Process -> Pointer], target'[initproc] = NULL,
         \A p \in Process : p # current => target'[p] = target[p],
         NEW l \in (UserLabel \cup InitLabel \cup {"cpu_idle"}) \ {"notify", "reparent", "dead"},
         pc' = [pc EXCEPT ![current] = l],
         current = idleproc => l = "cpu_idle", current = initproc => l \in InitLabel,
         current \in User => l \in UserLabel,
         l = "alone" => /\ current = initproc /\ ~in_sched'
                        /\ \A q \in Process : parent[q] # initproc
  PROVE  IInv'
<1>1. /\ current \in Process
      /\ state[current] = "RUNNABLE" /\ wait_state[current] = "0"
      /\ pc[current] \notin {"notify", "reparent", "dead"}
  BY CurrentRuns, Zenon
<1>2. /\ current' = current /\ state' = state /\ wait_state' = wait_state /\ rq' = rq
      /\ time_slice' = time_slice /\ panicked' = panicked
      /\ parent' = parent /\ cptr' = cptr /\ yptr' = yptr /\ optr' = optr
      /\ nr_process' = nr_process
  BY Zenon DEF links
<1>3. /\ pc \in [Process -> UserLabel \cup InitLabel \cup {"cpu_idle"}]
      /\ \A p \in Process : pc'[p] = IF p = current THEN l ELSE pc[p]
  BY <1>1, Zenon DEF IInv, TypeOK
<1>4. idleproc \in Process /\ initproc \in Process
  BY Zenon DEF Process
<1>5. TypeOK'
  BY <1>1, <1>2, <1>3, Zenon DEF IInv, TypeOK
<1>6. Labels'
  BY <1>2, <1>3, <1>4 DEF IInv, Labels, Process
<1>7. Life'
  <2> USE DEF IInv, Life
  <2>1. ASSUME NEW p \in Process
        PROVE  /\ wait_state'[p] # "0" <=> state'[p] = "SLEEPING"
               /\ wait_state'[p] = "WT_CHILD" => pc'[p] = "woken"
               /\ wait_state'[p] = "WT_TIMER" => pc'[p] = "del_timer"
               /\ state'[p] = "ZOMBIE" <=> pc'[p] \in {"notify", "reparent", "dead"}
               /\ pc'[p] \in {"notify", "reparent"} => p = current' /\ ~in_sched'
               /\ timer'[p] > 0 => pc'[p] = "del_timer"
               /\ state'[p] = "UNINIT" => p \in User /\ pc'[p] = "user"
    <3>1. CASE p = current
      BY <1>1, <1>2, <1>3, <3>1
    <3>2. CASE p # current
      BY <1>1, <1>2, <1>3, <3>2
    <3> QED
      BY <3>1, <3>2, Zenon
  <2>2. /\ state'[idleproc] = "RUNNABLE" /\ (state'[initproc] = "ZOMBIE" => panicked' # "no")
        /\ target'[initproc] = NULL
    BY <1>2, Zenon
  <2>3. pc'[initproc] = "alone" => /\ current' = initproc /\ ~in_sched'
                                   /\ \A q \in Process : parent'[q] # initproc
    BY <1>2, <1>3, <1>4
  <2> QED
    BY <2>1, <2>2, <2>3, Zenon
<1>8. Current'
  BY <1>1, <1>2, <1>3, Zenon DEF Current
<1>9. RunQueueExact' /\ NoFailedAssertion'
  BY <1>2, ZenonT(30) DEF IInv, RunQueueExact, NoFailedAssertion
<1>10. Tree'
  BY <1>1, <1>2, <1>3, TreeFrame, Zenon DEF IInv, Tree, links
<1>11. Waiting'
  BY <1>1, <1>2, <1>3 DEF IInv, Waiting
<1> QED
  BY <1>5, <1>6, <1>7, <1>8, <1>9, <1>10, <1>11, Zenon DEF IInv, Tree

\* Who can be at a label.
LEMMA AtLabel ==
  ASSUME IInv
  PROVE  /\ current \in Process /\ idleproc \in Process /\ initproc \in Process
         /\ idleproc # initproc /\ initproc \notin User /\ idleproc \notin User
         /\ current = idleproc \/ current = initproc \/ current \in User
         /\ current = idleproc => pc[current] = "cpu_idle"
         /\ current = initproc => pc[current] \in InitLabel
         /\ current \in User => pc[current] \in UserLabel
BY ProcAssumption, Zenon DEF IInv, TypeOK, Labels, Process

\* The calls that return at once, the ends of do_sleep and do_wait, the end of
\* trap, and the kernel threads' way into schedule().
LEMMA QuietActions ==
  ASSUME CountingLaws, IInv,
         \/ sys_nothing \/ sys_yield \/ sleep_return \/ sys_wait \/ wait_woken \/ wait_none
         \/ sys_exit \/ trap_return \/ cpu_idle \/ init_reaped
  PROVE  IInv'
<1> DEFINE Label == UserLabel \cup InitLabel \cup {"cpu_idle"}
<1>1. /\ current \in Process /\ initproc \in Process
      /\ idleproc # initproc /\ initproc \notin User /\ idleproc \notin User
      /\ current = idleproc \/ current = initproc \/ current \in User
      /\ current = idleproc => pc[current] = "cpu_idle"
      /\ current = initproc => pc[current] \in InitLabel
      /\ current \in User => pc[current] \in UserLabel
  BY AtLabel, Zenon
<1>2. /\ exiting \in SUBSET Process /\ need_resched \in SUBSET Process
      /\ timer \in [Process -> Nat] /\ target \in [Process -> Pointer]
      /\ target[initproc] = NULL /\ in_sched \in BOOLEAN
  BY Zenon DEF IInv, TypeOK, Life
<1>3. pc[current] # "del_timer" => timer[current] = 0
  BY <1>1, <1>2 DEF IInv, Life
<1> USE DEF Running, Goto, CallSchedule, sched, UserLabel, InitLabel
<1>4. CASE sys_nothing
  BY <1>1, <1>2, <1>3, <1>4, QuietStep, Zenon DEF sys_nothing
<1>5. CASE sys_yield
  BY <1>1, <1>2, <1>3, <1>5, QuietStep, Zenon DEF sys_yield
<1>6. CASE sleep_return
  <2>1. /\ timer' \in [Process -> Nat] /\ timer'[current] = 0
        /\ \A p \in Process : timer'[p] > 0 => timer[p] > 0
    BY <1>1, <1>2, <1>6 DEF sleep_return
  <2> QED
    BY <1>1, <1>2, <1>6, <2>1, QuietStep, Zenon DEF sleep_return
<1>7. CASE sys_wait
  BY <1>1, <1>2, <1>3, <1>7, QuietStep, Zenon DEF sys_wait, Pointer, Process
<1>8. CASE wait_woken
  BY <1>1, <1>2, <1>3, <1>8, QuietStep, Zenon DEF wait_woken, AfterWait
<1>9. CASE wait_none
  <2>1. current = initproc => \A q \in Process : parent[q] # initproc
    <3> SUFFICES ASSUME current = initproc
                 PROVE  {q \in Process : parent[q] = initproc} = {}
      BY Zenon
    <3>1. Range(Chain(initproc)) \ {NULL} = {}
      BY <1>2, <1>9, Zenon DEF wait_none, Candidates
    <3>2. pc[initproc] # "reparent"
      BY <1>1, Zenon
    <3> QED
      BY <1>1, <3>1, <3>2, ChainExact, Zenon DEF IInv
  <2>2. target' \in [Process -> Pointer] /\ target'[initproc] = NULL
    BY <1>1, <1>2, <1>9, Zenon DEF wait_none, Pointer
  <2> QED
    BY <1>1, <1>2, <1>3, <1>9, <2>1, <2>2, QuietStep, Zenon DEF wait_none
<1>10. CASE sys_exit
  BY <1>1, <1>2, <1>3, <1>10, QuietStep, Zenon DEF sys_exit
<1>11. CASE trap_return
  BY <1>1, <1>2, <1>3, <1>11, QuietStep, Zenon DEF trap_return
<1>12. CASE cpu_idle
  BY <1>1, <1>2, <1>3, <1>12, QuietStep, Zenon DEF cpu_idle
<1>13. CASE init_reaped
  BY <1>1, <1>2, <1>3, <1>13, QuietStep, Zenon DEF init_reaped
<1> QED
  BY <1>4, <1>5, <1>6, <1>7, <1>8, <1>9, <1>10, <1>11, <1>12, <1>13, Zenon

\* schedule() puts the process that runs back if it is runnable, and goes on with
\* the first of the queue.
LEMMA ScheduleStep ==
  ASSUME IInv, Schedule
  PROVE  IInv'
<1> DEFINE queue == IF PutBack THEN Append(rq, current) ELSE rq
           R == {p \in Process \ {idleproc} : state[p] = "RUNNABLE"}
<1>1. /\ panicked = "no" /\ in_sched
      /\ panicked' = IF PutBack /\ current \in Range(rq) THEN "queued twice" ELSE panicked
      /\ time_slice' = IF PutBack THEN Refilled(time_slice, current) ELSE time_slice
      /\ current' = IF queue = <<>> THEN idleproc ELSE Head(queue)
      /\ rq' = IF queue = <<>> THEN <<>> ELSE Tail(queue)
      /\ need_resched' = need_resched \ {current}
      /\ in_sched' = FALSE
  BY Zenon DEF Schedule
<1>2. /\ state' = state /\ wait_state' = wait_state /\ exiting' = exiting /\ timer' = timer
      /\ UNCHANGED links /\ pc' = pc /\ target' = target
      /\ parent' = parent
  BY Zenon DEF Schedule, links
<1>3. current \in Process /\ idleproc \in Process /\ state[idleproc] = "RUNNABLE"
  BY Zenon DEF IInv, TypeOK, Process, Life
<1>4. Lists(rq, Queued)
  BY QueueLists, Zenon DEF IInv
<1>5. Lists(queue, R)
  <2>1. CASE PutBack
    <3>1. R = Queued \cup {current} /\ current \notin Queued
      BY <1>3, <2>1, Zenon DEF Queued, PutBack
    <3> QED
      BY <1>3, <1>4, <2>1, <3>1, AppendLists
  <2>2. CASE ~PutBack
    <3>1. R = Queued
      BY <1>3, <2>2, Zenon DEF Queued, PutBack
    <3> QED
      BY <1>4, <2>2, <3>1, Zenon
  <2> QED
    BY <2>1, <2>2, Zenon
<1>6. panicked' = panicked
  BY <1>1, <1>4, Zenon DEF Lists, Queued
<1> HIDE DEF queue
<1>7. /\ current' \in Process /\ state[current'] = "RUNNABLE" /\ rq' \in Seq(Process)
      /\ Lists(rq', R \ {current'})
  <2>1. CASE queue = <<>>
    <3>1. rq' = queue /\ current' = idleproc
      BY <1>1, <2>1, Zenon
    <3>2. R \ {current'} = R
      BY <3>1, Zenon
    <3> QED
      BY <1>3, <1>5, <3>1, <3>2, Zenon DEF Lists
  <2>2. CASE queue # <<>>
    <3>1. rq' = Tail(queue) /\ current' = Head(queue)
      BY <1>1, <2>2, Zenon
    <3> QED
      BY <1>5, <2>2, <3>1, HeadLists DEF Lists
  <2> QED
    BY <2>1, <2>2, Zenon
<1>8. time_slice' \in [Process -> Nat]
  BY <1>1, <1>3, ProcAssumption, Zenon DEF Refilled, IInv, TypeOK
<1>9. TypeOK'
  <2>1. need_resched' \in SUBSET Process /\ in_sched' \in BOOLEAN /\ nr_process' \in Nat
    BY <1>1, <1>2, Zenon DEF IInv, TypeOK, links
  <2> QED
    BY <1>2, <1>7, <1>8, <2>1, Zenon DEF IInv, TypeOK, links
<1>10. Labels'
  BY <1>2, Zenon DEF IInv, Labels
<1>11. \A p \in Process : pc[p] \notin {"notify", "reparent"}
  BY <1>1, Zenon DEF IInv, Life
<1>12. Life'
  <2>1. pc[initproc] # "alone"
    BY <1>1, Zenon DEF IInv, Life
  <2> QED
    BY <1>1, <1>2, <1>6, <1>11, <2>1, Zenon DEF IInv, Life
<1>13. Current'
  BY <1>2, <1>7, Zenon DEF IInv, Current, Life
<1>14. RunQueueExact'
  <2>1. Queued' = R \ {current'}
    BY <1>2, Zenon DEF Queued
  <2> QED
    BY <1>7, <2>1, QueueListsNext, Zenon
<1>15. NoFailedAssertion'
  BY <1>6, Zenon DEF IInv, NoFailedAssertion
<1>16. Tree'
  BY <1>2, TreeFrame, Zenon DEF IInv, Tree
<1>17. Waiting'
  BY <1>2, <1>11, Zenon DEF IInv, Waiting
<1> QED
  BY <1>9, <1>10, <1>12, <1>13, <1>14, <1>15, <1>16, <1>17, Zenon DEF IInv, Tree

\* A step that wakes sleeping processes and leaves the pointers alone: the timer
\* interrupt, do_kill, and do_exit's wakeup of the parent.
LEMMA WakeStep ==
  ASSUME CountingLaws, IInv, NEW ps \in SUBSET Process, \A p \in ps : state[p] \in {"RUNNABLE", "SLEEPING"},
         NEW ts \in [Process -> Nat], Wakeup(ps, ts),
         UNCHANGED <<current, in_sched, links, target>>,
         exiting' \in SUBSET Process, need_resched' \in SUBSET Process,
         timer' \in [Process -> Nat], \A p \in Process : timer'[p] > 0 => timer[p] > 0,
         NEW l, pc' = [pc EXCEPT ![current] = l],
         \/ l = pc[current]
         \/ pc[current] = "user" /\ current \in User /\ l = "trapret"
         \/ /\ pc[current] = "notify" /\ current \in User /\ l = "reparent"
            /\ wait_state[parent[current]] = "WT_CHILD" => parent[current] \in ps
  PROVE  IInv'
<1>1. /\ current' = current /\ in_sched' = in_sched /\ target' = target
      /\ parent' = parent /\ cptr' = cptr /\ yptr' = yptr /\ optr' = optr
      /\ nr_process' = nr_process /\ UNCHANGED links
  BY Zenon DEF links
<1>2. /\ panicked' = panicked
      /\ state' \in [Process -> {"UNINIT", "RUNNABLE", "SLEEPING", "ZOMBIE"}]
      /\ wait_state' \in [Process -> {"0", "WT_CHILD", "WT_TIMER"}]
      /\ time_slice' \in [Process -> Nat]
      /\ rq' \in Seq(Process)
      /\ \A p \in Process : state'[p] = IF p \in ps THEN "RUNNABLE" ELSE state[p]
      /\ \A p \in Process : wait_state'[p] = IF p \in ps /\ state[p] = "SLEEPING" THEN "0"
                                             ELSE wait_state[p]
      /\ RunQueueExact'
  BY <1>1, WakeupWakes, Zenon DEF IInv
<1>3. /\ current \in Process /\ idleproc \in Process /\ initproc \in Process
      /\ idleproc # initproc /\ initproc \notin User /\ idleproc \notin User
  BY AtLabel, Zenon
<1>4. /\ pc \in [Process -> UserLabel \cup InitLabel \cup {"cpu_idle"}]
      /\ \A p \in Process : pc'[p] = IF p = current THEN l ELSE pc[p]
  BY <1>3, Zenon DEF IInv, TypeOK
<1>5. l \in UserLabel \cup InitLabel \cup {"cpu_idle"} /\ (l # pc[current] => l \in UserLabel)
  BY <1>3, <1>4 DEF UserLabel
<1>6. TypeOK'
  <2>1. pc' \in [Process -> UserLabel \cup InitLabel \cup {"cpu_idle"}]
    BY <1>4, <1>5, Zenon
  <2>2. TypeOK
    BY Zenon DEF IInv
  <2> QED
    BY <1>1, <1>2, <2>1, <2>2, ZenonT(30) DEF TypeOK
<1>7. Labels'
  BY <1>3, <1>4, <1>5 DEF IInv, Labels
<1>8. Life'
  <2> USE DEF IInv, Life
  <2>1. ASSUME NEW p \in Process
        PROVE  /\ wait_state'[p] # "0" <=> state'[p] = "SLEEPING"
               /\ wait_state'[p] = "WT_CHILD" => pc'[p] = "woken"
               /\ wait_state'[p] = "WT_TIMER" => pc'[p] = "del_timer"
               /\ state'[p] = "ZOMBIE" <=> pc'[p] \in {"notify", "reparent", "dead"}
               /\ pc'[p] \in {"notify", "reparent"} => p = current' /\ ~in_sched'
               /\ timer'[p] > 0 => pc'[p] = "del_timer"
               /\ state'[p] = "UNINIT" => p \in User /\ pc'[p] = "user"
    <3>1. wait_state'[p] # "0" <=> state'[p] = "SLEEPING"
      <4>1. wait_state[p] # "0" <=> state[p] = "SLEEPING"
        BY Zenon
      <4>2. CASE p \in ps
        BY <1>2, <4>1, <4>2, Zenon
      <4>3. CASE p \notin ps
        BY <1>2, <4>1, <4>3, Zenon
      <4> QED
        BY <4>2, <4>3, Zenon
    <3>2. state'[p] = "ZOMBIE" <=> state[p] = "ZOMBIE"
      BY <1>2, Zenon
    <3>3. state'[p] = "UNINIT" <=> state[p] = "UNINIT"
      BY <1>2, Zenon
    <3>4. CASE p # current \/ l = pc[current]
      <4>1. pc'[p] = pc[p]
        BY <1>4, <3>4
      <4>2. wait_state'[p] # "0" => wait_state'[p] = wait_state[p]
        BY <1>2, Zenon
      <4> QED
        BY <1>1, <3>1, <3>2, <3>3, <4>1, <4>2
    <3>5. CASE p = current /\ l # pc[current]
      <4>1. state[current] # "UNINIT" /\ pc'[current] = l
        BY <1>3, <1>4 DEF Current
      <4>2. wait_state[p] = "0" /\ ~(timer'[p] > 0)
        BY <3>5, ZenonT(30) DEF TypeOK
      <4>3. wait_state'[p] = "0"
        BY <1>2, <4>2, Zenon
      <4>4. CASE l = "trapret"
        BY <3>1, <3>2, <3>3, <3>5, <4>1, <4>2, <4>3, <4>4, Zenon
      <4>5. CASE l = "reparent"
        BY <1>1, <3>1, <3>2, <3>3, <3>5, <4>1, <4>2, <4>3, <4>5, SMTT(30)
      <4> QED
        BY <3>5, <4>4, <4>5, Zenon
    <3> QED
      BY <3>4, <3>5, Zenon
  <2>2. /\ state'[idleproc] = "RUNNABLE" /\ (state'[initproc] = "ZOMBIE" => panicked' # "no")
        /\ target'[initproc] = NULL
    BY <1>1, <1>2, <1>3, SMTT(30)
  <2>3. pc'[initproc] = "alone" => /\ current' = initproc /\ ~in_sched'
                                   /\ \A q \in Process : parent'[q] # initproc
    BY <1>1, <1>3, <1>4
  <2> QED
    BY <2>1, <2>2, <2>3, Zenon
<1>9. Current'
  BY <1>1, <1>2, <1>3, <1>4 DEF IInv, Current
<1>10. NoFailedAssertion'
  BY <1>2, Zenon DEF IInv, NoFailedAssertion
<1>11. Tree'
  <2>1. \A p \in Process : state'[p] = "UNINIT" <=> state[p] = "UNINIT"
    BY <1>2, Zenon
  <2>2. \A p \in Process : pc'[p] = "dead" => pc[p] = "dead"
    BY <1>4, Zenon
  <2>3. \A p \in Process : pc[p] = "reparent" => pc'[p] = "reparent"
    BY <1>4, Zenon
  <2> QED
    BY <1>1, <2>1, <2>2, <2>3, TreeFrame, Zenon DEF IInv, Tree
<1>12. Waiting'
  <2> SUFFICES ASSUME NEW p \in Process, NEW c \in Process,
                      wait_state'[p] = "WT_CHILD", parent'[c] = p, state'[c] = "ZOMBIE",
                      target'[p] \in {NULL, c}
               PROVE  c = current' /\ pc'[c] = "notify"
    BY Zenon DEF Waiting
  <2>1. wait_state[p] = "WT_CHILD" /\ state[c] = "ZOMBIE" /\ p \notin ps
    BY <1>2 DEF IInv, Life
  <2>2. c = current /\ pc[c] = "notify"
    BY <1>1, <2>1, Zenon DEF IInv, Waiting
  <2> QED
    BY <1>1, <1>4, <2>1, <2>2, Zenon
<1> QED
  BY <1>2, <1>6, <1>7, <1>8, <1>9, <1>10, <1>11, <1>12, Zenon DEF IInv, Tree

\* The timer interrupt wakes only processes in do_sleep.
LEMMA TimerStep ==
  ASSUME CountingLaws, IInv, TimerInterrupt
  PROVE  IInv'
<1> DEFINE expired == {p \in Process : timer[p] = 1}
           slice   == RR_proc_tick(current)
           slices  == IF current = idleproc THEN time_slice
                      ELSE [time_slice EXCEPT ![current] = slice]
<1>1. /\ Wakeup(expired, slices)
      /\ timer' = [p \in Process |-> IF timer[p] > 0 THEN timer[p] - 1 ELSE 0]
      /\ \E tick_num \in BOOLEAN :
           need_resched' = IF tick_num \/ current = idleproc \/ slice = 0
                           THEN need_resched \union {current} ELSE need_resched
      /\ pc' = IF InUser THEN [pc EXCEPT ![current] = "trapret"] ELSE pc
      /\ UNCHANGED <<current, exiting, links, target, in_sched>>
  BY Zenon DEF TimerInterrupt
<1>2. /\ current \in Process /\ time_slice \in [Process -> Nat] /\ timer \in [Process -> Nat]
      /\ exiting \in SUBSET Process /\ need_resched \in SUBSET Process
      /\ pc \in [Process -> UserLabel \cup InitLabel \cup {"cpu_idle"}]
      /\ state \in [Process -> {"UNINIT", "RUNNABLE", "SLEEPING", "ZOMBIE"}]
  BY Zenon DEF IInv, TypeOK
<1>3. slice \in Nat
  BY <1>2 DEF RR_proc_tick
<1>4. slices \in [Process -> Nat]
  BY <1>2, <1>3, Zenon
<1> HIDE DEF slices, slice
<1>5. \A p \in expired : state[p] \in {"RUNNABLE", "SLEEPING"}
  BY <1>2 DEF IInv, Life
<1>6. timer' \in [Process -> Nat] /\ \A p \in Process : timer'[p] > 0 => timer[p] > 0
  BY <1>1, <1>2
<1>7. exiting' \in SUBSET Process /\ need_resched' \in SUBSET Process
  BY <1>1, <1>2, Zenon
<1>8. pc' = [pc EXCEPT ![current] = IF InUser THEN "trapret" ELSE pc[current]]
  BY <1>1, <1>2, Zenon
<1> QED
  BY <1>1, <1>4, <1>5, <1>6, <1>7, <1>8, WakeStep, Zenon DEF InUser

\* do_kill wakes only a process that sleeps.
LEMMA KillStep ==
  ASSUME CountingLaws, IInv, sys_kill
  PROVE  IInv'
<1>1. PICK p \in Linked \ exiting : /\ exiting' = exiting \union {p}
                                    /\ Wakeup(WokenByKill(p), time_slice)
  BY Zenon DEF sys_kill
<1>2. /\ p \in Process /\ timer \in [Process -> Nat] /\ time_slice \in [Process -> Nat]
      /\ exiting \in SUBSET Process /\ need_resched \in SUBSET Process
  BY Zenon DEF Linked, IInv, TypeOK
<1>3. /\ WokenByKill(p) \in SUBSET Process
      /\ \A q \in WokenByKill(p) : state[q] \in {"RUNNABLE", "SLEEPING"}
  BY <1>2, Zenon DEF WokenByKill, IInv, Life
<1>4. /\ UNCHANGED <<current, in_sched, links, target>> /\ timer' = timer
      /\ need_resched' = need_resched /\ pc[current] = "user"
      /\ pc' = [pc EXCEPT ![current] = "trapret"]
  BY Zenon DEF sys_kill, Running, Goto
<1>5. current \in User
  BY <1>4, AtLabel, Zenon DEF InitLabel
<1>6. /\ exiting' \in SUBSET Process /\ need_resched' \in SUBSET Process
      /\ timer' \in [Process -> Nat] /\ \A q \in Process : timer'[q] > 0 => timer[q] > 0
  BY <1>1, <1>2, <1>4, Zenon
<1> QED
  BY <1>1, <1>2, <1>3, <1>4, <1>5, <1>6, WakeStep, Zenon

\* do_exit wakes a parent that sleeps in do_wait.
LEMMA NotifyStep ==
  ASSUME CountingLaws, IInv, exit_notify
  PROVE  IInv'
<1>1. /\ panicked = "no" /\ pc[current] = "notify" /\ Wakeup(WokenByExit, time_slice)
      /\ pc' = [pc EXCEPT ![current] = "reparent"]
      /\ UNCHANGED <<current, in_sched, links, target>>
      /\ exiting' = exiting /\ need_resched' = need_resched /\ timer' = timer
  BY Zenon DEF exit_notify, Running, Goto
<1>2. /\ current \in Process /\ timer \in [Process -> Nat] /\ time_slice \in [Process -> Nat]
      /\ exiting \in SUBSET Process /\ need_resched \in SUBSET Process
      /\ parent \in [Process -> Pointer]
  BY Zenon DEF IInv, TypeOK
<1>3. current \in User /\ state[current] = "ZOMBIE"
  BY <1>1, AtLabel, Zenon DEF IInv, Life
<1>4. parent[current] \in Process
  BY <1>2, <1>3, ProcAssumption, ZenonT(30) DEF IInv, Family, Pointer, Process
<1>5. /\ WokenByExit \in SUBSET Process
      /\ \A q \in WokenByExit : state[q] \in {"RUNNABLE", "SLEEPING"}
      /\ wait_state[parent[current]] = "WT_CHILD" => parent[current] \in WokenByExit
  BY <1>4, Zenon DEF WokenByExit, IInv, Life
<1> QED
  BY <1>1, <1>2, <1>3, <1>5, WakeStep, Zenon

\* The running process goes to sleep, in do_sleep or do_wait.
LEMMA BlockStep ==
  ASSUME CountingLaws, IInv, sys_sleep \/ wait_block
  PROVE  IInv'
<1>1. /\ ~in_sched /\ in_sched' = TRUE /\ pc[current] \in {"user", "repeat"}
      /\ UNCHANGED <<current, rq, time_slice, need_resched, exiting, links, target, panicked>>
      /\ state' = [state EXCEPT ![current] = "SLEEPING"]
  BY Zenon DEF sys_sleep, wait_block, Running, CallSchedule, sched
<1>2. /\ current' = current /\ rq' = rq /\ time_slice' = time_slice
      /\ need_resched' = need_resched /\ exiting' = exiting /\ target' = target
      /\ panicked' = panicked /\ UNCHANGED links
      /\ parent' = parent /\ cptr' = cptr /\ yptr' = yptr /\ optr' = optr
      /\ nr_process' = nr_process
  BY <1>1, Zenon DEF links
<1>3. /\ current \in Process
      /\ state[current] = "RUNNABLE" /\ wait_state[current] = "0"
      /\ pc[current] \notin {"notify", "reparent", "dead"}
  BY <1>1, CurrentRuns, Zenon
<1>4. /\ initproc \in Process /\ idleproc \in Process /\ idleproc # initproc
      /\ initproc \notin User /\ idleproc \notin User /\ current # idleproc
      /\ current = initproc \/ current \in User
      /\ pc[current] = "user" => current \in User
  BY <1>1, AtLabel, Zenon DEF InitLabel
<1>5. \/ /\ pc[current] = "user"
         /\ pc' = [pc EXCEPT ![current] = "del_timer"]
         /\ wait_state' = [wait_state EXCEPT ![current] = "WT_TIMER"]
         /\ \E t \in 1 .. MaxSleep : timer' = [timer EXCEPT ![current] = t]
      \/ /\ pc[current] = "repeat"
         /\ pc' = [pc EXCEPT ![current] = "woken"]
         /\ wait_state' = [wait_state EXCEPT ![current] = "WT_CHILD"]
         /\ timer' = timer
         /\ \A c \in Candidates(current) : state[c] # "ZOMBIE"
  BY Zenon DEF sys_sleep, wait_block, Running, CallSchedule
<1>6. /\ state \in [Process -> {"UNINIT", "RUNNABLE", "SLEEPING", "ZOMBIE"}]
      /\ wait_state \in [Process -> {"0", "WT_CHILD", "WT_TIMER"}]
      /\ timer \in [Process -> Nat]
      /\ pc \in [Process -> UserLabel \cup InitLabel \cup {"cpu_idle"}]
  BY Zenon DEF IInv, TypeOK
<1>7. /\ state' \in [Process -> {"UNINIT", "RUNNABLE", "SLEEPING", "ZOMBIE"}]
      /\ \A p \in Process : state'[p] = IF p = current THEN "SLEEPING" ELSE state[p]
  BY <1>1, <1>3, <1>6, Zenon
<1>8. /\ wait_state' \in [Process -> {"0", "WT_CHILD", "WT_TIMER"}]
      /\ \A p \in Process : p # current => wait_state'[p] = wait_state[p]
      /\ pc' \in [Process -> UserLabel \cup InitLabel \cup {"cpu_idle"}]
      /\ \A p \in Process : p # current => pc'[p] = pc[p]
      /\ timer' \in [Process -> Nat]
      /\ \A p \in Process : p # current => timer'[p] = timer[p]
  <2>1. \A t \in 1 .. MaxSleep : t \in Nat
    BY ProcAssumption
  <2> QED
    BY <1>3, <1>5, <1>6, <2>1 DEF UserLabel
<1>9. \/ pc'[current] = "del_timer" /\ wait_state'[current] = "WT_TIMER" /\ current \in User
      \/ /\ pc'[current] = "woken" /\ wait_state'[current] = "WT_CHILD" /\ timer'[current] = 0
         /\ pc[current] = "repeat"
         /\ \A c \in Candidates(current) : state[c] # "ZOMBIE"
  BY <1>3, <1>4, <1>5, <1>6 DEF IInv, Life
<1>10. TypeOK'
  BY <1>1, <1>2, <1>7, <1>8, SMTT(30) DEF IInv, TypeOK
<1>11. Labels'
  <2>1. /\ pc'[current] \in UserLabel
        /\ current = initproc => pc'[current] \in InitLabel
    BY <1>4, <1>9, Zenon DEF UserLabel, InitLabel
  <2>2. \A p \in User : p \in Process
    BY Zenon DEF Process
  <2> QED
    BY <1>4, <1>8, <2>1, <2>2, Zenon DEF IInv, Labels
<1>12. Life'
  <2> USE DEF IInv, Life
  <2>1. ASSUME NEW p \in Process
        PROVE  /\ wait_state'[p] # "0" <=> state'[p] = "SLEEPING"
               /\ wait_state'[p] = "WT_CHILD" => pc'[p] = "woken"
               /\ wait_state'[p] = "WT_TIMER" => pc'[p] = "del_timer"
               /\ state'[p] = "ZOMBIE" <=> pc'[p] \in {"notify", "reparent", "dead"}
               /\ pc'[p] \in {"notify", "reparent"} => p = current' /\ ~in_sched'
               /\ timer'[p] > 0 => pc'[p] = "del_timer"
               /\ state'[p] = "UNINIT" => p \in User /\ pc'[p] = "user"
    <3>1. CASE p = current
      BY <1>7, <1>9, <3>1
    <3>2. CASE p # current
      BY <1>2, <1>3, <1>7, <1>8, <3>2, SMTT(30)
    <3> QED
      BY <3>1, <3>2, Zenon
  <2>2. /\ state'[idleproc] = "RUNNABLE" /\ (state'[initproc] = "ZOMBIE" => panicked' # "no")
        /\ target'[initproc] = NULL
    BY <1>2, <1>4, <1>7, Zenon
  <2>3. pc'[initproc] # "alone"
    BY <1>4, <1>8, <1>9, Zenon
  <2> QED
    BY <2>1, <2>2, <2>3
<1>13. Current'
  BY <1>1, <1>2, <1>3, <1>7, <1>9 DEF Current
<1>14. RunQueueExact' /\ NoFailedAssertion'
  <2>1. Queued' = Queued
    BY <1>2, <1>7, Zenon DEF Queued
  <2>2. Lists(rq', Queued')
    BY <1>2, <2>1, QueueLists, Zenon DEF IInv
  <2> QED
    BY <1>2, <2>2, QueueListsNext, Zenon DEF Lists, IInv, NoFailedAssertion
<1>15. Tree'
  <2>1. \A p \in Process : state'[p] = "UNINIT" <=> state[p] = "UNINIT"
    BY <1>3, <1>7, Zenon
  <2>2. \A p \in Process : pc'[p] = "dead" => pc[p] = "dead"
    BY <1>8, <1>9, Zenon
  <2>3. \A p \in Process : pc[p] = "reparent" => pc'[p] = "reparent"
    BY <1>3, <1>8, Zenon
  <2> QED
    BY <1>2, <2>1, <2>2, <2>3, TreeFrame DEF IInv, Tree
<1>16. Waiting'
  <2> SUFFICES ASSUME NEW p \in Process, NEW c \in Process,
                      wait_state'[p] = "WT_CHILD", parent'[c] = p, state'[c] = "ZOMBIE",
                      target'[p] \in {NULL, c}
               PROVE  c = current' /\ pc'[c] = "notify"
    BY Zenon DEF Waiting
  <2>1. c # current /\ state[c] = "ZOMBIE" /\ parent[c] = p /\ target[p] \in {NULL, c}
    BY <1>2, <1>7, Zenon
  <2>2. CASE p = current
    <3>1. pc[p] = "repeat" /\ \A d \in Candidates(p) : state[d] # "ZOMBIE"
      BY <1>9, <2>2, Zenon
    <3>2. CASE target[p] = NULL
      <4>1. Range(Chain(p)) \ {NULL} = {q \in Process : parent[q] = p}
        BY <3>1, ChainExact, ZenonT(30) DEF IInv
      <4> QED
        BY <2>1, <3>1, <3>2, <4>1 DEF Candidates
    <3>3. CASE target[p] = c /\ c # NULL
      <4>1. c \in Linked
        BY <1>4, <2>1, Zenon DEF Linked, IInv, Life
      <4> QED
        BY <2>1, <3>1, <3>3, <4>1, Zenon DEF Candidates
    <3> QED
      BY <2>1, <3>2, <3>3, Zenon
  <2>3. CASE p # current
    BY <1>8, <2>1, <2>3 DEF IInv, Waiting
  <2> QED
    BY <2>2, <2>3, Zenon
<1> QED
  BY <1>10, <1>11, <1>12, <1>13, <1>14, <1>15, <1>16, Zenon DEF IInv, Tree

\* do_exit makes the process a zombie.
LEMMA ZombieStep ==
  ASSUME IInv, exit_zombie
  PROVE  IInv'
<1>1. /\ panicked = "no" /\ ~in_sched /\ pc[current] = "do_exit"
      /\ panicked' = IF current = initproc THEN "initproc exit" ELSE panicked
      /\ state' = [state EXCEPT ![current] = "ZOMBIE"]
      /\ pc' = [pc EXCEPT ![current] = "notify"]
  BY Zenon DEF exit_zombie, Running, Goto
<1>2. /\ current' = current /\ rq' = rq /\ time_slice' = time_slice
      /\ need_resched' = need_resched /\ exiting' = exiting /\ target' = target
      /\ wait_state' = wait_state /\ timer' = timer /\ in_sched' = in_sched
      /\ UNCHANGED links
      /\ parent' = parent /\ cptr' = cptr /\ yptr' = yptr /\ optr' = optr
      /\ nr_process' = nr_process
  BY Zenon DEF exit_zombie, sched, links
<1>3. /\ current \in Process
      /\ state[current] = "RUNNABLE" /\ wait_state[current] = "0"
  BY <1>1, CurrentRuns, Zenon
<1>4. /\ initproc \in Process /\ idleproc \in Process /\ current # idleproc
      /\ \A p \in User : p \in Process
  BY <1>1, AtLabel, Zenon DEF Process
<1>5. /\ state' \in [Process -> {"UNINIT", "RUNNABLE", "SLEEPING", "ZOMBIE"}]
      /\ \A p \in Process : state'[p] = IF p = current THEN "ZOMBIE" ELSE state[p]
      /\ pc' \in [Process -> UserLabel \cup InitLabel \cup {"cpu_idle"}]
      /\ \A p \in Process : pc'[p] = IF p = current THEN "notify" ELSE pc[p]
  BY <1>1, <1>3, Zenon DEF IInv, TypeOK, UserLabel
<1>6. TypeOK'
  BY <1>2, <1>5, Zenon DEF IInv, TypeOK
<1>7. Labels'
  <2>1. "notify" \in UserLabel /\ "notify" \in InitLabel
    BY Zenon DEF UserLabel, InitLabel
  <2> QED
    BY <1>4, <1>5, <2>1, Zenon DEF IInv, Labels
<1>8. Life'
  <2> USE DEF IInv, Life
  <2>1. ASSUME NEW p \in Process
        PROVE  /\ wait_state'[p] # "0" <=> state'[p] = "SLEEPING"
               /\ wait_state'[p] = "WT_CHILD" => pc'[p] = "woken"
               /\ wait_state'[p] = "WT_TIMER" => pc'[p] = "del_timer"
               /\ state'[p] = "ZOMBIE" <=> pc'[p] \in {"notify", "reparent", "dead"}
               /\ pc'[p] \in {"notify", "reparent"} => p = current' /\ ~in_sched'
               /\ timer'[p] > 0 => pc'[p] = "del_timer"
               /\ state'[p] = "UNINIT" => p \in User /\ pc'[p] = "user"
    <3>1. CASE p = current
      BY <1>1, <1>2, <1>3, <1>5, <3>1, ZenonT(30)
    <3>2. CASE p # current
      BY <1>2, <1>5, <3>2
    <3> QED
      BY <3>1, <3>2, Zenon
  <2>2. /\ state'[idleproc] = "RUNNABLE" /\ (state'[initproc] = "ZOMBIE" => panicked' # "no")
        /\ target'[initproc] = NULL
    BY <1>1, <1>2, <1>4, <1>5, ZenonT(30)
  <2>3. pc'[initproc] # "alone"
    BY <1>1, <1>4, <1>5, ZenonT(30)
  <2> QED
    BY <2>1, <2>2, <2>3, Zenon
<1>9. Current'
  BY <1>2, <1>3, <1>5, Zenon DEF Current
<1>10. RunQueueExact' /\ NoFailedAssertion'
  <2>1. Queued' = Queued
    BY <1>2, <1>5, Zenon DEF Queued
  <2>2. Lists(rq', Queued')
    BY <1>2, <2>1, QueueLists, Zenon DEF IInv
  <2> QED
    BY <1>1, <2>2, QueueListsNext, Zenon DEF Lists, NoFailedAssertion
<1>11. Tree'
  <2>1. \A p \in Process : state'[p] = "UNINIT" <=> state[p] = "UNINIT"
    BY <1>3, <1>5, Zenon
  <2>2. /\ \A p \in Process : pc'[p] = "dead" => pc[p] = "dead"
        /\ \A p \in Process : pc[p] = "reparent" => pc'[p] = "reparent"
    BY <1>1, <1>5, ZenonT(30)
  <2> QED
    BY <1>2, <2>1, <2>2, TreeFrame, Zenon DEF IInv, Tree
<1>12. Waiting'
  BY <1>2, <1>3, <1>5 DEF IInv, Waiting
<1> QED
  BY <1>6, <1>7, <1>8, <1>9, <1>10, <1>11, <1>12, Zenon DEF IInv, Tree

\* do_exit, without children, calls schedule() for the last time.
LEMMA DeadStep ==
  ASSUME IInv, exit_schedule
  PROVE  IInv'
<1>1. /\ panicked = "no" /\ ~in_sched /\ in_sched' = TRUE /\ pc[current] = "reparent"
      /\ cptr[current] = NULL /\ pc' = [pc EXCEPT ![current] = "dead"]
  BY Zenon DEF exit_schedule, Running, CallSchedule
<1>2. /\ current' = current /\ rq' = rq /\ time_slice' = time_slice /\ state' = state
      /\ need_resched' = need_resched /\ exiting' = exiting /\ target' = target
      /\ wait_state' = wait_state /\ timer' = timer /\ panicked' = panicked
      /\ UNCHANGED links
      /\ parent' = parent /\ cptr' = cptr /\ yptr' = yptr /\ optr' = optr
      /\ nr_process' = nr_process
  BY Zenon DEF exit_schedule, sched, links
<1>3. /\ current \in User /\ \A p \in User : p \in Process
      /\ initproc \notin User /\ idleproc \notin User
  BY <1>1, AtLabel, Zenon DEF InitLabel, Process
<1>4. /\ pc' \in [Process -> UserLabel \cup InitLabel \cup {"cpu_idle"}]
      /\ \A p \in Process : pc'[p] = IF p = current THEN "dead" ELSE pc[p]
      /\ "dead" \in UserLabel /\ initproc \in Process /\ idleproc \in Process
  BY <1>1, <1>3, Zenon DEF IInv, TypeOK, UserLabel, Process
<1>5. TypeOK'
  BY <1>1, <1>2, <1>4, Zenon DEF IInv, TypeOK
<1>6. Labels'
  BY <1>3, <1>4, Zenon DEF IInv, Labels
<1>7. Life'
  <2> USE DEF IInv, Life
  <2>1. ASSUME NEW p \in Process
        PROVE  /\ wait_state'[p] # "0" <=> state'[p] = "SLEEPING"
               /\ wait_state'[p] = "WT_CHILD" => pc'[p] = "woken"
               /\ wait_state'[p] = "WT_TIMER" => pc'[p] = "del_timer"
               /\ state'[p] = "ZOMBIE" <=> pc'[p] \in {"notify", "reparent", "dead"}
               /\ pc'[p] \in {"notify", "reparent"} => p = current' /\ ~in_sched'
               /\ timer'[p] > 0 => pc'[p] = "del_timer"
               /\ state'[p] = "UNINIT" => p \in User /\ pc'[p] = "user"
    <3>1. CASE p = current
      BY <1>1, <1>2, <1>4, <3>1, Zenon
    <3>2. CASE p # current
      BY <1>2, <1>4, <3>2, SMTT(30)
    <3> QED
      BY <3>1, <3>2, Zenon
  <2>2. /\ state'[idleproc] = "RUNNABLE" /\ (state'[initproc] = "ZOMBIE" => panicked' # "no")
        /\ target'[initproc] = NULL
    BY <1>2, Zenon
  <2>3. pc'[initproc] # "alone"
    BY <1>1, <1>3, <1>4
  <2> QED
    BY <2>1, <2>2, <2>3, Zenon
<1>8. Current' /\ RunQueueExact' /\ NoFailedAssertion'
  BY <1>1, <1>2, Zenon DEF IInv, Current, RunQueueExact, NoFailedAssertion
<1>9. Tree'
  <2>1. \A p \in Process : pc'[p] = "dead" => pc[p] = "dead" \/ cptr[p] = NULL
    BY <1>1, <1>4, Zenon
  <2>2. \A p \in Process : pc[p] = "reparent" => pc'[p] = "reparent" \/ cptr[p] = NULL
    BY <1>1, <1>4, Zenon
  <2> QED
    BY <1>2, <2>1, <2>2, TreeFrame, Zenon DEF IInv, Tree
<1>10. Waiting'
  BY <1>1, <1>2, Zenon DEF IInv, Waiting
<1> QED
  BY <1>5, <1>6, <1>7, <1>8, <1>9, <1>10, Zenon DEF IInv, Tree

\* One round of do_exit's loop: initproc gets the child, and is told of a zombie.
LEMMA OrphanStep ==
  ASSUME CountingLaws, IInv, exit_reparent
  PROVE  IInv'
<1> DEFINE c  == cptr[current]
           ps == WokenByOrphan(c)
<1>1. /\ panicked = "no" /\ ~in_sched /\ pc[current] = "reparent" /\ c # NULL
      /\ hand_over(c) /\ Wakeup(ps, time_slice)
      /\ current' = current /\ exiting' = exiting /\ need_resched' = need_resched
      /\ timer' = timer /\ pc' = pc /\ target' = target /\ in_sched' = in_sched
  BY Zenon DEF exit_reparent, Running
<1>2. /\ current \in User /\ current \in Process /\ initproc \in Process /\ idleproc \in Process
      /\ initproc \notin User /\ current # NULL /\ initproc # NULL /\ initproc # current
  BY <1>1, AtLabel, ProcAssumption, Zenon DEF InitLabel, Process
<1>3. c \in Process
  BY <1>1, <1>2, Zenon DEF IInv, TypeOK, Pointer
<1> HIDE DEF c
<1>4. /\ ps \in SUBSET Process /\ \A p \in ps : state[p] \in {"RUNNABLE", "SLEEPING"}
      /\ state[c] = "ZOMBIE" /\ wait_state[initproc] = "WT_CHILD" => initproc \in ps
  BY <1>2 DEF WokenByOrphan, IInv, Life
<1> HIDE DEF ps
<1>5. /\ panicked' = panicked
      /\ state' \in [Process -> {"UNINIT", "RUNNABLE", "SLEEPING", "ZOMBIE"}]
      /\ wait_state' \in [Process -> {"0", "WT_CHILD", "WT_TIMER"}]
      /\ time_slice' \in [Process -> Nat]
      /\ rq' \in Seq(Process)
      /\ \A p \in Process : state'[p] = IF p \in ps THEN "RUNNABLE" ELSE state[p]
      /\ \A p \in Process : wait_state'[p] = IF p \in ps /\ state[p] = "SLEEPING" THEN "0"
                                             ELSE wait_state[p]
      /\ RunQueueExact'
  <2>1. TypeOK /\ RunQueueExact /\ time_slice \in [Process -> Nat]
    BY Zenon DEF IInv, TypeOK
  <2> QED
    BY <1>1, <1>4, <2>1, WakeupWakes, Zenon
<1>6. /\ parent' \in [Process -> Pointer] /\ cptr' \in [Process -> Pointer]
      /\ yptr' \in [Process -> Pointer] /\ optr' \in [Process -> Pointer]
      /\ nr_process' = nr_process
      /\ \A q \in Process : parent'[q] = IF q = c THEN initproc ELSE parent[q]
  BY <1>1, <1>2, <1>3, ZenonT(30) DEF hand_over, Store, IInv, TypeOK, Pointer
<1>7. TypeOK'
  BY <1>1, <1>5, <1>6, Zenon DEF IInv, TypeOK
<1>8. Labels'
  BY <1>1, Zenon DEF IInv, Labels
<1>9. /\ \A p \in Process : state'[p] = "ZOMBIE" <=> state[p] = "ZOMBIE"
      /\ \A p \in Process : state'[p] = "UNINIT" <=> state[p] = "UNINIT"
      /\ \A p \in Process : wait_state'[p] # "0" <=> state'[p] = "SLEEPING"
      /\ \A p \in Process : wait_state'[p] # "0" => wait_state'[p] = wait_state[p]
  BY <1>4, <1>5, SMTT(30) DEF IInv, Life
<1>10. Life'
  <2>1. Life
    BY Zenon DEF IInv
  <2>2. ASSUME NEW p \in Process
        PROVE  /\ wait_state'[p] # "0" <=> state'[p] = "SLEEPING"
               /\ wait_state'[p] = "WT_CHILD" => pc'[p] = "woken"
               /\ wait_state'[p] = "WT_TIMER" => pc'[p] = "del_timer"
               /\ state'[p] = "ZOMBIE" <=> pc'[p] \in {"notify", "reparent", "dead"}
               /\ pc'[p] \in {"notify", "reparent"} => p = current' /\ ~in_sched'
               /\ timer'[p] > 0 => pc'[p] = "del_timer"
               /\ state'[p] = "UNINIT" => p \in User /\ pc'[p] = "user"
    <3>1. /\ wait_state'[p] = "WT_CHILD" => pc[p] = "woken"
          /\ wait_state'[p] = "WT_TIMER" => pc[p] = "del_timer"
      BY <1>9, <2>1, ZenonT(30) DEF Life
    <3>2. /\ state'[p] = "ZOMBIE" <=> pc[p] \in {"notify", "reparent", "dead"}
          /\ state'[p] = "UNINIT" => p \in User /\ pc[p] = "user"
      BY <1>9, <2>1, Zenon DEF Life
    <3>3. /\ pc[p] \in {"notify", "reparent"} => p = current /\ ~in_sched
          /\ timer[p] > 0 => pc[p] = "del_timer"
      BY <2>1, Zenon DEF Life
    <3> QED
      BY <1>1, <1>9, <3>1, <3>2, <3>3, Zenon
  <2>3. /\ state'[idleproc] = "RUNNABLE" /\ (state'[initproc] = "ZOMBIE" => panicked' # "no")
        /\ target'[initproc] = NULL
    BY <1>1, <1>2, <1>5, <1>9, <2>1, ZenonT(30) DEF Life
  <2>4. pc'[initproc] # "alone"
    BY <1>1, <1>2, <2>1, Zenon DEF Life
  <2> QED
    BY <2>2, <2>3, <2>4, Zenon DEF Life
<1>11. Current' /\ NoFailedAssertion'
  BY <1>1, <1>2, <1>5, <1>9, SMTT(30) DEF IInv, Current, NoFailedAssertion, Life
<1>12. Tree'
  <2>1. pc[initproc] \notin {"reparent", "dead"}
    BY Zenon DEF IInv, Labels, InitLabel
  <2> QED
    BY <1>1, <1>2, <1>9, <2>1, OrphanTree DEF IInv, Tree, c
<1>13. Waiting'
  <2> SUFFICES ASSUME NEW p \in Process, NEW q \in Process,
                      wait_state'[p] = "WT_CHILD", parent'[q] = p, state'[q] = "ZOMBIE",
                      target'[p] \in {NULL, q}
               PROVE  FALSE
    BY Zenon DEF Waiting
  <2>1. wait_state[p] = "WT_CHILD" /\ state[q] = "ZOMBIE" /\ p \notin ps
    BY <1>5, <1>9, SMTT(30) DEF IInv, Life
  <2>2. q # c
    BY <1>4, <1>6, <2>1, ZenonT(30)
  <2>3. Waiting /\ parent[q] = p /\ target[p] \in {NULL, q}
    BY <1>1, <1>6, <2>2, Zenon DEF IInv
  <2>4. q = current /\ pc[q] = "notify"
    BY <2>1, <2>3, Zenon DEF Waiting
  <2> QED
    BY <1>1, <2>4, Zenon
<1> QED
  BY <1>5, <1>7, <1>8, <1>10, <1>11, <1>12, <1>13, Zenon DEF IInv, Tree

\* do_fork, called by a user process or by init_main.
LEMMA ForkStep ==
  ASSUME CountingLaws, IInv, sys_fork \/ init_start
  PROVE  IInv'
<1>1. /\ panicked = "no" /\ ~in_sched
      /\ \/ pc[current] = "user" /\ pc' = [pc EXCEPT ![current] = "trapret"]
         \/ pc[current] = "init_main" /\ pc' = [pc EXCEPT ![current] = "repeat"]
      /\ current' = current /\ wait_state' = wait_state /\ exiting' = exiting
      /\ need_resched' = need_resched /\ timer' = timer /\ target' = target
      /\ in_sched' = in_sched
  BY Zenon DEF sys_fork, init_start, Running, Goto
<1>2. PICK p \in User : Fork(p)
  BY Zenon DEF sys_fork, init_start
<1>3. /\ state[p] = "UNINIT" /\ set_links(p) /\ state' = [state EXCEPT ![p] = "RUNNABLE"]
      /\ rq' = Append(rq, p) /\ time_slice' = [time_slice EXCEPT ![p] = MAX_TIME_SLICE]
  BY <1>2, Zenon DEF Fork
<1>4. /\ current \in Process /\ p \in Process /\ initproc \in Process /\ idleproc \in Process
      /\ p # initproc /\ p # idleproc /\ p # NULL /\ current # NULL /\ current # idleproc
  BY <1>1, AtLabel, ProcAssumption, Zenon DEF Process
<1>5. /\ state[current] = "RUNNABLE" /\ wait_state[current] = "0" /\ p # current
      /\ pc[current] \notin {"reparent", "dead"}
  BY <1>1, <1>3, CurrentRuns, Zenon
<1>6. /\ current \in User => pc'[current] \in UserLabel
      /\ current = initproc => pc'[current] \in InitLabel
      /\ pc'[current] \in {"trapret", "repeat"} /\ pc[current] \in {"user", "init_main"}
      /\ pc' \in [Process -> UserLabel \cup InitLabel \cup {"cpu_idle"}]
      /\ \A q \in Process : q # current => pc'[q] = pc[q]
  <2>1. /\ current = initproc => pc[current] = "init_main"
        /\ current \in User => pc[current] = "user"
    BY <1>1, AtLabel, Zenon DEF UserLabel, InitLabel
  <2> QED
    BY <1>1, <1>4, <2>1, ProcAssumption, ZenonT(30) DEF IInv, TypeOK, UserLabel, InitLabel
<1>7. /\ state' \in [Process -> {"UNINIT", "RUNNABLE", "SLEEPING", "ZOMBIE"}]
      /\ \A q \in Process : state'[q] = IF q = p THEN "RUNNABLE" ELSE state[q]
  BY <1>3, <1>4, Zenon DEF IInv, TypeOK
<1>8. /\ parent' \in [Process -> Pointer] /\ cptr' \in [Process -> Pointer]
      /\ yptr' \in [Process -> Pointer] /\ optr' \in [Process -> Pointer]
      /\ nr_process' \in Nat
      /\ \A q \in Process : parent'[q] = IF q = p THEN current ELSE parent[q]
  <2>1. /\ parent \in [Process -> Pointer] /\ cptr \in [Process -> Pointer]
        /\ yptr \in [Process -> Pointer] /\ optr \in [Process -> Pointer]
        /\ nr_process \in Nat /\ p \in Pointer /\ current \in Pointer
        /\ cptr[current] \in Pointer /\ NULL \in Pointer
    BY <1>4, Zenon DEF IInv, TypeOK, Pointer
  <2>2. /\ yptr' = Store([yptr EXCEPT ![p] = NULL], cptr[current], p)
        /\ optr' = [optr EXCEPT ![p] = cptr[current]]
        /\ cptr' = [cptr EXCEPT ![current] = p]
        /\ parent' = [parent EXCEPT ![p] = current]
        /\ nr_process' = nr_process + 1
    BY <1>3, Zenon DEF set_links
  <2>3. yptr' \in [Process -> Pointer]
    BY <2>1, <2>2, Zenon DEF Store
  <2>4. parent' \in [Process -> Pointer] /\ cptr' \in [Process -> Pointer]
    BY <2>1, <2>2, Zenon
  <2>5. optr' \in [Process -> Pointer]
    BY <2>1, <2>2, Zenon
  <2>6. nr_process' \in Nat
    BY <2>1, <2>2
  <2>7. \A q \in Process : parent'[q] = IF q = p THEN current ELSE parent[q]
    BY <2>1, <2>2, ZenonT(30)
  <2> QED
    BY <2>3, <2>4, <2>5, <2>6, <2>7, ZenonT(30)
<1>9. Lists(rq, Queued) /\ p \notin Queued /\ Queued' = Queued \cup {p} /\ Range(rq) = Queued
  BY <1>1, <1>3, <1>4, <1>5, <1>7, QueueLists, SMTT(30) DEF IInv, Queued, Lists
<1>10. Lists(rq', Queued') /\ rq' \in Seq(Process)
  <2>1. Lists(Append(rq, p), Queued \cup {p})
    BY <1>4, <1>9, AppendLists, Zenon
  <2> QED
    BY <1>3, <1>9, <2>1, Zenon DEF Lists
<1>11. panicked' = panicked
  <2>1. panicked' = IF wait_state[current] # "0" THEN "fork while waiting"
                    ELSE IF p \in Range(rq) THEN "queued twice" ELSE panicked
    BY <1>2, ZenonT(30) DEF Fork
  <2> QED
    BY <1>5, <1>9, <2>1, Zenon
<1>12. TypeOK'
  <2>1. time_slice' \in [Process -> Nat]
    BY <1>3, ProcAssumption, Zenon DEF IInv, TypeOK
  <2> QED
    BY <1>1, <1>6, <1>7, <1>8, <1>10, <2>1, Zenon DEF IInv, TypeOK
<1>13. Labels'
  BY <1>4, <1>6, Zenon DEF IInv, Labels, Process
<1>14. Life'
  <2> USE DEF IInv, Life
  <2>1. ASSUME NEW q \in Process
        PROVE  /\ wait_state'[q] # "0" <=> state'[q] = "SLEEPING"
               /\ wait_state'[q] = "WT_CHILD" => pc'[q] = "woken"
               /\ wait_state'[q] = "WT_TIMER" => pc'[q] = "del_timer"
               /\ state'[q] = "ZOMBIE" <=> pc'[q] \in {"notify", "reparent", "dead"}
               /\ pc'[q] \in {"notify", "reparent"} => q = current' /\ ~in_sched'
               /\ timer'[q] > 0 => pc'[q] = "del_timer"
               /\ state'[q] = "UNINIT" => q \in User /\ pc'[q] = "user"
    <3>1. CASE q = current
      BY <1>1, <1>5, <1>6, <1>7, <3>1, Zenon
    <3>2. CASE q = p
      BY <1>1, <1>3, <1>5, <1>6, <1>7, <3>2, ZenonT(30)
    <3>3. CASE q # p /\ q # current
      BY <1>1, <1>6, <1>7, <3>3, SMTT(30)
    <3> QED
      BY <3>1, <3>2, <3>3, ZenonT(30)
  <2>2. /\ state'[idleproc] = "RUNNABLE" /\ (state'[initproc] = "ZOMBIE" => panicked' # "no")
        /\ target'[initproc] = NULL
    BY <1>1, <1>4, <1>7, <1>11, ZenonT(30)
  <2>3. pc'[initproc] # "alone"
    BY <1>1, <1>4, <1>6, ZenonT(30)
  <2> QED
    BY <2>1, <2>2, <2>3, ZenonT(30)
<1>15. Current'
  BY <1>1, <1>5, <1>6, <1>7, <1>4, Zenon DEF Current
<1>16. RunQueueExact' /\ NoFailedAssertion'
  BY <1>10, <1>11, QueueListsNext, Zenon DEF IInv, NoFailedAssertion
<1>17. Tree'
  <2>1. \A q \in Process : pc'[q] \in {"reparent", "dead"} => pc'[q] = pc[q]
    BY <1>6, Zenon
  <2>2. \A q \in Process : pc[q] \in {"reparent", "dead"} => pc'[q] = pc[q]
    BY <1>5, <1>6, Zenon
  <2> QED
    BY <1>3, <1>4, <1>5, <2>1, <2>2, ForkTree, Zenon DEF IInv, Tree
<1>18. Waiting'
  <2> SUFFICES ASSUME NEW q \in Process, NEW d \in Process,
                      wait_state'[q] = "WT_CHILD", parent'[d] = q, state'[d] = "ZOMBIE",
                      target'[q] \in {NULL, d}
               PROVE  d = current' /\ pc'[d] = "notify"
    BY Zenon DEF Waiting
  <2>1. d # p /\ state[d] = "ZOMBIE" /\ parent[d] = q
    BY <1>7, <1>8, Zenon
  <2>2. d = current /\ pc[d] = "notify"
    BY <1>1, <2>1, Zenon DEF IInv, Waiting
  <2> QED
    BY <1>6, <2>2, Zenon
<1> QED
  BY <1>12, <1>13, <1>14, <1>15, <1>16, <1>17, <1>18, SMTT(30) DEF IInv, Tree

\* The child that do_wait reaps is a user process, a child of the caller, and past
\* the end of its do_exit.
LEMMA FirstZombie ==
  ASSUME CountingLaws, IInv, wait_found
  PROVE  \E c \in User :
           /\ parent[c] = current /\ state[c] = "ZOMBIE" /\ Reap(c)
           /\ pc' = [pc EXCEPT ![c] = "user",
                               ![current] = IF current = initproc THEN "reaped" ELSE "trapret"]
<1> DEFINE zombies == {c \in Candidates(current) : state[c] = "ZOMBIE"}
           walk    == Chain(current)
           hits    == {n \in DOMAIN walk : walk[n] \in zombies}
           first   == IF target[current] # NULL THEN target[current] ELSE walk[Min(hits)]
<1>1. /\ pc[current] = "repeat" /\ zombies # {} /\ Reap(first)
      /\ pc' = [pc EXCEPT ![first] = "user",
                          ![current] = IF current = initproc THEN "reaped" ELSE "trapret"]
  BY ZenonT(30) DEF wait_found, Running
<1>2. /\ current \in Process /\ current # idleproc /\ current # NULL
      /\ idleproc \in Process /\ initproc \in Process
  BY <1>1, AtLabel, ProcAssumption, ZenonT(30)
<1>3. first \in Process /\ parent[first] = current /\ state[first] = "ZOMBIE"
  <2>1. CASE target[current] # NULL
    <3>1. Candidates(current) = {c \in Linked \intersect {target[current]} : parent[c] = current}
      BY <2>1, Zenon DEF Candidates
    <3>2. \A c \in Linked : c \in Process
      BY Zenon DEF Linked
    <3> QED
      BY <1>1, <2>1, <3>1, <3>2, Zenon
  <2>2. CASE target[current] = NULL
    <3>1. Candidates(current) = Range(walk) \ {NULL}
      BY <2>2, Zenon DEF Candidates
    <3>2. Range(walk) \ {NULL} = {q \in Process : parent[q] = current}
      BY <1>1, <1>2, ChainExact, Zenon DEF IInv
    <3>3. walk \in [1 .. N -> Pointer] /\ N \in Nat
      BY <1>2, ChainSteps, Zenon DEF IInv
    <3> HIDE DEF walk
    <3>4. PICK z \in zombies : TRUE
      BY <1>1, Zenon
    <3>5. PICK n \in DOMAIN walk : walk[n] = z
      BY <3>1, <3>4, Zenon DEF Range
    <3>6. n \in hits /\ hits \subseteq Nat
      BY <3>3, <3>4, <3>5
    <3>7. Min(hits) \in hits
      BY <3>6, LeastIndex, Zenon
    <3>8. first = walk[Min(hits)] /\ first \in zombies
      BY <2>2, <3>7, Zenon
    <3> QED
      BY <3>1, <3>2, <3>8, Zenon
  <2> QED
    BY <2>1, <2>2, ZenonT(30)
<1> HIDE DEF first
<1>4. first \in User
  BY <1>2, <1>3, Zenon DEF IInv, Family, Process
<1> QED
  BY <1>1, <1>3, <1>4, ZenonT(30)

\* do_wait frees a zombie.
LEMMA ReapStep ==
  ASSUME CountingLaws, IInv, wait_found
  PROVE  IInv'
<1> DEFINE l == IF current = initproc THEN "reaped" ELSE "trapret"
<1>1. PICK c \in User : /\ parent[c] = current /\ state[c] = "ZOMBIE" /\ Reap(c)
                        /\ pc' = [pc EXCEPT ![c] = "user", ![current] = l]
  BY FirstZombie, Zenon
<1>2. /\ panicked = "no" /\ ~in_sched /\ pc[current] = "repeat"
      /\ current' = current /\ rq' = rq /\ wait_state' = wait_state /\ timer' = timer
      /\ in_sched' = in_sched
  BY Zenon DEF wait_found, Running
<1>3. /\ remove_links(c) /\ state' = [state EXCEPT ![c] = "UNINIT"]
      /\ exiting' = exiting \ {c} /\ need_resched' = need_resched \ {c}
      /\ time_slice' = [time_slice EXCEPT ![c] = 0]
      /\ target' = [target EXCEPT ![c] = NULL, ![current] = NULL]
  BY <1>1, Zenon DEF Reap
<1>4. /\ current \in Process /\ c \in Process /\ initproc \in Process /\ idleproc \in Process
      /\ c # initproc /\ c # idleproc /\ c # NULL /\ current # NULL /\ current # idleproc
      /\ NULL \notin Process
  BY <1>2, AtLabel, ProcAssumption, Zenon DEF Process
<1>5. /\ state[current] = "RUNNABLE" /\ wait_state[current] = "0" /\ c # current
  BY <1>1, <1>2, CurrentRuns, ZenonT(30)
<1>6. wait_state[c] = "0" /\ pc[c] = "dead" /\ ~(timer[c] > 0) /\ cptr[c] = NULL
  BY <1>1, <1>4, <1>5 DEF IInv, Life, Family
<1>7. panicked' = panicked
  <2>1. panicked' = IF c = initproc THEN "wait initproc" ELSE panicked
    BY <1>1, Zenon DEF Reap
  <2> QED
    BY <1>4, <2>1, Zenon
<1>8. /\ l \in UserLabel \cup InitLabel \cup {"cpu_idle"}
      /\ l \in {"reaped", "trapret"}
      /\ current \in User => l \in UserLabel
      /\ current = initproc => l \in InitLabel
  BY ProcAssumption, Zenon DEF UserLabel, InitLabel
<1> HIDE DEF l
<1>9. /\ pc' \in [Process -> UserLabel \cup InitLabel \cup {"cpu_idle"}]
      /\ \A q \in Process : pc'[q] = IF q = current THEN l ELSE IF q = c THEN "user" ELSE pc[q]
  <2>1. pc \in [Process -> UserLabel \cup InitLabel \cup {"cpu_idle"}] /\ "user" \in UserLabel
    BY ZenonT(30) DEF IInv, TypeOK, UserLabel
  <2> QED
    BY <1>1, <1>4, <1>8, <2>1, Zenon
<1>10. /\ state' \in [Process -> {"UNINIT", "RUNNABLE", "SLEEPING", "ZOMBIE"}]
       /\ \A q \in Process : state'[q] = IF q = c THEN "UNINIT" ELSE state[q]
  BY <1>3, <1>4 DEF IInv, TypeOK
<1>11. /\ target' \in [Process -> Pointer]
       /\ \A q \in Process : target'[q] = IF q = c \/ q = current THEN NULL ELSE target[q]
  BY <1>3, <1>4, Zenon DEF IInv, TypeOK, Pointer
<1>12. Tree'
  <2>1. /\ \A q \in Process : pc'[q] = "dead" => pc[q] = "dead"
        /\ \A q \in Process : pc[q] = "reparent" => pc'[q] = "reparent"
    BY <1>2, <1>6, <1>8, <1>9, Zenon
  <2> QED
    BY <1>1, <1>2, <1>3, <1>6, <2>1, ReapTree, ZenonT(30) DEF IInv, Tree
<1>13. /\ parent' \in [Process -> Pointer] /\ cptr' \in [Process -> Pointer]
       /\ yptr' \in [Process -> Pointer] /\ optr' \in [Process -> Pointer]
       /\ \A q \in Process : parent'[q] = IF q = c THEN NULL ELSE parent[q]
  <2>1. /\ parent \in [Process -> Pointer] /\ cptr \in [Process -> Pointer]
        /\ yptr \in [Process -> Pointer] /\ optr \in [Process -> Pointer]
        /\ yptr[c] \in Pointer /\ optr[c] \in Pointer /\ NULL \in Pointer
    BY <1>4, Zenon DEF IInv, TypeOK, Pointer
  <2>2. /\ yptr' = [Store(yptr, optr[c], yptr[c]) EXCEPT ![c] = NULL]
        /\ optr' = [Store(optr, yptr[c], optr[c]) EXCEPT ![c] = NULL]
        /\ cptr' = IF yptr[c] = NULL THEN [cptr EXCEPT ![parent[c]] = optr[c]] ELSE cptr
        /\ parent' = [parent EXCEPT ![c] = NULL]
    BY <1>3, Zenon DEF remove_links
  <2>3. yptr' \in [Process -> Pointer]
    BY <2>1, <2>2, Zenon DEF Store
  <2>4. optr' \in [Process -> Pointer]
    BY <2>1, <2>2, Zenon DEF Store
  <2>5. cptr' \in [Process -> Pointer] /\ parent' \in [Process -> Pointer]
    BY <2>1, <2>2, Zenon
  <2>6. \A q \in Process : parent'[q] = IF q = c THEN NULL ELSE parent[q]
    BY <2>1, <2>2, Zenon
  <2> QED
    BY <2>3, <2>4, <2>5, <2>6, Zenon
<1>14. TypeOK'
  <2>1. nr_process' \in Nat
    <3>1. Counted' /\ Linked' \in SUBSET Process
      BY <1>12, Zenon DEF Tree, Linked
    <3>2. Cardinality(Linked') \in Nat
      BY <3>1, Zenon DEF CountingLaws
    <3> QED
      BY <3>1, <3>2 DEF Counted
  <2>2. time_slice' \in [Process -> Nat]
    BY <1>3, <1>4, Zenon DEF IInv, TypeOK
  <2> QED
    BY <1>2, <1>3, <1>9, <1>10, <1>11, <1>13, <2>1, <2>2, ZenonT(30) DEF IInv, TypeOK
<1>15. Labels'
  <2>1. \A q \in User : q \in Process /\ "user" \in UserLabel
    BY Zenon DEF Process, UserLabel
  <2> QED
    BY <1>4, <1>8, <1>9, <2>1, Zenon DEF IInv, Labels
<1>16. Life'
  <2> USE DEF IInv, Life
  <2>1. ASSUME NEW q \in Process
        PROVE  /\ wait_state'[q] # "0" <=> state'[q] = "SLEEPING"
               /\ wait_state'[q] = "WT_CHILD" => pc'[q] = "woken"
               /\ wait_state'[q] = "WT_TIMER" => pc'[q] = "del_timer"
               /\ state'[q] = "ZOMBIE" <=> pc'[q] \in {"notify", "reparent", "dead"}
               /\ pc'[q] \in {"notify", "reparent"} => q = current' /\ ~in_sched'
               /\ timer'[q] > 0 => pc'[q] = "del_timer"
               /\ state'[q] = "UNINIT" => q \in User /\ pc'[q] = "user"
    <3>1. CASE q = current
      BY <1>2, <1>5, <1>8, <1>9, <1>10, <3>1, ZenonT(30)
    <3>2. CASE q = c
      BY <1>2, <1>5, <1>6, <1>9, <1>10, <3>2, ZenonT(30)
    <3>3. CASE q # c /\ q # current
      BY <1>2, <1>9, <1>10, <3>3, ZenonT(30)
    <3> QED
      BY <3>1, <3>2, <3>3, Zenon
  <2>2. /\ state'[idleproc] = "RUNNABLE" /\ (state'[initproc] = "ZOMBIE" => panicked' # "no")
        /\ target'[initproc] = NULL
    BY <1>4, <1>7, <1>10, <1>11, SMTT(30)
  <2>3. pc'[initproc] # "alone"
    BY <1>2, <1>4, <1>8, <1>9, ZenonT(30)
  <2> QED
    BY <2>1, <2>2, <2>3, ZenonT(30)
<1>17. Current'
  BY <1>2, <1>4, <1>5, <1>8, <1>9, <1>10, Zenon DEF Current
<1>18. RunQueueExact' /\ NoFailedAssertion'
  <2>1. Queued' = Queued
    BY <1>1, <1>2, <1>10, Zenon DEF Queued
  <2>2. Lists(rq', Queued')
    BY <1>2, <2>1, QueueLists, Zenon DEF IInv
  <2> QED
    BY <1>7, <2>2, QueueListsNext, Zenon DEF Lists, IInv, NoFailedAssertion
<1>19. Waiting'
  <2> SUFFICES ASSUME NEW q \in Process, NEW d \in Process,
                      wait_state'[q] = "WT_CHILD", parent'[d] = q, state'[d] = "ZOMBIE",
                      target'[q] \in {NULL, d}
               PROVE  FALSE
    BY Zenon DEF Waiting
  <2>1. d # c /\ state[d] = "ZOMBIE" /\ parent[d] = q /\ wait_state[q] = "WT_CHILD"
    BY <1>2, <1>4, <1>10, <1>13, ZenonT(30)
  <2>2. q # c /\ q # current
    BY <1>5, <1>6, <2>1, Zenon
  <2>3. target[q] \in {NULL, d}
    BY <1>11, <2>2, Zenon
  <2>4. d = current /\ pc[d] = "notify"
    BY <2>1, <2>3, Zenon DEF IInv, Waiting
  <2> QED
    BY <1>2, <2>4, Zenon
<1> QED
  BY <1>14, <1>15, <1>16, <1>17, <1>18, <1>12, <1>19, ZenonT(30) DEF IInv, Tree

\* The assertions at the end of init_main hold when initproc has no child left.
LEMMA AloneStep ==
  ASSUME CountingLaws, IInv, init_alone
  PROVE  IInv'
<1>1. pc[current] = "alone"
  BY Zenon DEF init_alone, Running
<1>2. /\ current = initproc /\ initproc \in Process /\ idleproc \in Process
      /\ idleproc # initproc /\ initproc # NULL /\ idleproc # NULL /\ initproc \notin User
      /\ \A q \in Process : parent[q] # initproc
  BY <1>1, AtLabel, ProcAssumption, Zenon DEF UserLabel, IInv, Life, Process
<1>3. /\ parent \in [Process -> Pointer] /\ cptr \in [Process -> Pointer]
      /\ yptr \in [Process -> Pointer] /\ optr \in [Process -> Pointer]
      /\ \A x \in Pointer : x # NULL => x \in Process
  BY Zenon DEF IInv, TypeOK, Pointer
<1>4. cptr[initproc] = NULL
  BY <1>2, <1>3, Zenon DEF IInv, Heads
<1>5. /\ parent[initproc] = idleproc
      /\ \A q \in Process : parent[q] = idleproc => q = initproc
  BY <1>2, Zenon DEF IInv, Family
<1>6. yptr[initproc] # initproc
  <2>1. {initproc} \in SUBSET Process /\ {initproc} # {}
    BY <1>2, Zenon
  <2>2. \E q \in {initproc} : yptr[q] \notin {initproc}
    BY <2>1, Zenon DEF IInv, Acyclic
  <2> QED
    BY <2>2, Zenon
<1>7. optr[initproc] = NULL
  <2> SUFFICES ASSUME optr[initproc] # NULL
               PROVE  FALSE
    BY Zenon
  <2>1. parent[optr[initproc]] = idleproc /\ yptr[optr[initproc]] = initproc
    BY <1>2, <1>5, Zenon DEF IInv, Siblings
  <2>2. optr[initproc] = initproc
    BY <1>2, <1>3, <1>5, <2>1, Zenon
  <2> QED
    BY <1>6, <2>1, <2>2, Zenon
<1>8. yptr[initproc] = NULL
  <2>1. cptr[idleproc] = initproc
    <3> SUFFICES ASSUME cptr[idleproc] # initproc
                 PROVE  FALSE
      BY Zenon
    <3>1. yptr[initproc] # NULL /\ parent[yptr[initproc]] = idleproc
      BY <1>2, <1>5, Zenon DEF IInv, Siblings
    <3> QED
      BY <1>2, <1>3, <1>5, <1>6, <3>1, Zenon
  <2>2. pc[idleproc] # "reparent"
    BY Zenon DEF IInv, Labels
  <2> QED
    BY <1>2, <2>1, <2>2, Zenon DEF IInv, Heads
<1>9. Linked = {initproc}
  <2> DEFINE S == Linked \ {initproc}
  <2>1. initproc \in Linked
    BY <1>2, Zenon DEF Linked, IInv, Life
  <2>2. S = {}
    <3> SUFFICES ASSUME S # {}
                 PROVE  FALSE
      BY Zenon
    <3>1. S \in SUBSET Process
      BY Zenon DEF Linked
    <3>2. PICK q \in S : parent[q] \notin S
      BY <3>1, Zenon DEF IInv, Acyclic
    <3>3. q \in Process /\ q # initproc /\ q # idleproc /\ state[q] # "UNINIT"
      BY Zenon DEF Linked
    <3>4. parent[q] # NULL /\ parent[q] # idleproc /\ state[parent[q]] # "UNINIT"
      BY <3>3, Zenon DEF IInv, Family
    <3>5. parent[q] \in Process /\ parent[q] # initproc
      BY <1>2, <1>3, <3>3, <3>4, Zenon
    <3>6. parent[q] \in S
      BY <3>4, <3>5, Zenon DEF Linked
    <3> QED
      BY <3>2, <3>6, Zenon
  <2> QED
    BY <2>1, <2>2, Zenon
<1>10. nr_process = 2
  <2>1. Cardinality({initproc}) = 1
    BY CountOneLess, Zenon DEF Process
  <2>2. nr_process = Cardinality(Linked) + 1
    BY Zenon DEF IInv, Counted
  <2> QED
    BY <1>9, <2>1, <2>2
<1>11. panicked' = "initproc exit"
  BY <1>4, <1>7, <1>8, <1>9, <1>10, Zenon DEF init_alone
<1>12. /\ current' = current /\ state' = state /\ wait_state' = wait_state
       /\ exiting' = exiting /\ need_resched' = need_resched /\ time_slice' = time_slice
       /\ rq' = rq /\ timer' = timer /\ parent' = parent /\ cptr' = cptr /\ yptr' = yptr
       /\ optr' = optr /\ nr_process' = nr_process /\ pc' = pc /\ target' = target
       /\ in_sched' = in_sched
  BY Zenon DEF init_alone, sched, links
<1>13. TypeOK' /\ Labels' /\ Current' /\ Waiting'
  BY <1>12, Zenon DEF IInv, TypeOK, Labels, Current, Waiting
<1>14. Family' /\ Heads' /\ Siblings' /\ Acyclic'
  BY <1>12, ZenonT(30) DEF IInv, Family, Heads, Siblings, Acyclic
<1>15. Counted' /\ RunQueueExact'
  BY <1>12, Zenon DEF IInv, Counted, Linked, RunQueueExact
<1>16. NoFailedAssertion'
  BY <1>11, Zenon DEF NoFailedAssertion
<1>17. Life'
  <2>1. panicked' # "no"
    BY <1>11, Zenon
  <2> QED
    BY <1>12, <2>1, Zenon DEF IInv, Life
<1> QED
  BY <1>13, <1>14, <1>15, <1>16, <1>17 DEF IInv

\* Nothing changes.
LEMMA StutterStep ==
  ASSUME IInv, UNCHANGED vars
  PROVE  IInv'
<1>1. /\ current' = current /\ state' = state /\ wait_state' = wait_state
      /\ exiting' = exiting /\ need_resched' = need_resched /\ time_slice' = time_slice
      /\ rq' = rq /\ timer' = timer /\ parent' = parent /\ cptr' = cptr /\ yptr' = yptr
      /\ optr' = optr /\ nr_process' = nr_process /\ pc' = pc /\ target' = target
      /\ in_sched' = in_sched /\ panicked' = panicked
  BY Zenon DEF vars
<1>2. TypeOK' /\ Labels' /\ Current' /\ Waiting' /\ Life'
  BY <1>1, ZenonT(30) DEF IInv, TypeOK, Labels, Current, Waiting, Life
<1>3. Family' /\ Heads' /\ Siblings' /\ Acyclic'
  BY <1>1, ZenonT(30) DEF IInv, Family, Heads, Siblings, Acyclic
<1>4. Counted' /\ RunQueueExact' /\ NoFailedAssertion'
  BY <1>1, Zenon DEF IInv, Counted, Linked, RunQueueExact, NoFailedAssertion
<1> QED
  BY <1>2, <1>3, <1>4, Zenon DEF IInv

\* proc_init establishes the invariant.
LEMMA InitHolds ==
  ASSUME CountingLaws, Init
  PROVE  IInv
<1>1. /\ idleproc \in Process /\ initproc \in Process /\ idleproc # initproc
      /\ idleproc \notin User /\ initproc \notin User /\ NULL \notin Process
      /\ \A p \in User : p \in Process
      /\ \A p \in Process : p \in User \/ p = idleproc \/ p = initproc
  BY ProcAssumption, Zenon DEF Process
<1>2. /\ current = idleproc /\ exiting = {} /\ need_resched = {idleproc} /\ rq = <<initproc>>
      /\ nr_process = 2 /\ in_sched = FALSE
      /\ \A p \in Process : state[p] = IF p \in User THEN "UNINIT" ELSE "RUNNABLE"
      /\ \A p \in Process : wait_state[p] = "0"
      /\ \A p \in Process : timer[p] = 0
      /\ \A p \in Process : parent[p] = IF p = initproc THEN idleproc ELSE NULL
      /\ \A p \in Process : cptr[p] = IF p = idleproc THEN initproc ELSE NULL
      /\ \A p \in Process : yptr[p] = NULL
      /\ \A p \in Process : optr[p] = NULL
      /\ \A p \in Process : target[p] = NULL
  BY Zenon DEF Init
<1>3. \A p \in Process : pc[p] = IF p = idleproc THEN "cpu_idle"
                                 ELSE IF p = initproc THEN "init_main" ELSE "user"
  BY <1>1, Zenon DEF Init
<1>4. TypeOK
  <2>1. time_slice \in [Process -> Nat]
    BY ProcAssumption, Zenon DEF Init
  <2>2. pc \in [Process -> UserLabel \cup InitLabel \cup {"cpu_idle"}]
    <3>1. pc = [p \in Process |-> pc[p]]
      BY DEF Init
    <3>2. \A p \in Process : pc[p] \in UserLabel \cup InitLabel \cup {"cpu_idle"}
      BY <1>3, Zenon DEF UserLabel, InitLabel
    <3> QED
      BY <3>1, <3>2, Zenon
  <2>3. /\ state \in [Process -> {"UNINIT", "RUNNABLE", "SLEEPING", "ZOMBIE"}]
        /\ wait_state \in [Process -> {"0", "WT_CHILD", "WT_TIMER"}]
        /\ timer \in [Process -> Nat]
    BY Zenon DEF Init
  <2>4. /\ parent \in [Process -> Pointer] /\ cptr \in [Process -> Pointer]
        /\ yptr \in [Process -> Pointer] /\ optr \in [Process -> Pointer]
        /\ target \in [Process -> Pointer]
    BY <1>1, Zenon DEF Init, Pointer
  <2>5. rq \in Seq(Process)
    BY <1>1, <1>2
  <2>6. /\ current \in Process /\ exiting \in SUBSET Process /\ need_resched \in SUBSET Process
        /\ in_sched \in BOOLEAN /\ nr_process \in Nat
    BY <1>1, <1>2, ZenonT(30)
  <2> QED
    BY <2>1, <2>2, <2>3, <2>4, <2>5, <2>6, Zenon DEF TypeOK
<1>5. Labels
  BY <1>1, <1>3, Zenon DEF Labels, UserLabel, InitLabel
<1>6. Life
  BY <1>1, <1>2, <1>3, SMTT(30) DEF Life
<1>7. Current
  BY <1>1, <1>2, <1>3, Zenon DEF Current
<1>8. RunQueueExact
  <2>1. /\ <<initproc>> \in Seq(Process) /\ DOMAIN <<initproc>> = {1}
        /\ <<initproc>>[1] = initproc
    BY <1>1
  <2>2. Lists(<<initproc>>, {initproc})
    BY <2>1, Zenon DEF Lists, Range
  <2>3. Queued = {initproc}
    BY <1>1, <1>2 DEF Queued
  <2> QED
    BY <1>2, <1>4, <2>2, <2>3, QueueLists, Zenon
<1>9. NoFailedAssertion
  BY Zenon DEF Init, NoFailedAssertion
<1>10. Family
  BY <1>1, <1>2, <1>3, SMTT(30) DEF Family
<1>11. Heads
  BY <1>1, <1>2, SMTT(30) DEF Heads
<1>12. Siblings
  BY <1>1, <1>2, Zenon DEF Siblings
<1>13. Acyclic
  <2> SUFFICES ASSUME NEW S \in SUBSET Process, S # {}
               PROVE  (\E q \in S : parent[q] \notin S) /\ (\E q \in S : yptr[q] \notin S)
    BY Zenon DEF Acyclic
  <2>1. PICK q \in S : TRUE
    BY Zenon
  <2>2. yptr[q] \notin S
    BY <1>1, <1>2
  <2>3. \E r \in S : parent[r] \notin S
    <3>1. CASE idleproc \in S
      BY <1>1, <1>2, <3>1, SMTT(30)
    <3>2. CASE idleproc \notin S
      BY <1>1, <1>2, <2>1, <3>2, SMTT(30)
    <3> QED
      BY <3>1, <3>2, ZenonT(30)
  <2> QED
    BY <2>2, <2>3, Zenon
<1>14. Counted
  <2>1. Linked = {initproc}
    BY <1>1, <1>2 DEF Linked
  <2>2. Cardinality({initproc}) = 1
    BY CountOneLess, Zenon DEF Process
  <2> QED
    BY <1>2, <2>1, <2>2 DEF Counted
<1>15. Waiting
  BY <1>2, Zenon DEF Waiting
<1> QED
  BY <1>4, <1>5, <1>6, <1>7, <1>8, <1>9, <1>10, <1>11, <1>12, <1>13, <1>14, <1>15, Zenon DEF IInv

-----------------------------------------------------------------------------
(* The theorems *)

\* Every step of the kernel, the programs and the timer keeps the invariant.
LEMMA NextHolds ==
  ASSUME CountingLaws, IInv, [Next]_vars
  PROVE  IInv'
<1>1. CASE UNCHANGED vars
  BY <1>1, StutterStep, Zenon
<1>2. CASE Schedule
  BY <1>2, ScheduleStep, Zenon
<1>3. CASE sleep_return \/ wait_woken \/ wait_none \/ trap_return \/ cpu_idle \/ init_reaped
  BY <1>3, QuietActions, Zenon
<1>4. CASE wait_found
  BY <1>4, ReapStep, Zenon
<1>5. CASE wait_block \/ sys_sleep
  BY <1>5, BlockStep, ZenonT(30)
<1>6. CASE exit_zombie
  BY <1>6, ZombieStep, Zenon
<1>7. CASE exit_notify
  BY <1>7, NotifyStep, Zenon
<1>8. CASE exit_reparent
  BY <1>8, OrphanStep, Zenon
<1>9. CASE exit_schedule
  BY <1>9, DeadStep, Zenon
<1>10. CASE init_start \/ sys_fork
  BY <1>10, ForkStep, Zenon
<1>11. CASE init_alone
  BY <1>11, AloneStep, Zenon
<1>12. CASE sys_nothing \/ sys_yield \/ sys_wait \/ sys_exit
  BY <1>12, QuietActions
<1>13. CASE sys_kill
  BY <1>13, KillStep, Zenon
<1>14. CASE TimerInterrupt
  BY <1>14, TimerStep, Zenon
<1>15. CASE Halted
  BY <1>15, StutterStep, Zenon DEF Halted
<1> QED
  BY <1>1, <1>2, <1>3, <1>4, <1>5, <1>6, <1>7, <1>8, <1>9, <1>10, <1>11, <1>12, <1>13, <1>14,
     <1>15, ZenonT(30) DEF Next, Kernel, Syscall

\* The walk along cptr and optr meets exactly the children of a process.
LEMMA WalkMeetsChildren ==
  ASSUME CountingLaws, IInv
  PROVE  ChildListsExact
<1>1. TypeOK /\ Heads /\ Siblings /\ Acyclic
  BY Zenon DEF IInv
<1> QED
  BY <1>1, ChainExact, Zenon DEF ChildListsExact

\* A process asleep in do_wait sleeps on children of its own, and none of them
\* is a zombie, but for one about to wake it.
LEMMA WaitersAreWoken ==
  ASSUME CountingLaws, IInv
  PROVE  NoLostChild
<1> SUFFICES ASSUME NEW p \in Process, wait_state[p] = "WT_CHILD", NEW c \in Candidates(p)
             PROVE  /\ parent[c] = p
                    /\ state[c] = "ZOMBIE" => c = current /\ pc[c] = "notify"
  BY Zenon DEF NoLostChild
<1>1. pc[p] # "reparent"
  BY Zenon DEF IInv, Life
<1>2. c \in Process /\ parent[c] = p /\ target[p] \in {NULL, c}
  <2>1. CASE target[p] = NULL
    <3>1. c \in Range(Chain(p)) \ {NULL}
      BY <2>1, Zenon DEF Candidates
    <3>2. TypeOK /\ Heads /\ Siblings /\ Acyclic
      BY Zenon DEF IInv
    <3>3. Range(Chain(p)) \ {NULL} = {q \in Process : parent[q] = p}
      BY <1>1, <3>2, ChainExact, Zenon
    <3> QED
      BY <2>1, <3>1, <3>3, Zenon
  <2>2. CASE target[p] # NULL
    BY <2>2, Zenon DEF Candidates, Linked
  <2> QED
    BY <2>1, <2>2, Zenon
<1> QED
  BY <1>2, Zenon DEF IInv, Waiting

-----------------------------------------------------------------------------
(* Counting *)

LOCAL Fin == INSTANCE FiniteSetTheorems

\* The library's finite sets and cardinalities are the ones of Proc.
LEMMA SameCounting ==
  /\ \A S : Fin!IsFiniteSet(S) <=> IsFiniteSet(S)
  /\ \A S : Fin!Cardinality(S) = Cardinality(S)
<1>1. \A S : Fin!IsFiniteSet(S) <=> IsFiniteSet(S)
  BY Zenon DEF IsFiniteSet, Fin!IsFiniteSet
<1>2. \A S : Fin!Cardinality(S) = Cardinality(S)
  BY Zenon DEF Cardinality, Fin!Cardinality
<1> QED
  BY <1>1, <1>2, ZenonT(30)

\* Every set of processes is finite.
LEMMA FiniteProcess == \A S \in SUBSET Process : Fin!IsFiniteSet(S)
<1>1. /\ Fin!IsFiniteSet(User \cup {idleproc})
      /\ Fin!IsFiniteSet((User \cup {idleproc}) \cup {initproc})
  BY ProcAssumption, SameCounting, Fin!FS_AddElement, ZenonT(30)
<1>2. Process = (User \cup {idleproc}) \cup {initproc}
  BY DEF Process
<1> QED
  BY <1>1, <1>2, Fin!FS_Subset, ZenonT(30)

\* Finitely many processes can be counted; numbers are well ordered.
LEMMA CountingHolds == CountingLaws
<1>1. ASSUME NEW T \in SUBSET Nat, T # {}
      PROVE  \E x \in T : \A y \in T : x <= y
  <2>1. \E x \in T : \A y \in T : ~(<<y, x>> \in Fin!OpToRel(<, Nat))
    BY <1>1, Fin!WFMin, Fin!NatLessThanWellFounded, ZenonT(30)
  <2>2. ASSUME NEW x \in T, NEW y \in T, y < x
        PROVE  <<y, x>> \in Fin!OpToRel(<, Nat)
    <3>1. <<y, x>> \in Nat \X Nat /\ <<y, x>>[1] = y /\ <<y, x>>[2] = x
      BY Zenon
    <3> QED
      BY <2>2, <3>1, ZenonT(30) DEF Fin!OpToRel
  <2>3. \A x, y \in T : x \in Int /\ y \in Int
    OBVIOUS
  <2>4. \E x \in T : \A y \in T : ~(y < x)
    BY <2>1, <2>2, Zenon
  <2> QED
    BY <2>3, <2>4
<1>2. ASSUME NEW S \in SUBSET Process
      PROVE  /\ Cardinality(S) \in Nat
             /\ Cardinality(S) = 0 <=> S = {}
             /\ \A p \in Process \ S : Cardinality(S \cup {p}) = Cardinality(S) + 1
  <2>1. Fin!IsFiniteSet(S) /\ Cardinality(S) = Fin!Cardinality(S)
    BY FiniteProcess, SameCounting, Zenon
  <2>2. Cardinality(S) \in Nat
    BY <2>1, Fin!FS_CardinalityType, Zenon
  <2>3. Cardinality(S) = 0 <=> S = {}
    BY <2>1, Fin!FS_EmptySet, ZenonT(30)
  <2>4. ASSUME NEW p \in Process \ S
        PROVE  Cardinality(S \cup {p}) = Cardinality(S) + 1
    <3>1. p \notin S /\ Cardinality(S \cup {p}) = Fin!Cardinality(S \cup {p})
      BY SameCounting, Zenon
    <3> QED
      BY <2>1, <3>1, Fin!FS_AddElement, ZenonT(30)
  <2> QED
    BY <2>2, <2>3, <2>4, Zenon
<1>3. ASSUME NEW S \in SUBSET Process, NEW n \in Nat, NEW f \in [1 .. n -> S],
             \A i, j \in 1 .. n : f[i] = f[j] => i = j
      PROVE  n <= Cardinality(S)
  <2>1. f \in Fin!Injection(1 .. n, S)
    BY <1>3, Zenon DEF Fin!Injection, Fin!IsInjective
  <2>2. Fin!Cardinality(1 .. n) <= Fin!Cardinality(S)
    BY <2>1, FiniteProcess, Fin!FS_Injection, ZenonT(30)
  <2>3. Fin!Cardinality(1 .. n) = IF 1 > n THEN 0 ELSE n - 1 + 1
    BY Fin!FS_Interval
  <2>4. Fin!Cardinality(S) = Cardinality(S)
    BY SameCounting, Zenon
  <2> QED
    BY <2>2, <2>3, <2>4
<1> QED
  BY <1>1, <1>2, <1>3, ZenonT(30) DEF CountingLaws

-----------------------------------------------------------------------------
(* The theorems *)

\* The proc_structs, the run queue and the tree of any number of processes keep
\* to the inductive invariant.
THEOREM ProcInvariant == Spec => []IInv
<1>1. Init => IInv
  BY CountingHolds, InitHolds, Zenon
<1>2. IInv /\ [Next]_vars => IInv'
  BY CountingHolds, NextHolds, Zenon
<1> QED
  BY <1>1, <1>2, PTL DEF Spec

\* No assertion of wakeup_proc, RR_enqueue, do_fork, do_wait or init_main fails:
\* the kernel stops only because initproc exits.
THEOREM KernelNeverPanics == Spec => []NoFailedAssertion
<1>1. IInv => NoFailedAssertion
  BY SMTT(30) DEF IInv
<1> QED
  BY <1>1, ProcInvariant, PTL

\* The run list holds each runnable process that does not run once, and no other.
THEOREM RunQueueIsExact == Spec => []RunQueueExact
<1>1. IInv => RunQueueExact
  BY ZenonT(30) DEF IInv
<1> QED
  BY <1>1, ProcInvariant, PTL

\* The walk along cptr and optr meets exactly the children, for any process tree.
THEOREM ChildListsAreExact == Spec => []ChildListsExact
<1>1. IInv => ChildListsExact
  BY CountingHolds, WalkMeetsChildren, ZenonT(30)
<1> QED
  BY <1>1, ProcInvariant, PTL

\* A process asleep in do_wait is woken for every zombie it waits for.
THEOREM NoChildIsLost == Spec => []NoLostChild
<1>1. IInv => NoLostChild
  BY CountingHolds, WaitersAreWoken, Zenon
<1> QED
  BY <1>1, ProcInvariant, PTL
=============================================================================
