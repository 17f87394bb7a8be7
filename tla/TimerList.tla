------------------------------ MODULE TimerList -----------------------------
(***************************************************************************)
(* The delta list of timers of kern/schedule/sched.c: add_timer and        *)
(* run_timer_list, one action per round of their loops, and del_timer, as  *)
(* do_sleep, do_kill and the timer interrupt use them.                     *)
(*                                                                         *)
(* A timer on the list holds the ticks that it fires after the one before  *)
(* it.  Interrupts are off in all three functions, so nothing comes        *)
(* between the rounds of a loop.  left is a history variable: it records   *)
(* the time that do_sleep asked for, counted down tick by tick, and no     *)
(* step depends on it.                                                     *)
(***************************************************************************)
EXTENDS Lists

CONSTANTS Proc,
          MaxSleep,         \* bound: the longest sleep
          NoProc

ASSUME TimerAssumption == MaxSleep \in Nat /\ NoProc \notin Proc

VARIABLES timer_list,       \* the processes whose timers are listed, in order
          expires,          \* timer->expires
          waiting,          \* wait_state = WT_TIMER
          insleep,          \* processes in do_sleep
          pc,               \* "idle", or the loop under way: "add" or "run"
          timer,            \* add_timer's argument
          at,               \* add_timer's le, as a position
          left

vars == <<timer_list, expires, waiting, insleep, pc, timer, at, left>>

Init == /\ timer_list = <<>>
        /\ expires = [p \in Proc |-> 0]
        /\ waiting = {}
        /\ insleep = {}
        /\ pc = "idle"
        /\ timer = NoProc
        /\ at = 1
        /\ left = [p \in Proc |-> 0]

-----------------------------------------------------------------------------
\* do_sleep(t) by p, up to the loop of add_timer.
do_sleep(p, t) == /\ pc = "idle"
                  /\ p \notin insleep
                  /\ insleep' = insleep \union {p}
                  /\ waiting' = waiting \union {p}
                  /\ expires' = [expires EXCEPT ![p] = t]
                  /\ left' = [left EXCEPT ![p] = t]
                  /\ pc' = "add" /\ timer' = p /\ at' = 1
                  /\ UNCHANGED timer_list

\* The timer fires after the one at le, or with it.
AddPass == /\ pc = "add"
           /\ at <= Len(timer_list)
           /\ expires[timer] >= expires[timer_list[at]]
           /\ expires' = [expires EXCEPT ![timer] = @ - expires[timer_list[at]]]
           /\ at' = at + 1
           /\ UNCHANGED <<timer_list, waiting, insleep, pc, timer, left>>

\* list_add_before(le, timer), the end of add_timer.
AddBefore == /\ timer_list' = list_add_before(timer_list, at, timer)
             /\ pc' = "idle" /\ timer' = NoProc /\ at' = 1
             /\ UNCHANGED <<waiting, insleep, left>>

\* It fires before the one at le, which from now on counts from it.
AddHere == /\ pc = "add"
           /\ at <= Len(timer_list)
           /\ expires[timer] < expires[timer_list[at]]
           /\ expires' = [expires EXCEPT ![timer_list[at]] = @ - expires[timer]]
           /\ AddBefore

AddEnd == /\ pc = "add"
          /\ at > Len(timer_list)
          /\ UNCHANGED expires
          /\ AddBefore

\* What del_timer(p) leaves of expires, when p is at position i: the next timer
\* takes over its count.  Seeded fault: the count is dropped.
HandedOnNot(i) == expires

HandedOn(i) == IF i < Len(timer_list)
               THEN [expires EXCEPT ![timer_list[i + 1]] = @ + expires[timer_list[i]]]
               ELSE expires

\* p runs again after schedule() in do_sleep: del_timer, then return.
sleep_return(p) ==
  /\ pc = "idle"
  /\ p \in insleep \ waiting
  /\ insleep' = insleep \ {p}
  /\ IF p \in Range(timer_list)
     THEN \E i \in DOMAIN timer_list :
            /\ timer_list[i] = p
            /\ expires' = HandedOn(i)
            /\ timer_list' = list_del(timer_list, i)
     ELSE UNCHANGED <<expires, timer_list>>
  /\ left' = [left EXCEPT ![p] = 0]
  /\ UNCHANGED <<waiting, pc, timer, at>>

\* do_kill wakes p; its timer stays on the list until p runs.
do_kill(p) == /\ pc = "idle"
              /\ p \in waiting
              /\ waiting' = waiting \ {p}
              /\ UNCHANGED <<timer_list, expires, insleep, pc, timer, at, left>>

\* Seeded fault: a list of one timer is taken for an empty one.
TickNotSingle == /\ pc = "idle"
                 /\ Len(timer_list) > 1
                 /\ expires' = [expires EXCEPT ![Head(timer_list)] = @ - 1]
                 /\ left' = [p \in Proc |-> IF left[p] > 0 THEN left[p] - 1 ELSE 0]
                 /\ pc' = "run"
                 /\ UNCHANGED <<timer_list, waiting, insleep, timer, at>>

\* run_timer_list takes one tick off the first timer, so off them all.
Tick == /\ pc = "idle"
        /\ timer_list # <<>>
        /\ expires' = [expires EXCEPT ![Head(timer_list)] = @ - 1]
        /\ left' = [p \in Proc |-> IF left[p] > 0 THEN left[p] - 1 ELSE 0]
        /\ pc' = "run"
        /\ UNCHANGED <<timer_list, waiting, insleep, timer, at>>

\* Seeded fault: everybody is woken.
RunWakeAll == /\ pc = "run"
              /\ timer_list # <<>>
              /\ expires[Head(timer_list)] = 0
              /\ waiting' = {}
              /\ timer_list' = Tail(timer_list)
              /\ UNCHANGED <<expires, insleep, pc, timer, at, left>>

\* wakeup_proc and del_timer for a timer that has run out.
RunWake == /\ pc = "run"
           /\ timer_list # <<>>
           /\ expires[Head(timer_list)] = 0
           /\ waiting' = waiting \ {Head(timer_list)}
           /\ timer_list' = Tail(timer_list)
           /\ UNCHANGED <<expires, insleep, pc, timer, at, left>>

RunEnd == /\ pc = "run"
          /\ timer_list # <<>> => expires[Head(timer_list)] # 0
          /\ pc' = "idle"
          /\ UNCHANGED <<timer_list, expires, waiting, insleep, timer, at, left>>

Loop == AddPass \/ AddHere \/ AddEnd \/ RunWake \/ RunEnd

Next == \/ \E p \in Proc : \/ \E t \in 1 .. MaxSleep : do_sleep(p, t)
                           \/ sleep_return(p)
                           \/ do_kill(p)
        \/ Tick
        \/ Loop

Spec == Init /\ [][Next]_vars

\* An assumption on the hardware (see TicksServed of Proc): the request of the
\* timer stays pending until it is served, so other calls do not put it off for
\* ever.
TicksServed == SF_vars(Tick)

\* Loops run on.
FairSpec == Spec /\ WF_vars(Loop) /\ TicksServed

-----------------------------------------------------------------------------
TypeOK == /\ timer_list \in Seq(Proc)
          /\ expires \in [Proc -> Nat]
          /\ waiting \subseteq insleep
          /\ insleep \subseteq Proc
          /\ pc \in {"idle", "add", "run"}
          /\ timer \in Proc \union {NoProc}
          /\ pc = "add" <=> timer # NoProc
          /\ at \in 1 .. Len(timer_list) + 1
          /\ pc # "add" => at = 1
          /\ left \in [Proc -> Nat]

(***************************************************************************)
(* The counts on the list are differences: the time left of a timer is     *)
(* that of the timer before it plus its own count.  It holds through every *)
(* insertion, tick, expiry and removal, also of a killed process's timer.  *)
(***************************************************************************)
Before(i) == IF i = 1 THEN 0 ELSE left[timer_list[i - 1]]

DeltasExact ==
  /\ \A i \in DOMAIN timer_list :
       left[timer_list[i]] = Before(i) + expires[timer_list[i]]
  /\ pc = "add" => left[timer] = Before(at) + expires[timer]

(***************************************************************************)
(* run_timer_list's assert(timer->expires != 0) on the first timer.        *)
(***************************************************************************)
HeadCounts == pc = "idle" /\ timer_list # <<>> => expires[Head(timer_list)] # 0

(***************************************************************************)
(* A process waits on its timer only while the timer is to fire: when      *)
(* run_timer_list is done, everybody whose time has come is awake.         *)
(***************************************************************************)
NoOversleep == pc # "run" => \A p \in waiting : left[p] > 0

\* Every sleeper wakes.
SleepersWake == \A p \in Proc : p \in waiting ~> p \notin waiting

(***************************************************************************)
(* The list implements the timers of TimerSpec: nobody wakes early or      *)
(* late.  In run_timer_list, those whose time has come count as awake.     *)
(***************************************************************************)
Abstract == INSTANCE TimerSpec WITH waiting <- {p \in waiting : left[p] > 0}

Implements == Abstract!Spec
=============================================================================
