------------------------------- MODULE Stdin -------------------------------
(***************************************************************************)
(* Characters on their way from the serial port to the processes that read *)
(* standard input: the interrupt handler with console.c's buffer, the ring *)
(* of dev_stdin.c with its wait queue, and kill.                           *)
(*                                                                         *)
(* The kernel runs with interrupts off and is not preempted: between two   *)
(* calls of schedule only the serial port acts.  The interrupt is taken in *)
(* user mode and in the idle thread.  A step is one round of a loop.       *)
(* Characters are numbered as they arrive, 0 is NUL.                       *)
(***************************************************************************)
EXTENDS Integers, Sequences, Functions

CONSTANTS Reader,          \* processes
          idle,
          STDIN_BUFSIZE,
          MaxLen,          \* bound on the length of a read
          MaxChar          \* bound on the characters that arrive

ASSUME StdinAssumption == /\ idle \notin Reader
                          /\ STDIN_BUFSIZE \in Nat \ {0}
                          /\ MaxLen \in Nat \ {0}
                          /\ MaxChar \in Nat

NUL == 0
None == -1                 \* serial_proc_data's answer when there is nothing

VARIABLES port,            \* the character the serial port holds, or None
          cons,            \* console.c's buffer, which is far from full
          stdin_buffer, p_rpos, p_wpos,
          wait_queue,      \* those whose wait is linked in it, in any order
          running,         \* the process that has the CPU, or idle
          handling,        \* its handler of the port: "no", "poll" or "polled"
          pc,              \* "user", "read", "wait" (in schedule) or "dead"
          asleep,          \* PROC_SLEEPING, with wait_state WT_KBD
          wakeup_flags,
          exiting,         \* PF_EXITING
          len, ret,        \* of dev_stdin_read
          came,            \* history: characters that arrived
          taken, got,      \* history: characters read from the port, and by readers
          overrun          \* history: a character has met a full ring

ring == <<stdin_buffer, p_rpos, p_wpos>>
procs == <<pc, asleep, wakeup_flags, exiting>>
vars == <<port, cons, ring, wait_queue, running, handling, procs, len, ret,
          came, taken, got, overrun>>

Init == /\ port = None /\ cons = <<>>
        /\ stdin_buffer = [i \in 0 .. STDIN_BUFSIZE - 1 |-> NUL]
        /\ p_rpos = 0 /\ p_wpos = 0
        /\ wait_queue = {}
        /\ running = idle /\ handling = "no"
        /\ pc = [p \in Reader |-> "user"]
        /\ asleep = [p \in Reader |-> FALSE]
        /\ wakeup_flags = [p \in Reader |-> "INTERRUPTED"]
        /\ exiting = [p \in Reader |-> FALSE]
        /\ len = [p \in Reader |-> 0] /\ ret = [p \in Reader |-> 0]
        /\ came = 0 /\ taken = <<>> /\ got = <<>> /\ overrun = FALSE

-----------------------------------------------------------------------------
\* The CPU executes process p in state s of its program.
At(p, s) == running = p /\ pc[p] = s /\ handling = "no"

\* Interrupts are on.
Interruptible == handling = "no" /\ (running # idle => pc[running] = "user")

Runnable == {p \in Reader : pc[p] # "dead" /\ ~asleep[p]}

\* The CPU goes to a process that can run now, else to the idle thread.  Which
\* of them is next is the scheduler's affair.
schedule == IF Runnable' = {} THEN running' = idle ELSE running' \in Runnable'

\* The end of trap for process p: a killed process exits.
TrapReturn(p) ==
  IF exiting'[p]
  THEN pc' = [pc EXCEPT ![p] = "dead"] /\ schedule
  ELSE pc' = [pc EXCEPT ![p] = "user"] /\ UNCHANGED running

-----------------------------------------------------------------------------
\* A character arrives.  The port keeps the last one.
Arrive == /\ came < MaxChar
          /\ came' = came + 1
          /\ port' \in {NUL, came'}
          /\ UNCHANGED <<cons, ring, wait_queue, running, handling, procs, len, ret,
                         taken, got, overrun>>

Interrupt == /\ Interruptible
             /\ port # None
             /\ handling' = "poll"
             /\ UNCHANGED <<port, cons, ring, wait_queue, running, procs, len, ret,
                            came, taken, got, overrun>>

\* cons_getc polls the port: a round of cons_intr's loop.
cons_intr == /\ handling = "poll"
             /\ port # None
             /\ port' = None
             /\ IF port # NUL
                THEN cons' = Append(cons, port) /\ taken' = Append(taken, port)
                ELSE UNCHANGED <<cons, taken>>
             /\ UNCHANGED <<ring, wait_queue, running, handling, procs, len, ret, came,
                            got, overrun>>

\* ... until the port is empty; another character may arrive at once.
cons_polled == /\ handling = "poll"
               /\ port = None
               /\ handling' = "polled"
               /\ UNCHANGED <<port, cons, ring, wait_queue, running, procs, len, ret,
                              came, taken, got, overrun>>

\* Seeded fault: the ring takes one character too many.
FullLate == p_wpos - p_rpos > STDIN_BUFSIZE

Full == p_wpos - p_rpos >= STDIN_BUFSIZE

\* Seeded fault: wakeup_first.
WokenFirst == IF wait_queue = {} THEN {} ELSE {CHOOSE p \in wait_queue : TRUE}

\* wakeup_queue(wait_queue, WT_KBD, 1): everybody in the queue.
Woken == wait_queue

\* The character is stored before the ring is found full.
dev_stdin_write(c) ==
  /\ stdin_buffer' = [stdin_buffer EXCEPT ![p_wpos % STDIN_BUFSIZE] = c]
  /\ p_wpos' = IF Full THEN p_wpos ELSE p_wpos + 1
  /\ wait_queue' = wait_queue \ Woken
  /\ wakeup_flags' = [p \in Reader |-> IF p \in Woken THEN "KBD" ELSE wakeup_flags[p]]
  /\ asleep' = [p \in Reader |-> asleep[p] /\ p \notin Woken]
  /\ overrun' = (overrun \/ Full)

\* The handler's loop: cons_getc returns a character, and is called again ...
HandleChar == /\ handling = "polled"
              /\ handling' = "poll"
              /\ cons # <<>>
              /\ cons' = Tail(cons)
              /\ dev_stdin_write(Head(cons))
              /\ UNCHANGED <<port, p_rpos, running, pc, exiting, len, ret, came, taken,
                             got>>

\* Seeded fault: the handler does not empty the buffer.
HandlerDoneEarly == TRUE

\* ... or 0, and the handler returns.
HandlerDone == cons = <<>>

HandleEnd == /\ handling = "polled"
             /\ HandlerDone
             /\ handling' = "no"
             /\ UNCHANGED <<port, cons, ring, wait_queue, asleep, wakeup_flags, exiting,
                            len, ret, came, taken, got, overrun>>
             /\ IF running = idle THEN UNCHANGED <<running, pc>> ELSE TrapReturn(running)

-----------------------------------------------------------------------------
\* A read of n characters.
stdin_io(p, n) == /\ At(p, "user")
                  /\ pc' = [pc EXCEPT ![p] = "read"]
                  /\ len' = [len EXCEPT ![p] = n]
                  /\ ret' = [ret EXCEPT ![p] = 0]
                  /\ UNCHANGED <<port, cons, ring, wait_queue, running, handling, asleep,
                                 wakeup_flags, exiting, came, taken, got, overrun>>

ReadChar(p) == /\ At(p, "read")
               /\ ret[p] < len[p]
               /\ p_rpos < p_wpos
               /\ got' = Append(got, stdin_buffer[p_rpos % STDIN_BUFSIZE])
               /\ p_rpos' = p_rpos + 1
               /\ ret' = [ret EXCEPT ![p] = @ + 1]
               /\ UNCHANGED <<port, cons, stdin_buffer, p_wpos, wait_queue, running, handling,
                              procs, len, came, taken, overrun>>

ReadDone(p) == /\ At(p, "read")
               /\ ret[p] = len[p]
               /\ UNCHANGED <<port, cons, ring, wait_queue, handling, asleep, wakeup_flags,
                              exiting, len, ret, came, taken, got, overrun>>
               /\ TrapReturn(p)

\* wait_current_set and schedule.
ReadSleep(p) == /\ At(p, "read")
                /\ ret[p] < len[p]
                /\ p_rpos >= p_wpos
                /\ pc' = [pc EXCEPT ![p] = "wait"]
                /\ asleep' = [asleep EXCEPT ![p] = TRUE]
                /\ wakeup_flags' = [wakeup_flags EXCEPT ![p] = "INTERRUPTED"]
                /\ wait_queue' = wait_queue \union {p}
                /\ schedule
                /\ UNCHANGED <<port, cons, ring, handling, exiting, len, ret, came, taken,
                               got, overrun>>

\* wait_current_del: the queue without the wait of p, if it is still there.
wait_current_del(p) == wait_queue \ {p}

\* Back from schedule: try_again if it was a character, else give up.
ReadWoken(p) == /\ At(p, "wait")
                /\ wait_queue' = wait_current_del(p)
                /\ UNCHANGED <<port, cons, ring, handling, asleep, wakeup_flags, exiting,
                               len, ret, came, taken, got, overrun>>
                /\ IF wakeup_flags[p] = "KBD"
                   THEN pc' = [pc EXCEPT ![p] = "read"] /\ UNCHANGED running
                   ELSE TrapReturn(p)

\* do_kill wakes a process that waits.
sys_kill(p, q) == /\ At(p, "user")
                  /\ pc[q] # "dead"
                  /\ ~exiting[q]
                  /\ exiting' = [exiting EXCEPT ![q] = TRUE]
                  /\ asleep' = [asleep EXCEPT ![q] = FALSE]
                  /\ TrapReturn(p)
                  /\ UNCHANGED <<port, cons, ring, wait_queue, handling, wakeup_flags, len,
                                 ret, came, taken, got, overrun>>

\* The timer interrupt: a killed process exits, another may be preempted.
Tick == /\ Interruptible
        /\ UNCHANGED <<port, cons, ring, wait_queue, handling, asleep, wakeup_flags,
                       exiting, len, ret, came, taken, got, overrun>>
        /\ IF running # idle /\ exiting[running]
           THEN TrapReturn(running)
           ELSE running' \in Runnable /\ UNCHANGED pc

-----------------------------------------------------------------------------
Kernel(p) == ReadChar(p) \/ ReadDone(p) \/ ReadSleep(p) \/ ReadWoken(p)
Handler == cons_intr \/ cons_polled \/ HandleChar \/ HandleEnd

Next == \/ Arrive \/ Interrupt \/ Handler \/ Tick
        \/ \E p \in Reader : \/ Kernel(p)
                             \/ \E n \in 1 .. MaxLen : stdin_io(p, n)
                             \/ \E q \in Reader : sys_kill(p, q)

Spec == Init /\ [][Next]_vars

\* Assumptions on the hardware, as TicksServed of Proc: whenever interrupts are on
\* again a handler serves the port's request, which stays until it is read, and
\* the ticks, with which the round-robin scheduler gives every process that can
\* run its turn.  They leave out an interrupt that is taken at an ERET.
InterruptsServed == /\ SF_vars(Interrupt)
                    /\ \A p \in Reader : SF_vars(Tick /\ running' = p)

\* The CPU executes on.
FairSpec == /\ Spec
            /\ WF_vars(Handler) /\ \A p \in Reader : WF_vars(Kernel(p))
            /\ InterruptsServed

-----------------------------------------------------------------------------
TypeOK == /\ port \in 0 .. MaxChar \union {None}
          /\ cons \in Seq(1 .. MaxChar)
          /\ stdin_buffer \in [0 .. STDIN_BUFSIZE - 1 -> 0 .. MaxChar]
          /\ p_rpos \in Nat /\ p_wpos \in Nat
          /\ wait_queue \subseteq Reader
          /\ running \in Reader \union {idle}
          /\ handling \in {"no", "poll", "polled"}
          /\ pc \in [Reader -> {"user", "read", "wait", "dead"}]
          /\ asleep \in [Reader -> BOOLEAN]
          /\ wakeup_flags \in [Reader -> {"INTERRUPTED", "KBD"}]
          /\ exiting \in [Reader -> BOOLEAN]
          /\ len \in [Reader -> 0 .. MaxLen] /\ ret \in [Reader -> 0 .. MaxLen]
          /\ came \in 0 .. MaxChar
          /\ taken \in Seq(1 .. MaxChar) /\ got \in Seq(0 .. MaxChar)
          /\ overrun \in BOOLEAN

\* What readers have got, what the ring holds, what the console's buffer holds.
Stream == [i \in 1 .. p_wpos + Len(cons) |->
             IF i <= p_rpos THEN got[i]
             ELSE IF i <= p_wpos THEN stdin_buffer[(i - 1) % STDIN_BUFSIZE]
             ELSE cons[i - p_wpos]]

(***************************************************************************)
(* What has been taken from the port is read, in order and once, or is     *)
(* still on its way, as long as the ring has not overflowed; after that no *)
(* character is read twice.                                                *)
(***************************************************************************)
InputIntact == IF overrun THEN IsInjective(Stream) ELSE Stream = taken

\* No reader sleeps while the ring holds a character: no wakeup is lost
\* between dev_stdin_read's test and its sleep, or to another reader.
NoLostWakeup == \A p \in Reader : asleep[p] => p_rpos = p_wpos

(***************************************************************************)
(* The wait queue links the wait structures on the stacks of processes in  *)
(* dev_stdin_read: everybody who sleeps, and those whom kill has woken and *)
(* who have not run yet, but nobody who has returned.                      *)
(***************************************************************************)
QueueExact ==
  /\ wait_queue = {p \in Reader : pc[p] = "wait" /\ wakeup_flags[p] = "INTERRUPTED"}
  /\ \A p \in Reader : asleep[p] => p \in wait_queue

\* A reader that waits while a character is in the kernel stops waiting.
CharsReachReaders ==
  \A p \in Reader : pc[p] = "wait" /\ (cons # <<>> \/ p_rpos < p_wpos) ~> pc[p] # "wait"
=============================================================================
