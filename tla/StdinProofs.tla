---------------------------- MODULE StdinProofs ----------------------------
(***************************************************************************)
(* Proofs about Stdin, for any number of readers and any size of the ring. *)
(* Two arguments meet in the invariant: one about processes (who is in the *)
(* wait queue), one about characters (what the two buffers and the readers *)
(* have, taken as one sequence).                                           *)
(***************************************************************************)
EXTENDS Stdin, TLAPS

\* The process that has the CPU can run; an interrupted one is in user mode.
Sane == running # idle => /\ ~asleep[running]
                          /\ pc[running] # "dead"
                          /\ handling # "no" => pc[running] = "user"

\* The ring never holds more than it has room for.
RingBounded == /\ Len(got) = p_rpos
               /\ p_rpos <= p_wpos
               /\ p_wpos <= p_rpos + STDIN_BUFSIZE

\* Characters in the kernel or with readers are distinct, have arrived, and the
\* one in the port is none of them.
Fresh == /\ IsInjective(Stream)
         /\ \A i \in DOMAIN Stream : Stream[i] \in 1 .. came /\ Stream[i] # port
         /\ port <= came

Intact == ~overrun => Stream = taken

IInv == /\ TypeOK /\ Sane /\ QueueExact
        /\ RingBounded /\ NoLostWakeup
        /\ Fresh /\ Intact
-----------------------------------------------------------------------------
\* schedule gives the CPU to somebody who can run.
LEMMA Scheduled ==
  ASSUME schedule, handling' = "no"
  PROVE  Sane' /\ running' \in Reader \union {idle}
BY Zenon DEF schedule, Sane, Runnable

\* The end of trap: the process goes on in user mode, or exits and another runs.
LEMMA TrapReturns ==
  ASSUME NEW p \in Reader, TypeOK, running = p, ~asleep'[p], handling' = "no",
         exiting' \in [Reader -> BOOLEAN], TrapReturn(p)
  PROVE  /\ Sane' /\ running' \in Reader \union {idle}
         /\ pc' \in [Reader -> {"user", "read", "wait", "dead"}]
         /\ pc'[p] \in {"user", "dead"}
         /\ \A q \in Reader : q # p => pc'[q] = pc[q]
<1>1. CASE exiting'[p]
  <2>1. pc' = [pc EXCEPT ![p] = "dead"] /\ schedule
    BY <1>1, Zenon DEF TrapReturn
  <2>2. Sane' /\ running' \in Reader \union {idle}
    BY <2>1, Scheduled, Zenon
  <2> QED BY <2>1, <2>2 DEF TypeOK
<1>2. CASE ~exiting'[p]
  <2>1. pc' = [pc EXCEPT ![p] = "user"] /\ running' = p
    BY <1>2, Zenon DEF TrapReturn
  <2>2. Sane'
    BY <2>1, Zenon DEF Sane, TypeOK
  <2> QED BY <2>1, <2>2 DEF TypeOK
<1> QED BY <1>1, <1>2

-----------------------------------------------------------------------------
\* The processes: types of their fields, who has the CPU, who is in the queue.
Processes == /\ wait_queue \subseteq Reader
             /\ running \in Reader \union {idle}
             /\ handling \in {"no", "poll", "polled"}
             /\ pc \in [Reader -> {"user", "read", "wait", "dead"}]
             /\ asleep \in [Reader -> BOOLEAN]
             /\ wakeup_flags \in [Reader -> {"INTERRUPTED", "KBD"}]
             /\ exiting \in [Reader -> BOOLEAN]
             /\ Sane /\ QueueExact

\* A process that returns from a trap it took in user mode, or in a read that is
\* over, leaves the wait queue right.
LEMMA ReturnKeepsQueue ==
  ASSUME NEW p \in Reader, TypeOK, Sane, QueueExact, running = p, pc[p] # "wait",
         UNCHANGED <<wait_queue, asleep, wakeup_flags, exiting>>, handling' = "no", TrapReturn(p)
  PROVE  Processes'
<1>1. ~asleep'[p] /\ exiting' \in [Reader -> BOOLEAN]
  BY StdinAssumption, Zenon DEF Sane, TypeOK
<1>2. /\ Sane' /\ running' \in Reader \union {idle}
      /\ pc' \in [Reader -> {"user", "read", "wait", "dead"}]
      /\ pc'[p] \in {"user", "dead"}
      /\ \A q \in Reader : q # p => pc'[q] = pc[q]
  BY <1>1, TrapReturns, Zenon
<1>3. QueueExact'
  BY <1>2, Zenon DEF QueueExact
<1> QED BY <1>2, <1>3, Zenon DEF Processes, TypeOK

\* Every step keeps the processes and the wait queue in order.
LEMMA ProcessesStep ==
  ASSUME IInv, [Next]_vars
  PROVE  Processes'
<1> USE StdinAssumption
<1>0. TypeOK /\ Sane /\ QueueExact
  BY Zenon DEF IInv
<1>1. CASE UNCHANGED <<wait_queue, running, handling, procs>>
  BY <1>0, <1>1, Zenon DEF Processes, TypeOK, Sane, QueueExact, procs
<1>2. CASE Interrupt \/ cons_polled
  <2>1. /\ UNCHANGED <<wait_queue, running, pc, asleep, wakeup_flags, exiting>>
        /\ handling' \in {"poll", "polled"}
    BY <1>2, Zenon DEF Interrupt, cons_polled, procs
  <2>2. running # idle => pc[running] = "user"
    BY <1>0, <1>2, Zenon DEF Sane, Interrupt, Interruptible, cons_polled
  <2>3. Sane'
    BY <1>0, <2>1, <2>2, Zenon DEF Sane
  <2> QED BY <1>0, <2>1, <2>3, Zenon DEF Processes, TypeOK, QueueExact
<1>3. CASE HandleChar
  <2>1. /\ UNCHANGED <<running, pc, exiting>>
        /\ handling = "polled" /\ handling' = "poll"
        /\ wait_queue' = {}
        /\ wakeup_flags' = [p \in Reader |-> IF p \in wait_queue THEN "KBD" ELSE wakeup_flags[p]]
        /\ asleep' = [p \in Reader |-> asleep[p] /\ p \notin wait_queue]
    BY <1>3, Zenon DEF HandleChar, dev_stdin_write, Woken
  <2>2. wakeup_flags' \in [Reader -> {"INTERRUPTED", "KBD"}] /\ asleep' \in [Reader -> BOOLEAN]
    BY <1>0, <2>1, Zenon DEF TypeOK
  <2>3. Sane'
    BY <1>0, <2>1, Zenon DEF Sane, TypeOK
  <2>4. QueueExact'
    BY <1>0, <2>1, Zenon DEF QueueExact, TypeOK
  <2> QED BY <1>0, <2>1, <2>2, <2>3, <2>4 DEF Processes, TypeOK
<1>4. CASE HandleEnd
  <2>1. UNCHANGED <<wait_queue, asleep, wakeup_flags, exiting>> /\ handling' = "no"
    BY <1>4, Zenon DEF HandleEnd
  <2>2. CASE running = idle
    <3>1. UNCHANGED <<running, pc>>
      BY <1>4, <2>2, Zenon DEF HandleEnd
    <3> QED BY <1>0, <2>1, <2>2, <3>1, Zenon DEF Processes, TypeOK, Sane, QueueExact
  <2>3. CASE running # idle
    <3>1. running \in Reader /\ TrapReturn(running) /\ pc[running] # "wait"
      BY <1>0, <1>4, <2>3, Zenon DEF HandleEnd, TypeOK, Sane
    <3> QED BY <1>0, <2>1, <3>1, ReturnKeepsQueue, Zenon
  <2> QED BY <2>2, <2>3
<1>5. ASSUME NEW p \in Reader, NEW n \in 1 .. MaxLen, stdin_io(p, n)
      PROVE  Processes'
  <2>1. /\ running = p /\ pc[p] = "user" /\ handling = "no"
        /\ pc' = [pc EXCEPT ![p] = "read"]
        /\ UNCHANGED <<wait_queue, running, handling, asleep, wakeup_flags, exiting>>
    BY <1>5, Zenon DEF stdin_io, At
  <2>2. Sane'
    BY <1>0, <2>1, Zenon DEF Sane, TypeOK
  <2>3. QueueExact'
    BY <1>0, <2>1, Zenon DEF QueueExact, TypeOK
  <2> QED BY <1>0, <2>1, <2>2, <2>3 DEF Processes, TypeOK
<1>6. ASSUME NEW p \in Reader, ReadDone(p)
      PROVE  Processes'
  <2>1. /\ running = p /\ pc[p] = "read" /\ handling' = "no" /\ TrapReturn(p)
        /\ UNCHANGED <<wait_queue, asleep, wakeup_flags, exiting>>
    BY <1>0, <1>6, Zenon DEF ReadDone, At, TypeOK
  <2> QED BY <1>0, <2>1, ReturnKeepsQueue, Zenon
<1>7. ASSUME NEW p \in Reader, ReadSleep(p)
      PROVE  Processes'
  <2>1. /\ running = p /\ pc[p] = "read" /\ handling' = "no" /\ schedule
        /\ pc' = [pc EXCEPT ![p] = "wait"]
        /\ asleep' = [asleep EXCEPT ![p] = TRUE]
        /\ wakeup_flags' = [wakeup_flags EXCEPT ![p] = "INTERRUPTED"]
        /\ wait_queue' = wait_queue \union {p}
        /\ UNCHANGED exiting
    BY <1>0, <1>7, Zenon DEF ReadSleep, At, TypeOK
  <2>2. Sane' /\ running' \in Reader \union {idle}
    BY <2>1, Scheduled, Zenon
  <2>3. QueueExact'
    BY <1>0, <2>1 DEF QueueExact, TypeOK
  <2> QED BY <1>0, <2>1, <2>2, <2>3, Zenon DEF Processes, TypeOK
<1>8. ASSUME NEW p \in Reader, ReadWoken(p)
      PROVE  Processes'
  <2>1. /\ running = p /\ pc[p] = "wait" /\ handling' = "no" /\ ~asleep'[p]
        /\ wait_queue' = wait_queue \ {p}
        /\ UNCHANGED <<asleep, wakeup_flags, exiting>>
    BY <1>0, <1>8, Zenon DEF ReadWoken, At, TypeOK, wait_current_del, Sane
  <2>2. CASE wakeup_flags[p] = "KBD"
    <3>1. pc' = [pc EXCEPT ![p] = "read"] /\ UNCHANGED running
      BY <1>8, <2>2, Zenon DEF ReadWoken
    <3>2. Sane'
      BY <1>0, <2>1, <3>1, Zenon DEF Sane, TypeOK
    <3>3. QueueExact'
      BY <1>0, <2>1, <2>2, <3>1, Zenon DEF QueueExact, TypeOK
    <3> QED BY <1>0, <2>1, <3>1, <3>2, <3>3, Zenon DEF Processes, TypeOK
  <2>3. CASE wakeup_flags[p] # "KBD"
    <3>1. TrapReturn(p) /\ exiting' \in [Reader -> BOOLEAN]
      BY <1>0, <1>8, <2>1, <2>3, Zenon DEF ReadWoken, TypeOK
    <3>2. /\ Sane' /\ running' \in Reader \union {idle}
          /\ pc' \in [Reader -> {"user", "read", "wait", "dead"}]
          /\ pc'[p] \in {"user", "dead"}
          /\ \A q \in Reader : q # p => pc'[q] = pc[q]
      BY <1>0, <2>1, <3>1, TrapReturns, Zenon
    <3>3. QueueExact'
      BY <1>0, <2>1, <3>2 DEF QueueExact
    <3> QED BY <1>0, <2>1, <3>2, <3>3, Zenon DEF Processes, TypeOK
  <2> QED BY <2>2, <2>3
<1>9. ASSUME NEW p \in Reader, NEW q \in Reader, sys_kill(p, q)
      PROVE  Processes'
  <2>1. /\ running = p /\ pc[p] = "user" /\ handling' = "no" /\ TrapReturn(p)
        /\ exiting' = [exiting EXCEPT ![q] = TRUE]
        /\ asleep' = [asleep EXCEPT ![q] = FALSE]
        /\ UNCHANGED <<wait_queue, wakeup_flags>>
    BY <1>0, <1>9, Zenon DEF sys_kill, At, TypeOK
  <2>2. /\ ~asleep'[p]
        /\ exiting' \in [Reader -> BOOLEAN] /\ asleep' \in [Reader -> BOOLEAN]
    BY <1>0, <2>1, Zenon DEF Sane, TypeOK
  <2>3. /\ Sane' /\ running' \in Reader \union {idle}
        /\ pc' \in [Reader -> {"user", "read", "wait", "dead"}]
        /\ pc'[p] \in {"user", "dead"}
        /\ \A r \in Reader : r # p => pc'[r] = pc[r]
    BY <1>0, <2>1, <2>2, TrapReturns, Zenon
  <2>4. QueueExact'
    <3>1. \A r \in Reader : pc'[r] = "wait" <=> pc[r] = "wait"
      BY <2>1, <2>3, Zenon
    <3>2. \A r \in Reader : asleep'[r] => asleep[r]
      BY <1>0, <2>1, Zenon DEF TypeOK
    <3> QED BY <1>0, <2>1, <3>1, <3>2, Zenon DEF QueueExact
  <2> QED BY <1>0, <2>1, <2>2, <2>3, <2>4, Zenon DEF Processes, TypeOK
<1>10. CASE Tick
  <2>1. UNCHANGED <<wait_queue, asleep, wakeup_flags, exiting>> /\ handling' = "no"
    BY <1>0, <1>10, Zenon DEF Tick, Interruptible, TypeOK
  <2>2. CASE running # idle /\ exiting[running]
    <3>1. running \in Reader /\ TrapReturn(running) /\ pc[running] # "wait"
      BY <1>0, <1>10, <2>2, Zenon DEF Tick, Interruptible, TypeOK
    <3> QED BY <1>0, <2>1, <3>1, ReturnKeepsQueue, Zenon
  <2>3. CASE ~(running # idle /\ exiting[running])
    <3>1. running' \in Runnable /\ UNCHANGED pc
      BY <1>10, <2>3, Zenon DEF Tick
    <3> QED BY <1>0, <2>1, <3>1, Zenon DEF Processes, TypeOK, Sane, QueueExact, Runnable
  <2> QED BY <2>2, <2>3
<1>11. CASE Arrive \/ cons_intr
  BY <1>1, <1>11, Zenon DEF Arrive, cons_intr
<1>12. ASSUME NEW p \in Reader, ReadChar(p)
       PROVE  Processes'
  BY <1>1, <1>12, Zenon DEF ReadChar
<1>13. CASE UNCHANGED vars
  BY <1>1, <1>13, Zenon DEF vars
<1> QED BY <1>2, <1>3, <1>4, <1>5, <1>6, <1>7, <1>8, <1>9, <1>10, <1>11, <1>12, <1>13
        DEF Next, Handler, Kernel

-----------------------------------------------------------------------------
\* What % computes.
LEMMA ModRange ==
  ASSUME NEW S \in Nat \ {0}, NEW a \in Nat
  PROVE  a % S \in 0 .. S - 1
OBVIOUS

\* Quotient and remainder make up the number.
LEMMA DivMod ==
  ASSUME NEW S \in Nat \ {0}, NEW a \in Nat
  PROVE  a = (S * (a \div S)) + (a % S) /\ a \div S \in Int
OBVIOUS

\* An interval tells its length.
LEMMA SameLength ==
  ASSUME NEW m \in Nat, NEW n \in Nat, 1 .. m = 1 .. n
  PROVE  m = n
<1>1. (m = 0 \/ m \in 1 .. n) /\ (n = 0 \/ n \in 1 .. m)
  OBVIOUS
<1>2. (m = 0 => n \notin 1 .. m) /\ (n = 0 => m \notin 1 .. n)
  OBVIOUS
<1> QED BY <1>1, <1>2

\* A number has one remainder.
LEMMA Remainder ==
  ASSUME NEW S \in Nat \ {0}, NEW p \in Int, NEW r \in 0 .. S - 1,
         NEW q \in Int, NEW t \in 0 .. S - 1, (S * p) + r = (S * q) + t
  PROVE  r = t
<1>1. r - t = S * (q - p)
  OBVIOUS
<1>2. CASE q - p >= 1
  BY <1>1, <1>2
<1>3. CASE q - p <= -1
  BY <1>1, <1>3
<1>4. CASE q - p = 0
  BY <1>1, <1>4
<1> QED BY <1>2, <1>3, <1>4

\* Positions that are the size of the ring apart share a place in it ...
LEMMA SamePlace ==
  ASSUME NEW S \in Nat \ {0}, NEW a \in Nat
  PROVE  (a + S) % S = a % S
<1> DEFINE p == a \div S
           q == (a + S) \div S
           r == a % S
           t == (a + S) % S
<1>1. a = (S * p) + r /\ p \in Int /\ a + S = (S * q) + t /\ q \in Int
  BY DivMod
<1>2. r \in 0 .. S - 1 /\ t \in 0 .. S - 1
  BY ModRange
<1> HIDE DEF p, q, r, t
<1>3. (S * (p + 1)) + r = (S * q) + t
  BY <1>1, <1>2
<1>4. r = t
  BY <1>1, <1>2, <1>3, Remainder
<1> QED BY <1>4 DEF r, t

\* ... and positions that are closer do not.
LEMMA OtherPlace ==
  ASSUME NEW S \in Nat \ {0}, NEW a \in Nat, NEW b \in Nat, a < b, b < a + S
  PROVE  a % S # b % S
<1> SUFFICES ASSUME a % S = b % S PROVE FALSE
  BY Zenon
<1> DEFINE p == a \div S
           q == b \div S
           r == a % S
<1>1. a = (S * p) + r /\ p \in Int /\ b = (S * q) + r /\ q \in Int
  BY DivMod, Zenon
<1>2. r \in Int
  BY ModRange
<1> HIDE DEF p, q, r
<1>3. b - a = S * (q - p)
  BY <1>1, <1>2
<1>4. CASE q - p <= 0
  BY <1>1, <1>3, <1>4
<1>5. CASE q - p >= 1
  BY <1>1, <1>3, <1>5
<1> QED BY <1>1, <1>4, <1>5

-----------------------------------------------------------------------------
\* The characters: types, the bounds of the ring, and what the stream holds.
Characters == /\ port \in 0 .. MaxChar \union {None}
              /\ cons \in Seq(1 .. MaxChar)
              /\ stdin_buffer \in [0 .. STDIN_BUFSIZE - 1 -> 0 .. MaxChar]
              /\ p_rpos \in Nat /\ p_wpos \in Nat
              /\ came \in 0 .. MaxChar
              /\ taken \in Seq(1 .. MaxChar) /\ got \in Seq(0 .. MaxChar)
              /\ overrun \in BOOLEAN
              /\ RingBounded /\ Fresh /\ Intact

\* A character taken from the port becomes the last of the stream.
LEMMA TakenStep ==
  ASSUME IInv, cons_intr
  PROVE  Characters'
<1> USE StdinAssumption
<1>0. TypeOK /\ RingBounded /\ Fresh /\ Intact
  BY Zenon DEF IInv
<1>1. /\ port' = None
      /\ UNCHANGED <<stdin_buffer, p_rpos, p_wpos, came, got, overrun>>
  BY Zenon DEF cons_intr, ring
<1>2. CASE port = NUL
  <2>1. UNCHANGED <<cons, taken>>
    BY <1>2, Zenon DEF cons_intr
  <2>2. Stream' = Stream
    BY <1>1, <2>1, Zenon DEF Stream
  <2>3. Fresh'
    BY <1>0, <1>1, <2>2 DEF Fresh, TypeOK, None, IsInjective
  <2> QED BY <1>0, <1>1, <2>1, <2>2, <2>3 DEF Characters, TypeOK, RingBounded, Intact
<1>3. CASE port # NUL
  <2> DEFINE L == p_wpos + Len(cons)
  <2>1. cons' = Append(cons, port) /\ taken' = Append(taken, port)
    BY <1>3, Zenon DEF cons_intr
  <2>2. port \in 1 .. MaxChar /\ port \in 1 .. came
    BY <1>0, <1>3 DEF cons_intr, TypeOK, Fresh, None, NUL
  <2>3. /\ cons' \in Seq(1 .. MaxChar) /\ Len(cons') = Len(cons) + 1
        /\ \A i \in 1 .. Len(cons) : cons'[i] = cons[i]
        /\ cons'[Len(cons) + 1] = port
    BY <1>0, <2>1, <2>2 DEF TypeOK
  <2>4. /\ taken' \in Seq(1 .. MaxChar) /\ Len(taken') = Len(taken) + 1
        /\ \A i \in 1 .. Len(taken) : taken'[i] = taken[i]
        /\ taken'[Len(taken) + 1] = port
    BY <1>0, <2>1, <2>2 DEF TypeOK
  <2>5. L \in Nat /\ DOMAIN Stream = 1 .. L /\ DOMAIN Stream' = 1 .. L + 1
    BY <1>0, <1>1, <2>3 DEF TypeOK, Stream
  <2>6. ASSUME NEW i \in 1 .. L PROVE Stream'[i] = Stream[i]
    <3>1. i \in DOMAIN Stream /\ i \in DOMAIN Stream'
      BY <2>5
    <3>2. CASE i <= p_wpos
      BY <1>1, <3>1, <3>2, Zenon DEF Stream
    <3>3. CASE ~(i <= p_wpos)
      <4>1. i - p_wpos \in 1 .. Len(cons)
        BY <1>0, <3>3 DEF TypeOK
      <4>2. ~(i <= p_rpos)
        BY <1>0, <3>3 DEF TypeOK, RingBounded
      <4> QED BY <1>1, <2>3, <3>1, <3>3, <4>1, <4>2 DEF Stream
    <3> QED BY <3>2, <3>3
  <2>7. Stream'[L + 1] = port
    BY <1>0, <1>1, <2>3, SMTT(30) DEF TypeOK, Stream, RingBounded
  <2>8. Fresh'
    <3>1. \A i \in 1 .. L + 1 : i \in 1 .. L \/ i = L + 1
      BY <2>5
    <3>2. \A i \in DOMAIN Stream' : Stream'[i] \in 1 .. came'
      BY <1>0, <1>1, <2>2, <2>5, <2>6, <2>7, <3>1, Zenon DEF Fresh
    <3>3. \A i \in 1 .. L : Stream'[i] # Stream'[L + 1]
      BY <1>0, <2>5, <2>6, <2>7, Zenon DEF Fresh
    <3>4. \A i, j \in 1 .. L : Stream'[i] = Stream'[j] => i = j
      BY <1>0, <2>5, <2>6, Zenon DEF Fresh, IsInjective
    <3>5. IsInjective(Stream')
      BY <2>5, <3>1, <3>3, <3>4, Zenon DEF IsInjective
    <3>6. port' <= came' /\ \A i \in DOMAIN Stream' : Stream'[i] # port'
      BY <1>0, <1>1, <3>2 DEF None, TypeOK
    <3> QED BY <3>2, <3>5, <3>6 DEF Fresh
  <2>9. Intact'
    <3> SUFFICES ASSUME ~overrun PROVE Stream' = taken'
      BY <1>1, Zenon DEF Intact
    <3>1. Stream = taken
      BY <1>0, Zenon DEF Intact
    <3>2. Len(taken) = L /\ DOMAIN taken' = 1 .. L + 1
      <4>1. Len(taken) \in Nat /\ 1 .. Len(taken) = 1 .. L
        BY <1>0, <2>5, <3>1 DEF TypeOK
      <4>2. Len(taken) = L
        BY <2>5, <4>1, SameLength, Zenon
      <4> QED BY <2>4, <4>2
    <3>3. ASSUME NEW i \in 1 .. L + 1 PROVE Stream'[i] = taken'[i]
      <4>1. CASE i \in 1 .. L
        BY <2>4, <2>6, <3>1, <3>2, <4>1, Zenon
      <4>2. CASE i = L + 1
        BY <2>4, <2>7, <3>2, <4>2, Zenon
      <4> QED BY <2>5, <4>1, <4>2
    <3>4. Stream' = [i \in DOMAIN Stream' |-> Stream'[i]]
      BY Zenon DEF Stream
    <3>5. taken' = [i \in DOMAIN taken' |-> taken'[i]]
      BY <2>4
    <3> QED BY <2>5, <3>2, <3>3, <3>4, <3>5
  <2> QED BY <1>0, <1>1, <2>3, <2>4, <2>8, <2>9, SMTT(30) DEF Characters, TypeOK, RingBounded
<1> QED BY <1>2, <1>3

\* A character that goes from the console's buffer to the ring keeps its place
\* in the stream; if the ring is full it takes the place of the oldest one.
LEMMA WriteStep ==
  ASSUME IInv, HandleChar
  PROVE  Characters'
<1> USE StdinAssumption
<1> DEFINE S == STDIN_BUFSIZE
           L == p_wpos + Len(cons)
<1>0. TypeOK /\ RingBounded /\ Fresh /\ Intact
  BY Zenon DEF IInv
<1>1. /\ cons # <<>> /\ cons' = Tail(cons)
      /\ stdin_buffer' = [stdin_buffer EXCEPT ![p_wpos % S] = Head(cons)]
      /\ UNCHANGED <<port, p_rpos, came, taken, got>>
      /\ overrun' = (overrun \/ Full)
      /\ p_wpos' = IF Full THEN p_wpos ELSE p_wpos + 1
  BY Zenon DEF HandleChar, dev_stdin_write
<1>2. /\ Head(cons) = cons[1] /\ Head(cons) \in 1 .. MaxChar
      /\ cons' \in Seq(1 .. MaxChar)
      /\ Len(cons) \in Nat \ {0} /\ Len(cons') = Len(cons) - 1
      /\ \A i \in 1 .. Len(cons) - 1 : cons'[i] = cons[i + 1]
  <2>1. cons \in Seq(1 .. MaxChar)
    BY <1>0, Zenon DEF TypeOK
  <2> QED BY <1>1, <2>1
<1>3. /\ S \in Nat \ {0} /\ p_rpos \in Nat /\ p_wpos \in Nat
      /\ p_rpos <= p_wpos /\ p_wpos <= p_rpos + S
      /\ stdin_buffer \in [0 .. S - 1 -> 0 .. MaxChar] /\ MaxChar \in Nat
  BY <1>0, Zenon DEF TypeOK, RingBounded
<1>4. p_wpos % S \in 0 .. S - 1
  BY <1>3, ModRange, Zenon
<1>5. /\ stdin_buffer' \in [0 .. S - 1 -> 0 .. MaxChar]
      /\ stdin_buffer'[p_wpos % S] = Head(cons)
      /\ \A j \in 0 .. S - 1 : j # p_wpos % S => stdin_buffer'[j] = stdin_buffer[j]
  BY <1>1, <1>2, <1>3, <1>4
<1>10. /\ port' \in 0 .. MaxChar \union {None} /\ p_rpos' \in Nat /\ came' \in 0 .. MaxChar
       /\ taken' \in Seq(1 .. MaxChar) /\ got' \in Seq(0 .. MaxChar)
  BY <1>0, <1>1, Zenon DEF TypeOK
<1>6. L \in Nat /\ DOMAIN Stream = 1 .. L
  BY <1>2, <1>3 DEF Stream
<1>7. ASSUME NEW i \in 1 .. p_wpos, i > p_rpos, p_wpos < i - 1 + S
      PROVE  stdin_buffer'[(i - 1) % S] = stdin_buffer[(i - 1) % S]
  <2>1. i - 1 \in Nat /\ i - 1 < p_wpos
    BY <1>3
  <2>2. (i - 1) % S # p_wpos % S
    BY <1>3, <1>7, <2>1, OtherPlace, Zenon
  <2>3. (i - 1) % S \in 0 .. S - 1
    BY <1>3, <2>1, ModRange, Zenon
  <2> QED BY <1>5, <2>2, <2>3
<1>8. CASE ~Full
  <2>1. p_wpos' = p_wpos + 1 /\ (overrun' <=> overrun) /\ p_wpos < p_rpos + S
    <3>1. p_wpos' = p_wpos + 1 /\ (overrun' <=> overrun)
      BY <1>1, <1>8, Zenon
    <3>2. p_wpos < p_rpos + S
      BY <1>3, <1>8 DEF Full
    <3> QED BY <3>1, <3>2
  <2>2. DOMAIN Stream' = 1 .. L
    BY <1>2, <1>3, <2>1 DEF Stream
  <2>3. ASSUME NEW i \in 1 .. L PROVE Stream'[i] = Stream[i]
    <3>1. i \in DOMAIN Stream /\ i \in DOMAIN Stream' /\ i \in Nat
      BY <1>6, <2>2
    <3>2. CASE i <= p_rpos
      BY <1>1, <3>1, <3>2, Zenon DEF Stream
    <3>3. CASE i > p_rpos /\ i <= p_wpos
      <4>1. i \in 1 .. p_wpos /\ p_wpos < i - 1 + S /\ i <= p_wpos' /\ ~(i <= p_rpos)
        BY <1>3, <2>1, <3>1, <3>3, SMTT(30)
      <4>2. stdin_buffer'[(i - 1) % S] = stdin_buffer[(i - 1) % S]
        BY <1>7, <3>3, <4>1, Zenon
      <4> QED BY <1>1, <3>1, <3>3, <4>1, <4>2 DEF Stream
    <3>4. CASE i = p_wpos + 1
      <4>1. ~(i <= p_rpos) /\ ~(i <= p_wpos) /\ i <= p_wpos' /\ i - p_wpos = 1 /\ i - 1 = p_wpos
        BY <1>3, <2>1, <3>4
      <4>2. Stream'[i] = stdin_buffer'[p_wpos % S]
        BY <1>1, <3>1, <4>1, Zenon DEF Stream
      <4>3. Stream[i] = cons[1]
        BY <3>1, <4>1, Zenon DEF Stream
      <4> QED BY <1>2, <1>5, <4>2, <4>3
    <3>5. CASE i > p_wpos + 1
      <4>0. i \in Nat /\ i <= p_wpos + Len(cons) /\ Len(cons) \in Nat
        BY <1>2, <1>6
      <4>1. /\ ~(i <= p_rpos) /\ ~(i <= p_wpos) /\ ~(i <= p_wpos')
            /\ i - p_wpos' \in 1 .. Len(cons) - 1 /\ (i - p_wpos') + 1 = i - p_wpos
        BY <1>3, <2>1, <3>5, <4>0
      <4>2. Stream'[i] = cons'[i - p_wpos']
        BY <1>1, <3>1, <4>1, Zenon DEF Stream
      <4>3. Stream[i] = cons[i - p_wpos]
        BY <3>1, <4>1, Zenon DEF Stream
      <4> QED BY <1>2, <4>1, <4>2, <4>3, SMTT(30)
    <3> QED BY <1>3, <3>1, <3>2, <3>3, <3>4, <3>5
  <2>4. Stream' = Stream
    <3>1. Stream' = [i \in DOMAIN Stream' |-> Stream'[i]] /\ Stream = [i \in DOMAIN Stream |-> Stream[i]]
      BY Zenon DEF Stream
    <3> QED BY <1>6, <2>2, <2>3, <3>1
  <2>5. RingBounded'
    BY <1>0, <1>1, <1>3, <2>1 DEF RingBounded
  <2>6. Fresh' /\ Intact'
    BY <1>0, <1>1, <2>1, <2>4, Zenon DEF Fresh, Intact
  <2>7. overrun' \in BOOLEAN /\ p_wpos' \in Nat
    BY <1>1, <1>3, <2>1 DEF Full
  <2> QED BY <1>2, <1>5, <1>10, <2>5, <2>6, <2>7, Zenon DEF Characters
<1>9. CASE Full
  <2> DEFINE src(i) == IF i = p_rpos + 1 THEN p_wpos + 1 ELSE IF i <= p_wpos THEN i ELSE i + 1
  <2>1. p_wpos' = p_wpos /\ overrun' = TRUE /\ p_wpos = p_rpos + S
    <3>1. p_wpos' = p_wpos /\ overrun' = TRUE
      BY <1>1, <1>9, Zenon
    <3>2. p_wpos = p_rpos + S
      BY <1>3, <1>9 DEF Full
    <3> QED BY <3>1, <3>2
  <2>2. DOMAIN Stream' = 1 .. L - 1
    BY <1>2, <1>3, <2>1 DEF Stream
  <2>3. ASSUME NEW i \in 1 .. L - 1 PROVE Stream'[i] = Stream[src(i)] /\ src(i) \in 1 .. L
    <3>1. i \in DOMAIN Stream /\ i \in DOMAIN Stream' /\ i \in Nat /\ i + 1 \in DOMAIN Stream
      BY <1>6, <2>2
    <3>2. CASE i <= p_rpos
      <4>1. src(i) = i
        BY <1>3, <3>1, <3>2
      <4> QED BY <1>1, <1>6, <3>1, <3>2, <4>1 DEF Stream
    <3>3. CASE i = p_rpos + 1
      <4>1. /\ ~(i <= p_rpos) /\ i <= p_wpos' /\ i - 1 = p_rpos
            /\ p_wpos + 1 \in 1 .. L
            /\ ~(p_wpos + 1 <= p_rpos) /\ ~(p_wpos + 1 <= p_wpos) /\ p_wpos + 1 - p_wpos = 1
        BY <1>2, <1>3, <2>1, <3>3
      <4>2. Stream'[i] = stdin_buffer'[p_rpos % S]
        BY <1>1, <3>1, <4>1, Zenon DEF Stream
      <4>3. p_wpos % S = p_rpos % S
        BY <1>3, <2>1, SamePlace, Zenon
      <4>4. ASSUME NEW k \in DOMAIN Stream, ~(k <= p_rpos), ~(k <= p_wpos)
            PROVE  Stream[k] = cons[k - p_wpos]
        BY <4>4, Zenon DEF Stream
      <4>5. Stream[p_wpos + 1] = cons[1]
        <5> DEFINE k == p_wpos + 1
        <5>1. k \in DOMAIN Stream /\ ~(k <= p_rpos) /\ ~(k <= p_wpos) /\ k - p_wpos = 1
          BY <1>3, <1>6, <4>1
        <5> HIDE DEF k
        <5>2. Stream[k] = cons[k - p_wpos]
          BY <4>4, <5>1, Zenon
        <5>3. Stream[k] = cons[1]
          BY <5>1, <5>2, Zenon
        <5> QED BY <5>3 DEF k
      <4>6. Stream'[i] = Stream[p_wpos + 1]
        BY <1>2, <1>5, <4>2, <4>3, <4>5, Zenon
      <4>7. src(i) = p_wpos + 1
        BY <3>3, Zenon
      <4> QED BY <4>1, <4>6, <4>7, Zenon
    <3>4. CASE i > p_rpos + 1 /\ i <= p_wpos
      <4>1. /\ i \in 1 .. p_wpos /\ p_wpos < i - 1 + S /\ i <= p_wpos' /\ ~(i <= p_rpos)
            /\ i > p_rpos /\ src(i) = i
        BY <1>3, <2>1, <3>1, <3>4, SMTT(30)
      <4>2. stdin_buffer'[(i - 1) % S] = stdin_buffer[(i - 1) % S]
        BY <1>7, <4>1, Zenon
      <4>3. Stream'[i] = Stream[i]
        BY <1>1, <3>1, <3>4, <4>1, <4>2, Zenon DEF Stream
      <4> QED BY <1>6, <3>1, <4>1, <4>3
    <3>5. CASE i > p_wpos
      <4>0. i \in Nat /\ i <= p_wpos + Len(cons) - 1 /\ Len(cons) \in Nat
        BY <1>2, <1>3
      <4>1. /\ ~(i <= p_rpos) /\ ~(i <= p_wpos) /\ ~(i <= p_wpos') /\ src(i) = i + 1
            /\ ~(i + 1 <= p_rpos) /\ ~(i + 1 <= p_wpos)
            /\ i - p_wpos' \in 1 .. Len(cons) - 1 /\ (i - p_wpos') + 1 = (i + 1) - p_wpos
        BY <1>3, <2>1, <3>5, <4>0
      <4>2. Stream'[i] = cons'[i - p_wpos']
        BY <1>1, <3>1, <4>1, Zenon DEF Stream
      <4>3. Stream[i + 1] = cons[(i + 1) - p_wpos]
        BY <3>1, <4>1, Zenon DEF Stream
      <4>4. cons'[i - p_wpos'] = cons[(i - p_wpos') + 1]
        BY <1>2, <4>1, Zenon
      <4>5. Stream'[i] = Stream[i + 1]
        BY <4>1, <4>2, <4>3, <4>4, Zenon
      <4> QED BY <1>6, <3>1, <4>1, <4>5, Zenon
    <3> QED BY <1>3, <3>1, <3>2, <3>3, <3>4, <3>5
  <2>4. ASSUME NEW i \in 1 .. L - 1, NEW j \in 1 .. L - 1, src(i) = src(j) PROVE i = j
    BY <1>3, <1>6, <2>1, <2>4
  <2> HIDE DEF src
  <2>5. IsInjective(Stream')
    <3> SUFFICES ASSUME NEW i \in 1 .. L - 1, NEW j \in 1 .. L - 1, Stream'[i] = Stream'[j]
                 PROVE  i = j
      BY <2>2, Zenon DEF IsInjective
    <3>1. Stream[src(i)] = Stream[src(j)] /\ src(i) \in 1 .. L /\ src(j) \in 1 .. L
      BY <2>3, Zenon
    <3>2. src(i) = src(j)
      BY <1>0, <1>6, <3>1, Zenon DEF Fresh, IsInjective
    <3> QED BY <2>4, <3>2
  <2>6. \A i \in DOMAIN Stream' : Stream'[i] \in 1 .. came' /\ Stream'[i] # port'
    BY <1>0, <1>1, <1>6, <2>2, <2>3, Zenon DEF Fresh
  <2>7. Fresh' /\ Intact' /\ RingBounded'
    BY <1>0, <1>1, <2>1, <2>5, <2>6, Zenon DEF Fresh, Intact, RingBounded
  <2>8. overrun' \in BOOLEAN /\ p_wpos' \in Nat
    BY <1>3, <2>1, Zenon
  <2> QED BY <1>2, <1>5, <1>10, <2>7, <2>8, Zenon DEF Characters
<1> QED BY <1>8, <1>9

\* A character that is read keeps its place in the stream.
LEMMA ReadStep ==
  ASSUME IInv, NEW p \in Reader, ReadChar(p)
  PROVE  Characters'
<1> USE StdinAssumption
<1> DEFINE S == STDIN_BUFSIZE
           e == stdin_buffer[p_rpos % S]
<1>0. TypeOK /\ RingBounded /\ Fresh /\ Intact
  BY Zenon DEF IInv
<1>1. /\ p_rpos < p_wpos /\ p_rpos' = p_rpos + 1 /\ got' = Append(got, e)
      /\ UNCHANGED <<port, cons, stdin_buffer, p_wpos, came, taken, overrun>>
  BY Zenon DEF ReadChar
<1>2. p_rpos \in Nat /\ p_wpos \in Nat /\ Len(cons) \in Nat /\ e \in 0 .. MaxChar
  <2>1. Len(cons) \in Nat
    BY <1>0 DEF TypeOK
  <2> QED
    BY <1>0, <2>1, ModRange, Zenon DEF TypeOK
<1>3. /\ got' \in Seq(0 .. MaxChar) /\ Len(got') = p_rpos + 1
      /\ \A i \in 1 .. p_rpos : got'[i] = got[i]
      /\ got'[p_rpos + 1] = e
  <2> HIDE DEF e
  <2>1. got \in Seq(0 .. MaxChar) /\ Len(got) = p_rpos
    BY <1>0, Zenon DEF TypeOK, RingBounded
  <2>2. /\ Append(got, e) \in Seq(0 .. MaxChar) /\ Len(Append(got, e)) = Len(got) + 1
        /\ \A i \in 1 .. Len(got) : Append(got, e)[i] = got[i]
        /\ Append(got, e)[Len(got) + 1] = e
    BY <1>2, <2>1
  <2> QED BY <1>1, <2>1, <2>2
<1>4. DOMAIN Stream = 1 .. p_wpos + Len(cons) /\ DOMAIN Stream' = 1 .. p_wpos + Len(cons)
  BY <1>1, Zenon DEF Stream
<1>5. ASSUME NEW i \in 1 .. p_wpos + Len(cons) PROVE Stream'[i] = Stream[i]
  <2>1. i \in DOMAIN Stream /\ i \in DOMAIN Stream'
    BY <1>4, Zenon
  <2>2. CASE i <= p_rpos
    <3>1. i <= p_rpos' /\ i \in 1 .. p_rpos
      BY <1>1, <1>2, <2>2
    <3> QED BY <1>3, <2>1, <2>2, <3>1 DEF Stream
  <2>3. CASE i = p_rpos + 1
    <3>1. i <= p_rpos' /\ ~(i <= p_rpos) /\ i <= p_wpos /\ i - 1 = p_rpos
      BY <1>1, <1>2, <2>3
    <3>2. Stream'[i] = got'[i]
      BY <2>1, <3>1, Zenon DEF Stream
    <3>3. Stream[i] = e
      BY <2>1, <3>1, Zenon DEF Stream
    <3> QED BY <1>3, <2>3, <3>2, <3>3
  <2>4. CASE i > p_rpos + 1
    <3>1. ~(i <= p_rpos') /\ ~(i <= p_rpos)
      BY <1>1, <1>2, <2>4
    <3>2. CASE i <= p_wpos
      BY <1>1, <2>1, <3>1, <3>2, Zenon DEF Stream
    <3>3. CASE ~(i <= p_wpos)
      BY <1>1, <2>1, <3>1, <3>3, Zenon DEF Stream
    <3> QED BY <3>2, <3>3
  <2> QED BY <1>2, <2>2, <2>3, <2>4
<1>6. Stream' = Stream
  <2>1. Stream' = [i \in DOMAIN Stream' |-> Stream'[i]] /\ Stream = [i \in DOMAIN Stream |-> Stream[i]]
    BY Zenon DEF Stream
  <2> QED BY <1>4, <1>5, <2>1, Zenon
<1>7. RingBounded'
  BY <1>0, <1>1, <1>2, <1>3 DEF RingBounded
<1>8. Fresh' /\ Intact'
  BY <1>0, <1>1, <1>6, Zenon DEF Fresh, Intact
<1>9. /\ port' \in 0 .. MaxChar \union {None} /\ cons' \in Seq(1 .. MaxChar)
      /\ stdin_buffer' \in [0 .. S - 1 -> 0 .. MaxChar]
      /\ came' \in 0 .. MaxChar /\ taken' \in Seq(1 .. MaxChar) /\ overrun' \in BOOLEAN
  BY <1>0, <1>1, Zenon DEF TypeOK
<1>10. p_rpos' \in Nat /\ p_wpos' \in Nat
  BY <1>1, <1>2
<1> HIDE DEF e
<1> QED BY <1>3, <1>7, <1>8, <1>9, <1>10, Zenon DEF Characters

\* Every step keeps the stream in order.
LEMMA CharactersStep ==
  ASSUME IInv, [Next]_vars
  PROVE  Characters'
<1> USE StdinAssumption
<1>0. TypeOK /\ RingBounded /\ Fresh /\ Intact
  BY Zenon DEF IInv
<1>1. CASE UNCHANGED <<port, cons, ring, came, taken, got, overrun>>
  <2>1. Stream' = Stream
    BY <1>1, Zenon DEF Stream, ring
  <2> QED BY <1>0, <1>1, <2>1 DEF Characters, TypeOK, RingBounded, Fresh, Intact, ring
<1>2. CASE Arrive
  <2>1. /\ came < MaxChar /\ came' = came + 1 /\ port' \in {NUL, came'}
        /\ UNCHANGED <<cons, stdin_buffer, p_rpos, p_wpos, taken, got, overrun>>
    BY <1>2, Zenon DEF Arrive, ring
  <2>2. Stream' = Stream
    BY <2>1, Zenon DEF Stream
  <2>3. Fresh'
    BY <1>0, <2>1, <2>2, SMTT(30) DEF Fresh, TypeOK, NUL
  <2>4. port' \in 0 .. MaxChar /\ came' \in 0 .. MaxChar
    BY <1>0, <2>1 DEF TypeOK, NUL
  <2> QED BY <1>0, <2>1, <2>2, <2>3, <2>4 DEF Characters, TypeOK, RingBounded, Intact
<1>3. CASE Interrupt \/ cons_polled \/ HandleEnd \/ Tick \/ UNCHANGED vars
  BY <1>1, <1>3, Zenon DEF Interrupt, cons_polled, HandleEnd, Tick, vars
<1>4. ASSUME NEW p \in Reader,
             ReadDone(p) \/ ReadSleep(p) \/ ReadWoken(p)
             \/ (\E n \in 1 .. MaxLen : stdin_io(p, n)) \/ (\E q \in Reader : sys_kill(p, q))
      PROVE  Characters'
  BY <1>1, <1>4, Zenon DEF ReadDone, ReadSleep, ReadWoken, stdin_io, sys_kill
<1> QED BY <1>2, <1>3, <1>4, TakenStep, WriteStep, ReadStep DEF Next, Handler, Kernel

\* Every step keeps the lengths of reads in their bounds.
LEMMA LengthsStep ==
  ASSUME TypeOK, [Next]_vars
  PROVE  len' \in [Reader -> 0 .. MaxLen] /\ ret' \in [Reader -> 0 .. MaxLen]
<1> USE StdinAssumption
<1>1. CASE UNCHANGED <<len, ret>>
  BY <1>1, Zenon DEF TypeOK
<1>2. ASSUME NEW p \in Reader, NEW n \in 1 .. MaxLen, stdin_io(p, n)
      PROVE  len' \in [Reader -> 0 .. MaxLen] /\ ret' \in [Reader -> 0 .. MaxLen]
  BY <1>2 DEF stdin_io, TypeOK
<1>3. ASSUME NEW p \in Reader, ReadChar(p)
      PROVE  len' \in [Reader -> 0 .. MaxLen] /\ ret' \in [Reader -> 0 .. MaxLen]
  <2>1. UNCHANGED len /\ ret' = [ret EXCEPT ![p] = ret[p] + 1] /\ ret[p] < len[p]
    BY <1>3, Zenon DEF ReadChar
  <2>2. ret[p] + 1 \in 0 .. MaxLen
    BY <2>1, SMTT(30) DEF TypeOK
  <2> QED BY <2>1, <2>2, SMTT(30) DEF TypeOK
<1>4. ASSUME NEW p \in Reader,
             ReadDone(p) \/ ReadSleep(p) \/ ReadWoken(p) \/ (\E q \in Reader : sys_kill(p, q))
      PROVE  UNCHANGED <<len, ret>>
  BY <1>4, Zenon DEF ReadDone, ReadSleep, ReadWoken, sys_kill
<1>5. CASE Arrive \/ Interrupt \/ Handler \/ Tick \/ UNCHANGED vars
  BY <1>1, <1>5, Zenon DEF Arrive, Interrupt, Handler, cons_intr, cons_polled,
                            HandleChar, HandleEnd, Tick, vars
<1> QED BY <1>1, <1>2, <1>3, <1>4, <1>5 DEF Next, Kernel

\* A reader goes to sleep only when the ring is empty, and a character that is
\* written wakes all.
LEMMA WakeupStep ==
  ASSUME IInv, [Next]_vars
  PROVE  NoLostWakeup'
<1>0. TypeOK /\ QueueExact /\ NoLostWakeup /\ RingBounded
  BY Zenon DEF IInv
<1>1. ASSUME UNCHANGED <<p_rpos, p_wpos>>, \A p \in Reader : asleep'[p] => asleep[p]
      PROVE  NoLostWakeup'
  BY <1>0, <1>1, Zenon DEF NoLostWakeup
<1>2. CASE Arrive \/ Interrupt \/ cons_intr \/ cons_polled \/ HandleEnd \/ Tick \/ UNCHANGED vars
  BY <1>1, <1>2, Zenon DEF Arrive, Interrupt, cons_intr, cons_polled, HandleEnd, Tick, vars, ring, procs
<1>3. CASE HandleChar
  <2>1. asleep' = [p \in Reader |-> asleep[p] /\ p \notin wait_queue]
    BY <1>3, Zenon DEF HandleChar, dev_stdin_write, Woken
  <2>2. \A p \in Reader : ~asleep'[p]
    BY <1>0, <2>1, Zenon DEF QueueExact
  <2> QED BY <2>2, SMTT(30) DEF NoLostWakeup
<1>4. ASSUME NEW p \in Reader, ReadChar(p) PROVE NoLostWakeup'
  <2>1. p_rpos < p_wpos /\ UNCHANGED asleep
    BY <1>4, Zenon DEF ReadChar, procs
  <2>2. \A q \in Reader : ~asleep[q]
    BY <1>0, <2>1 DEF NoLostWakeup, TypeOK
  <2> QED BY <2>1, <2>2 DEF NoLostWakeup
<1>5. ASSUME NEW p \in Reader, ReadSleep(p) PROVE NoLostWakeup'
  <2>1. p_rpos >= p_wpos /\ UNCHANGED <<p_rpos, p_wpos>>
    BY <1>5, Zenon DEF ReadSleep, ring
  <2>2. p_rpos = p_wpos
    BY <1>0, <2>1 DEF RingBounded, TypeOK
  <2> QED BY <2>1, <2>2 DEF NoLostWakeup
<1>6. ASSUME NEW p \in Reader,
             ReadDone(p) \/ ReadWoken(p) \/ (\E n \in 1 .. MaxLen : stdin_io(p, n))
      PROVE  NoLostWakeup'
  BY <1>1, <1>6, Zenon DEF ReadDone, ReadWoken, stdin_io, ring
<1>7. ASSUME NEW p \in Reader, NEW q \in Reader, sys_kill(p, q) PROVE NoLostWakeup'
  <2>1. asleep' = [asleep EXCEPT ![q] = FALSE] /\ UNCHANGED <<p_rpos, p_wpos>>
    BY <1>7, Zenon DEF sys_kill, ring
  <2>2. \A r \in Reader : asleep'[r] => asleep[r]
    BY <1>0, <2>1, Zenon DEF TypeOK
  <2> QED BY <1>1, <2>1, <2>2
<1> QED BY <1>2, <1>3, <1>4, <1>5, <1>6, <1>7 DEF Next, Handler, Kernel

-----------------------------------------------------------------------------
\* The invariant holds at the start ...
LEMMA InitInv == Init => IInv
<1> USE StdinAssumption
<1> SUFFICES ASSUME Init PROVE IInv
  BY Zenon
<1>1. /\ port = -1 /\ cons = <<>> /\ p_rpos = 0 /\ p_wpos = 0 /\ got = <<>> /\ taken = <<>>
      /\ came = 0 /\ overrun = FALSE /\ running = idle
      /\ stdin_buffer = [i \in 0 .. STDIN_BUFSIZE - 1 |-> 0]
      /\ wait_queue = {} /\ handling = "no"
      /\ pc = [p \in Reader |-> "user"] /\ asleep = [p \in Reader |-> FALSE]
      /\ wakeup_flags = [p \in Reader |-> "INTERRUPTED"] /\ exiting = [p \in Reader |-> FALSE]
      /\ len = [p \in Reader |-> 0] /\ ret = [p \in Reader |-> 0]
  BY Zenon DEF Init, None, NUL
<1>2. Len(cons) = 0 /\ Len(got) = 0
  BY <1>1, Zenon
<1>3. DOMAIN Stream = {} /\ Stream = <<>>
  BY <1>1, <1>2 DEF Stream
<1>4. TypeOK
  <2>1. /\ cons \in Seq(1 .. MaxChar) /\ taken \in Seq(1 .. MaxChar) /\ got \in Seq(0 .. MaxChar)
        /\ stdin_buffer \in [0 .. STDIN_BUFSIZE - 1 -> 0 .. MaxChar]
    BY <1>1
  <2>2. /\ len \in [Reader -> 0 .. MaxLen] /\ ret \in [Reader -> 0 .. MaxLen]
        /\ port \in 0 .. MaxChar \union {None} /\ came \in 0 .. MaxChar
    BY <1>1 DEF None
  <2>3. /\ wait_queue \subseteq Reader /\ running \in Reader \union {idle}
        /\ handling \in {"no", "poll", "polled"} /\ overrun \in BOOLEAN
        /\ asleep \in [Reader -> BOOLEAN] /\ exiting \in [Reader -> BOOLEAN]
    BY <1>1, Zenon
  <2>4. /\ pc \in [Reader -> {"user", "read", "wait", "dead"}]
        /\ wakeup_flags \in [Reader -> {"INTERRUPTED", "KBD"}]
    BY <1>1, Zenon
  <2> QED BY <1>1, <2>1, <2>2, <2>3, <2>4 DEF TypeOK
<1>5. Sane /\ QueueExact /\ NoLostWakeup
  BY <1>1, Zenon DEF Sane, QueueExact, NoLostWakeup
<1>6. RingBounded
  BY <1>1, <1>2 DEF RingBounded
<1>7. Fresh /\ Intact
  BY <1>1, <1>3 DEF Fresh, Intact, IsInjective
<1> QED BY <1>4, <1>5, <1>6, <1>7 DEF IInv

\* ... and is kept by every step.
LEMMA StepInv == IInv /\ [Next]_vars => IInv'
<1> SUFFICES ASSUME IInv, [Next]_vars PROVE IInv'
  BY Zenon
<1>1. Processes' /\ Characters' /\ NoLostWakeup'
  BY ProcessesStep, CharactersStep, WakeupStep, Zenon
<1>2. len' \in [Reader -> 0 .. MaxLen] /\ ret' \in [Reader -> 0 .. MaxLen]
  BY LengthsStep, Zenon DEF IInv
<1>3. TypeOK'
  BY <1>1, <1>2, Zenon DEF Processes, Characters, TypeOK
<1> QED BY <1>1, <1>3 DEF Processes, Characters, IInv

\* It is an invariant.
LEMMA Invariance == Spec => []IInv
BY InitInv, StepInv, PTL DEF Spec

(***************************************************************************)
(* Type correctness of the port, the two buffers, the queue and processes. *)
(***************************************************************************)
THEOREM TypeCorrect == Spec => []TypeOK
<1>1. IInv => TypeOK
  BY Zenon DEF IInv
<1> QED BY <1>1, Invariance, PTL

(***************************************************************************)
(* Between the port and the readers no character is lost, read twice or    *)
(* out of order while the ring has room, and none is read twice after it   *)
(* overflowed, for every size of the ring and any number of readers.       *)
(***************************************************************************)
THEOREM InputIsIntact == Spec => []InputIntact
<1>1. IInv => InputIntact
  BY Zenon DEF IInv, Fresh, Intact, InputIntact
<1> QED BY <1>1, Invariance, PTL

(***************************************************************************)
(* No reader of dev_stdin_read sleeps while the ring holds a character.    *)
(***************************************************************************)
THEOREM NoWakeupIsLost == Spec => []NoLostWakeup
<1>1. IInv => NoLostWakeup
  BY Zenon DEF IInv
<1> QED BY <1>1, Invariance, PTL

(***************************************************************************)
(* The wait queue never links the stack of a process that has left         *)
(* dev_stdin_read, and links every process that sleeps in it.              *)
(***************************************************************************)
THEOREM QueueIsExact == Spec => []QueueExact
<1>1. IInv => QueueExact
  BY Zenon DEF IInv
<1> QED BY <1>1, Invariance, PTL
=============================================================================
