------------------------------ MODULE ProcTree -----------------------------
(***************************************************************************)
(* The inductive invariant of Proc, and what the operations on its data do *)
(* for any number of processes: the run queue under enqueue, dequeue and   *)
(* wakeup_proc, and the process tree under set_links, remove_links and     *)
(* do_exit's loop.                                                         *)
(***************************************************************************)
EXTENDS Proc, TLAPS

Pointer == Process \cup {NULL}

UserLabel == {"user", "trapret", "repeat", "woken", "del_timer", "do_exit", "notify",
              "reparent", "dead"}
InitLabel == {"init_main", "repeat", "woken", "reaped", "alone", "do_exit", "notify"}

\* The fields of the proc_structs and the scheduler's variables have their types.
TypeOK ==
  /\ current \in Process
  /\ state \in [Process -> {"UNINIT", "RUNNABLE", "SLEEPING", "ZOMBIE"}]
  /\ wait_state \in [Process -> {"0", "WT_CHILD", "WT_TIMER"}]
  /\ exiting \in SUBSET Process
  /\ need_resched \in SUBSET Process
  /\ time_slice \in [Process -> Nat]
  /\ rq \in Seq(Process)
  /\ timer \in [Process -> Nat]
  /\ parent \in [Process -> Pointer]
  /\ cptr \in [Process -> Pointer]
  /\ yptr \in [Process -> Pointer]
  /\ optr \in [Process -> Pointer]
  /\ nr_process \in Nat
  /\ pc \in [Process -> UserLabel \cup InitLabel \cup {"cpu_idle"}]
  /\ target \in [Process -> Pointer]
  /\ in_sched \in BOOLEAN

\* Which labels a process can be at.
Labels ==
  /\ pc[idleproc] = "cpu_idle"
  /\ pc[initproc] \in InitLabel
  /\ \A p \in User : pc[p] \in UserLabel

\* What the label a process is at says about its state, and the other way round.
Life ==
  /\ \A p \in Process :
       /\ wait_state[p] # "0" <=> state[p] = "SLEEPING"
       /\ wait_state[p] = "WT_CHILD" => pc[p] = "woken"
       /\ wait_state[p] = "WT_TIMER" => pc[p] = "del_timer"
       /\ state[p] = "ZOMBIE" <=> pc[p] \in {"notify", "reparent", "dead"}
       /\ pc[p] \in {"notify", "reparent"} => p = current /\ ~in_sched
       /\ timer[p] > 0 => pc[p] = "del_timer"
       /\ state[p] = "UNINIT" => p \in User /\ pc[p] = "user"
  /\ state[idleproc] = "RUNNABLE"
  /\ state[initproc] = "ZOMBIE" => panicked # "no"
  /\ target[initproc] = NULL
  /\ pc[initproc] = "alone" => /\ current = initproc /\ ~in_sched
                               /\ \A q \in Process : parent[q] # initproc

\* The process that runs: it exists, and it sleeps or is dead only on its way
\* into schedule().
Current ==
  /\ state[current] # "UNINIT"
  /\ state[current] = "SLEEPING" => in_sched
  /\ pc[current] = "dead" => in_sched

\* Every process except idleproc has a parent, which exists; a free proc_struct
\* points nowhere; a dead process has handed on its children.
Family ==
  /\ \A p \in Process : parent[p] = NULL <=> p = idleproc \/ state[p] = "UNINIT"
  /\ \A p \in Process : parent[p] # NULL => state[parent[p]] # "UNINIT"
  /\ \A p \in Process : parent[p] = idleproc <=> p = initproc
  /\ \A p \in Process : state[p] = "UNINIT" =>
                          cptr[p] = NULL /\ yptr[p] = NULL /\ optr[p] = NULL
  /\ \A p \in Process : pc[p] = "dead" => cptr[p] = NULL

\* cptr points to the youngest child.
Heads ==
  \A p \in Process : cptr[p] # NULL =>
    /\ parent[cptr[p]] = p
    /\ pc[p] # "reparent" => yptr[cptr[p]] = NULL
    /\ \A q \in Process : optr[q] # cptr[p]

\* optr and yptr are inverses among siblings, except that the youngest child of a
\* process in do_exit's loop may have a stale yptr.
Siblings ==
  /\ \A q \in Process : optr[q] # NULL =>
       parent[q] # NULL /\ parent[optr[q]] = parent[q] /\ yptr[optr[q]] = q
  /\ \A q \in Process : parent[q] # NULL /\ cptr[parent[q]] # q =>
       yptr[q] # NULL /\ parent[yptr[q]] = parent[q] /\ optr[yptr[q]] = q

\* Neither parent nor yptr has a cycle.
Acyclic ==
  \A S \in SUBSET Process : S # {} =>
    /\ \E q \in S : parent[q] \notin S
    /\ \E q \in S : yptr[q] \notin S

\* nr_process counts idleproc and the processes on proc_list.
Counted == nr_process = Cardinality(Linked) + 1

\* Whoever sleeps in do_wait has no zombie child that it waits for, except one
\* that has not come to its wakeup_proc yet.
Waiting ==
  \A p, c \in Process :
    /\ wait_state[p] = "WT_CHILD" /\ parent[c] = p /\ state[c] = "ZOMBIE"
    /\ target[p] \in {NULL, c}
    => c = current /\ pc[c] = "notify"

IInv == /\ TypeOK /\ Labels /\ Life /\ Current /\ RunQueueExact /\ NoFailedAssertion
        /\ Family /\ Heads /\ Siblings /\ Acyclic /\ Counted /\ Waiting
-----------------------------------------------------------------------------
(***************************************************************************)
(* Counting.  The lemmas that count processes or look for a first one use  *)
(* these facts, which hold because Process is finite: CountingHolds, at    *)
(* the end of ProcProofs, derives them from ProcAssumption.                *)
(***************************************************************************)
CountingLaws ==
  /\ \A T \in SUBSET Nat : T # {} => \E x \in T : \A y \in T : x <= y
  /\ \A S \in SUBSET Process :
       /\ Cardinality(S) \in Nat
       /\ Cardinality(S) = 0 <=> S = {}
       /\ \A p \in Process \ S : Cardinality(S \cup {p}) = Cardinality(S) + 1
       /\ \A n \in Nat : \A f \in [1 .. n -> S] :
            (\A i, j \in 1 .. n : f[i] = f[j] => i = j) => n <= Cardinality(S)

\* Sets of one process, and sets of processes that lose one.
LEMMA CountOneLess ==
  ASSUME CountingLaws
  PROVE  /\ \A p \in Process : Cardinality({p}) = 1
         /\ \A S \in SUBSET Process : \A p \in S : Cardinality(S \ {p}) = Cardinality(S) - 1
<1>1. ASSUME NEW p \in Process
      PROVE  Cardinality({p}) = 1
  <2>1. {} \in SUBSET Process /\ p \in Process \ {} /\ {} \cup {p} = {p}
    BY Zenon
  <2>2. Cardinality({}) = 0 /\ Cardinality({} \cup {p}) = Cardinality({}) + 1
    BY <2>1, Zenon DEF CountingLaws
  <2> QED
    BY <2>1, <2>2
<1>2. ASSUME NEW S \in SUBSET Process, NEW p \in S
      PROVE  Cardinality(S \ {p}) = Cardinality(S) - 1
  <2>1. S \ {p} \in SUBSET Process /\ p \in Process \ (S \ {p}) /\ (S \ {p}) \cup {p} = S
    BY Zenon
  <2>2. /\ Cardinality(S \ {p}) \in Nat
        /\ Cardinality((S \ {p}) \cup {p}) = Cardinality(S \ {p}) + 1
    BY <2>1, Zenon DEF CountingLaws
  <2>3. Cardinality(S) = Cardinality(S \ {p}) + 1
    BY <2>1, <2>2, Zenon
  <2> DEFINE m == Cardinality(S)
             n == Cardinality(S \ {p})
  <2>4. n \in Nat /\ m = n + 1
    BY <2>2, <2>3, Zenon
  <2> HIDE DEF m, n
  <2>5. n = m - 1
    BY <2>4
  <2> QED
    BY <2>5, Zenon DEF m, n
<1> QED
  BY <1>1, <1>2, Zenon

-----------------------------------------------------------------------------
(* Queues that hold each process of a set once *)

\* do_wait's walk stops at the least index with a zombie.
LEMMA LeastIndex ==
  ASSUME CountingLaws, NEW T \in SUBSET Nat, T # {}
  PROVE  Min(T) \in T /\ \A x \in T : Min(T) <= x
BY Zenon DEF CountingLaws, Min

Lists(q, S) == /\ q \in Seq(Process)
               /\ Range(q) = S
               /\ \A i, j \in DOMAIN q : q[i] = q[j] => i = j

\* An enumeration of a finite set of processes, as run_timer_list wakes them.
LEMMA EnumerationLists ==
  ASSUME CountingLaws, NEW S \in SUBSET Process,
         NEW q \in Bijection(1 .. Cardinality(S), S)
  PROVE  Lists(q, S)
<1> DEFINE n == Cardinality(S)
<1>1. n \in Nat
  BY Zenon DEF CountingLaws
<1>2. /\ q \in [1 .. n -> S] /\ \A t \in S : \E i \in 1 .. n : q[i] = t
      /\ \A i, j \in 1 .. n : q[i] = q[j] => i = j
  BY Zenon DEF Bijection, Injection, Surjection, IsInjective
<1>3. q \in Seq(Process) /\ DOMAIN q = 1 .. n
  BY <1>1, <1>2
<1>4. Range(q) = S
  BY <1>2, <1>3 DEF Range
<1> QED
  BY <1>2, <1>3, <1>4, Zenon DEF Lists

\* A queue followed by another with none of its processes.
LEMMA ConcatLists ==
  ASSUME NEW S, NEW T, NEW q, NEW r, Lists(q, S), Lists(r, T), S \cap T = {}
  PROVE  Lists(q \o r, S \cup T)
<1> DEFINE c == q \o r
<1>1. q \in Seq(Process) /\ r \in Seq(Process)
  BY Zenon DEF Lists
<1>2. /\ Len(q) \in Nat /\ DOMAIN q = 1 .. Len(q)
      /\ Len(r) \in Nat /\ DOMAIN r = 1 .. Len(r)
  BY <1>1
<1>3. /\ c \in Seq(Process) /\ Len(c) = Len(q) + Len(r)
      /\ \A i \in 1 .. Len(q) + Len(r) : c[i] = IF i <= Len(q) THEN q[i] ELSE r[i - Len(q)]
  BY <1>1
<1>4. DOMAIN c = 1 .. Len(q) + Len(r)
  BY <1>3
<1> HIDE DEF c
<1>5. \A i \in DOMAIN q : q[i] \in S
  BY Zenon DEF Lists, Range
<1>6. \A i \in DOMAIN r : r[i] \in T
  BY Zenon DEF Lists, Range
<1>7. ASSUME NEW i \in DOMAIN c
      PROVE  \/ i \in DOMAIN q /\ c[i] = q[i] /\ c[i] \in S
             \/ i - Len(q) \in DOMAIN r /\ c[i] = r[i - Len(q)] /\ c[i] \in T
  BY <1>2, <1>3, <1>4, <1>5, <1>6
<1>8. Range(c) \subseteq S \cup T
  BY <1>7, Zenon DEF Range
<1>9. S \cup T \subseteq Range(c)
  <2>1. ASSUME NEW x \in S
        PROVE  x \in Range(c)
    <3>1. PICK i \in DOMAIN q : x = q[i]
      BY Zenon DEF Lists, Range
    <3>2. i \in DOMAIN c /\ c[i] = x
      BY <1>2, <1>3, <1>4, <3>1
    <3> QED
      BY <3>2, Zenon DEF Range
  <2>2. ASSUME NEW x \in T
        PROVE  x \in Range(c)
    <3>1. PICK i \in DOMAIN r : x = r[i]
      BY Zenon DEF Lists, Range
    <3>2. /\ i + Len(q) \in DOMAIN c /\ ~(i + Len(q) <= Len(q))
          /\ (i + Len(q)) - Len(q) = i
      BY <1>2, <1>4
    <3>3. c[i + Len(q)] = x
      BY <1>3, <1>4, <3>1, <3>2, Zenon
    <3> QED
      BY <3>2, <3>3, Zenon DEF Range
  <2> QED
    BY <2>1, <2>2, Zenon
<1>10. ASSUME NEW i \in DOMAIN c, NEW j \in DOMAIN c, c[i] = c[j]
       PROVE  i = j
  <2>1. i \in Int /\ j \in Int /\ Len(q) \in Int
    BY <1>2, <1>4
  <2>2. CASE i \in DOMAIN q /\ c[i] = q[i] /\ c[i] \in S
    BY <1>7, <1>10, <2>2, Zenon DEF Lists
  <2>3. CASE i - Len(q) \in DOMAIN r /\ c[i] = r[i - Len(q)] /\ c[i] \in T
    <3>1. j - Len(q) \in DOMAIN r /\ c[j] = r[j - Len(q)]
      BY <1>7, <1>10, <2>3, Zenon
    <3>2. i - Len(q) = j - Len(q)
      BY <1>10, <2>3, <3>1, Zenon DEF Lists
    <3> QED
      BY <2>1, <3>2
  <2> QED
    BY <1>7, <2>2, <2>3, Zenon
<1> QED
  BY <1>3, <1>8, <1>9, <1>10, Zenon DEF Lists, c

\* RR_enqueue of a process that is not in the queue.
LEMMA AppendLists ==
  ASSUME NEW S, NEW q, Lists(q, S), NEW p \in Process, p \notin S
  PROVE  Lists(Append(q, p), S \cup {p})
<1>1. <<p>> \in Seq(Process) /\ DOMAIN <<p>> = {1} /\ <<p>>[1] = p
  OBVIOUS
<1>2. Lists(<<p>>, {p})
  BY <1>1 DEF Lists, Range
<1>3. Append(q, p) = q \o <<p>>
  BY DEF Lists
<1> QED
  BY <1>2, <1>3, ConcatLists

\* RR_pick_next and RR_dequeue.
LEMMA HeadLists ==
  ASSUME NEW S, NEW q, Lists(q, S), q # <<>>
  PROVE  Head(q) \in S /\ Head(q) \in Process /\ Lists(Tail(q), S \ {Head(q)})
<1> DEFINE t == Tail(q)
<1>1. q \in Seq(Process)
  BY Zenon DEF Lists
<1>2. /\ Len(q) \in Nat \ {0} /\ DOMAIN q = 1 .. Len(q) /\ Head(q) = q[1]
  BY <1>1
<1>3. /\ Head(q) \in Process
      /\ t \in Seq(Process) /\ Len(t) = Len(q) - 1 /\ \A i \in 1 .. Len(t) : t[i] = q[i + 1]
  BY <1>1
<1>4. DOMAIN t = 1 .. Len(q) - 1
  BY <1>3
<1> HIDE DEF t
<1>5. \A i \in DOMAIN t : i + 1 \in DOMAIN q /\ t[i] = q[i + 1]
  BY <1>2, <1>3, <1>4
<1>6. 1 \in DOMAIN q /\ Head(q) \in S
  BY <1>2 DEF Lists, Range
<1>7. ASSUME NEW i \in DOMAIN t
      PROVE  t[i] \in S \ {Head(q)}
  <2>1. i \in Int /\ i + 1 # 1
    BY <1>2, <1>4
  <2>2. q[i + 1] # q[1]
    BY <1>5, <1>6, <2>1, Zenon DEF Lists
  <2>3. q[i + 1] \in S
    BY <1>5, Zenon DEF Lists, Range
  <2> QED
    BY <1>2, <1>5, <2>2, <2>3, Zenon
<1>8. ASSUME NEW x \in S \ {Head(q)}
      PROVE  x \in Range(t)
  <2>1. PICK i \in DOMAIN q : x = q[i]
    BY Zenon DEF Lists, Range
  <2>2. i # 1
    BY <1>2, <2>1, Zenon
  <2>3. i - 1 \in DOMAIN t /\ i - 1 + 1 = i
    BY <1>2, <1>4, <2>2
  <2>4. t[i - 1] = x
    BY <1>5, <2>1, <2>3, Zenon
  <2> QED
    BY <2>3, <2>4, Zenon DEF Range
<1>9. ASSUME NEW i \in DOMAIN t, NEW j \in DOMAIN t, t[i] = t[j]
      PROVE  i = j
  <2>1. i + 1 = j + 1
    BY <1>5, <1>9, Zenon DEF Lists
  <2> QED
    BY <1>2, <1>4, <2>1
<1>10. Range(t) = S \ {Head(q)}
  BY <1>7, <1>8, Zenon DEF Range
<1> QED
  BY <1>3, <1>6, <1>9, <1>10, Zenon DEF Lists, t

-----------------------------------------------------------------------------
(* wakeup_proc *)

Queued == {p \in Process \ {idleproc, current} : state[p] = "RUNNABLE"}

\* RunQueueExact in terms of Lists.
LEMMA QueueLists ==
  ASSUME TypeOK
  PROVE  RunQueueExact <=> Lists(rq, Queued)
BY Zenon DEF TypeOK, RunQueueExact, Lists, Queued

\* The same in the next state.
LEMMA QueueListsNext ==
  ASSUME rq' \in Seq(Process), Lists(rq', Queued')
  PROVE  RunQueueExact'
BY Zenon DEF RunQueueExact, Lists, Queued

\* Waking processes that sleep or are runnable fails no assertion and keeps the
\* run queue exact.
LEMMA WakeupWakes ==
  ASSUME CountingLaws, TypeOK, RunQueueExact,
         NEW ps \in SUBSET Process, \A p \in ps : state[p] \in {"RUNNABLE", "SLEEPING"},
         NEW ts \in [Process -> Nat], Wakeup(ps, ts), current' = current
  PROVE  /\ panicked' = panicked
         /\ state' \in [Process -> {"UNINIT", "RUNNABLE", "SLEEPING", "ZOMBIE"}]
         /\ wait_state' \in [Process -> {"0", "WT_CHILD", "WT_TIMER"}]
         /\ time_slice' \in [Process -> Nat]
         /\ rq' \in Seq(Process)
         /\ \A p \in Process : state'[p] = IF p \in ps THEN "RUNNABLE" ELSE state[p]
         /\ \A p \in Process : wait_state'[p] = IF p \in ps /\ state[p] = "SLEEPING" THEN "0"
                                                ELSE wait_state[p]
         /\ RunQueueExact'
<1> DEFINE woken  == {p \in ps : state[p] # "RUNNABLE"}
           queued == woken \ {current, idleproc}
<1>1. /\ panicked' = IF \E p \in woken : state[p] = "ZOMBIE" THEN "zombie woken"
                     ELSE IF queued \intersect Range(rq) # {} THEN "queued twice"
                     ELSE panicked
      /\ state' = [p \in Process |-> IF p \in woken THEN "RUNNABLE" ELSE state[p]]
      /\ wait_state' = [p \in Process |-> IF p \in woken THEN "0" ELSE wait_state[p]]
      /\ \E q \in Bijection(1 .. Cardinality(queued), queued) : rq' = rq \o q
      /\ time_slice' = [p \in Process |-> IF p \in queued /\ ts[p] = 0
                                          THEN MAX_TIME_SLICE ELSE ts[p]]
  BY Zenon DEF Wakeup
<1>2. \A p \in Process : p \in woken <=> p \in ps /\ state[p] = "SLEEPING"
  BY Zenon
<1>3. queued \in SUBSET Process
  BY Zenon
<1>4. PICK q \in Bijection(1 .. Cardinality(queued), queued) : rq' = rq \o q
  BY <1>1, Zenon
<1>5. Lists(q, queued) /\ Lists(rq, Queued)
  BY <1>3, EnumerationLists, QueueLists, Zenon
<1>6. Queued \cap queued = {} /\ Range(rq) = Queued
  BY <1>2, <1>5, Zenon DEF Queued, Lists
<1>7. Lists(rq', Queued \cup queued)
  BY <1>4, <1>5, <1>6, ConcatLists, Zenon
<1>8. MAX_TIME_SLICE \in Nat
  BY ProcAssumption, Zenon
<1> HIDE DEF queued
<1>9. \A p \in Process : state'[p] = IF p \in ps THEN "RUNNABLE" ELSE state[p]
  BY <1>1, <1>2, Zenon
<1>10. Queued' = Queued \cup queued
  BY <1>2, <1>9, Zenon DEF Queued, queued
<1>11. RunQueueExact' /\ rq' \in Seq(Process)
  BY <1>7, <1>10, QueueListsNext, Zenon DEF Lists
<1>12. /\ panicked' = panicked
  <2>1. ~ \E p \in woken : state[p] = "ZOMBIE"
    BY <1>2, Zenon
  <2> QED
    BY <1>1, <1>6, <2>1, Zenon
<1>13. /\ state' \in [Process -> {"UNINIT", "RUNNABLE", "SLEEPING", "ZOMBIE"}]
       /\ wait_state' \in [Process -> {"0", "WT_CHILD", "WT_TIMER"}]
  BY <1>1, Zenon DEF TypeOK
<1>14. time_slice' \in [Process -> Nat]
  BY <1>1, <1>8, Zenon
<1>15. \A p \in Process : wait_state'[p] = IF p \in ps /\ state[p] = "SLEEPING" THEN "0"
                                           ELSE wait_state[p]
  BY <1>1, <1>2, Zenon
<1> QED
  BY <1>9, <1>11, <1>12, <1>13, <1>14, <1>15, Zenon

-----------------------------------------------------------------------------
(* The walk along the children *)

N == Cardinality(Process)

\* What the walk of do_wait does: it starts at cptr and goes on along optr.
LEMMA ChainSteps ==
  ASSUME CountingLaws, TypeOK, NEW p \in Process
  PROVE  /\ N \in Nat \ {0}
         /\ Chain(p) \in [1 .. N -> Pointer]
         /\ \A n \in 1 .. N : Chain(p)[n] =
              IF n = 1 THEN cptr[p]
              ELSE IF Chain(p)[n - 1] = NULL THEN NULL ELSE optr[Chain(p)[n - 1]]
<1>1. N \in Nat \ {0}
  <2>1. Process \in SUBSET Process /\ Process # {}
    BY Zenon DEF Process
  <2>2. Cardinality(Process) \in Nat /\ Cardinality(Process) # 0
    BY <2>1, Zenon DEF CountingLaws
  <2> QED
    BY <2>2, Zenon DEF N
<1>2. /\ cptr[p] \in Pointer /\ NULL \in Pointer
      /\ \A x \in Pointer : x # NULL => optr[x] \in Pointer
  BY Zenon DEF TypeOK, Pointer
<1> DEFINE Walk(g, n) == IF n = 1 THEN cptr[p]
                         ELSE IF g[n - 1] = NULL THEN NULL ELSE optr[g[n - 1]]
           Walks(g, m) == /\ g \in [1 .. m -> Pointer]
                          /\ \A n \in 1 .. m : g[n] = Walk(g, n)
           T == {m \in Nat : ~ \E g : Walks(g, m)}
<1>3. T = {}
  <2> SUFFICES ASSUME T # {}
               PROVE  FALSE
    BY Zenon
  <2> DEFINE m == Min(T)
  <2>1. m \in T /\ \A x \in T : m <= x
    BY LeastIndex, Zenon
  <2> HIDE DEF m
  <2>2. m # 0
    <3>1. Walks([n \in 1 .. 0 |-> NULL], 0)
      OBVIOUS
    <3> QED
      BY <2>1, <3>1, Zenon
  <2>3. m - 1 \in Nat /\ m - 1 \notin T
    <3>1. m \in Nat
      BY <2>1, Zenon
    <3>2. m - 1 \in Nat /\ ~(m <= m - 1)
      BY <2>2, <3>1
    <3> HIDE DEF T
    <3> QED
      BY <2>1, <3>2, Zenon
  <2>4. PICK g : Walks(g, m - 1)
    BY <2>3, Zenon
  <2> DEFINE h == [n \in 1 .. m |-> IF n = m THEN Walk(g, m) ELSE g[n]]
  <2>5. m = 1 \/ m - 1 \in 1 .. m - 1
    BY <2>1, <2>2
  <2>6. Walk(g, m) \in Pointer
    BY <1>2, <2>4, <2>5, Zenon
  <2>7. \A n \in 1 .. m : n # m => n \in 1 .. m - 1
    BY <2>1
  <2>8. h \in [1 .. m -> Pointer]
    BY <2>4, <2>6, <2>7, Zenon
  <2>9. ASSUME NEW n \in 1 .. m
        PROVE  h[n] = Walk(h, n)
    <3>1. h[n] = Walk(g, n)
      BY <2>4, <2>7, Zenon
    <3>2. n = 1 \/ (n - 1 \in 1 .. m /\ n - 1 # m)
      BY <2>1
    <3>3. n = 1 \/ h[n - 1] = g[n - 1]
      BY <3>2, Zenon
    <3> HIDE DEF h
    <3> QED
      BY <3>1, <3>3, Zenon
  <2> QED
    BY <2>1, <2>8, <2>9, ZenonT(30)
<1>4. PICK g : Walks(g, N)
  BY <1>1, <1>3, Zenon
<1> DEFINE F(at) == [n \in 1 .. N |-> Walk(at, n)]
<1>5. g = F(g)
  BY <1>4, Zenon
<1>6. Chain(p) = CHOOSE at : at = F(at)
  BY Zenon DEF Chain, N
<1>7. Chain(p) = F(Chain(p))
  <2> HIDE DEF F
  <2> QED
    BY <1>5, <1>6, Zenon
<1> DEFINE c == Chain(p)
<1> HIDE DEF c
<1>8. c = [n \in 1 .. N |-> Walk(c, n)]
  BY <1>7, Zenon DEF c
<1>9. \A n \in 1 .. N : c[n] = Walk(c, n)
  BY <1>8, Zenon
<1>10. ASSUME NEW n \in 1 .. N
       PROVE  c[n] \in Pointer
  <2> DEFINE B == {k \in 1 .. N : c[k] \notin Pointer}
  <2> SUFFICES B = {}
    BY Zenon
  <2> SUFFICES ASSUME B # {}
               PROVE  FALSE
    BY Zenon
  <2> DEFINE k == Min(B)
  <2>1. k \in B /\ \A x \in B : k <= x
    <3>1. B \in SUBSET Nat
      OBVIOUS
    <3> QED
      BY <3>1, LeastIndex, Zenon
  <2> HIDE DEF k
  <2>2. k # 1
    BY <1>2, <1>9, <2>1, Zenon
  <2>3. k - 1 \in 1 .. N /\ k - 1 \notin B
    BY <1>1, <2>1, <2>2
  <2>4. c[k] \in Pointer
    BY <1>2, <1>9, <2>1, <2>2, <2>3, Zenon
  <2> QED
    BY <2>1, <2>4, Zenon
<1>11. c \in [1 .. N -> Pointer]
  BY <1>8, <1>10, Zenon
<1> QED
  BY <1>1, <1>9, <1>11, Zenon DEF c

\* The walk meets every child once, youngest first, and yptr is the way back.
LEMMA ChainExact ==
  ASSUME CountingLaws, TypeOK, Heads, Siblings, Acyclic, NEW p \in Process, pc[p] # "reparent"
  PROVE  LET c == Chain(p) IN
         /\ Range(c) \ {NULL} = {q \in Process : parent[q] = p}
         /\ \A i \in DOMAIN c : c[i] # NULL => yptr[c[i]] = IF i = 1 THEN NULL ELSE c[i - 1]
         /\ \A i, j \in DOMAIN c : c[i] = c[j] /\ c[i] # NULL => i = j
<1> DEFINE c == Chain(p)
<1>1. /\ N \in Nat \ {0} /\ c \in [1 .. N -> Pointer]
      /\ \A n \in 1 .. N : c[n] = IF n = 1 THEN cptr[p]
                                  ELSE IF c[n - 1] = NULL THEN NULL ELSE optr[c[n - 1]]
  BY ChainSteps, Zenon
<1> HIDE DEF c
<1>2. NULL \notin Process /\ \A x \in Pointer : x # NULL => x \in Process
  BY ProcAssumption, Zenon DEF Pointer
<1>3. ASSUME NEW n \in 1 .. N, c[n] # NULL, n # 1
      PROVE  /\ n - 1 \in 1 .. N /\ c[n - 1] \in Process /\ c[n] \in Process
             /\ c[n] = optr[c[n - 1]] /\ parent[c[n]] = parent[c[n - 1]]
             /\ yptr[c[n]] = c[n - 1]
  <2>1. n - 1 \in 1 .. N
    BY <1>1, <1>3
  <2>2. c[n - 1] # NULL /\ c[n] = optr[c[n - 1]]
    BY <1>1, <1>3, Zenon
  <2>3. c[n - 1] \in Process /\ c[n] \in Process
    BY <1>1, <1>2, <1>3, <2>1, <2>2, Zenon
  <2> QED
    BY <1>3, <2>1, <2>2, <2>3 DEF Siblings
<1>4. ASSUME NEW n \in 1 .. N, c[n] # NULL
      PROVE  parent[c[n]] = p
  <2> DEFINE B == {k \in 1 .. N : c[k] # NULL /\ parent[c[k]] # p}
  <2> SUFFICES ASSUME B # {}
               PROVE  FALSE
    BY <1>4, Zenon
  <2> DEFINE k == Min(B)
  <2>1. k \in B /\ \A x \in B : k <= x
    <3>1. B \in SUBSET Nat
      OBVIOUS
    <3> QED
      BY <3>1, LeastIndex, Zenon
  <2> HIDE DEF k
  <2>2. k # 1
    BY <1>1, <2>1 DEF Heads
  <2>3. k - 1 \in 1 .. N /\ c[k - 1] \in Process /\ parent[c[k - 1]] # p
    BY <1>3, <2>1, <2>2, Zenon
  <2>4. k - 1 \in B
    BY <1>2, <2>3, Zenon
  <2>5. k \in Int /\ ~(k <= k - 1)
    BY <2>1
  <2> HIDE DEF B
  <2> QED
    BY <2>1, <2>4, <2>5, Zenon
<1>5. ASSUME NEW i \in 1 .. N, c[i] # NULL
      PROVE  yptr[c[i]] = IF i = 1 THEN NULL ELSE c[i - 1]
  BY <1>1, <1>3, <1>5 DEF Heads
<1>6. ASSUME NEW i \in 1 .. N, NEW j \in 1 .. N, c[i] = c[j], c[i] # NULL, i < j
      PROVE  FALSE
  <2> DEFINE B == {k \in 1 .. N : \E l \in 1 .. N : k < l /\ c[k] = c[l] /\ c[k] # NULL}
  <2>1. i \in B /\ B \in SUBSET Nat
    BY <1>6
  <2> DEFINE k == Min(B)
  <2>2. k \in B /\ \A x \in B : k <= x
    BY <2>1, LeastIndex, Zenon
  <2> HIDE DEF k
  <2>3. PICK l \in 1 .. N : k < l /\ c[k] = c[l] /\ c[k] # NULL
    BY <2>2, Zenon
  <2>4. k \in 1 .. N /\ l # 1
    BY <2>2, <2>3
  <2>5. yptr[c[l]] = c[l - 1] /\ l - 1 \in 1 .. N /\ c[l - 1] \in Process
    BY <1>3, <2>3, <2>4, Zenon
  <2>6. k # 1
    BY <1>2, <1>5, <2>3, <2>4, <2>5, Zenon
  <2>7. yptr[c[k]] = c[k - 1] /\ k - 1 \in 1 .. N
    BY <1>3, <2>3, <2>4, <2>6, Zenon
  <2>8. k - 1 < l - 1 /\ ~(k <= k - 1)
    BY <2>3, <2>4
  <2>9. k - 1 \in B
    BY <1>2, <2>3, <2>5, <2>7, <2>8, Zenon
  <2> HIDE DEF B
  <2> QED
    BY <2>2, <2>8, <2>9, Zenon
<1>7. ASSUME NEW i \in 1 .. N, NEW j \in 1 .. N, c[i] = c[j], c[i] # NULL
      PROVE  i = j
  <2>1. i < j \/ j < i \/ i = j
    OBVIOUS
  <2> QED
    BY <1>6, <1>7, <2>1, Zenon
<1>8. Range(c) \ {NULL} \subseteq {q \in Process : parent[q] = p}
  BY <1>1, <1>2, <1>4 DEF Range
<1>9. {q \in Process : parent[q] = p} \subseteq Range(c)
  <2> DEFINE S == {q \in Process : parent[q] = p} \ Range(c)
  <2> SUFFICES ASSUME S # {}
               PROVE  FALSE
    BY Zenon
  <2>1. PICK q \in S : yptr[q] \notin S
    <3>1. S \in SUBSET Process
      BY Zenon
    <3> QED
      BY <3>1, Zenon DEF Acyclic
  <2>2. q # cptr[p]
    <3>1. cptr[p] \in Range(c)
      BY <1>1 DEF Range
    <3> QED
      BY <2>1, <3>1, Zenon
  <2>3. yptr[q] # NULL /\ parent[yptr[q]] = p /\ optr[yptr[q]] = q
    BY <1>2, <2>1, <2>2, Zenon DEF Siblings
  <2>4. yptr[q] \in Process
    BY <1>2, <2>1, <2>3, Zenon DEF TypeOK
  <2>5. PICK n \in 1 .. N : yptr[q] = c[n]
    BY <1>1, <2>1, <2>3, <2>4 DEF Range
  <2>6. n = N
    <3> SUFFICES ASSUME n # N
                 PROVE  FALSE
      BY Zenon
    <3>1. n + 1 \in 1 .. N /\ n + 1 # 1 /\ n + 1 - 1 = n
      BY <1>1
    <3>2. c[n + 1] = q
      BY <1>1, <2>3, <2>5, <3>1
    <3> QED
      BY <1>1, <2>1, <3>1, <3>2, Zenon DEF Range
  <2>7. ASSUME NEW m \in 1 .. N
        PROVE  c[m] # NULL
    <3> DEFINE B == {k \in Nat : k < N /\ c[N - k] = NULL}
    <3> SUFFICES ASSUME B # {}
                 PROVE  FALSE
      <4>1. N - m \in Nat /\ N - m < N /\ N - (N - m) = m
        BY <1>1
      <4> QED
        BY <4>1, Zenon
    <3> DEFINE k == Min(B)
    <3>1. k \in B /\ \A x \in B : k <= x
      <4>1. B \in SUBSET Nat
        BY Zenon
      <4> QED
        BY <4>1, LeastIndex, Zenon
    <3> HIDE DEF k
    <3>2. k # 0
      BY <1>1, <2>3, <2>5, <2>6, <3>1
    <3>3. /\ k \in Nat /\ k - 1 \in Nat /\ k - 1 < N /\ ~(k <= k - 1)
          /\ N - k + 1 \in 1 .. N /\ N - k + 1 # 1 /\ N - (k - 1) = N - k + 1
          /\ N - k + 1 - 1 = N - k
      BY <1>1, <3>1, <3>2
    <3>4. c[N - k + 1] = NULL
      BY <1>1, <3>1, <3>3
    <3>5. k - 1 \in B
      BY <3>3, <3>4, Zenon
    <3> HIDE DEF B
    <3> QED
      BY <3>1, <3>3, <3>5, Zenon
  <2>8. c \in [1 .. N -> Process \ {q}]
    <3>1. \A m \in 1 .. N : c[m] \in Process /\ c[m] # q
      BY <1>1, <1>2, <2>1, <2>7 DEF Range
    <3> QED
      BY <1>1, <3>1, Zenon
  <2>9. Cardinality(Process \ {q}) = N - 1
    BY <2>1, CountOneLess, Zenon DEF N
  <2>10. N <= Cardinality(Process \ {q})
    <3>1. Process \ {q} \in SUBSET Process /\ N \in Nat
      BY <1>1, Zenon
    <3>2. \A i, j \in 1 .. N : c[i] = c[j] => i = j
      BY <1>7, <2>7, Zenon
    <3> QED
      BY <2>8, <3>1, <3>2, Zenon DEF CountingLaws
  <2> QED
    BY <1>1, <2>9, <2>10
<1>10. Range(c) \ {NULL} = {q \in Process : parent[q] = p}
  BY <1>2, <1>8, <1>9, Zenon
<1>11. DOMAIN c = 1 .. N
  BY <1>1, Zenon
<1> QED
  BY <1>5, <1>7, <1>10, <1>11, Zenon DEF c

-----------------------------------------------------------------------------
(* The process tree *)

Tree == Family /\ Heads /\ Siblings /\ Acyclic /\ Counted

\* A step that leaves the pointers alone keeps the tree.
LEMMA TreeFrame ==
  ASSUME TypeOK, Tree, UNCHANGED links,
         \A p \in Process : state'[p] = "UNINIT" <=> state[p] = "UNINIT",
         \A p \in Process : pc'[p] = "dead" => pc[p] = "dead" \/ cptr[p] = NULL,
         \A p \in Process : pc[p] = "reparent" => pc'[p] = "reparent" \/ cptr[p] = NULL
  PROVE  Tree'
<1>1. parent' = parent /\ cptr' = cptr /\ yptr' = yptr /\ optr' = optr /\ nr_process' = nr_process
  BY Zenon DEF links
<1>2. Family'
  <2>1. \A x \in Process : parent[x] # NULL => parent[x] \in Process
    BY DEF TypeOK, Pointer
  <2> QED
    BY <1>1, <2>1, Zenon DEF Tree, Family
<1>3. Heads'
  BY <1>1 DEF Tree, Heads
<1>4. Siblings' /\ Acyclic'
  BY <1>1, Zenon DEF Tree, Siblings, Acyclic
<1>5. Linked' = Linked
  BY Zenon DEF Linked
<1>6. Counted'
  BY <1>1, <1>5, Zenon DEF Tree, Counted
<1> QED
  BY <1>2, <1>3, <1>4, <1>6, Zenon DEF Tree

\* set_links adds a youngest child to the process that forks.
LEMMA ForkTree ==
  ASSUME CountingLaws, TypeOK, Tree, NEW p \in User, state[p] = "UNINIT", state[current] # "UNINIT",
         current # idleproc, pc[current] \notin {"reparent", "dead"},
         set_links(p), state' = [state EXCEPT ![p] = "RUNNABLE"],
         \A q \in Process : pc'[q] \in {"reparent", "dead"} => pc'[q] = pc[q],
         \A q \in Process : pc[q] \in {"reparent", "dead"} => pc'[q] = pc[q]
  PROVE  Tree'
<1> DEFINE h == cptr[current]
<1>1. /\ p \in Process /\ current \in Process /\ p # current /\ p # NULL /\ current # NULL
      /\ NULL \notin Process /\ idleproc \in Process /\ initproc \in Process
      /\ p # idleproc /\ p # initproc
  BY ProcAssumption, Zenon DEF TypeOK, Process
<1>2. /\ parent \in [Process -> Pointer] /\ cptr \in [Process -> Pointer]
      /\ yptr \in [Process -> Pointer] /\ optr \in [Process -> Pointer]
      /\ state \in [Process -> {"UNINIT", "RUNNABLE", "SLEEPING", "ZOMBIE"}]
      /\ \A x \in Pointer : x # NULL => x \in Process
  BY Zenon DEF TypeOK, Pointer
<1>3. h # p /\ parent[p] = NULL /\ cptr[p] = NULL /\ yptr[p] = NULL /\ optr[p] = NULL
  BY <1>1, <1>2 DEF Tree, Family, Heads
<1>4. /\ \A x \in Process : yptr'[x] = IF x = h THEN p ELSE IF x = p THEN NULL ELSE yptr[x]
      /\ \A x \in Process : optr'[x] = IF x = p THEN h ELSE optr[x]
      /\ \A x \in Process : cptr'[x] = IF x = current THEN p ELSE cptr[x]
      /\ \A x \in Process : parent'[x] = IF x = p THEN current ELSE parent[x]
      /\ \A x \in Process : state'[x] = IF x = p THEN "RUNNABLE" ELSE state[x]
      /\ nr_process' = nr_process + 1
  <2>1. CASE h = NULL
    BY <1>1, <1>2, <1>3, <2>1 DEF set_links, Store
  <2>2. CASE h # NULL
    BY <1>1, <1>2, <1>3, <2>2, Zenon DEF set_links, Store
  <2> QED
    BY <2>1, <2>2, Zenon
<1>5. h # NULL => h \in Process /\ parent[h] = current /\ yptr[h] = NULL
  BY <1>1, <1>2 DEF Tree, Heads
<1>6. \A x \in Process : parent[x] # p /\ cptr[x] # p /\ optr[x] # p
  <2>1. \A x \in Process : parent[x] # p
    BY <1>1, <1>2, <1>3 DEF Tree, Family
  <2>2. \A x \in Process : cptr[x] # p
    BY <1>1, <1>2, <1>3 DEF Tree, Heads
  <2>3. \A x \in Process : optr[x] # p
    BY <1>1, <1>2, <1>3 DEF Tree, Siblings
  <2> QED
    BY <2>1, <2>2, <2>3, Zenon
<1>7. Family'
  <2> USE DEF Tree, Family
  <2>1. \A x \in Process : parent'[x] = NULL <=> x = idleproc \/ state'[x] = "UNINIT"
    BY <1>1, <1>4
  <2>2. ASSUME NEW x \in Process, parent'[x] # NULL
        PROVE  state'[parent'[x]] # "UNINIT"
    <3>1. CASE x = p
      BY <1>1, <1>4, <3>1
    <3>2. CASE x # p
      BY <1>1, <1>2, <1>4, <1>6, <2>2, <3>2
    <3> QED
      BY <3>1, <3>2, Zenon
  <2>3. \A x \in Process : parent'[x] = idleproc <=> x = initproc
    BY <1>1, <1>4
  <2>4. ASSUME NEW x \in Process, state'[x] = "UNINIT"
        PROVE  cptr'[x] = NULL /\ yptr'[x] = NULL /\ optr'[x] = NULL
    <3>1. x # p /\ state[x] = "UNINIT" /\ x # current
      BY <1>4, <2>4
    <3>2. parent[x] = NULL
      BY <3>1, Zenon
    <3>3. x # h
      BY <1>1, <1>5, <3>2, SMTT(30)
    <3> QED
      BY <1>4, <3>1, <3>3
  <2>5. \A x \in Process : pc'[x] = "dead" => cptr'[x] = NULL
    BY <1>4
  <2> QED
    BY <2>1, <2>2, <2>3, <2>4, <2>5, ZenonT(30)
<1>8. Heads'
  <2> SUFFICES ASSUME NEW x \in Process, cptr'[x] # NULL
               PROVE  /\ parent'[cptr'[x]] = x
                      /\ pc'[x] # "reparent" => yptr'[cptr'[x]] = NULL
                      /\ \A q \in Process : optr'[q] # cptr'[x]
    BY Zenon DEF Heads
  <2>1. CASE x = current
    BY <1>1, <1>3, <1>4, <1>6, <2>1
  <2>2. CASE x # current
    <3>1. cptr'[x] = cptr[x] /\ cptr[x] \in Process /\ cptr[x] # p
      BY <1>2, <1>4, <1>6, <2>2
    <3>2. parent[cptr[x]] = x /\ cptr[x] # h
      BY <1>5, <2>2, <3>1, Zenon DEF Tree, Heads
    <3> QED
      BY <1>4, <2>2, <3>1, <3>2 DEF Tree, Heads
  <2> QED
    BY <2>1, <2>2, Zenon
<1>9. Siblings'
  <2>1. ASSUME NEW q \in Process, optr'[q] # NULL
        PROVE  parent'[q] # NULL /\ parent'[optr'[q]] = parent'[q] /\ yptr'[optr'[q]] = q
    <3>1. CASE q = p
      BY <1>1, <1>3, <1>4, <1>5, <2>1, <3>1
    <3>2. CASE q # p
      <4>1. optr'[q] = optr[q] /\ optr[q] \in Process /\ optr[q] # p /\ optr[q] # h
        BY <1>1, <1>2, <1>4, <1>5, <1>6, <2>1, <3>2, SMTT(30) DEF Tree, Heads
      <4> QED
        BY <1>1, <1>4, <2>1, <3>2, <4>1, SMTT(30) DEF Tree, Siblings
    <3> QED
      BY <3>1, <3>2, Zenon
  <2>2. ASSUME NEW q \in Process, parent'[q] # NULL, cptr'[parent'[q]] # q
        PROVE  yptr'[q] # NULL /\ parent'[yptr'[q]] = parent'[q] /\ optr'[yptr'[q]] = q
    <3>1. q # p
      BY <1>1, <1>4, <2>2, Zenon
    <3>2. CASE q = h
      BY <1>1, <1>4, <1>5, <3>1, <3>2
    <3>3. CASE q # h
      <4>1. parent'[q] = parent[q] /\ parent[q] \in Process
        BY <1>2, <1>4, <2>2, <3>1
      <4>2. cptr[parent[q]] # q
        BY <1>4, <2>2, <3>3, <4>1
      <4>3. yptr[q] # NULL /\ parent[yptr[q]] = parent[q] /\ optr[yptr[q]] = q
        BY <2>2, <4>1, <4>2, Zenon DEF Tree, Siblings
      <4>4. yptr[q] \in Process /\ yptr[q] # p
        BY <1>1, <1>2, <1>3, <4>3, Zenon
      <4> QED
        BY <1>4, <3>1, <3>3, <4>1, <4>3, <4>4
    <3> QED
      BY <3>2, <3>3, Zenon
  <2> QED
    BY <2>1, <2>2, Zenon DEF Siblings
<1>10. Acyclic'
  <2> SUFFICES ASSUME NEW S \in SUBSET Process, S # {}
               PROVE  (\E q \in S : parent'[q] \notin S) /\ (\E q \in S : yptr'[q] \notin S)
    BY Zenon DEF Acyclic
  <2>1. \E q \in S : parent'[q] \notin S
    <3>1. CASE S = {p}
      BY <1>1, <1>4, <3>1, Zenon
    <3>2. CASE S # {p}
      <4>1. S \ {p} # {} /\ S \ {p} \in SUBSET Process
        BY <3>2, Zenon
      <4>2. PICK q \in S \ {p} : parent[q] \notin S \ {p}
        BY <4>1, Zenon DEF Tree, Acyclic
      <4> QED
        BY <1>4, <1>6, <4>2, Zenon
    <3> QED
      BY <3>1, <3>2, Zenon
  <2>2. \E q \in S : yptr'[q] \notin S
    <3>1. CASE p \in S
      BY <1>1, <1>3, <1>4, <3>1
    <3>2. CASE p \notin S
      <4>1. PICK q \in S : yptr[q] \notin S
        BY Zenon DEF Tree, Acyclic
      <4> QED
        BY <1>4, <3>2, <4>1
    <3> QED
      BY <3>1, <3>2, Zenon
  <2> QED
    BY <2>1, <2>2, Zenon
<1>11. Counted'
  <2>1. Linked' = Linked \cup {p} /\ p \notin Linked
    BY <1>1, <1>4 DEF Linked
  <2>2. Linked \in SUBSET Process /\ p \in Process \ Linked
    BY <1>1, <2>1, Zenon DEF Linked
  <2>3. Cardinality(Linked') = Cardinality(Linked) + 1
    BY <2>1, <2>2, Zenon DEF CountingLaws
  <2>4. Cardinality(Linked) \in Nat
    BY <2>2, Zenon DEF CountingLaws
  <2> QED
    BY <1>4, <2>3, <2>4, Zenon DEF Tree, Counted
<1> QED
  BY <1>7, <1>8, <1>9, <1>10, <1>11, Zenon DEF Tree

\* A process without a cptr is nobody's parent.
LEMMA NoChildren ==
  ASSUME TypeOK, Tree, NEW p \in Process, cptr[p] = NULL
  PROVE  \A q \in Process : parent[q] # p
<1> DEFINE S == {q \in Process : parent[q] = p}
<1> SUFFICES ASSUME S # {}
             PROVE  FALSE
  BY Zenon
<1>1. PICK q \in S : yptr[q] \notin S
  <2>1. S \in SUBSET Process
    BY Zenon
  <2> QED
    BY <2>1, Zenon DEF Tree, Acyclic
<1>2. q \in Process /\ parent[q] = p /\ parent[q] # NULL /\ cptr[parent[q]] # q
  BY ProcAssumption, <1>1, Zenon
<1>3. yptr[q] # NULL /\ parent[yptr[q]] = p
  BY <1>2, Zenon DEF Tree, Siblings
<1>4. yptr[q] \in Process
  BY <1>2, <1>3, Zenon DEF TypeOK, Pointer
<1> QED
  BY <1>1, <1>3, <1>4, Zenon

\* remove_links takes a process without children out of its parent's list.
LEMMA ReapTree ==
  ASSUME CountingLaws, TypeOK, Tree, NEW c \in User, parent[c] = current, cptr[c] = NULL,
         pc[current] # "reparent",
         remove_links(c), state' = [state EXCEPT ![c] = "UNINIT"],
         \A q \in Process : pc'[q] = "dead" => pc[q] = "dead",
         \A q \in Process : pc[q] = "reparent" => pc'[q] = "reparent"
  PROVE  Tree'
<1> DEFINE y == yptr[c]
           o == optr[c]
<1>1. /\ c \in Process /\ current \in Process /\ c # NULL /\ current # NULL
      /\ NULL \notin Process /\ idleproc \in Process /\ initproc \in Process
      /\ c # idleproc /\ c # initproc
  BY ProcAssumption DEF TypeOK, Process
<1>2. /\ parent \in [Process -> Pointer] /\ cptr \in [Process -> Pointer]
      /\ yptr \in [Process -> Pointer] /\ optr \in [Process -> Pointer]
      /\ state \in [Process -> {"UNINIT", "RUNNABLE", "SLEEPING", "ZOMBIE"}]
      /\ \A x \in Pointer : x # NULL => x \in Process
  BY Zenon DEF TypeOK, Pointer
<1>3. y # c
  <2>1. {c} \in SUBSET Process /\ {c} # {}
    BY <1>1, Zenon
  <2>2. \E q \in {c} : yptr[q] \notin {c}
    BY <2>1, Zenon DEF Tree, Acyclic
  <2> QED
    BY <2>2, Zenon
<1>4. o # NULL => o \in Process /\ parent[o] = current /\ yptr[o] = c /\ o # c
  BY <1>1, <1>2, <1>3 DEF Tree, Siblings
<1>5. y # NULL => y \in Process /\ parent[y] = current /\ optr[y] = c /\ cptr[current] # c
  BY <1>1, <1>2 DEF Tree, Siblings, Heads
<1>6. y = NULL => cptr[current] = c
  BY <1>1, <1>2, Zenon DEF Tree, Siblings
<1>7. \A x \in Process : parent[x] # c
  BY <1>1, NoChildren, Zenon
<1>8. /\ \A x \in Process : yptr'[x] = IF x = c THEN NULL ELSE IF x = o THEN y ELSE yptr[x]
      /\ \A x \in Process : optr'[x] = IF x = c THEN NULL ELSE IF x = y THEN o ELSE optr[x]
      /\ \A x \in Process : cptr'[x] = IF x = current /\ y = NULL THEN o ELSE cptr[x]
      /\ \A x \in Process : parent'[x] = IF x = c THEN NULL ELSE parent[x]
      /\ \A x \in Process : state'[x] = IF x = c THEN "UNINIT" ELSE state[x]
      /\ nr_process' = nr_process - 1
  <2>1. \A x \in Process : yptr'[x] = IF x = c THEN NULL ELSE IF x = o THEN y ELSE yptr[x]
    <3>1. CASE o = NULL
      BY <1>1, <1>2, <3>1 DEF remove_links, Store
    <3>2. CASE o # NULL
      BY <1>1, <1>2, <1>4, <3>2, Zenon DEF remove_links, Store
    <3> QED
      BY <3>1, <3>2, Zenon
  <2>2. \A x \in Process : optr'[x] = IF x = c THEN NULL ELSE IF x = y THEN o ELSE optr[x]
    <3>1. CASE y = NULL
      BY <1>1, <1>2, <3>1 DEF remove_links, Store
    <3>2. CASE y # NULL
      BY <1>1, <1>2, <1>5, <3>2, Zenon DEF remove_links, Store
    <3> QED
      BY <3>1, <3>2, Zenon
  <2>3. \A x \in Process : cptr'[x] = IF x = current /\ y = NULL THEN o ELSE cptr[x]
    BY <1>1, <1>2, Zenon DEF remove_links
  <2>4. \A x \in Process : /\ parent'[x] = IF x = c THEN NULL ELSE parent[x]
                           /\ state'[x] = IF x = c THEN "UNINIT" ELSE state[x]
    BY <1>1, <1>2 DEF remove_links
  <2>5. nr_process' = nr_process - 1
    BY Zenon DEF remove_links
  <2> QED
    BY <2>1, <2>2, <2>3, <2>4, <2>5, Zenon
<1> HIDE DEF y, o
<1>9. Family'
  <2> USE DEF Tree, Family
  <2>1. \A x \in Process : parent'[x] = NULL <=> x = idleproc \/ state'[x] = "UNINIT"
    BY <1>1, <1>8
  <2>2. \A x \in Process : parent'[x] # NULL => state'[parent'[x]] # "UNINIT"
    BY <1>1, <1>2, <1>7, <1>8
  <2>3. \A x \in Process : parent'[x] = idleproc <=> x = initproc
    BY <1>1, <1>8, SMTT(30)
  <2>4. ASSUME NEW x \in Process, state'[x] = "UNINIT"
        PROVE  cptr'[x] = NULL /\ yptr'[x] = NULL /\ optr'[x] = NULL
    <3>1. CASE x = c
      BY <1>1, <1>7, <1>8, <3>1, SMTT(30)
    <3>2. CASE x # c
      <4>1. state[x] = "UNINIT" /\ parent[x] = NULL
        BY <1>8, <2>4, <3>2
      <4>2. x # y /\ x # o /\ x # current
        BY <1>1, <1>4, <1>5, <4>1, SMTT(30)
      <4> QED
        BY <1>8, <3>2, <4>1, <4>2, SMTT(30)
    <3> QED
      BY <3>1, <3>2, ZenonT(30)
  <2>5. ASSUME NEW x \in Process, pc'[x] = "dead"
        PROVE  cptr'[x] = NULL
    <3>1. cptr[x] = NULL
      BY <2>5, Zenon
    <3>2. x # current \/ y # NULL
      BY <1>1, <1>6, <3>1, Zenon
    <3> QED
      BY <1>8, <3>1, <3>2, Zenon
  <2> QED
    BY <2>1, <2>2, <2>3, <2>4, <2>5, Zenon
<1>10. Heads'
  <2> SUFFICES ASSUME NEW x \in Process, cptr'[x] # NULL
               PROVE  /\ parent'[cptr'[x]] = x
                      /\ pc'[x] # "reparent" => yptr'[cptr'[x]] = NULL
                      /\ \A q \in Process : optr'[q] # cptr'[x]
    BY Zenon DEF Heads
  <2>1. CASE x = current /\ y = NULL
    <3>1. cptr'[x] = o /\ o # NULL
      BY <1>8, <2>1, Zenon
    <3>2. ASSUME NEW q \in Process
          PROVE  optr'[q] # o
      <4>1. q # c => optr[q] # o
        BY <1>4, <3>1 DEF Tree, Siblings
      <4> QED
        BY <1>1, <1>4, <1>8, <2>1, <3>1, <4>1, SMTT(30)
    <3> QED
      BY <1>4, <1>8, <2>1, <3>1, <3>2, SMTT(30)
  <2>2. CASE ~(x = current /\ y = NULL)
    <3>1. cptr'[x] = cptr[x] /\ cptr[x] \in Process /\ parent[cptr[x]] = x
      BY <1>2, <1>8, <2>2, SMTT(30) DEF Tree, Heads
    <3>2. cptr[x] # c
      BY <1>1, <1>5, <2>2, <3>1, ZenonT(30)
    <3>3. cptr[x] # o
      BY <1>1, <3>1, SMTT(30) DEF Tree, Heads, o
    <3>4. \A q \in Process : optr'[q] # cptr[x]
      BY <1>1, <1>2, <1>8, <3>1, <3>3, SMTT(30) DEF Tree, Heads
    <3> QED
      BY <1>8, <2>2, <3>1, <3>2, <3>3, <3>4, SMTT(30) DEF Tree, Heads
  <2> QED
    BY <2>1, <2>2, Zenon
<1>11. Siblings'
  <2>1. ASSUME NEW q \in Process, optr'[q] # NULL
        PROVE  parent'[q] # NULL /\ parent'[optr'[q]] = parent'[q] /\ yptr'[optr'[q]] = q
    <3>1. q # c
      BY <1>8, <2>1, Zenon
    <3>2. CASE q = y
      <4>1. optr'[q] = o /\ o # NULL
        BY <1>8, <2>1, <3>1, <3>2, Zenon
      <4>2. /\ y \in Process /\ parent[y] = current
            /\ o \in Process /\ parent[o] = current /\ o # c
        BY <1>1, <1>4, <1>5, <3>2, <4>1, Zenon
      <4>3. parent'[q] = current /\ parent'[o] = current /\ yptr'[o] = y
        BY <1>8, <3>1, <3>2, <4>2, Zenon
      <4>4. current # NULL
        BY <1>1, ZenonT(30)
      <4> QED
        BY <3>2, <4>1, <4>3, <4>4, Zenon
    <3>3. CASE q # y
      <4>1. optr'[q] = optr[q] /\ optr[q] \in Process
        BY <1>2, <1>8, <2>1, <3>1, <3>3, Zenon
      <4>2. parent[q] # NULL /\ parent[optr[q]] = parent[q] /\ yptr[optr[q]] = q
        BY <2>1, <4>1, Zenon DEF Tree, Siblings
      <4>3. optr[q] # c /\ optr[q] # o
        BY <1>1, <1>4, <3>1, <3>3, <4>1, <4>2, Zenon DEF y
      <4> QED
        BY <1>8, <3>1, <4>1, <4>2, <4>3
    <3> QED
      BY <3>2, <3>3, Zenon
  <2>2. ASSUME NEW q \in Process, parent'[q] # NULL, cptr'[parent'[q]] # q
        PROVE  yptr'[q] # NULL /\ parent'[yptr'[q]] = parent'[q] /\ optr'[yptr'[q]] = q
    <3>1. q # c /\ parent'[q] = parent[q] /\ parent[q] \in Process
      <4>1. q # c
        BY <1>8, <2>2, Zenon
      <4>2. parent'[q] = parent[q]
        BY <1>8, <4>1, Zenon
      <4>3. parent[q] \in Process
        BY <1>2, <2>2, <4>2, ZenonT(30)
      <4> QED
        BY <4>1, <4>2, <4>3, Zenon
    <3>2. CASE q = o
      <4>1. parent[q] = current /\ y # NULL
        BY <1>1, <1>4, <1>8, <2>2, <3>1, <3>2, SMTT(30)
      <4> QED
        BY <1>1, <1>3, <1>4, <1>5, <1>8, <3>1, <3>2, <4>1, SMTT(30) DEF y
    <3>3. CASE q # o
      <4>1. cptr[parent[q]] # q
        BY <1>6, <1>8, <2>2, <3>1, <3>3, SMTT(30)
      <4>2. yptr[q] # NULL /\ parent[yptr[q]] = parent[q] /\ optr[yptr[q]] = q
        BY <2>2, <3>1, <4>1, Zenon DEF Tree, Siblings
      <4>3. yptr[q] \in Process /\ yptr[q] # c /\ yptr[q] # y
        BY <1>2, <1>5, <3>1, <3>3, <4>2, ZenonT(30) DEF o
      <4> QED
        BY <1>8, <3>1, <3>3, <4>2, <4>3, SMTT(30)
    <3> QED
      BY <3>2, <3>3, Zenon
  <2> QED
    BY <2>1, <2>2, Zenon DEF Siblings
<1>12. Acyclic'
  <2> SUFFICES ASSUME NEW S \in SUBSET Process, S # {}
               PROVE  (\E q \in S : parent'[q] \notin S) /\ (\E q \in S : yptr'[q] \notin S)
    BY Zenon DEF Acyclic
  <2>1. \E q \in S : parent'[q] \notin S
    <3>1. PICK q \in S : parent[q] \notin S
      BY Zenon DEF Tree, Acyclic
    <3> QED
      BY <1>1, <1>8, <3>1, Zenon
  <2>2. \E q \in S : yptr'[q] \notin S
    <3>1. CASE c \in S
      BY <1>1, <1>8, <3>1, Zenon
    <3>2. CASE c \notin S /\ y \in S
      <4>1. S \cup {c} \in SUBSET Process /\ S \cup {c} # {}
        BY <1>1, Zenon
      <4>2. PICK q \in S \cup {c} : yptr[q] \notin S \cup {c}
        BY <4>1, ZenonT(30) DEF Tree, Acyclic
      <4>3. q # c
        BY <3>2, <4>2, Zenon DEF y
      <4>4. q # o
        BY <1>1, <1>2, <1>4, <4>2, <4>3, ZenonT(30)
      <4> QED
        BY <1>8, <4>2, <4>3, <4>4, Zenon
    <3>3. CASE c \notin S /\ y \notin S
      <4>1. PICK q \in S : yptr[q] \notin S
        BY Zenon DEF Tree, Acyclic
      <4> QED
        BY <1>8, <3>3, <4>1
    <3> QED
      BY <3>1, <3>2, <3>3, Zenon
  <2> QED
    BY <2>1, <2>2, Zenon
<1>13. Counted'
  <2>1. Linked' = Linked \ {c} /\ c \in Linked
    BY <1>1, <1>8 DEF Linked, Tree, Family
  <2>2. Linked \in SUBSET Process
    BY Zenon DEF Linked
  <2>3. Cardinality(Linked') = Cardinality(Linked) - 1
    BY <2>1, <2>2, CountOneLess, Zenon
  <2>4. Cardinality(Linked) \in Nat
    BY <2>2, Zenon DEF CountingLaws
  <2> QED
    BY <1>8, <2>3, <2>4, SMTT(30) DEF Tree, Counted
<1> QED
  BY <1>9, <1>10, <1>11, <1>12, <1>13, Zenon DEF Tree

\* One round of do_exit's loop makes the youngest child of the process the
\* youngest child of initproc.
LEMMA OrphanTree ==
  ASSUME TypeOK, Tree, current \in User, pc[current] = "reparent",
         NEW c, c = cptr[current], c # NULL, pc[initproc] \notin {"reparent", "dead"},
         hand_over(c), pc' = pc,
         \A p \in Process : state'[p] = "UNINIT" <=> state[p] = "UNINIT"
  PROVE  Tree'
<1> DEFINE k == cptr[initproc]
           o == optr[c]
<1>1. /\ current \in Process /\ current # NULL /\ current # initproc /\ current # idleproc
      /\ NULL \notin Process /\ idleproc \in Process /\ initproc \in Process
      /\ initproc # NULL /\ initproc # idleproc
  BY ProcAssumption, Zenon DEF Process
<1>2. /\ parent \in [Process -> Pointer] /\ cptr \in [Process -> Pointer]
      /\ yptr \in [Process -> Pointer] /\ optr \in [Process -> Pointer]
      /\ \A x \in Pointer : x # NULL => x \in Process
  BY ZenonT(30) DEF TypeOK, Pointer
<1>3. /\ c \in Process /\ parent[c] = current /\ c # initproc
      /\ \A q \in Process : optr[q] # c
  BY <1>1, <1>2 DEF Tree, Heads, Family
<1>4. k # NULL => /\ k \in Process /\ parent[k] = initproc /\ yptr[k] = NULL
                  /\ \A q \in Process : optr[q] # k
  BY <1>1, <1>2, Zenon DEF Tree, Heads
<1>5. o # NULL => o \in Process /\ parent[o] = current /\ yptr[o] = c
  BY <1>2, <1>3, SMTT(30) DEF Tree, Siblings
<1>6. k # c /\ o # c /\ (k # NULL => o # k)
  BY <1>1, <1>3, <1>4, <1>5, Zenon
<1>7. /\ \A x \in Process : yptr'[x] = IF x = k THEN c ELSE IF x = c THEN NULL ELSE yptr[x]
      /\ \A x \in Process : optr'[x] = IF x = c THEN k ELSE optr[x]
      /\ \A x \in Process : cptr'[x] = IF x = initproc THEN c
                                       ELSE IF x = current THEN o ELSE cptr[x]
      /\ \A x \in Process : parent'[x] = IF x = c THEN initproc ELSE parent[x]
  <2>1. \A x \in Process : yptr'[x] = IF x = k THEN c ELSE IF x = c THEN NULL ELSE yptr[x]
    <3>1. CASE k = NULL
      BY <1>1, <1>2, <1>3, <3>1, Zenon DEF hand_over, Store
    <3>2. CASE k # NULL
      BY <1>1, <1>2, <1>3, <1>4, <1>6, <3>2, Zenon DEF hand_over, Store
    <3> QED
      BY <3>1, <3>2, Zenon
  <2>2. \A x \in Process : /\ optr'[x] = IF x = c THEN k ELSE optr[x]
                           /\ parent'[x] = IF x = c THEN initproc ELSE parent[x]
    BY <1>2, <1>3, Zenon DEF hand_over
  <2>3. \A x \in Process : cptr'[x] = IF x = initproc THEN c
                                      ELSE IF x = current THEN o ELSE cptr[x]
    BY <1>1, <1>2, Zenon DEF hand_over
  <2> QED
    BY <2>1, <2>2, <2>3, Zenon
<1> HIDE DEF k, o
<1>8. Family'
  <2> USE DEF Tree, Family
  <2>1. \A x \in Process : parent'[x] = NULL <=> x = idleproc \/ state'[x] = "UNINIT"
    BY <1>1, <1>3, <1>7, SMTT(30)
  <2>2. \A x \in Process : parent'[x] # NULL => state'[parent'[x]] # "UNINIT"
    BY <1>1, <1>2, <1>7, SMTT(30)
  <2>3. \A x \in Process : parent'[x] = idleproc <=> x = initproc
    BY <1>1, <1>3, <1>7, SMTT(30)
  <2>4. ASSUME NEW x \in Process, state'[x] = "UNINIT"
        PROVE  cptr'[x] = NULL /\ yptr'[x] = NULL /\ optr'[x] = NULL
    <3>1. state[x] = "UNINIT" /\ parent[x] = NULL /\ cptr[x] = NULL
      BY <2>4, Zenon
    <3>2. x # c /\ x # k /\ x # current /\ x # initproc
      <4>1. x # c /\ x # current
        BY <1>1, <1>3, <3>1, Zenon
      <4>2. x # k
        BY <1>1, <1>4, <3>1, ZenonT(30)
      <4>3. x # initproc
        BY <1>1, <3>1, Zenon
      <4> QED
        BY <4>1, <4>2, <4>3, Zenon
    <3> QED
      BY <1>7, <3>1, <3>2, SMTT(30)
  <2>5. \A x \in Process : pc'[x] = "dead" => cptr'[x] = NULL
    BY <1>1, <1>7
  <2> QED
    BY <2>1, <2>2, <2>3, <2>4, <2>5, ZenonT(30)
<1>9. Heads'
  <2> SUFFICES ASSUME NEW x \in Process, cptr'[x] # NULL
               PROVE  /\ parent'[cptr'[x]] = x
                      /\ pc'[x] # "reparent" => yptr'[cptr'[x]] = NULL
                      /\ \A q \in Process : optr'[q] # cptr'[x]
    BY ZenonT(30) DEF Heads
  <2>1. CASE x = initproc
    BY <1>1, <1>3, <1>6, <1>7, <2>1, SMTT(30)
  <2>2. CASE x = current
    <3>1. cptr'[x] = o /\ o # NULL
      BY <1>1, <1>7, <2>2, Zenon
    <3>2. ASSUME NEW q \in Process
          PROVE  optr'[q] # o
      <4>1. q # c => optr[q] # o
        BY <1>5, <3>1, SMTT(30) DEF Tree, Siblings
      <4> QED
        BY <1>6, <1>7, <3>1, <4>1, ZenonT(30)
    <3> QED
      BY <1>5, <1>6, <1>7, <2>2, <3>1, <3>2, Zenon
  <2>3. CASE x # initproc /\ x # current
    <3>1. cptr'[x] = cptr[x] /\ cptr[x] \in Process /\ parent[cptr[x]] = x
      BY <1>2, <1>7, <2>3, ZenonT(30) DEF Tree, Heads
    <3>2. cptr[x] # c /\ cptr[x] # k
      BY <1>1, <1>3, <1>4, <2>3, <3>1, Zenon
    <3> QED
      BY <1>7, <2>3, <3>1, <3>2, SMTT(30) DEF Tree, Heads
  <2> QED
    BY <2>1, <2>2, <2>3, Zenon
<1>10. Siblings'
  <2>1. ASSUME NEW q \in Process, optr'[q] # NULL
        PROVE  parent'[q] # NULL /\ parent'[optr'[q]] = parent'[q] /\ yptr'[optr'[q]] = q
    <3>1. CASE q = c
      BY <1>1, <1>3, <1>4, <1>6, <1>7, <2>1, <3>1, SMTT(30)
    <3>2. CASE q # c
      <4>1. optr'[q] = optr[q] /\ optr[q] \in Process /\ optr[q] # c /\ optr[q] # k
        BY <1>1, <1>2, <1>3, <1>4, <1>7, <2>1, <3>2, SMTT(30)
      <4> QED
        BY <1>1, <1>7, <2>1, <3>2, <4>1, SMTT(30) DEF Tree, Siblings
    <3> QED
      BY <3>1, <3>2, ZenonT(30)
  <2>2. ASSUME NEW q \in Process, parent'[q] # NULL, cptr'[parent'[q]] # q
        PROVE  yptr'[q] # NULL /\ parent'[yptr'[q]] = parent'[q] /\ optr'[yptr'[q]] = q
    <3>1. q # c
      BY <1>1, <1>3, <1>7, <2>2, ZenonT(30)
    <3>2. CASE q = k
      BY <1>1, <1>3, <1>4, <1>7, <3>1, <3>2, SMTT(30)
    <3>3. CASE q # k
      <4>1. parent'[q] = parent[q] /\ parent[q] \in Process
        BY <1>2, <1>7, <2>2, <3>1, ZenonT(30)
      <4>2. cptr[parent[q]] # q
        BY <1>7, <2>2, <3>1, <3>3, <4>1, SMTT(30) DEF k
      <4>3. yptr[q] # NULL /\ parent[yptr[q]] = parent[q] /\ optr[yptr[q]] = q
        BY <2>2, <4>1, <4>2, ZenonT(30) DEF Tree, Siblings
      <4>4. yptr[q] # c
        BY <1>1, <1>3, <1>7, <2>2, <4>1, <4>3, SMTT(30) DEF o
      <4>5. yptr[q] \in Process
        BY <1>2, <4>3, Zenon
      <4> QED
        BY <1>7, <3>1, <3>3, <4>1, <4>3, <4>4, <4>5, SMTT(30)
    <3> QED
      BY <3>2, <3>3, Zenon
  <2> QED
    BY <2>1, <2>2, Zenon DEF Siblings
<1>11. Acyclic'
  <2> SUFFICES ASSUME NEW S \in SUBSET Process, S # {}
               PROVE  (\E q \in S : parent'[q] \notin S) /\ (\E q \in S : yptr'[q] \notin S)
    BY Zenon DEF Acyclic
  <2>1. \E q \in S : parent'[q] \notin S
    <3>1. CASE initproc \in S
      <4>1. idleproc \in S \/ idleproc \notin S
        BY ZenonT(30)
      <4>2. parent'[initproc] = idleproc /\ parent'[idleproc] = NULL
        BY <1>1, <1>3, <1>7, SMTT(30) DEF Tree, Family
      <4> QED
        BY <1>1, <3>1, <4>1, <4>2, Zenon
    <3>2. CASE initproc \notin S
      <4>1. PICK q \in S : parent[q] \notin S
        BY Zenon DEF Tree, Acyclic
      <4> QED
        BY <1>7, <3>2, <4>1
    <3> QED
      BY <3>1, <3>2, Zenon
  <2>2. \E q \in S : yptr'[q] \notin S
    <3>1. CASE c \in S
      BY <1>1, <1>3, <1>6, <1>7, <3>1
    <3>2. CASE c \notin S
      <4>1. PICK q \in S : yptr[q] \notin S
        BY Zenon DEF Tree, Acyclic
      <4> QED
        BY <1>7, <3>2, <4>1, Zenon
    <3> QED
      BY <3>1, <3>2, ZenonT(30)
  <2> QED
    BY <2>1, <2>2, Zenon
<1>12. Linked' = Linked
  BY Zenon DEF Linked
<1>13. Counted'
  BY <1>12, Zenon DEF hand_over, Tree, Counted
<1> QED
  BY <1>8, <1>9, <1>10, <1>11, <1>13, Zenon DEF Tree
=============================================================================
