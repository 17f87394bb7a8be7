--------------------------- MODULE TimerListProofs --------------------------
(***************************************************************************)
(* The delta list wakes every sleeper at its tick, for every set of        *)
(* processes and every sleeping time, and so implements TimerSpec.         *)
(***************************************************************************)
EXTENDS TimerList, TLAPS

-----------------------------------------------------------------------------
(* The operations of libs/list.h, for lists of any length *)

\* Joining two lists.
LEMMA ConcatProperties ==
  ASSUME NEW S, NEW s \in Seq(S), NEW t \in Seq(S)
  PROVE  /\ s \o t \in Seq(S) /\ Len(s \o t) = Len(s) + Len(t)
         /\ \A i \in 1 .. Len(s) + Len(t) :
              (s \o t)[i] = IF i <= Len(s) THEN s[i] ELSE t[i - Len(s)]
OBVIOUS

\* list_add_before.
LEMMA AddBeforeProperties ==
  ASSUME NEW S, NEW s \in Seq(S), NEW k \in 1 .. Len(s) + 1, NEW e \in S
  PROVE  /\ list_add_before(s, k, e) \in Seq(S)
         /\ Len(list_add_before(s, k, e)) = Len(s) + 1
         /\ \A i \in 1 .. Len(s) + 1 : list_add_before(s, k, e)[i] =
              IF i < k THEN s[i] ELSE IF i = k THEN e ELSE s[i - 1]
<1> DEFINE a == SubSeq(s, 1, k - 1)
           c == a \o <<e>>
           b == SubSeq(s, k, Len(s))
           new == c \o b
<1>1. /\ a \in Seq(S) /\ Len(a) = k - 1
      /\ \A i \in 1 .. k - 1 : a[i] = s[i]
  OBVIOUS
<1>2. /\ b \in Seq(S) /\ Len(b) = Len(s) - k + 1
      /\ \A i \in 1 .. Len(s) - k + 1 : b[i] = s[k + i - 1]
  OBVIOUS
<1>3. list_add_before(s, k, e) = new
  BY Zenon DEF list_add_before
<1> HIDE DEF a, b
<1>4. /\ c \in Seq(S) /\ Len(c) = k
      /\ \A i \in 1 .. k : c[i] = IF i < k THEN s[i] ELSE e
  BY <1>1
<1> HIDE DEF c
<1>5. /\ new \in Seq(S) /\ Len(new) = Len(c) + Len(b)
      /\ \A i \in 1 .. Len(c) + Len(b) : new[i] = IF i <= Len(c) THEN c[i] ELSE b[i - Len(c)]
  BY <1>2, <1>4, ConcatProperties, Zenon
<1> HIDE DEF new
<1>6. ASSUME NEW i \in 1 .. Len(s) + 1
      PROVE  new[i] = IF i < k THEN s[i] ELSE IF i = k THEN e ELSE s[i - 1]
  <2>1. new[i] = IF i <= k THEN c[i] ELSE b[i - k]
    BY <1>2, <1>4, <1>5
  <2>2. CASE i <= k
    BY <1>4, <2>1, <2>2
  <2>3. CASE ~(i <= k)
    <3>1. i - k \in 1 .. Len(s) - k + 1 /\ k + (i - k) - 1 = i - 1 /\ ~(i < k) /\ i # k
      BY <2>3
    <3> QED
      BY <1>2, <2>1, <2>3, <3>1, Zenon
  <2> QED
    BY <2>2, <2>3, Zenon
<1>7. Len(new) = Len(s) + 1
  BY <1>2, <1>4, <1>5
<1> QED
  BY <1>3, <1>5, <1>6, <1>7, Zenon

\* list_del.
LEMMA DelProperties ==
  ASSUME NEW S, NEW s \in Seq(S), NEW k \in 1 .. Len(s)
  PROVE  /\ list_del(s, k) \in Seq(S)
         /\ Len(list_del(s, k)) = Len(s) - 1
         /\ \A i \in 1 .. Len(s) - 1 : list_del(s, k)[i] = IF i < k THEN s[i] ELSE s[i + 1]
<1> DEFINE a == SubSeq(s, 1, k - 1)
           b == SubSeq(s, k + 1, Len(s))
           new == a \o b
<1>1. /\ a \in Seq(S) /\ Len(a) = k - 1
      /\ \A i \in 1 .. k - 1 : a[i] = s[i]
  OBVIOUS
<1>2. /\ b \in Seq(S) /\ Len(b) = Len(s) - k
      /\ \A i \in 1 .. Len(s) - k : b[i] = s[k + i]
  OBVIOUS
<1>3. list_del(s, k) = new
  BY Zenon DEF list_del
<1> HIDE DEF a, b
<1>4. /\ new \in Seq(S) /\ Len(new) = Len(a) + Len(b)
      /\ \A i \in 1 .. Len(a) + Len(b) : new[i] = IF i <= Len(a) THEN a[i] ELSE b[i - Len(a)]
  BY <1>1, <1>2, ConcatProperties, Zenon
<1> HIDE DEF new
<1>5. ASSUME NEW i \in 1 .. Len(s) - 1
      PROVE  new[i] = IF i < k THEN s[i] ELSE s[i + 1]
  <2>1. new[i] = IF i < k THEN a[i] ELSE b[i - (k - 1)]
    <3>1. i \in 1 .. Len(a) + Len(b) /\ (i <= Len(a) <=> i < k)
      BY <1>1, <1>2
    <3> QED
      BY <1>1, <1>4, <3>1, Zenon
  <2>2. CASE i < k
    BY <1>1, <2>1, <2>2, SMTT(30)
  <2>3. CASE ~(i < k)
    <3>1. i - (k - 1) \in 1 .. Len(s) - k /\ k + (i - (k - 1)) = i + 1
      BY <2>3
    <3> QED
      BY <1>2, <2>1, <2>3, <3>1, Zenon
  <2> QED
    BY <2>2, <2>3, Zenon
<1>6. Len(new) = Len(s) - 1
  BY <1>1, <1>2, <1>4
<1> QED
  BY <1>3, <1>4, <1>5, <1>6, Zenon

-----------------------------------------------------------------------------
(* The inductive invariant *)

Listed == {timer_list[i] : i \in 1 .. Len(timer_list)}

\* The timers that are to fire: those listed and the one being added.
Timed == IF pc = "add" THEN Listed \union {timer} ELSE Listed

Distinct == /\ \A i, j \in 1 .. Len(timer_list) : timer_list[i] = timer_list[j] => i = j
            /\ timer \notin Listed

Sorted == \A i, j \in 1 .. Len(timer_list) :
            i < j => left[timer_list[i]] <= left[timer_list[j]]

Live == /\ waiting \subseteq Timed
        /\ Timed \subseteq insleep
        /\ \A p \in Proc : left[p] > 0 => p \in Timed
        /\ pc # "run" => \A p \in Timed : left[p] > 0

\* NoOversleep needs Live, whose last part run_timer_list restores because the
\* list is Sorted and its first count, by DeltasExact, is the least time left.
IInv == TypeOK /\ Distinct /\ DeltasExact /\ Sorted /\ Live

\* The initial state: the list is empty.
LEMMA InitIInv == Init => IInv
<1> SUFFICES ASSUME Init PROVE IInv
  BY Zenon
<1> USE TimerAssumption DEF Init
<1>1. timer_list \in Seq(Proc) /\ Len(timer_list) = 0 /\ Listed = {}
  BY DEF Listed
<1>2. TypeOK
  BY <1>1 DEF TypeOK
<1>3. Distinct /\ DeltasExact /\ Sorted
  BY <1>1 DEF Distinct, DeltasExact, Sorted
<1>4. Live
  BY <1>1 DEF Live, Timed
<1> QED
  BY <1>2, <1>3, <1>4, Zenon DEF IInv

\* add_timer starts: the new timer is not on the list.
LEMMA SleepIInv ==
  ASSUME IInv, NEW p \in Proc, NEW t \in 1 .. MaxSleep, do_sleep(p, t)
  PROVE  IInv'
<1> USE TimerAssumption DEF do_sleep, IInv
<1>1. /\ t \in Nat /\ t > 0
      /\ Listed' = Listed /\ Listed \subseteq Proc
      /\ Timed = Listed /\ Timed' = Listed \union {p} /\ p \notin Listed
  BY SMTT(30) DEF TypeOK, Live, Timed, Listed
<1>2. TypeOK'
  BY <1>1, Zenon DEF TypeOK
<1>3. \A q \in Listed : left'[q] = left[q] /\ expires'[q] = expires[q]
  BY <1>1, Zenon DEF TypeOK
<1>4. Distinct'
  BY <1>1, Zenon DEF Distinct
<1>5. DeltasExact' /\ Sorted'
  <2>1. \A i \in 1 .. Len(timer_list) : timer_list[i] \in Listed
    BY Zenon DEF Listed
  <2>2. DOMAIN timer_list = 1 .. Len(timer_list)
    BY DEF TypeOK
  <2>3. Sorted'
    BY <1>3, <2>1, <2>2 DEF Sorted
  <2>4. left'[p] = t /\ expires'[p] = t
    BY Zenon DEF TypeOK
  <2>5. ASSUME NEW i \in 1 .. Len(timer_list) PROVE Before(i)' = Before(i)
    <3>1. CASE i = 1
      BY <3>1, Zenon DEF Before
    <3>2. CASE i # 1
      <4>1. i - 1 \in 1 .. Len(timer_list)
        BY <3>2 DEF TypeOK
      <4>2. left'[timer_list[i - 1]] = left[timer_list[i - 1]]
        BY <1>3, <2>1, <4>1, Zenon
      <4> QED
        BY <3>2, <4>2, Zenon DEF Before
    <3> QED
      BY <3>1, <3>2, Zenon
  <2> QED
    BY <1>1, <1>3, <2>1, <2>2, <2>3, <2>4, <2>5 DEF DeltasExact, Before
<1>6. Live'
  BY <1>1, Zenon DEF Live, TypeOK
<1> QED
  BY <1>2, <1>4, <1>5, <1>6, Zenon

\* A round of add_timer's loop moves the count of the timer passed from the
\* timer being added to the time before it.
LEMMA PassIInv == ASSUME IInv, AddPass PROVE IInv'
<1> USE TimerAssumption DEF AddPass, IInv
<1> DEFINE q == timer_list[at]
<1>1. /\ at \in 1 .. Len(timer_list) /\ q \in Proc /\ timer \in Proc
      /\ DOMAIN timer_list = 1 .. Len(timer_list)
      /\ expires[q] \in Nat /\ expires[timer] \in Nat
      /\ left \in [Proc -> Nat] /\ expires \in [Proc -> Nat]
  <2>1. /\ timer_list \in Seq(Proc) /\ at \in 1 .. Len(timer_list) + 1
        /\ left \in [Proc -> Nat] /\ expires \in [Proc -> Nat] /\ timer \in Proc
    BY Zenon DEF TypeOK
  <2>2. at \in 1 .. Len(timer_list) /\ DOMAIN timer_list = 1 .. Len(timer_list)
    BY <2>1
  <2>3. q \in Proc
    BY <2>1, <2>2
  <2> QED
    BY <2>1, <2>2, <2>3, Zenon
<1>2. \A i \in 1 .. Len(timer_list) : timer_list[i] \in Listed /\ timer_list[i] \in Proc
  <2>1. \A i \in 1 .. Len(timer_list) : timer_list[i] \in Proc
    BY DEF TypeOK
  <2> QED
    BY <2>1, Zenon DEF Listed
<1>3. TypeOK'
  <2>1. at' \in 1 .. Len(timer_list') + 1
    BY <1>1 DEF TypeOK
  <2>2. expires' \in [Proc -> Nat]
    <3>1. expires[timer] - expires[q] \in Nat
      BY <1>1
    <3> QED
      BY <1>1, <3>1, Zenon
  <2> QED
    BY <2>1, <2>2, Zenon DEF TypeOK
<1>4. Listed' = Listed /\ Timed' = Timed
  BY Zenon DEF Listed, Timed
<1>5. Distinct' /\ Sorted' /\ Live'
  BY <1>4, Zenon DEF Distinct, Sorted, Live
<1>6. DeltasExact'
  <2>1. \A i \in 1 .. Len(timer_list) : expires'[timer_list[i]] = expires[timer_list[i]]
    BY <1>1, <1>2 DEF Distinct
  <2>2. \A i \in 1 .. Len(timer_list) + 1 : Before(i)' = Before(i)
    BY Zenon DEF Before
  <2>3. left[q] = Before(at) + expires[q] /\ left[timer] = Before(at) + expires[timer]
    BY <1>1, Zenon DEF DeltasExact
  <2>4. at + 1 # 1 /\ (at + 1) - 1 = at
    BY <1>1
  <2>5. Before(at + 1) = left[q]
    BY <2>4, Zenon DEF Before
  <2>6. Before(at) \in Nat
    BY <1>1, <1>2 DEF Before
  <2>7. left[timer] = left[q] + (expires[timer] - expires[q])
    BY <1>1, <2>3, <2>6
  <2>8. (left[timer] = Before(at) + expires[timer])'
    BY <1>1, <2>4, <2>7, Zenon DEF Before
  <2> QED
    BY <1>1, <2>1, <2>2, <2>8 DEF DeltasExact
<1> QED
  BY <1>3, <1>5, <1>6, Zenon

\* The end of add_timer: the new timer goes in front of the first that fires
\* later, whose count shrinks by the new one's.
LEMMA InsertIInv == ASSUME IInv, AddHere \/ AddEnd PROVE IInv'
<1> USE TimerAssumption DEF IInv
<1> DEFINE s == timer_list
           n == Len(timer_list)
           r == timer_list'
<1>1. /\ s \in Seq(Proc) /\ n \in Nat /\ DOMAIN s = 1 .. n
      /\ at \in 1 .. n + 1 /\ timer \in Proc /\ pc = "add"
      /\ expires \in [Proc -> Nat] /\ left \in [Proc -> Nat]
      /\ AddBefore
  BY DEF TypeOK, AddHere, AddEnd
<1>2. r = list_add_before(s, at, timer) /\ left' = left /\ waiting' = waiting
      /\ insleep' = insleep /\ pc' = "idle" /\ timer' = NoProc /\ at' = 1
  BY <1>1, Zenon DEF AddBefore
<1>3. /\ r \in Seq(Proc) /\ Len(r) = n + 1 /\ DOMAIN r = 1 .. n + 1
      /\ \A i \in 1 .. n + 1 : r[i] = IF i < at THEN s[i] ELSE IF i = at THEN timer ELSE s[i - 1]
  <2> HIDE DEF s, n
  <2>1. n = Len(s)
    BY Zenon DEF s, n
  <2>2. /\ list_add_before(s, at, timer) \in Seq(Proc)
        /\ Len(list_add_before(s, at, timer)) = n + 1
        /\ \A i \in 1 .. n + 1 : list_add_before(s, at, timer)[i] =
             IF i < at THEN s[i] ELSE IF i = at THEN timer ELSE s[i - 1]
    <3>1. s \in Seq(Proc) /\ at \in 1 .. Len(s) + 1 /\ timer \in Proc
      BY <1>1, <2>1, Zenon
    <3>2. /\ list_add_before(s, at, timer) \in Seq(Proc)
          /\ Len(list_add_before(s, at, timer)) = Len(s) + 1
          /\ \A i \in 1 .. Len(s) + 1 : list_add_before(s, at, timer)[i] =
               IF i < at THEN s[i] ELSE IF i = at THEN timer ELSE s[i - 1]
      BY <3>1, AddBeforeProperties, SMTT(30)
    <3> QED
      BY <2>1, <3>2, Zenon
  <2> HIDE DEF r
  <2>3. /\ r \in Seq(Proc) /\ Len(r) = n + 1
        /\ \A i \in 1 .. n + 1 : r[i] =
             IF i < at THEN s[i] ELSE IF i = at THEN timer ELSE s[i - 1]
    BY <1>2, <2>2, Zenon
  <2> QED
    BY <2>3
<1> HIDE DEF s, r, n
<1>4. /\ \A i \in 1 .. n : s[i] \in Proc /\ s[i] # timer
      /\ \A i, j \in 1 .. n : s[i] = s[j] => i = j
  BY <1>1 DEF Distinct, Listed, s, n
<1>5. /\ \A i \in 1 .. n : left[s[i]] = (IF i = 1 THEN 0 ELSE left[s[i - 1]]) + expires[s[i]]
      /\ left[timer] = (IF at = 1 THEN 0 ELSE left[s[at - 1]]) + expires[timer]
  BY <1>1, Zenon DEF DeltasExact, Before, s, n
<1>6. /\ expires' \in [Proc -> Nat]
      /\ \A p \in Proc : (at <= n => p # s[at]) => expires'[p] = expires[p]
      /\ at <= n => /\ expires'[s[at]] = expires[s[at]] - expires[timer]
                    /\ expires[timer] < expires[s[at]]
  <2>1. CASE AddHere
    <3>1. at \in 1 .. n /\ s[at] \in Proc
      BY <1>1, <1>4, <2>1 DEF AddHere, s, n
    <3>2. expires' = [expires EXCEPT ![s[at]] = @ - expires[timer]]
          /\ expires[timer] < expires[s[at]]
      BY <2>1, Zenon DEF AddHere, s
    <3> QED
      BY <1>1, <3>1, <3>2
  <2>2. CASE AddEnd
    BY <1>1, <2>2 DEF AddEnd, n
  <2> QED
    BY <2>1, <2>2, Zenon
<1>7. TypeOK'
  <2>1. timer_list' \in Seq(Proc) /\ 1 \in 1 .. Len(timer_list') + 1
    BY <1>1, <1>3 DEF r
  <2> QED
    BY <1>2, <1>6, <2>1, Zenon DEF TypeOK
<1>8. Listed' = Listed \union {timer} /\ Timed = Listed \union {timer} /\ Timed' = Timed
  <2>1. Listed' = {r[i] : i \in 1 .. n + 1} /\ Listed = {s[i] : i \in 1 .. n}
    BY <1>3, Zenon DEF Listed, r, s, n
  <2>2. ASSUME NEW x \in Listed PROVE x \in Listed'
    <3>1. PICK i \in 1 .. n : x = s[i]
      BY <2>1, Zenon
    <3>2. CASE i < at
      <4>1. i \in 1 .. n + 1
        BY <1>1
      <4>2. r[i] = s[i]
        BY <1>3, <3>2, <4>1, Zenon
      <4> QED
        BY <2>1, <3>1, <4>1, <4>2, Zenon
    <3>3. CASE i >= at
      <4>1. i + 1 \in 1 .. n + 1 /\ ~(i + 1 < at) /\ i + 1 # at /\ (i + 1) - 1 = i
        BY <1>1, <3>3
      <4>2. r[i + 1] = s[i]
        BY <1>3, <4>1
      <4> QED
        BY <2>1, <3>1, <4>1, <4>2, Zenon
    <3> QED
      BY <1>1, <3>2, <3>3
  <2>3. timer \in Listed'
    <3>1. at \in 1 .. n + 1 /\ r[at] = timer
      BY <1>1, <1>3
    <3> QED
      BY <2>1, <3>1, Zenon
  <2>4. ASSUME NEW i \in 1 .. n + 1 PROVE r[i] \in Listed \union {timer}
    <3>1. i < at => i \in 1 .. n
      BY <1>1
    <3>2. ~(i < at) /\ i # at => i - 1 \in 1 .. n
      BY <1>1
    <3> QED
      BY <1>3, <2>1, <3>1, <3>2, Zenon
  <2>5. Listed' \subseteq Listed \union {timer}
    BY <2>1, <2>4, Zenon
  <2>6. Listed' = Listed \union {timer}
    BY <2>2, <2>3, <2>5, Zenon
  <2> QED
    BY <1>1, <1>2, <2>6, Zenon DEF Timed
<1>9. Live'
  BY <1>1, <1>2, <1>8, Zenon DEF Live
<1>10. Distinct'
  <2>1. ASSUME NEW i \in 1 .. n + 1, NEW j \in 1 .. n + 1, r[i] = r[j] PROVE i = j
    <3> DEFINE f(x) == IF x < at THEN x ELSE x - 1
    <3>1. \A x \in 1 .. n + 1 : x # at => f(x) \in 1 .. n /\ r[x] = s[f(x)]
      BY <1>1, <1>3
    <3>2. r[at] = timer
      BY <1>1, <1>3
    <3>3. i # at /\ j # at => f(i) = f(j)
      BY <1>4, <2>1, <3>1
    <3>4. i = at <=> j = at
      BY <1>4, <2>1, <3>1, <3>2
    <3> QED
      BY <1>1, <3>3, <3>4
  <2>2. NoProc \notin Listed'
    <3>1. ASSUME NEW x \in Listed PROVE x \in Proc
      <4>1. PICK i \in 1 .. n : x = s[i]
        BY Zenon DEF Listed, s, n
      <4> QED
        BY <1>4, <4>1, Zenon
    <3>2. timer \in Proc /\ NoProc \notin Proc
      BY <1>1, TimerAssumption, Zenon DEF TimerAssumption
    <3> QED
      BY <1>8, <3>1, <3>2, Zenon
  <2> QED
    BY <1>2, <1>3, <2>1, <2>2, Zenon DEF Distinct, r
<1>11. DeltasExact'
  <2>1. ASSUME NEW i \in 1 .. n + 1
        PROVE  left[r[i]] = (IF i = 1 THEN 0 ELSE left[r[i - 1]]) + expires'[r[i]]
    <3>1. CASE i < at
      <4>1. i \in 1 .. n /\ r[i] = s[i] /\ (i # 1 => r[i - 1] = s[i - 1])
        <5>1. i \in 1 .. n /\ (i # 1 => i - 1 \in 1 .. n + 1 /\ i - 1 < at)
          BY <1>1, <3>1
        <5> QED
          BY <1>3, <3>1, <5>1, Zenon
      <4>2. expires'[s[i]] = expires[s[i]]
        BY <1>1, <1>4, <1>6, <3>1, <4>1
      <4> QED
        BY <1>5, <4>1, <4>2
    <3>2. CASE i = at
      <4>1. r[i] = timer /\ (i # 1 => r[i - 1] = s[i - 1])
        BY <1>1, <1>3, <3>2
      <4>2. expires'[timer] = expires[timer]
        BY <1>1, <1>4, <1>6
      <4> QED
        BY <1>5, <3>2, <4>1, <4>2, Zenon
    <3>3. CASE i = at + 1
      <4>a. /\ at \in 1 .. n /\ at \in 1 .. n + 1 /\ i # 1 /\ i - 1 = at
            /\ ~(i < at) /\ i # at /\ ~(at < at)
        BY <1>1, <3>3
      <4>b. r[i] = s[i - 1] /\ r[at] = timer
        BY <1>3, <4>a, Zenon
      <4>1. at \in 1 .. n /\ i # 1 /\ i - 1 = at /\ r[i] = s[at] /\ r[i - 1] = timer
        BY <4>a, <4>b, Zenon
      <4>2. left[s[at]] = (IF at = 1 THEN 0 ELSE left[s[at - 1]]) + expires[s[at]]
        BY <1>5, <4>1, Zenon
      <4>3. expires'[s[at]] = expires[s[at]] - expires[timer]
        BY <1>6, <4>1
      <4>4. (IF at = 1 THEN 0 ELSE left[s[at - 1]]) \in Nat
        <5>1. at # 1 => at - 1 \in 1 .. n
          BY <1>1, <4>1
        <5> QED
          BY <1>1, <1>4, <5>1, Zenon
      <4>5. expires[s[at]] \in Nat /\ expires[timer] \in Nat
        BY <1>1, <1>4, <4>1, Zenon
      <4>6. left[s[at]] = left[timer] + expires'[s[at]]
        BY <1>5, <4>2, <4>3, <4>4, <4>5
      <4> QED
        BY <4>1, <4>6, Zenon
    <3>4. CASE i > at + 1
      <4>a. /\ i - 1 \in 1 .. n /\ i # 1 /\ i - 1 # 1 /\ i - 1 # at /\ i # at
            /\ ~(i < at) /\ ~(i - 1 < at) /\ i - 1 \in 1 .. n + 1
        BY <1>1, <3>4
      <4>b. r[i] = s[i - 1] /\ r[i - 1] = s[(i - 1) - 1]
        BY <1>3, <4>a, Zenon
      <4>1. /\ i - 1 \in 1 .. n /\ i # 1 /\ i - 1 # 1 /\ r[i] = s[i - 1]
            /\ r[i - 1] = s[(i - 1) - 1] /\ i - 1 # at
        BY <4>a, <4>b, Zenon
      <4>2. expires'[s[i - 1]] = expires[s[i - 1]]
        BY <1>1, <1>4, <1>6, <4>1
      <4> QED
        BY <1>5, <4>1, <4>2
    <3> QED
      BY <1>1, <3>1, <3>2, <3>3, <3>4, SMTT(30)
  <2> QED
    BY <1>2, <1>3, <2>1, Zenon DEF DeltasExact, Before, r
<1>12. Sorted'
  <2>1. \A i, j \in 1 .. n : i < j => left[s[i]] <= left[s[j]]
    BY Zenon DEF Sorted, s, n
  <2>2. \A i \in 1 .. n : left[s[i]] \in Nat
    BY <1>1, <1>4, Zenon
  <2>3. ASSUME NEW i \in 1 .. n, i < at PROVE left[s[i]] <= left[timer]
    <3>1. at # 1 /\ at - 1 \in 1 .. n
      BY <1>1, <2>3
    <3>2. left[s[at - 1]] <= left[timer]
      BY <1>1, <1>4, <1>5, <3>1
    <3>3. left[s[i]] <= left[s[at - 1]]
      <4>1. CASE i = at - 1
        BY <2>2, <4>1
      <4>2. CASE i < at - 1
        BY <2>1, <3>1, <4>2, Zenon
      <4> QED
        BY <1>1, <2>3, <4>1, <4>2
    <3> QED
      BY <1>1, <2>2, <3>1, <3>2, <3>3, SMTT(30)
  <2>4. ASSUME NEW i \in 1 .. n, i >= at PROVE left[timer] <= left[s[i]]
    <3>1. at \in 1 .. n
      BY <1>1, <2>4
    <3>2. left[timer] <= left[s[at]]
      <4>1. left[s[at]] = (IF at = 1 THEN 0 ELSE left[s[at - 1]]) + expires[s[at]]
        BY <1>5, <3>1, Zenon
      <4>2. (IF at = 1 THEN 0 ELSE left[s[at - 1]]) \in Nat
        <5>1. at # 1 => at - 1 \in 1 .. n
          BY <1>1, <3>1
        <5> QED
          BY <2>2, <5>1, Zenon
      <4>3. expires[timer] < expires[s[at]] /\ expires[timer] \in Nat /\ expires[s[at]] \in Nat
        BY <1>1, <1>4, <1>6, <3>1
      <4> QED
        BY <1>5, <4>1, <4>2, <4>3
    <3>3. left[s[at]] <= left[s[i]]
      <4>1. CASE i = at
        BY <2>2, <4>1
      <4>2. CASE i > at
        BY <2>1, <3>1, <4>2, Zenon
      <4> QED
        BY <1>1, <2>4, <4>1, <4>2
    <3> QED
      BY <1>1, <2>2, <3>1, <3>2, <3>3, SMTT(30)
  <2>5. ASSUME NEW i \in 1 .. n + 1, NEW j \in 1 .. n + 1, i < j
        PROVE  left[r[i]] <= left[r[j]]
    <3> DEFINE f(x) == IF x < at THEN x ELSE x - 1
    <3>1. \A x \in 1 .. n + 1 : x # at => f(x) \in 1 .. n /\ r[x] = s[f(x)]
      BY <1>1, <1>3
    <3>2. r[at] = timer
      BY <1>1, <1>3
    <3>3. CASE i = at
      <4>1. j # at /\ f(j) >= at
        BY <1>1, <2>5, <3>3
      <4> QED
        BY <2>4, <3>1, <3>2, <3>3, <4>1, Zenon
    <3>4. CASE j = at
      <4>1. i # at /\ f(i) < at
        BY <1>1, <2>5, <3>4
      <4> QED
        BY <2>3, <3>1, <3>2, <3>4, <4>1, Zenon
    <3>5. CASE i # at /\ j # at
      <4>1. f(i) < f(j)
        BY <1>1, <2>5, <3>5
      <4>2. f(i) \in 1 .. n /\ f(j) \in 1 .. n /\ r[i] = s[f(i)] /\ r[j] = s[f(j)]
        BY <3>1, <3>5, Zenon
      <4> HIDE DEF f
      <4> QED
        BY <2>1, <4>1, <4>2, Zenon
    <3> QED
      BY <3>3, <3>4, <3>5, Zenon
  <2> QED
    BY <1>2, <1>3, <2>5, Zenon DEF Sorted, r
<1> QED
  BY <1>7, <1>9, <1>10, <1>11, <1>12, Zenon

\* del_timer keeps the time left of the others: the next timer, if there is
\* one, takes over the count.
LEMMA RemoveIInv ==
  ASSUME IInv, NEW p \in Proc, sleep_return(p), NEW k \in 1 .. Len(timer_list),
         timer_list[k] = p, expires' = HandedOn(k),
         timer_list' = list_del(timer_list, k)
  PROVE  IInv'
<1> USE TimerAssumption DEF IInv
<1> DEFINE s == timer_list
           n == Len(timer_list)
           r == timer_list'
<1>1. /\ s \in Seq(Proc) /\ n \in Nat /\ DOMAIN s = 1 .. n
      /\ pc = "idle" /\ timer = NoProc /\ at \in 1 .. n + 1
      /\ expires \in [Proc -> Nat] /\ left \in [Proc -> Nat]
      /\ p \in insleep \ waiting /\ insleep' = insleep \ {p}
      /\ left' = [left EXCEPT ![p] = 0]
      /\ waiting' = waiting /\ pc' = pc /\ timer' = timer /\ at' = at
  BY DEF TypeOK, sleep_return
<1> HIDE DEF n, r, s
<1>2. n = Len(s) /\ r = list_del(s, k) /\ k \in 1 .. n /\ s[k] = p
  BY Zenon DEF s, r, n
<1>a. n \in Int /\ k \in Int /\ 1 <= k /\ k <= n
  BY <1>1, <1>2
<1>3. /\ r \in Seq(Proc) /\ Len(r) = n - 1 /\ DOMAIN r = 1 .. n - 1
      /\ \A i \in 1 .. n - 1 : r[i] = IF i < k THEN s[i] ELSE s[i + 1]
  <2>1. /\ r \in Seq(Proc) /\ Len(r) = n - 1
        /\ \A i \in 1 .. n - 1 : r[i] = IF i < k THEN s[i] ELSE s[i + 1]
    BY <1>1, <1>2, DelProperties, ZenonT(30)
  <2> QED
    BY <1>1, <2>1
<1>4. /\ \A i \in 1 .. n : s[i] \in Proc
      /\ \A i, j \in 1 .. n : s[i] = s[j] => i = j
  BY <1>1 DEF Distinct, s, n
<1>5. \A i \in 1 .. n : left[s[i]] = (IF i = 1 THEN 0 ELSE left[s[i - 1]]) + expires[s[i]]
  BY <1>1, Zenon DEF DeltasExact, Before, s, n
<1>6. /\ expires' \in [Proc -> Nat]
      /\ \A q \in Proc : (k < n => q # s[k + 1]) => expires'[q] = expires[q]
      /\ k < n => expires'[s[k + 1]] = expires[s[k + 1]] + expires[p]
  <2>1. CASE k < n
    <3>1. k + 1 \in 1 .. n /\ s[k + 1] \in Proc
      BY <1>1, <1>2, <1>4, <2>1, SMTT(30)
    <3>2. expires' = [expires EXCEPT ![s[k + 1]] = @ + expires[p]]
      BY <2>1, Zenon DEF HandedOn, s, n
    <3> QED
      <4>1. expires \in [Proc -> Nat] /\ p \in Proc
        BY <1>1, Zenon
      <4>2. expires[s[k + 1]] + expires[p] \in Nat
        BY <3>1, <4>1
      <4>3. expires' = [expires EXCEPT ![s[k + 1]] = expires[s[k + 1]] + expires[p]]
        BY <3>2, Zenon
      <4> QED
        BY <2>1, <3>1, <4>1, <4>2, <4>3, Zenon
  <2>2. CASE ~(k < n)
    BY <1>1, <2>2, Zenon DEF HandedOn, n
  <2> QED
    BY <2>1, <2>2, Zenon
<1>7. TypeOK'
  <2>1. timer_list' \in Seq(Proc)
    BY <1>3, Zenon DEF r
  <2>2. Len(timer_list') \in Nat
    BY <2>1
  <2>3. at = 1 /\ waiting \subseteq insleep /\ insleep \subseteq Proc
    BY <1>1, Zenon DEF TypeOK
  <2>4. at' \in 1 .. Len(timer_list') + 1
    BY <1>1, <2>2, <2>3
  <2>5. left' \in [Proc -> Nat]
    BY <1>1, Zenon
  <2>6. waiting' \subseteq insleep' /\ insleep' \subseteq Proc
    BY <1>1, <2>3, Zenon
  <2> QED
    BY <1>1, <1>6, <2>1, <2>3, <2>4, <2>5, <2>6, ZenonT(30) DEF TypeOK
<1>8. Timed = Listed /\ Timed' = Listed' /\ Listed' = Listed \ {p}
  <2>1. Listed' = {r[i] : i \in 1 .. n - 1} /\ Listed = {s[i] : i \in 1 .. n}
    BY <1>3, Zenon DEF Listed, r, s, n
  <2>2. ASSUME NEW x \in Listed, x # p PROVE x \in Listed'
    <3>1. PICK i \in 1 .. n : x = s[i]
      BY <2>1, Zenon
    <3>2. CASE i < k
      <4>1. i \in 1 .. n - 1
        BY <1>a, <3>2
      <4>2. r[i] = s[i]
        BY <1>3, <3>2, <4>1, Zenon
      <4> QED
        BY <2>1, <3>1, <4>1, <4>2, Zenon
    <3>3. CASE i > k
      <4>1. i - 1 \in 1 .. n - 1 /\ ~(i - 1 < k) /\ (i - 1) + 1 = i
        BY <1>a, <3>3
      <4>2. r[i - 1] = s[i]
        BY <1>3, <4>1, Zenon
      <4> QED
        BY <2>1, <3>1, <4>1, <4>2, Zenon
    <3>4. i # k
      BY <1>2, <2>2, <3>1, Zenon
    <3> QED
      BY <1>a, <3>2, <3>3, <3>4
  <2>3. ASSUME NEW i \in 1 .. n - 1 PROVE r[i] \in Listed /\ r[i] # p
    <3>1. i \in 1 .. n /\ i + 1 \in 1 .. n /\ (i < k => i # k) /\ (~(i < k) => i + 1 # k)
      BY <1>a
    <3> QED
      BY <1>2, <1>3, <1>4, <2>1, <3>1
  <2>4. Listed' = Listed \ {p}
    BY <2>1, <2>2, <2>3, Zenon
  <2> QED
    BY <1>1, <2>4, Zenon DEF Timed
<1>9. Live'
  BY <1>1, <1>8 DEF Live
<1>10. Distinct'
  <2> DEFINE f(x) == IF x < k THEN x ELSE x + 1
  <2>0. \A x \in 1 .. n - 1 : f(x) \in 1 .. n
    BY <1>a
  <2>1. \A x \in 1 .. n - 1 : f(x) \in 1 .. n /\ r[x] = s[f(x)]
    BY <1>3, <2>0, Zenon
  <2>2. ASSUME NEW i \in 1 .. n - 1, NEW j \in 1 .. n - 1, r[i] = r[j] PROVE i = j
    <3>1. f(i) = f(j)
      BY <1>4, <2>1, <2>2
    <3> QED
      BY <1>a, <3>1
  <2>3. NoProc \notin Listed'
    BY <1>1, <1>8, Zenon DEF Distinct
  <2> QED
    BY <1>1, <1>3, <2>2, <2>3, Zenon DEF Distinct, r
<1>11. \A i \in 1 .. n - 1 : left'[r[i]] = left[r[i]]
  <2>1. \A i \in 1 .. n - 1 : r[i] \in Listed'
    BY <1>3, Zenon DEF Listed, r
  <2>2. \A i \in 1 .. n - 1 : r[i] # p
    BY <1>8, <2>1, Zenon
  <2>3. \A q \in Proc : q # p => left'[q] = left[q]
    BY <1>1, Zenon
  <2>4. \A i \in 1 .. n - 1 : r[i] \in Proc
    BY <1>3
  <2> QED
    BY <2>2, <2>3, <2>4, Zenon
<1>12. Sorted'
  <2> DEFINE f(x) == IF x < k THEN x ELSE x + 1
  <2>0. \A x \in 1 .. n - 1 : f(x) \in 1 .. n
    BY <1>a
  <2>1. \A x \in 1 .. n - 1 : f(x) \in 1 .. n /\ r[x] = s[f(x)]
    BY <1>3, <2>0, Zenon
  <2>2. \A i, j \in 1 .. n - 1 : i < j => f(i) < f(j)
    BY <1>a
  <2>3. \A i, j \in 1 .. n : i < j => left[s[i]] <= left[s[j]]
    BY Zenon DEF Sorted, s, n
  <2> HIDE DEF f
  <2>4. \A i, j \in 1 .. n - 1 : i < j => left[r[i]] <= left[r[j]]
    BY <2>1, <2>2, <2>3, Zenon
  <2> QED
    BY <1>3, <1>11, <2>4, SMTT(30) DEF Sorted, r
<1>13. DeltasExact'
  <2>1. ASSUME NEW i \in 1 .. n - 1
        PROVE  left[r[i]] = (IF i = 1 THEN 0 ELSE left[r[i - 1]]) + expires'[r[i]]
    <3>1. CASE i < k
      <4>a. i \in 1 .. n /\ i # k + 1 /\ (i # 1 => i - 1 \in 1 .. n - 1 /\ i - 1 < k)
            /\ (k < n => k + 1 \in 1 .. n)
        BY <1>a, <3>1
      <4>1. i \in 1 .. n /\ r[i] = s[i] /\ (i # 1 => r[i - 1] = s[i - 1])
        BY <1>3, <3>1, <4>a, Zenon
      <4>2. expires'[s[i]] = expires[s[i]]
        <5>1. s[i] \in Proc /\ (k < n => s[i] # s[k + 1])
          BY <1>4, <4>a, Zenon
        <5> QED
          BY <1>6, <5>1, Zenon
      <4> QED
        BY <1>5, <4>1, <4>2
    <3>2. CASE i = k
      <4>1. k < n /\ k + 1 \in 1 .. n /\ k + 1 # 1 /\ (k + 1) - 1 = k /\ (k # 1 => k - 1 \in 1 .. n - 1)
        BY <1>a, <3>2
      <4>2. r[i] = s[k + 1] /\ (k # 1 => r[k - 1] = s[k - 1])
        BY <1>2, <1>3, <3>2, <4>1
      <4>3. left[s[k + 1]] = left[p] + expires[s[k + 1]]
        BY <1>2, <1>5, <4>1, Zenon
      <4>4. left[p] = (IF k = 1 THEN 0 ELSE left[s[k - 1]]) + expires[p]
        BY <1>2, <1>5, Zenon
      <4>5. (IF k = 1 THEN 0 ELSE left[s[k - 1]]) \in Nat
        BY <1>1, <1>4, <4>1
      <4>6. expires[p] \in Nat /\ expires[s[k + 1]] \in Nat
        BY <1>1, <1>4, <4>1, Zenon
      <4>a. expires'[s[k + 1]] = expires[s[k + 1]] + expires[p]
        BY <1>6, <4>1, Zenon
      <4>7. left[s[k + 1]] = (IF k = 1 THEN 0 ELSE left[s[k - 1]]) + expires'[s[k + 1]]
        BY <4>3, <4>4, <4>5, <4>6, <4>a, SMTT(30)
      <4> QED
        BY <3>2, <4>2, <4>7, Zenon
    <3>3. CASE i > k
      <4>1. /\ i + 1 \in 1 .. n /\ i # 1 /\ i + 1 # 1 /\ i + 1 # k + 1 /\ ~(i < k)
            /\ ~(i - 1 < k) /\ i - 1 \in 1 .. n - 1 /\ (i - 1) + 1 = i /\ (i + 1) - 1 = i
            /\ k + 1 \in 1 .. n
        BY <1>a, <3>3
      <4>2. r[i] = s[i + 1] /\ r[i - 1] = s[i]
        BY <1>3, <4>1, Zenon
      <4>3. expires'[s[i + 1]] = expires[s[i + 1]]
        BY <1>4, <1>6, <4>1, Zenon
      <4>4. left[s[i + 1]] = left[s[i]] + expires[s[i + 1]]
        BY <1>5, <4>1, Zenon
      <4> QED
        BY <4>1, <4>2, <4>3, <4>4, Zenon
    <3> QED
      BY <1>a, <3>1, <3>2, <3>3
  <2>2. ASSUME NEW i \in 1 .. n - 1
        PROVE  left'[r[i]] = (IF i = 1 THEN 0 ELSE left'[r[i - 1]]) + expires'[r[i]]
    <3>1. i # 1 => i - 1 \in 1 .. n - 1
      BY <1>1
    <3> QED
      BY <1>11, <2>1, <3>1, Zenon
  <2> QED
    BY <1>1, <1>3, <2>2, Zenon DEF DeltasExact, Before, r
<1> QED
  BY <1>7, <1>9, <1>10, <1>12, <1>13, Zenon

\* do_sleep returns: its timer has been deleted, or had fired.
LEMMA ReturnIInv == ASSUME IInv, NEW p \in Proc, sleep_return(p) PROVE IInv'
<1> USE TimerAssumption DEF IInv
<1>1. DOMAIN timer_list = 1 .. Len(timer_list) /\ Range(timer_list) = Listed
  BY SMTT(30) DEF TypeOK, Range, Listed
<1>2. CASE p \in Listed
  <2>1. \E k \in 1 .. Len(timer_list) :
          /\ timer_list[k] = p
          /\ expires' = HandedOn(k)
          /\ timer_list' = list_del(timer_list, k)
    BY <1>1, <1>2, Zenon DEF sleep_return
  <2> QED
    BY <2>1, RemoveIInv, Zenon
<1>3. CASE p \notin Listed
  <2>1. /\ UNCHANGED <<expires, timer_list, waiting, pc, timer, at>> /\ pc = "idle"
        /\ left' = [left EXCEPT ![p] = 0] /\ left \in [Proc -> Nat]
        /\ insleep' = insleep \ {p} /\ p \notin waiting
    BY <1>1, <1>3, Zenon DEF sleep_return, TypeOK
  <2>2. Listed' = Listed /\ Timed = Listed /\ Timed' = Listed
    BY <2>1, Zenon DEF Listed, Timed
  <2>3. \A i \in 1 .. Len(timer_list) : left'[timer_list[i]] = left[timer_list[i]]
    BY <1>3, <2>1 DEF Listed
  <2>4. TypeOK'
    BY <2>1, Zenon DEF TypeOK
  <2>5. Distinct' /\ Sorted'
    BY <2>1, <2>2, <2>3 DEF Distinct, Sorted
  <2>6. DeltasExact'
    <3>1. ASSUME NEW i \in 1 .. Len(timer_list), i # 1
          PROVE  left'[timer_list[i - 1]] = left[timer_list[i - 1]]
      <4>1. i - 1 \in 1 .. Len(timer_list)
        BY <3>1 DEF TypeOK
      <4> QED
        BY <2>3, <4>1, Zenon
    <3> QED
      BY <1>1, <2>1, <2>3, <3>1 DEF DeltasExact, Before
  <2>7. Live'
    BY <1>3, <2>1, <2>2 DEF Live
  <2> QED
    BY <2>4, <2>5, <2>6, <2>7, Zenon
<1> QED
  BY <1>2, <1>3, Zenon

\* A tick takes one from the first count, which is positive, and so one from
\* the time left of every timer.
LEMMA TickIInv == ASSUME IInv, Tick PROVE IInv'
<1> USE TimerAssumption DEF IInv
<1> DEFINE s == timer_list
           n == Len(timer_list)
<1>1. /\ s \in Seq(Proc) /\ n \in Nat /\ 1 <= n /\ DOMAIN s = 1 .. n
      /\ Head(s) = s[1] /\ expires \in [Proc -> Nat] /\ left \in [Proc -> Nat]
      /\ pc = "idle" /\ pc' = "run"
      /\ expires' = [expires EXCEPT ![s[1]] = @ - 1]
      /\ left' = [p \in Proc |-> IF left[p] > 0 THEN left[p] - 1 ELSE 0]
      /\ UNCHANGED <<timer_list, waiting, insleep, timer, at>>
  BY DEF TypeOK, Tick
<1>2. /\ \A i \in 1 .. n : s[i] \in Proc /\ s[i] \in Listed
      /\ \A i, j \in 1 .. n : s[i] = s[j] => i = j
      /\ Listed' = Listed /\ Timed = Listed /\ Timed' = Listed
  BY <1>1 DEF Distinct, Listed, Timed
<1>3. \A i \in 1 .. n : left[s[i]] = (IF i = 1 THEN 0 ELSE left[s[i - 1]]) + expires[s[i]]
  BY <1>1, Zenon DEF DeltasExact, Before
<1>4. \A i \in 1 .. n : left[s[i]] > 0
  BY <1>1, <1>2, Zenon DEF Live
<1>5. 1 \in 1 .. n /\ s[1] \in Proc /\ left[s[1]] = 0 + expires[s[1]] /\ left[s[1]] > 0
  <2>1. 1 \in 1 .. n
    BY <1>1
  <2> QED
    BY <1>2, <1>3, <1>4, <2>1, Zenon
<1>6. \A i \in 1 .. n : left'[s[i]] = left[s[i]] - 1
  BY <1>1, <1>2, <1>4, Zenon
<1>7. \A i \in 1 .. n : expires'[s[i]] = IF i = 1 THEN expires[s[i]] - 1 ELSE expires[s[i]]
  BY <1>1, <1>2, <1>5, Zenon
<1> HIDE DEF s, n
<1>8. TypeOK'
  <2>1. expires[s[1]] - 1 \in Nat
    BY <1>1, <1>5
  <2>2. expires' \in [Proc -> Nat] /\ left' \in [Proc -> Nat]
    BY <1>1, <2>1
  <2> QED
    BY <1>1, <2>2, Zenon DEF TypeOK
<1>9. Distinct'
  BY <1>1, <1>2 DEF Distinct
<1>10. Sorted'
  <2>1. \A i, j \in 1 .. n : i < j => left[s[i]] <= left[s[j]]
    BY Zenon DEF Sorted, s, n
  <2>2. \A i \in 1 .. n : left[s[i]] \in Nat
    BY <1>1, <1>2, Zenon
  <2>3. \A i, j \in 1 .. n : i < j => left'[s[i]] <= left'[s[j]]
    BY <1>6, <2>1, <2>2
  <2> QED
    BY <1>1, <2>3, Zenon DEF Sorted, s, n
<1>11. DeltasExact'
  <2>1. ASSUME NEW i \in 1 .. n
        PROVE  left'[s[i]] = (IF i = 1 THEN 0 ELSE left'[s[i - 1]]) + expires'[s[i]]
    <3>1. CASE i = 1
      BY <1>1, <1>5, <1>6, <1>7, <3>1, SMTT(30)
    <3>2. CASE i # 1
      <4>1. i - 1 \in 1 .. n
        BY <1>1, <3>2
      <4>2. left[s[i]] \in Nat /\ left[s[i - 1]] \in Nat /\ expires[s[i]] \in Nat
        BY <1>1, <1>2, <4>1, Zenon
      <4>3. left[s[i]] = left[s[i - 1]] + expires[s[i]]
        BY <1>3, <3>2, Zenon
      <4>4. left'[s[i]] = left[s[i]] - 1 /\ left'[s[i - 1]] = left[s[i - 1]] - 1
        BY <1>6, <4>1, Zenon
      <4>5. expires'[s[i]] = expires[s[i]]
        BY <1>7, <3>2, Zenon
      <4> QED
        BY <3>2, <4>2, <4>3, <4>4, <4>5
    <3> QED
      BY <3>1, <3>2, Zenon
  <2>2. timer_list' = s /\ pc' = "run" /\ DOMAIN s = 1 .. n
    BY <1>1, Zenon DEF s
  <2> QED
    BY <2>1, <2>2, Zenon DEF DeltasExact, Before
<1>12. Live'
  BY <1>1, <1>2 DEF Live
<1> QED
  BY <1>8, <1>9, <1>10, <1>11, <1>12, Zenon

\* An expired timer leaves the list: its time left is zero, so the next timer
\* counts from now.
LEMMA WakeIInv == ASSUME IInv, RunWake PROVE IInv' /\ left[Head(timer_list)] = 0
<1> USE TimerAssumption DEF IInv
<1> DEFINE s == timer_list
           n == Len(timer_list)
           r == timer_list'
<1>1. /\ s \in Seq(Proc) /\ n \in Nat /\ 1 <= n /\ DOMAIN s = 1 .. n
      /\ Head(s) = s[1] /\ expires \in [Proc -> Nat] /\ left \in [Proc -> Nat]
      /\ pc = "run" /\ expires[s[1]] = 0 /\ waiting' = waiting \ {s[1]}
      /\ UNCHANGED <<expires, insleep, pc, timer, at, left>>
  BY DEF TypeOK, RunWake
<1>2. /\ r \in Seq(Proc) /\ Len(r) = n - 1 /\ DOMAIN r = 1 .. n - 1
      /\ \A i \in 1 .. n - 1 : r[i] = s[i + 1]
  <2>1. s # <<>> /\ r = Tail(s)
    BY Zenon DEF RunWake
  <2> QED
    BY <1>1, <2>1
<1>3. /\ \A i \in 1 .. n : s[i] \in Proc
      /\ \A i, j \in 1 .. n : s[i] = s[j] => i = j
  BY <1>1 DEF Distinct
<1>4. \A i \in 1 .. n : left[s[i]] = (IF i = 1 THEN 0 ELSE left[s[i - 1]]) + expires[s[i]]
  BY <1>1, Zenon DEF DeltasExact, Before
<1>5. 1 \in 1 .. n /\ left[s[1]] = 0
  BY <1>1, <1>4
<1> HIDE DEF s, n, r
<1>6. TypeOK'
  <2>1. timer_list' \in Seq(Proc) /\ at = 1
    BY <1>1, <1>2, Zenon DEF r, TypeOK
  <2>2. at' \in 1 .. Len(timer_list') + 1
    BY <1>1, <2>1
  <2> QED
    BY <1>1, <2>1, <2>2, Zenon DEF TypeOK
<1>7. Timed = Listed /\ Timed' = Listed' /\ Listed' = Listed \ {s[1]}
  <2>1. Listed' = {r[i] : i \in 1 .. n - 1} /\ Listed = {s[i] : i \in 1 .. n}
    BY <1>2, Zenon DEF Listed, r, s, n
  <2>2. ASSUME NEW x \in Listed, x # s[1] PROVE x \in Listed'
    <3>1. PICK i \in 1 .. n : x = s[i]
      BY <2>1, Zenon
    <3>2. i - 1 \in 1 .. n - 1 /\ (i - 1) + 1 = i
      BY <1>1, <2>2, <3>1
    <3>3. r[i - 1] = s[i]
      BY <1>2, <3>2, Zenon
    <3> QED
      BY <2>1, <3>1, <3>2, <3>3, Zenon
  <2>3. ASSUME NEW i \in 1 .. n - 1 PROVE r[i] \in Listed /\ r[i] # s[1]
    <3>1. i + 1 \in 1 .. n /\ i + 1 # 1
      BY <1>1
    <3> QED
      BY <1>2, <1>3, <1>5, <2>1, <3>1
  <2>4. Listed' = Listed \ {s[1]}
    BY <2>1, <2>2, <2>3, Zenon
  <2> QED
    BY <1>1, <2>4, Zenon DEF Timed
<1>8. Live'
  <2>1. \A p \in Proc : left[p] > 0 => p # s[1]
    BY <1>1, <1>5
  <2>2. waiting' \subseteq Timed' /\ Timed' \subseteq insleep'
    BY <1>1, <1>7, Zenon DEF Live
  <2> QED
    BY <1>1, <1>7, <2>1, <2>2, Zenon DEF Live
<1>9. Distinct'
  <2>1. ASSUME NEW i \in 1 .. n - 1, NEW j \in 1 .. n - 1, r[i] = r[j] PROVE i = j
    <3>1. i + 1 \in 1 .. n /\ j + 1 \in 1 .. n
      BY <1>1
    <3>2. i + 1 = j + 1
      BY <1>2, <1>3, <2>1, <3>1, Zenon
    <3> QED
      BY <3>2
  <2> QED
    BY <1>1, <1>2, <1>7, <2>1, Zenon DEF Distinct, r
<1>10. Sorted'
  <2>1. \A i, j \in 1 .. n : i < j => left[s[i]] <= left[s[j]]
    BY Zenon DEF Sorted, s, n
  <2>2. ASSUME NEW i \in 1 .. n - 1, NEW j \in 1 .. n - 1, i < j
        PROVE  left[r[i]] <= left[r[j]]
    <3>1. i + 1 \in 1 .. n /\ j + 1 \in 1 .. n /\ i + 1 < j + 1
      BY <1>1, <2>2
    <3> QED
      BY <1>2, <2>1, <3>1, Zenon
  <2> QED
    BY <1>1, <1>2, <2>2, Zenon DEF Sorted, r
<1>11. DeltasExact'
  <2>1. ASSUME NEW i \in 1 .. n - 1
        PROVE  left[r[i]] = (IF i = 1 THEN 0 ELSE left[r[i - 1]]) + expires[r[i]]
    <3>1. i + 1 \in 1 .. n /\ i + 1 # 1 /\ (i + 1) - 1 = i
      BY <1>1
    <3>2. left[s[i + 1]] = left[s[i]] + expires[s[i + 1]]
      BY <1>4, <3>1, Zenon
    <3>3. i # 1 => i - 1 \in 1 .. n - 1 /\ (i - 1) + 1 = i
      BY <1>1
    <3>4. i # 1 => r[i - 1] = s[i]
      BY <1>2, <3>3, Zenon
    <3> QED
      BY <1>2, <1>5, <3>2, <3>4, Zenon
  <2> QED
    BY <1>1, <1>2, <2>1, Zenon DEF DeltasExact, Before, r
<1> QED
  BY <1>1, <1>5, <1>6, <1>8, <1>9, <1>10, <1>11, Zenon DEF s

\* run_timer_list stops at a positive count: everything after fires later.
LEMMA EndIInv == ASSUME IInv, RunEnd PROVE IInv'
<1> USE TimerAssumption DEF IInv, RunEnd
<1>1. TypeOK' /\ Distinct' /\ DeltasExact' /\ Sorted'
  BY DEF TypeOK, Distinct, Listed, DeltasExact, Before, Sorted
<1>2. Timed = Listed /\ Timed' = Listed
  BY Zenon DEF Timed, Listed
<1>3. ASSUME NEW i \in 1 .. Len(timer_list) PROVE left[timer_list[i]] > 0
  <2>1. /\ timer_list \in Seq(Proc) /\ 1 \in 1 .. Len(timer_list)
        /\ DOMAIN timer_list = 1 .. Len(timer_list) /\ Head(timer_list) = timer_list[1]
    BY <1>3 DEF TypeOK
  <2>2. expires[timer_list[1]] # 0 /\ expires[timer_list[1]] \in Nat
    BY <2>1 DEF TypeOK
  <2>3. left[timer_list[1]] > 0
    BY <2>1, <2>2 DEF DeltasExact, Before
  <2>4. left[timer_list[1]] \in Nat /\ left[timer_list[i]] \in Nat
    BY <2>1 DEF TypeOK
  <2>5. i # 1 => left[timer_list[1]] <= left[timer_list[i]]
    <3>1. i # 1 => 1 < i
      BY <2>1
    <3> QED
      BY <2>1, <3>1, Zenon DEF Sorted
  <2> QED
    BY <2>3, <2>4, <2>5
<1>4. Live'
  BY <1>2, <1>3, Zenon DEF Live, Listed
<1> QED
  BY <1>1, <1>4, Zenon

\* Every step of the timer code preserves the invariant.
LEMMA StepIInv == IInv /\ [Next]_vars => IInv'
<1> SUFFICES ASSUME IInv, [Next]_vars PROVE IInv'
  BY Zenon
<1>1. ASSUME NEW p \in Proc, do_kill(p) PROVE IInv'
  <2> USE <1>1 DEF do_kill
  <2>1. TypeOK' /\ Distinct' /\ DeltasExact' /\ Sorted'
    BY DEF IInv, TypeOK, Distinct, Listed, DeltasExact, Before, Sorted
  <2>2. Live'
    BY Zenon DEF IInv, Live, Timed, Listed
  <2> QED
    BY <2>1, <2>2, Zenon DEF IInv
<1>2. CASE UNCHANGED vars
  <2>1. TypeOK'
    BY <1>2, Zenon DEF IInv, vars, TypeOK
  <2>2. Distinct' /\ Live'
    BY <1>2 DEF IInv, vars, Distinct, Live, Timed, Listed
  <2>3. DeltasExact'
    BY <1>2, Zenon DEF IInv, vars, DeltasExact, Before
  <2>4. Sorted'
    BY <1>2, Zenon DEF IInv, vars, Sorted
  <2> QED
    BY <2>1, <2>2, <2>3, <2>4, Zenon DEF IInv
<1>3. CASE Next
  BY <1>1, <1>3, SleepIInv, PassIInv, InsertIInv, ReturnIInv, TickIInv, WakeIInv, EndIInv, Zenon
     DEF Next, Loop
<1> QED
  BY <1>2, <1>3, Zenon

\* A step of the list is a step of TimerSpec, or leaves the time left and the
\* sleepers that still have time alone.
LEMMA StepImplements ==
  IInv /\ [Next]_vars => [Abstract!Next]_<<left, {p \in waiting : left[p] > 0}>>
<1> DEFINE w == {p \in waiting : left[p] > 0}
           absvars == <<left, w>>
<1> SUFFICES ASSUME IInv, [Next]_vars PROVE [Abstract!Next]_absvars
  BY Zenon
<1>0. left \in [Proc -> Nat] /\ waiting \subseteq Proc
  BY Zenon DEF IInv, TypeOK
<1>1. ASSUME NEW p \in Proc, NEW t \in 1 .. MaxSleep, do_sleep(p, t)
      PROVE  Abstract!Sleep(p, t)
  <2>1. t \in Nat /\ t > 0
    BY TimerAssumption
  <2>2. left[p] = 0
    <3>1. p \notin Timed
      BY <1>1, Zenon DEF do_sleep, IInv, Live
    <3> QED
      BY <1>0, <3>1 DEF IInv, Live
  <2>3. left' = [left EXCEPT ![p] = t] /\ waiting' = waiting \union {p}
    BY <1>1, Zenon DEF do_sleep
  <2>4. w' = w \union {p}
    BY <1>0, <2>1, <2>3, Zenon
  <2> QED
    BY <2>2, <2>3, <2>4, Zenon DEF Abstract!Sleep
<1>2. ASSUME NEW p \in Proc, sleep_return(p) PROVE Abstract!Return(p)
  <2>1. p \notin waiting /\ left' = [left EXCEPT ![p] = 0] /\ waiting' = waiting
    BY <1>2, Zenon DEF sleep_return
  <2>2. w' = w /\ p \notin w
    BY <1>0, <2>1, Zenon
  <2> QED
    BY <2>1, <2>2, Zenon DEF Abstract!Return
<1>3. ASSUME NEW p \in Proc, do_kill(p) PROVE Abstract!Kill(p)
  <2>1. left' = left /\ w' = w \ {p}
    BY <1>3, Zenon DEF do_kill
  <2> QED
    BY <2>1, Zenon DEF Abstract!Kill
<1>4. CASE Tick
  <2>1. left' = [p \in Proc |-> IF left[p] > 0 THEN left[p] - 1 ELSE 0] /\ waiting' = waiting
    BY <1>4, Zenon DEF Tick
  <2>2. w' = {p \in w : left[p] > 1}
    BY <1>0, <2>1
  <2> QED
    BY <2>1, <2>2, Zenon DEF Abstract!Tick, Abstract!Next
<1>5. CASE RunWake
  <2>1. left' = left /\ waiting' = waiting \ {Head(timer_list)}
    BY <1>5, Zenon DEF RunWake
  <2>2. left[Head(timer_list)] = 0
    BY <1>5, WakeIInv, Zenon
  <2>3. w' = w
    BY <2>1, <2>2
  <2> QED
    BY <2>1, <2>3, Zenon
<1>6. CASE AddPass \/ AddHere \/ AddEnd \/ RunEnd \/ UNCHANGED vars
  <2>1. left' = left /\ waiting' = waiting
    BY <1>6, Zenon DEF AddPass, AddHere, AddEnd, AddBefore, RunEnd, vars
  <2> QED
    BY <2>1, Zenon
<1> QED
  BY <1>1, <1>2, <1>3, <1>4, <1>5, <1>6, Zenon DEF Next, Loop, Abstract!Next

-----------------------------------------------------------------------------
\* IInv holds after every sequence of sleeps, kills and ticks.
THEOREM IInvInvariant == Spec => []IInv
<1> QED
  BY InitIInv, StepIInv, PTL DEF Spec

(***************************************************************************)
(* The counts on the timer list stay exact differences: add_timer, the     *)
(* tick of run_timer_list and del_timer agree on the time of every timer.  *)
(***************************************************************************)
THEOREM CountsAreExact == Spec => []DeltasExact
<1> QED
  BY IInvInvariant, PTL DEF IInv

(***************************************************************************)
(* When run_timer_list is done, everybody in do_sleep whose time has come  *)
(* has been woken.                                                         *)
(***************************************************************************)
THEOREM NobodyOversleeps == Spec => []NoOversleep
<1>1. IInv => NoOversleep
  BY Zenon DEF IInv, Live, NoOversleep
<1> QED
  BY <1>1, IInvInvariant, PTL

(***************************************************************************)
(* run_timer_list's assert(timer->expires != 0) never fails.               *)
(***************************************************************************)
THEOREM AssertionHolds == Spec => []HeadCounts
<1>1. IInv => HeadCounts
  <2> SUFFICES ASSUME IInv, pc = "idle", timer_list # <<>>
               PROVE  expires[Head(timer_list)] # 0
    BY Zenon DEF HeadCounts
  <2>1. /\ 1 \in 1 .. Len(timer_list) /\ Head(timer_list) = timer_list[1]
        /\ DOMAIN timer_list = 1 .. Len(timer_list)
    BY DEF IInv, TypeOK
  <2>2. left[timer_list[1]] > 0
    BY <2>1, Zenon DEF IInv, Live, Timed, Listed
  <2> QED
    BY <2>1, <2>2 DEF IInv, DeltasExact, Before
<1> QED
  BY <1>1, IInvInvariant, PTL

(***************************************************************************)
(* The delta list implements TimerSpec: do_sleep(t) ends at the t-th tick, *)
(* not before and not after, unless the process is killed.                 *)
(***************************************************************************)
THEOREM Refinement == Spec => Implements
<1>1. Init => Abstract!Init
  BY Zenon DEF Init, Abstract!Init
<1> QED
  BY <1>1, IInvInvariant, StepImplements, PTL DEF Spec, Implements, Abstract!Spec
=============================================================================
