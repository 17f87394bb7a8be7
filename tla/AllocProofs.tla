---------------------------- MODULE AllocProofs ----------------------------
(***************************************************************************)
(* What the kernel hands out.                                              *)
(*   Frames of the page allocator (kern/mm/default_pmm.c) and ranges of    *)
(* addresses, the vmas (kern/mm/vmm.c), for memories and address spaces of *)
(* any size and lists of any length: the steps behind FirstFitComplete and *)
(* AddressSpaces of module Vm.                                             *)
(*   Pids (get_pid, kern/process/proc.c): never one that a linked process  *)
(* carries, for every MAX_PID, MAX_PROCESS and set of processes, so that   *)
(* get_pid implements PidSpec.                                             *)
(***************************************************************************)
EXTENDS Mm, PidAlloc, WellFoundedInduction, TLAPS

-----------------------------------------------------------------------------
(* Searches in a list and the operations of libs/list.h, for lists of any   *)
(* length                                                                  *)

\* A walk that stops at the first entry with some property: the least index.
LEMMA MinIsLeast ==
  ASSUME NEW T \in SUBSET Nat, T # {}
  PROVE  Min(T) \in T /\ \A x \in T : Min(T) <= x
<1>1. \E x \in T : \A y \in T : ~(<<y, x>> \in OpToRel(<, Nat))
  BY WFMin, NatLessThanWellFounded, Zenon
<1>2. ASSUME NEW x \in T, NEW y \in T, y < x
      PROVE  <<y, x>> \in OpToRel(<, Nat)
  <2>1. <<y, x>> \in Nat \X Nat /\ <<y, x>>[1] = y /\ <<y, x>>[2] = x
    BY Zenon
  <2> QED
    BY <2>1, <1>2, Zenon DEF OpToRel
<1>3. \A x, y \in T : x \in Int /\ y \in Int
  OBVIOUS
<1>4. \E x \in T : \A y \in T : ~(y < x)
  BY <1>1, <1>2, Zenon
<1>5. \E x \in T : \A y \in T : x <= y
  BY <1>3, <1>4
<1> QED
  BY <1>5, Zenon DEF Min

\* Joining two lists.
LEMMA ConcatProperties ==
  ASSUME NEW S, NEW s \in Seq(S), NEW t \in Seq(S)
  PROVE  /\ s \o t \in Seq(S) /\ Len(s \o t) = Len(s) + Len(t)
         /\ \A i \in 1 .. Len(s) + Len(t) :
              (s \o t)[i] = IF i <= Len(s) THEN s[i] ELSE t[i - Len(s)]
OBVIOUS

\* list_add_before.
LEMMA AddBeforeProperties ==
  ASSUME NEW S, NEW s \in Seq(S), NEW k \in 1 .. Len(s) + 1, NEW e \in S
  PROVE  /\ list_add_before(s, k, e) \in Seq(S)
         /\ Len(list_add_before(s, k, e)) = Len(s) + 1
         /\ \A i \in 1 .. Len(s) + 1 : list_add_before(s, k, e)[i] =
              IF i < k THEN s[i] ELSE IF i = k THEN e ELSE s[i - 1]
<1> DEFINE a == SubSeq(s, 1, k - 1)
           c == a \o <<e>>
           b == SubSeq(s, k, Len(s))
           new == c \o b
<1>1. /\ a \in Seq(S) /\ Len(a) = k - 1
      /\ \A i \in 1 .. k - 1 : a[i] = s[i]
  OBVIOUS
<1>2. /\ b \in Seq(S) /\ Len(b) = Len(s) - k + 1
      /\ \A i \in 1 .. Len(s) - k + 1 : b[i] = s[k + i - 1]
  OBVIOUS
<1>3. list_add_before(s, k, e) = new
  BY Zenon DEF list_add_before
<1> HIDE DEF a, b
<1>4. /\ c \in Seq(S) /\ Len(c) = k
      /\ \A i \in 1 .. k : c[i] = IF i < k THEN s[i] ELSE e
  BY <1>1
<1> HIDE DEF c
<1>5. /\ new \in Seq(S) /\ Len(new) = Len(c) + Len(b)
      /\ \A i \in 1 .. Len(c) + Len(b) : new[i] = IF i <= Len(c) THEN c[i] ELSE b[i - Len(c)]
  BY <1>2, <1>4, ConcatProperties, ZenonT(30)
<1> HIDE DEF new
<1>6. ASSUME NEW i \in 1 .. Len(s) + 1
      PROVE  new[i] = IF i < k THEN s[i] ELSE IF i = k THEN e ELSE s[i - 1]
  <2>1. new[i] = IF i <= k THEN c[i] ELSE b[i - k]
    BY <1>2, <1>4, <1>5
  <2>2. CASE i <= k
    BY <1>4, <2>1, <2>2
  <2>3. CASE ~(i <= k)
    <3>1. i - k \in 1 .. Len(s) - k + 1 /\ k + (i - k) - 1 = i - 1 /\ ~(i < k) /\ i # k
      BY <2>3
    <3> QED
      BY <1>2, <2>1, <2>3, <3>1, Zenon
  <2> QED
    BY <2>2, <2>3, Zenon
<1>7. Len(new) = Len(s) + 1
  BY <1>2, <1>4, <1>5
<1> QED
  BY <1>3, <1>5, <1>6, <1>7, Zenon

\* list_del.
LEMMA DelProperties ==
  ASSUME NEW S, NEW s \in Seq(S), NEW k \in 1 .. Len(s)
  PROVE  /\ list_del(s, k) \in Seq(S)
         /\ Len(list_del(s, k)) = Len(s) - 1
         /\ \A i \in 1 .. Len(s) - 1 : list_del(s, k)[i] = IF i < k THEN s[i] ELSE s[i + 1]
<1> DEFINE a == SubSeq(s, 1, k - 1)
           b == SubSeq(s, k + 1, Len(s))
           new == a \o b
<1>1. /\ a \in Seq(S) /\ Len(a) = k - 1
      /\ \A i \in 1 .. k - 1 : a[i] = s[i]
  OBVIOUS
<1>2. /\ b \in Seq(S) /\ Len(b) = Len(s) - k
      /\ \A i \in 1 .. Len(s) - k : b[i] = s[k + i]
  OBVIOUS
<1>3. list_del(s, k) = new
  BY Zenon DEF list_del
<1> HIDE DEF a, b
<1>4. /\ new \in Seq(S) /\ Len(new) = Len(a) + Len(b)
      /\ \A i \in 1 .. Len(a) + Len(b) : new[i] = IF i <= Len(a) THEN a[i] ELSE b[i - Len(a)]
  BY <1>1, <1>2, ConcatProperties, Zenon
<1> HIDE DEF new
<1>5. ASSUME NEW i \in 1 .. Len(s) - 1
      PROVE  new[i] = IF i < k THEN s[i] ELSE s[i + 1]
  <2>1. new[i] = IF i < k THEN a[i] ELSE b[i - (k - 1)]
    <3>1. i \in 1 .. Len(a) + Len(b) /\ (i <= Len(a) <=> i < k)
      BY <1>1, <1>2
    <3> QED
      BY <1>1, <1>4, <3>1, Zenon
  <2>2. CASE i < k
    BY <1>1, <2>1, <2>2, SMTT(30)
  <2>3. CASE ~(i < k)
    <3>1. i - (k - 1) \in 1 .. Len(s) - k /\ k + (i - (k - 1)) = i + 1
      BY <2>3
    <3> QED
      BY <1>2, <2>1, <2>3, <3>1, Zenon
  <2> QED
    BY <2>2, <2>3, Zenon
<1>6. Len(new) = Len(s) - 1
  BY <1>1, <1>2, <1>4
<1> QED
  BY <1>3, <1>4, <1>5, <1>6, Zenon

-----------------------------------------------------------------------------
(* The free list *)

Block == [base : Nat \ {0}, n : Nat \ {0}]
FramesOf(b) == b.base..(b.base + b.n - 1)

(* The frames in a list of blocks. *)
FreeIn(list) == UNION {FramesOf(list[i]) : i \in DOMAIN list}

(* The list is in the order of the addresses, and no two blocks touch. *)
Apart(list) == \A i, j \in DOMAIN list : i < j => list[i].base + list[i].n < list[j].base

\* The fields of the blocks in a list.
LEMMA BlockFields ==
  ASSUME NEW list \in Seq(Block), NEW i \in DOMAIN list
  PROVE  list[i] \in Block /\ list[i].base \in Nat \ {0} /\ list[i].n \in Nat \ {0} /\ i \in Nat
<1>1. i \in 1..Len(list) /\ DOMAIN list = 1..Len(list) /\ Len(list) \in Nat
  OBVIOUS
<1>2. list[i] \in Block
  BY <1>1
<1> QED
  BY <1>1, <1>2 DEF Block

\* A frame is free when some block has it.
LEMMA InFree ==
  ASSUME NEW list \in Seq(Block), NEW g
  PROVE  g \in FreeIn(list) <=>
           g \in Int /\ \E i \in DOMAIN list : list[i].base <= g /\ g < list[i].base + list[i].n
  BY BlockFields DEF FreeIn, FramesOf

\* A run of free frames lies in one block: where a block ends another does not
\* begin, because default_free_pages joins blocks that touch.
LEMMA RunInBlock ==
  ASSUME NEW list \in Seq(Block), Apart(list), NEW f \in Nat, NEW n \in Nat \ {0},
         f..(f + n - 1) \subseteq FreeIn(list)
  PROVE  \E i \in DOMAIN list : list[i].base <= f /\ f + n <= list[i].base + list[i].n
<1>1. \A i \in DOMAIN list : list[i].base \in Nat \ {0} /\ list[i].n \in Nat \ {0}
  BY BlockFields, Zenon
<1>2. \A g \in FreeIn(list) : \E i \in DOMAIN list : list[i].base <= g /\ g < list[i].base + list[i].n
  BY InFree, Zenon
<1>3. PICK i \in DOMAIN list : list[i].base <= f /\ f < list[i].base + list[i].n
  BY <1>2
<1>4. CASE list[i].base + list[i].n < f + n
  <2> DEFINE g == list[i].base + list[i].n
  <2>1. g \in Nat /\ g \in f..(f + n - 1)
    BY <1>1, <1>3, <1>4
  <2>2. PICK j \in DOMAIN list : list[j].base <= g /\ g < list[j].base + list[j].n
    BY <1>2, <2>1, Zenon
  <2>3. i \in Nat /\ j \in Nat
    OBVIOUS
  <2>4. i = j \/ i < j \/ j < i
    BY <2>3
  <2> QED
    BY <1>1, <2>2, <2>4 DEF Apart
<1> QED
  BY <1>1, <1>3, <1>4

\* default_alloc_pages looks for the first block that is large enough: when it
\* finds none, no run of that many frames is free.
THEOREM FirstFitFinds ==
  ASSUME NEW k, k.list \in Seq(Block), Apart(k.list), k.nr \in Nat,
         \A i \in DOMAIN k.list : k.list[i].n <= k.nr,
         NEW n \in Nat \ {0}, default_alloc_pages(k, n).val = 0,
         NEW f \in Nat
  PROVE  ~(f..(f + n - 1) \subseteq FreeIn(k.list))
<1> SUFFICES ASSUME f..(f + n - 1) \subseteq FreeIn(k.list) PROVE FALSE
  BY Zenon
<1> DEFINE fits == {i \in DOMAIN k.list : k.list[i].n >= n}
<1>1. \A i \in DOMAIN k.list : k.list[i].base \in Nat \ {0} /\ k.list[i].n \in Nat \ {0}
  BY BlockFields, Zenon
<1>2. PICK i \in DOMAIN k.list : k.list[i].base <= f /\ f + n <= k.list[i].base + k.list[i].n
  BY RunInBlock, Zenon
<1>3. k.list[i].n >= n
  BY <1>1, <1>2
<1>4. i \in fits /\ fits \in SUBSET Nat
  BY <1>3
<1>5. Min(fits) \in fits
  BY <1>4, MinIsLeast, Zenon
<1>6. ~(n > k.nr \/ fits = {})
  BY <1>1, <1>3, <1>4
<1>7. default_alloc_pages(k, n).val = k.list[Min(fits)].base
  BY <1>6, Zenon DEF default_alloc_pages, Ok
<1> QED
  BY <1>1, <1>5, <1>7, Zenon

\* The n frames default_alloc_pages gives were free, they and no others leave
\* the list, and the list stays in order: whether the block is used up or its
\* rest takes its place.
THEOREM FirstFitTakes ==
  ASSUME NEW k, "list" \in DOMAIN k, "nr" \in DOMAIN k, k.list \in Seq(Block), Apart(k.list),
         NEW n \in Nat \ {0}, NEW r, r = default_alloc_pages(k, n), r.val # 0
  PROVE  /\ r.k.list \in Seq(Block) /\ Apart(r.k.list)
         /\ r.val..(r.val + n - 1) \subseteq FreeIn(k.list)
         /\ FreeIn(r.k.list) = FreeIn(k.list) \ (r.val..(r.val + n - 1))
<1> DEFINE list == k.list
           fits == {i \in DOMAIN list : list[i].n >= n}
           at == Min(fits)
           b == list[at]
           rest == [base |-> b.base + n, n |-> b.n - n]
           new == IF b.n > n THEN [list EXCEPT ![at] = rest] ELSE list_del(list, at)
<1>1. ~(n > k.nr \/ fits = {})
  BY Zenon DEF default_alloc_pages, Ok
<1>2. r.val = b.base /\ r.k.list = new
  BY <1>1, Zenon DEF default_alloc_pages, Ok
<1>3. fits \in SUBSET Nat
  BY BlockFields, Zenon
<1>4. at \in fits
  BY <1>1, <1>3, MinIsLeast, Zenon
<1> HIDE DEF at
<1>5. at \in DOMAIN list /\ at \in 1..Len(list) /\ b.base \in Nat \ {0} /\ b.n \in Nat \ {0} /\ b.n >= n
  BY <1>4, BlockFields
<1>6. \A i \in DOMAIN list : list[i].base \in Nat \ {0} /\ list[i].n \in Nat \ {0} /\ i \in Nat
  BY BlockFields, Zenon
<1>7. b.base..(b.base + n - 1) \subseteq FreeIn(list)
  BY <1>5, InFree, SMTT(30)
<1>8. ASSUME NEW i \in DOMAIN list, i # at, NEW g \in Int,
             list[i].base <= g, g < list[i].base + list[i].n
      PROVE  g \in FreeIn(list) \ (b.base..(b.base + n - 1))
  <2>1. g \in FreeIn(list)
    BY <1>8, InFree, Zenon
  <2>2. list[i].base \in Nat /\ list[i].n \in Nat /\ i \in Nat /\ at \in Nat
    BY <1>5, <1>6, Zenon
  <2>3. i < at \/ at < i
    BY <1>8, <2>2
  <2>4. \/ list[i].base + list[i].n < b.base
        \/ b.base + b.n < list[i].base
    BY <1>5, <2>3, Zenon DEF Apart
  <2>5. ~(b.base <= g /\ g < b.base + n)
    BY <1>5, <1>8, <2>2, <2>4, SMTT(30)
  <2> QED
    BY <1>5, <2>1, <2>5
<1>9. CASE b.n > n
  <2>1. rest \in Block /\ rest.base = b.base + n /\ rest.n = b.n - n
    <3>1. b.base + n \in Nat \ {0} /\ b.n - n \in Nat \ {0}
      BY <1>5, <1>9
    <3> QED
      BY <3>1, Zenon DEF Block
  <2> HIDE DEF rest
  <2>2. new = [list EXCEPT ![at] = rest]
    BY <1>9, Zenon
  <2> HIDE DEF new
  <2>3. new \in Seq(Block) /\ DOMAIN new = DOMAIN list
        /\ \A i \in DOMAIN list : new[i] = IF i = at THEN rest ELSE list[i]
    BY <1>5, <2>1, <2>2
  <2>4. ASSUME NEW i \in DOMAIN new, NEW j \in DOMAIN new, i < j
        PROVE  new[i].base + new[i].n < new[j].base
    <3>1. list[i].base + list[i].n < list[j].base
      BY <2>3, <2>4, Zenon DEF Apart
    <3>2. i # at \/ j # at
      BY <1>6, <2>3, <2>4
    <3>3. list[i].base \in Nat /\ list[i].n \in Nat /\ list[j].base \in Nat /\ list[j].n \in Nat
      BY <1>6, <2>3, Zenon
    <3>4. CASE i = at
      BY <1>5, <2>1, <2>3, <3>1, <3>2, <3>3, <3>4, SMTT(30)
    <3>5. CASE j = at
      BY <1>5, <2>1, <2>3, <3>1, <3>2, <3>3, <3>5, SMTT(30)
    <3> QED
      BY <2>3, <3>1, <3>4, <3>5
  <2>5. ASSUME NEW g PROVE g \in FreeIn(new) <=> g \in FreeIn(list) \ (b.base..(b.base + n - 1))
    <3>1. ASSUME g \in FreeIn(new) PROVE g \in FreeIn(list) \ (b.base..(b.base + n - 1))
      <4>1. g \in Int
        BY <2>3, <3>1, InFree, Zenon
      <4>2. PICK i \in DOMAIN list : new[i].base <= g /\ g < new[i].base + new[i].n
        BY <2>3, <3>1, InFree, Zenon
      <4>3. CASE i = at
        <5>1. b.base + n <= g /\ g < (b.base + n) + (b.n - n)
          BY <2>1, <2>3, <4>2, <4>3, Zenon
        <5>2. b.base <= g /\ g < b.base + b.n /\ ~(g < b.base + n)
          BY <1>5, <4>1, <5>1, SMTT(30)
        <5>3. g \in FreeIn(list)
          BY <1>5, <4>1, <5>2, InFree, Zenon
        <5> QED
          BY <1>5, <5>2, <5>3, SMTT(30)
      <4>4. CASE i # at
        BY <1>8, <2>3, <4>1, <4>2, <4>4, Zenon
      <4> QED
        BY <4>3, <4>4, Zenon
    <3>2. ASSUME g \in FreeIn(list), g \notin b.base..(b.base + n - 1) PROVE g \in FreeIn(new)
      <4>1. g \in Int
        BY <3>2, InFree, Zenon
      <4>2. PICK i \in DOMAIN list : list[i].base <= g /\ g < list[i].base + list[i].n
        BY <3>2, InFree, Zenon
      <4>3. CASE i = at
        <5>1. b.base + n <= g /\ g < (b.base + n) + (b.n - n)
          BY <1>5, <3>2, <4>1, <4>2, <4>3, SMTT(30)
        <5>2. new[i].base <= g /\ g < new[i].base + new[i].n
          BY <2>1, <2>3, <4>3, <5>1, Zenon
        <5> QED
          BY <2>3, <4>1, <5>2, InFree, Zenon
      <4>4. CASE i # at
        BY <2>3, <4>1, <4>2, <4>4, InFree, Zenon
      <4> QED
        BY <4>3, <4>4, Zenon
    <3> QED
      BY <3>1, <3>2, Zenon
  <2> QED
    BY <1>2, <1>7, <2>3, <2>4, <2>5 DEF Apart
<1>10. CASE ~(b.n > n)
  <2>1. new = list_del(list, at) /\ b.n = n
    BY <1>5, <1>10
  <2> HIDE DEF new
  <2>2. /\ new \in Seq(Block) /\ Len(new) = Len(list) - 1
        /\ \A i \in 1..(Len(list) - 1) : new[i] = IF i < at THEN list[i] ELSE list[i + 1]
    BY <1>5, <2>1, DelProperties, Zenon
  <2>3. DOMAIN new = 1..(Len(list) - 1) /\ DOMAIN list = 1..Len(list) /\ Len(list) \in Nat
    BY <2>2
  <2> DEFINE o(i) == IF i < at THEN i ELSE i + 1
  <2>4. \A i \in DOMAIN new : o(i) \in DOMAIN list /\ o(i) # at /\ new[i] = list[o(i)]
    BY <1>5, <2>2, <2>3, SMTT(30)
  <2>5. ASSUME NEW i \in DOMAIN new, NEW j \in DOMAIN new, i < j
        PROVE  new[i].base + new[i].n < new[j].base
    <3>1. o(i) < o(j)
      BY <1>5, <2>3, <2>5
    <3> QED
      BY <2>4, <3>1, Zenon DEF Apart
  <2>6. ASSUME NEW i \in DOMAIN list, i # at
        PROVE  \E j \in DOMAIN new : o(j) = i
    <3>1. CASE i < at
      BY <1>5, <2>3, <3>1
    <3>2. CASE i > at
      <4>1. i - 1 \in DOMAIN new /\ o(i - 1) = i
        BY <1>5, <2>3, <3>2, SMTT(30)
      <4> QED
        BY <4>1, Zenon
    <3> QED
      BY <1>5, <2>3, <2>6, <3>1, <3>2, SMTT(30)
  <2> HIDE DEF o
  <2>7. ASSUME NEW g PROVE g \in FreeIn(new) <=> g \in FreeIn(list) \ (b.base..(b.base + n - 1))
    <3>1. ASSUME g \in FreeIn(new) PROVE g \in FreeIn(list) \ (b.base..(b.base + n - 1))
      <4>1. g \in Int
        BY <2>2, <3>1, InFree, Zenon
      <4>2. PICK j \in DOMAIN new : new[j].base <= g /\ g < new[j].base + new[j].n
        BY <2>2, <3>1, InFree, Zenon
      <4>3. PICK i \in DOMAIN list : i # at /\ list[i].base <= g /\ g < list[i].base + list[i].n
        BY <2>4, <4>2, Zenon
      <4> QED
        BY <1>8, <4>1, <4>3, Zenon
    <3>2. ASSUME g \in FreeIn(list), g \notin b.base..(b.base + n - 1) PROVE g \in FreeIn(new)
      <4>1. g \in Int
        BY <3>2, InFree, Zenon
      <4>2. PICK i \in DOMAIN list : list[i].base <= g /\ g < list[i].base + list[i].n
        BY <3>2, InFree, Zenon
      <4>3. i # at
        BY <1>5, <2>1, <3>2, <4>1, <4>2, SMTT(30)
      <4>4. \E j \in DOMAIN new : new[j].base <= g /\ g < new[j].base + new[j].n
        BY <2>4, <2>6, <4>2, <4>3
      <4> QED
        BY <2>2, <4>1, <4>4, InFree, ZenonT(30)
    <3> QED
      BY <3>1, <3>2, Zenon
  <2> QED
    BY <1>2, <1>7, <2>2, <2>5, <2>7, SMTT(30) DEF Apart
<1> QED
  BY <1>9, <1>10, Zenon

\* A block that touches no free one is put in its place: the assertions of
\* default_list_add hold, the order is kept, and its frames become free.
THEOREM ListAddKeeps ==
  ASSUME NEW k, "list" \in DOMAIN k, k.list \in Seq(Block), Apart(k.list), NEW b \in Block,
         \A i \in DOMAIN k.list : \/ b.base + b.n < k.list[i].base
                                  \/ k.list[i].base + k.list[i].n < b.base,
         NEW r, r = default_list_add(k, b)
  PROVE  /\ r.panic = k.panic
         /\ r.list \in Seq(Block) /\ Apart(r.list)
         /\ FreeIn(r.list) = FreeIn(k.list) \cup FramesOf(b)
<1> DEFINE list == k.list
           above == {i \in DOMAIN list : b.base < list[i].base}
           at == Min(above \cup {Len(list) + 1})
           new == list_add_before(list, at, b)
<1>1. \A i \in DOMAIN list : list[i].base \in Nat \ {0} /\ list[i].n \in Nat \ {0} /\ i \in Nat
  BY BlockFields, Zenon
<1>2. b.base \in Nat \ {0} /\ b.n \in Nat \ {0}
  BY Zenon DEF Block
<1>3. DOMAIN list = 1..Len(list) /\ Len(list) \in Nat
  OBVIOUS
<1>4. at \in above \cup {Len(list) + 1} /\ \A i \in above : at <= i
  <2>1. above \cup {Len(list) + 1} \in SUBSET Nat /\ above \cup {Len(list) + 1} # {}
    BY <1>3
  <2> QED
    BY <2>1, MinIsLeast, Zenon
<1> HIDE DEF at
<1>5. at \in 1..(Len(list) + 1)
  BY <1>3, <1>4
<1>6. ASSUME NEW i \in DOMAIN list, i < at PROVE list[i].base + list[i].n < b.base
  <2>1. ~(b.base < list[i].base)
    BY <1>3, <1>4, <1>5, <1>6
  <2> QED
    BY <1>1, <1>2, <2>1
<1>7. ASSUME NEW i \in DOMAIN list, i >= at PROVE b.base + b.n < list[i].base
  <2>1. at \in DOMAIN list /\ b.base < list[at].base
    BY <1>3, <1>4, <1>5, <1>7, SMTT(30)
  <2>2. list[at].base <= list[i].base
    <3>1. CASE i = at
      BY <1>1, <3>1
    <3>2. CASE at < i
      <4>1. list[at].base + list[at].n < list[i].base
        BY <2>1, <3>2, Zenon DEF Apart
      <4> QED
        BY <1>1, <2>1, <4>1
    <3> QED
      BY <1>3, <1>5, <1>7, <3>1, <3>2, SMTT(30)
  <2>3. ~(list[i].base + list[i].n < b.base)
    BY <1>1, <1>2, <2>1, <2>2, SMTT(30)
  <2> QED
    BY <2>3, Zenon
<1>8. r = [k EXCEPT !.list = new]
  <2>1. \A i \in 1..(at - 1) : list[i].base + list[i].n <= b.base
    BY <1>1, <1>2, <1>3, <1>5, <1>6, SMTT(30)
  <2>2. at <= Len(list) => b.base + b.n <= list[at].base
    BY <1>1, <1>2, <1>3, <1>5, <1>7, SMTT(30)
  <2> QED
    BY <2>1, <2>2, Zenon DEF default_list_add, at
<1> DEFINE o(i) == IF i < at THEN i ELSE i - 1
<1>9. /\ new \in Seq(Block) /\ DOMAIN new = 1..(Len(list) + 1)
      /\ new[at] = b
      /\ \A i \in DOMAIN new : i # at => o(i) \in DOMAIN list /\ new[i] = list[o(i)]
  <2>1. /\ new \in Seq(Block) /\ Len(new) = Len(list) + 1
        /\ \A i \in 1..(Len(list) + 1) :
             new[i] = IF i < at THEN list[i] ELSE IF i = at THEN b ELSE list[i - 1]
    BY <1>5, AddBeforeProperties
  <2> HIDE DEF new
  <2> QED
    BY <1>3, <1>5, <2>1
<1> HIDE DEF new
<1>10. ASSUME NEW i \in DOMAIN new, NEW j \in DOMAIN new, i < j
       PROVE  new[i].base + new[i].n < new[j].base
  <2>1. CASE i = at
    <3>1. o(j) \in DOMAIN list /\ o(j) >= at /\ new[j] = list[o(j)]
      BY <1>5, <1>9, <1>10, <2>1
    <3> QED
      BY <1>7, <1>9, <2>1, <3>1, Zenon
  <2>2. CASE j = at
    <3>1. o(i) \in DOMAIN list /\ o(i) < at /\ new[i] = list[o(i)]
      BY <1>5, <1>9, <1>10, <2>2
    <3> QED
      BY <1>6, <1>9, <2>2, <3>1, Zenon
  <2>3. CASE i # at /\ j # at
    <3>1. o(i) < o(j)
      BY <1>5, <1>9, <1>10, <2>3
    <3> QED
      BY <1>9, <2>3, <3>1, Zenon DEF Apart
  <2> QED
    BY <2>1, <2>2, <2>3, Zenon
<1>11. ASSUME NEW i \in DOMAIN list PROVE \E j \in DOMAIN new : j # at /\ o(j) = i
  <2>1. CASE i < at
    BY <1>3, <1>5, <1>9, <2>1, SMTT(30)
  <2>2. CASE i >= at
    <3>1. i + 1 \in DOMAIN new /\ i + 1 # at /\ o(i + 1) = i
      BY <1>3, <1>5, <1>9, <2>2
    <3> QED
      BY <3>1, Zenon
  <2> QED
    BY <1>3, <1>5, <2>1, <2>2, SMTT(30)
<1> HIDE DEF o
<1>12. ASSUME NEW g PROVE g \in FreeIn(new) <=> g \in FreeIn(list) \cup FramesOf(b)
  <2>1. ASSUME g \in FreeIn(new) PROVE g \in FreeIn(list) \cup FramesOf(b)
    <3>1. g \in Int
      BY <1>9, <2>1, InFree, Zenon
    <3>2. PICK j \in DOMAIN new : new[j].base <= g /\ g < new[j].base + new[j].n
      BY <1>9, <2>1, InFree, Zenon
    <3>3. CASE j = at
      BY <1>2, <1>9, <3>1, <3>2, <3>3, SMTT(30) DEF FramesOf
    <3>4. CASE j # at
      BY <1>9, <3>1, <3>2, <3>4, InFree, Zenon
    <3> QED
      BY <3>3, <3>4, Zenon
  <2>2. ASSUME g \in FreeIn(list) PROVE g \in FreeIn(new)
    <3>1. g \in Int
      BY <2>2, InFree, Zenon
    <3>2. PICK i \in DOMAIN list : list[i].base <= g /\ g < list[i].base + list[i].n
      BY <2>2, InFree, Zenon
    <3>3. \E j \in DOMAIN new : new[j].base <= g /\ g < new[j].base + new[j].n
      BY <1>9, <1>11, <3>2, Zenon
    <3> QED
      BY <1>9, <3>1, <3>3, InFree, Zenon
  <2>3. ASSUME g \in FramesOf(b) PROVE g \in FreeIn(new)
    <3>1. g \in Int /\ b.base <= g /\ g < b.base + b.n
      BY <1>2, <2>3 DEF FramesOf
    <3>2. at \in DOMAIN new
      BY <1>5, <1>9, Zenon
    <3> QED
      BY <1>9, <3>1, <3>2, InFree, Zenon
  <2> QED
    BY <2>1, <2>2, <2>3, Zenon
<1> QED
  BY <1>8, <1>9, <1>10, <1>12 DEF Apart

-----------------------------------------------------------------------------
(* vmas *)

Vma == [lo : Nat, hi : Nat, flags : SUBSET {"R", "W", "X", "STACK"}, obj : Nat]

(* None is empty, they ascend, and none overlaps another. *)
Disjoint(vmas) == /\ \A i \in DOMAIN vmas : vmas[i].lo < vmas[i].hi
                  /\ \A i, j \in DOMAIN vmas : i < j => vmas[i].hi <= vmas[j].lo

\* The fields of the vmas in a list.
LEMMA VmaFields ==
  ASSUME NEW vmas \in Seq(Vma), NEW i \in DOMAIN vmas
  PROVE  vmas[i] \in Vma /\ vmas[i].lo \in Nat /\ vmas[i].hi \in Nat /\ i \in Nat \ {0}
<1>1. i \in 1..Len(vmas) /\ DOMAIN vmas = 1..Len(vmas) /\ Len(vmas) \in Nat
  OBVIOUS
<1>2. vmas[i] \in Vma
  BY <1>1
<1> QED
  BY <1>1, <1>2, SMTT(30) DEF Vma

\* find_vma finds the vma that has an address: there is no other.
LEMMA FindsVma ==
  ASSUME NEW mm, mm.vmas \in Seq(Vma), Disjoint(mm.vmas), NEW v \in Nat,
         NEW i \in DOMAIN mm.vmas, mm.vmas[i].lo <= v, v < mm.vmas[i].hi
  PROVE  find_vma(mm, v) = i
<1> DEFINE vmas == mm.vmas
           hits == {j \in DOMAIN vmas : vmas[j].lo <= v /\ v < vmas[j].hi}
<1>1. \A j \in DOMAIN vmas : vmas[j].lo \in Nat /\ vmas[j].hi \in Nat /\ j \in Nat \ {0}
  BY VmaFields, Zenon
<1>2. ASSUME NEW j \in hits PROVE j = i
  <2>1. CASE j < i
    <3>1. vmas[j].hi <= vmas[i].lo
      BY <2>1, Zenon DEF Disjoint
    <3> QED
      BY <1>1, <3>1
  <2>2. CASE i < j
    <3>1. vmas[i].hi <= vmas[j].lo
      BY <2>2, Zenon DEF Disjoint
    <3> QED
      BY <1>1, <3>1
  <2> QED
    BY <1>1, <2>1, <2>2
<1>3. hits \in SUBSET Nat /\ i \in hits
  BY <1>1, Zenon
<1>4. Min(hits) = i
  BY <1>2, <1>3, MinIsLeast, Zenon
<1> QED
  BY <1>3, <1>4, Zenon DEF find_vma

\* What find_vma returns is 0 or a vma that has the address.
LEMMA FoundVma ==
  ASSUME NEW mm, mm.vmas \in Seq(Vma), NEW v \in Nat, find_vma(mm, v) # 0
  PROVE  /\ find_vma(mm, v) \in DOMAIN mm.vmas
         /\ mm.vmas[find_vma(mm, v)].lo <= v /\ v < mm.vmas[find_vma(mm, v)].hi
<1> DEFINE hits == {j \in DOMAIN mm.vmas : mm.vmas[j].lo <= v /\ v < mm.vmas[j].hi}
<1>1. hits # {} /\ find_vma(mm, v) = Min(hits)
  BY Zenon DEF find_vma
<1>2. hits \in SUBSET Nat
  BY VmaFields, Zenon
<1>3. Min(hits) \in hits
  BY <1>1, <1>2, MinIsLeast, Zenon
<1> QED
  BY <1>1, <1>3, Zenon

\* insert_vma_struct compares a new vma with its two neighbours only, and either
\* stops the kernel or leaves a list of disjoint vmas: because the list was in
\* order, a vma that clears its neighbours clears all the others.
THEOREM InsertKeepsDisjoint ==
  ASSUME NEW k, "panic" \in DOMAIN k, NEW mm, "vmas" \in DOMAIN mm,
         mm.vmas \in Seq(Vma), Disjoint(mm.vmas), NEW vma \in Vma,
         NEW r, r = insert_vma_struct(k, mm, vma), Running(r.k)
  PROVE  /\ r.val.vmas \in Seq(Vma) /\ Disjoint(r.val.vmas)
         /\ {r.val.vmas[i] : i \in DOMAIN r.val.vmas} = {mm.vmas[i] : i \in DOMAIN mm.vmas} \cup {vma}
<1> DEFINE vmas == mm.vmas
           above == {i \in DOMAIN vmas : vmas[i].lo > vma.lo}
           at == Min(above \cup {Len(vmas) + 1})
           ok == /\ vma.lo < vma.hi
                 /\ at > 1 => vmas[at - 1].hi <= vma.lo
                 /\ at <= Len(vmas) => vma.hi <= vmas[at].lo
           new == list_add_before(vmas, at, vma)
<1>1. \A i \in DOMAIN vmas : vmas[i].lo \in Nat /\ vmas[i].hi \in Nat /\ i \in Nat \ {0}
  BY VmaFields, Zenon
<1>2. vma.lo \in Nat /\ vma.hi \in Nat
  BY Zenon DEF Vma
<1>3. DOMAIN vmas = 1..Len(vmas) /\ Len(vmas) \in Nat
  OBVIOUS
<1>4. at \in above \cup {Len(vmas) + 1}
  <2>1. above \cup {Len(vmas) + 1} \in SUBSET Nat /\ above \cup {Len(vmas) + 1} # {}
    BY <1>3
  <2> QED
    BY <2>1, MinIsLeast, Zenon
<1>5. at \in 1..(Len(vmas) + 1)
  BY <1>3, <1>4
<1>6. ok /\ r.val.vmas = new
  BY Zenon DEF insert_vma_struct, Fatal, Panic, Ok, Running
<1> HIDE DEF at
<1>7. ASSUME NEW i \in DOMAIN vmas, i < at PROVE vmas[i].hi <= vma.lo
  <2>1. at - 1 \in DOMAIN vmas /\ vmas[at - 1].hi <= vma.lo
    BY <1>3, <1>5, <1>6, <1>7, SMTT(30)
  <2>2. CASE i < at - 1
    <3>1. vmas[i].hi <= vmas[at - 1].lo /\ vmas[at - 1].lo < vmas[at - 1].hi
      BY <2>1, <2>2, Zenon DEF Disjoint
    <3> QED
      BY <1>1, <1>2, <2>1, <3>1
  <2> QED
    BY <1>1, <1>5, <1>7, <2>1, <2>2, SMTT(30)
<1>8. ASSUME NEW i \in DOMAIN vmas, i >= at PROVE vma.hi <= vmas[i].lo
  <2>1. at \in DOMAIN vmas /\ vma.hi <= vmas[at].lo
    BY <1>3, <1>5, <1>6, <1>8
  <2>2. CASE at < i
    <3>1. vmas[at].hi <= vmas[i].lo /\ vmas[at].lo < vmas[at].hi
      BY <2>1, <2>2, Zenon DEF Disjoint
    <3> QED
      BY <1>1, <1>2, <2>1, <3>1, SMTT(30)
  <2> QED
    BY <1>1, <1>5, <1>8, <2>1, <2>2, SMTT(30)
<1> DEFINE o(i) == IF i < at THEN i ELSE i - 1
<1>9. /\ new \in Seq(Vma) /\ DOMAIN new = 1..(Len(vmas) + 1)
      /\ new[at] = vma
      /\ \A i \in DOMAIN new : i # at => o(i) \in DOMAIN vmas /\ new[i] = vmas[o(i)]
  <2>1. /\ new \in Seq(Vma) /\ Len(new) = Len(vmas) + 1
        /\ \A i \in 1..(Len(vmas) + 1) :
             new[i] = IF i < at THEN vmas[i] ELSE IF i = at THEN vma ELSE vmas[i - 1]
    BY <1>5, AddBeforeProperties
  <2> HIDE DEF new
  <2> QED
    BY <1>3, <1>5, <2>1
<1> HIDE DEF new
<1>10. ASSUME NEW i \in DOMAIN new PROVE new[i].lo < new[i].hi
  BY <1>6, <1>9, Zenon DEF Disjoint
<1>11. ASSUME NEW i \in DOMAIN new, NEW j \in DOMAIN new, i < j
       PROVE  new[i].hi <= new[j].lo
  <2>1. CASE i = at
    <3>1. o(j) \in DOMAIN vmas /\ o(j) >= at /\ new[j] = vmas[o(j)]
      BY <1>5, <1>9, <1>11, <2>1
    <3> QED
      BY <1>8, <1>9, <2>1, <3>1, Zenon
  <2>2. CASE j = at
    <3>1. o(i) \in DOMAIN vmas /\ o(i) < at /\ new[i] = vmas[o(i)]
      BY <1>5, <1>9, <1>11, <2>2, SMTT(30)
    <3> QED
      BY <1>7, <1>9, <2>2, <3>1, Zenon
  <2>3. CASE i # at /\ j # at
    <3>1. o(i) < o(j)
      BY <1>5, <1>9, <1>11, <2>3
    <3> QED
      BY <1>9, <2>3, <3>1, Zenon DEF Disjoint
  <2> QED
    BY <2>1, <2>2, <2>3, Zenon
<1>12. ASSUME NEW i \in DOMAIN vmas PROVE \E j \in DOMAIN new : j # at /\ o(j) = i
  <2>1. CASE i < at
    BY <1>3, <1>5, <1>9, <2>1
  <2>2. CASE i >= at
    <3>1. i + 1 \in DOMAIN new /\ i + 1 # at /\ o(i + 1) = i
      BY <1>3, <1>5, <1>9, <2>2
    <3> QED
      BY <3>1, Zenon
  <2> QED
    BY <1>3, <1>5, <2>1, <2>2
<1> HIDE DEF o
<1>13. at \in DOMAIN new
  BY <1>5, <1>9, Zenon
<1>14. {new[i] : i \in DOMAIN new} = {vmas[i] : i \in DOMAIN vmas} \cup {vma}
  BY <1>9, <1>12, <1>13
<1> QED
  BY <1>6, <1>9, <1>10, <1>11, <1>14, ZenonT(30) DEF Disjoint

\* user_mem_check goes from vma to vma, yet what it accepts lies page by page in
\* vmas that allow the access: a copy from or to the user cannot fault for good.
THEOREM UserCheckSound ==
  ASSUME NEW mm, mm # NoMm, mm.vmas \in Seq(Vma), Disjoint(mm.vmas),
         NEW a \in Nat, NEW n \in Nat, NEW write \in BOOLEAN, user_mem_check(mm, a, n, write),
         NEW v \in a..(a + n - 1)
  PROVE  /\ v \in Vpn /\ find_vma(mm, v) # 0
         /\ (IF write THEN "W" ELSE "R") \in mm.vmas[find_vma(mm, v)].flags
<1> DEFINE vmas == mm.vmas
           flag == IF write THEN "W" ELSE "R"
           ends == {vmas[i].hi : i \in VmasOf(mm, a, a + n)}
           starts == {a} \cup ends
           before == {s \in starts : s <= v}
           dist == {v - s : s \in before}
<1>1. \A i \in DOMAIN vmas : vmas[i].lo \in Nat /\ vmas[i].hi \in Nat /\ i \in Nat \ {0}
  BY VmaFields, Zenon
<1>2. v \in Nat /\ a <= v /\ v < a + n /\ a + n \in Nat
  OBVIOUS
<1>3. starts \in SUBSET Nat /\ a \in before
  BY <1>1, <1>2, Zenon DEF VmasOf
<1>4. dist \in SUBSET Nat /\ dist # {}
  BY <1>2, <1>3
<1>5. PICK s \in before : \A t \in before : t <= s
  <2>1. Min(dist) \in dist /\ \A d \in dist : Min(dist) <= d
    BY <1>4, MinIsLeast, Zenon
  <2>2. PICK s \in before : Min(dist) = v - s
    BY <2>1, Zenon
  <2>3. ASSUME NEW t \in before PROVE v - s <= v - t
    <3>1. v - t \in dist
      BY Zenon
    <3> QED
      BY <2>1, <2>2, <3>1, Zenon
  <2> QED
    BY <1>2, <1>3, <2>3
<1>6. s \in Nat /\ s <= v /\ s < a + n /\ a <= s
  <2>1. s \in Nat /\ s <= v /\ a <= s
    BY <1>3, <1>5, Zenon
  <2> QED
    BY <1>2, <2>1
<1>7. USER_ACCESS(a, a + n) /\ find_vma(mm, s) # 0 /\ flag \in vmas[find_vma(mm, s)].flags
  BY <1>5, <1>6, Zenon DEF user_mem_check
<1> DEFINE i == find_vma(mm, s)
<1>8. i \in DOMAIN vmas /\ vmas[i].lo <= s /\ s < vmas[i].hi
  BY <1>6, <1>7, FoundVma, Zenon
<1> HIDE DEF i
<1>9. v < vmas[i].hi
  <2> SUFFICES ASSUME vmas[i].hi <= v PROVE FALSE
    BY <1>1, <1>2, <1>8
  <2>1. i \in VmasOf(mm, a, a + n)
    <3>1. vmas[i].lo \in Nat /\ vmas[i].hi \in Nat
      BY <1>1, <1>8, Zenon
    <3>2. vmas[i].lo < a + n /\ a < vmas[i].hi
      BY <1>2, <1>6, <1>8, <3>1, SMTT(30)
    <3> QED
      BY <1>8, <3>1, <3>2, Zenon DEF VmasOf
  <2>2. vmas[i].hi \in before
    BY <2>1, Zenon
  <2>3. vmas[i].hi <= s
    BY <1>5, <2>2, Zenon
  <2>4. vmas[i].hi \in Nat
    BY <1>1, <1>8, Zenon
  <2> QED
    BY <1>6, <1>8, <2>3, <2>4
<1>10. find_vma(mm, v) = i
  BY <1>1, <1>2, <1>6, <1>8, <1>9, FindsVma, SMTT(30)
<1>11. v \in Vpn
  BY <1>2, <1>7, MmAssumption DEF USER_ACCESS, Vpn
<1> QED
  BY <1>1, <1>7, <1>8, <1>10, <1>11, Zenon DEF i

-----------------------------------------------------------------------------
(* get_pid *)

\* The inductive invariant.  UniquePids needs FreshResult at Link, FreshResult
\* needs SafeGap at CallFast and ScanGap at ScanEnd.
IInv == TypeOK /\ UniquePids /\ FreshResult /\ SafeGap /\ ScanGap

\* The initial state: nothing is linked.
LEMMA InitIInv == Init => IInv
<1> SUFFICES ASSUME Init PROVE IInv
  BY Zenon
<1> USE PidAssumption DEF Init
<1>1. TypeOK
  BY DEF TypeOK
<1>2. UniquePids /\ FreshResult /\ SafeGap /\ ScanGap
  BY Zenon DEF UniquePids, FreshResult, SafeGap, ScanGap
<1> QED
  BY <1>1, <1>2, Zenon DEF IInv

\* Starting a walk at a pid below MAX_PID establishes ScanGap: nothing has
\* been visited yet.
LEMMA RescanIInv ==
  ASSUME IInv, NEW n \in 1 .. MAX_PID - 1, Rescan(n), UNCHANGED <<proc_list, pid>>
  PROVE  IInv'
<1> USE PidAssumption DEF IInv, Rescan
<1>1. TypeOK'
  BY DEF TypeOK
<1>2. UniquePids'
  BY Zenon DEF UniquePids
<1>3. FreshResult' /\ SafeGap'
  BY Zenon DEF FreshResult, SafeGap
<1>4. ScanGap'
  BY DEF ScanGap, TypeOK
<1> QED
  BY <1>1, <1>2, <1>3, <1>4, Zenon

\* Every step of get_pid, and every linking and unlinking, preserves IInv.
LEMMA StepIInv == IInv /\ [Next]_vars => IInv'
<1> SUFFICES ASSUME IInv, [Next]_vars PROVE IInv'
  BY Zenon
<1> USE PidAssumption
<1>1. CASE CallWrap
  <2>1. 1 \in 1 .. MAX_PID - 1
    OBVIOUS
  <2> QED
    BY <1>1, <2>1, RescanIInv, Zenon DEF CallWrap
<1>2. CASE CallScan
  <2>1. last_pid + 1 \in 1 .. MAX_PID - 1
    BY <1>2 DEF CallScan, IInv, TypeOK
  <2> QED
    BY <1>2, <2>1, RescanIInv, Zenon DEF CallScan
<1>3. CASE CallFast
  <2> USE <1>3 DEF CallFast, IInv
  <2>1. TypeOK'
    BY DEF TypeOK
  <2>2. UniquePids' /\ ScanGap'
    BY Zenon DEF UniquePids, ScanGap
  <2>3. FreshResult' /\ SafeGap'
    BY DEF FreshResult, SafeGap, TypeOK
  <2> QED
    BY <2>1, <2>2, <2>3, Zenon
<1>4. CASE Visit
  <2> PICK p \in unseen : VisitClash(p) \/ VisitBump(p) \/ VisitOther(p)
    BY <1>4, Zenon DEF Visit
  <2>1. pc = "scan" /\ UNCHANGED <<proc_list, pid>>
    BY <1>4, Zenon DEF Visit
  <2>2. p \in Proc /\ pid[p] \in 0 .. MAX_PID - 1
    BY Zenon DEF IInv, TypeOK
  <2>3. CASE VisitClash(p)
    <3>1. last_pid \in 1 .. MAX_PID
      BY Zenon DEF IInv, TypeOK
    <3>2. (IF last_pid + 1 >= MAX_PID THEN 1 ELSE last_pid + 1) \in 1 .. MAX_PID - 1
      BY <3>1
    <3> QED
      BY <2>1, <2>3, <3>2, RescanIInv, Zenon DEF VisitClash
  <2>4. CASE VisitBump(p)
    <3> USE <2>1, <2>2, <2>4 DEF VisitBump, IInv
    <3>1. TypeOK'
      BY DEF TypeOK
    <3>2. UniquePids' /\ FreshResult' /\ SafeGap'
      BY Zenon DEF UniquePids, FreshResult, SafeGap
    <3>3. ScanGap'
      BY DEF ScanGap, TypeOK
    <3> QED
      BY <3>1, <3>2, <3>3, ZenonT(30)
  <2>5. CASE VisitOther(p)
    <3> USE <2>1, <2>2, <2>5 DEF VisitOther, IInv
    <3>1. TypeOK'
      BY DEF TypeOK, ScanGap
    <3>2. UniquePids' /\ FreshResult' /\ SafeGap'
      BY Zenon DEF UniquePids, FreshResult, SafeGap
    <3>3. ScanGap'
      BY DEF ScanGap, TypeOK
    <3> QED
      BY <3>1, <3>2, <3>3, Zenon
  <2> QED
    BY <2>3, <2>4, <2>5, Zenon
<1>5. CASE ScanEnd
  <2> USE <1>5 DEF ScanEnd, IInv
  <2>1. TypeOK' /\ UniquePids' /\ ScanGap'
    BY Zenon DEF TypeOK, UniquePids, ScanGap
  <2>2. FreshResult' /\ SafeGap'
    BY DEF FreshResult, SafeGap, ScanGap, TypeOK
  <2> QED
    BY <2>1, <2>2, Zenon
<1>6. ASSUME NEW p \in Proc, Link(p) PROVE IInv'
  <2> USE <1>6 DEF Link, IInv
  <2>1. TypeOK'
    BY DEF TypeOK, FreshResult
  <2>2. UniquePids'
    BY DEF UniquePids, FreshResult, TypeOK
  <2>3. SafeGap'
    BY DEF SafeGap, TypeOK
  <2>4. FreshResult' /\ ScanGap'
    BY Zenon DEF FreshResult, ScanGap
  <2> QED
    BY <2>1, <2>2, <2>3, <2>4, Zenon
<1>7. ASSUME NEW p \in Proc, Unlink(p) PROVE IInv'
  <2> USE <1>7 DEF Unlink, IInv
  <2>1. TypeOK'
    BY Zenon DEF TypeOK, ScanGap
  <2>2. UniquePids' /\ FreshResult' /\ SafeGap' /\ ScanGap'
    BY Zenon DEF UniquePids, FreshResult, SafeGap, ScanGap
  <2> QED
    BY <2>1, <2>2, Zenon
<1>8. CASE UNCHANGED vars
  BY <1>8, Zenon DEF vars, IInv, TypeOK, UniquePids, FreshResult, SafeGap, ScanGap
<1> QED
  BY <1>1, <1>2, <1>3, <1>4, <1>5, <1>6, <1>7, <1>8, Zenon DEF Next

\* Hence IInv holds in every reachable state of get_pid.
THEOREM IInvInvariant == Spec => []IInv
BY InitIInv, StepIInv, PTL DEF Spec

(***************************************************************************)
(* get_pid keeps the pids of the linked processes distinct: the lookups of *)
(* find_proc, do_wait and do_kill by pid are unambiguous.                  *)
(***************************************************************************)
THEOREM PidsAreUnique == Spec => []UniquePids
<1>1. IInv => UniquePids
  BY Zenon DEF IInv
<1> QED
  BY <1>1, IInvInvariant, PTL

(***************************************************************************)
(* What get_pid returns lies in 1 .. MAX_PID - 1 and is carried by no      *)
(* linked process, also on the path that looks at no process at all.       *)
(***************************************************************************)
THEOREM ResultIsFresh == Spec => []FreshResult
<1>1. IInv => FreshResult
  BY Zenon DEF IInv
<1> QED
  BY <1>1, IInvInvariant, PTL

\* A step of get_pid, a linking or an unlinking changes the pids that are
\* carried the way PidSpec allows.
LEMMA StepImplements == IInv /\ [Next]_vars => [Abstract!Next]_given
<1> SUFFICES ASSUME IInv, [Next]_vars PROVE [Abstract!Next]_given
  BY Zenon
<1>1. ASSUME UNCHANGED <<proc_list, pid>> PROVE given' = given
  BY <1>1, Zenon DEF given
<1>2. ASSUME NEW p \in Proc, Link(p) PROVE Abstract!Next
  <2>1. last_pid \in 1 .. MAX_PID - 1 /\ \A q \in DOMAIN given : given[q] # last_pid
    BY <1>2, Zenon DEF Link, IInv, FreshResult, given
  <2>2. p \notin DOMAIN given
    BY <1>2, Zenon DEF Link, given
  <2>3. given' = [q \in DOMAIN given \union {p} |-> IF q = p THEN last_pid ELSE given[q]]
    BY <1>2, Zenon DEF Link, IInv, TypeOK, given
  <2>4. Abstract!Allocate(p, last_pid)
    BY <2>1, <2>2, <2>3, Zenon DEF Abstract!Allocate
  <2> QED
    BY <2>1, <2>4, Zenon DEF Abstract!Next
<1>3. ASSUME NEW p \in Proc, Unlink(p) PROVE Abstract!Next
  <2>1. p \in DOMAIN given
    BY <1>3, Zenon DEF Unlink, given
  <2>2. given' = [q \in DOMAIN given \ {p} |-> given[q]]
    BY <1>3, Zenon DEF Unlink, given
  <2> QED
    BY <2>1, <2>2, Zenon DEF Abstract!Next, Abstract!Release
<1>4. CASE CallWrap \/ CallFast \/ CallScan \/ Visit \/ ScanEnd \/ UNCHANGED vars
  BY <1>1, <1>4, Zenon DEF CallWrap, CallFast, CallScan, Visit, ScanEnd, vars
<1> QED
  BY <1>2, <1>3, <1>4, Zenon DEF Next

(***************************************************************************)
(* get_pid, with do_fork's linking and do_wait's unlinking around it,      *)
(* implements the abstract allocator.                                      *)
(***************************************************************************)
THEOREM Refinement == Spec => Implements
<1>1. Init => Abstract!Init
  BY Zenon DEF Init, Abstract!Init, given
<1> QED
  BY <1>1, IInvInvariant, StepImplements, PTL
     DEF Spec, Implements, Abstract!Spec
=============================================================================
