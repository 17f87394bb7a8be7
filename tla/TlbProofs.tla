----------------------------- MODULE TlbProofs -----------------------------
(***************************************************************************)
(* The TLB stays coherent with the page table in use, for every number of  *)
(* entries, pages and processes.                                           *)
(*                                                                         *)
(* TlbCoherent and SingleMatch are not inductive: TLB_P and TLBIDX survive *)
(* process switches and may be stale.  What keeps the stale values         *)
(* harmless is IndexTells: a page with TLB_P is translated by no entry but *)
(* the one its TLBIDX names, so that completing that entry cannot give the *)
(* page a second translation.  TLB_P itself promises no more than that the *)
(* page is mapped (BitsPresent).  During the checks at start-up, which     *)
(* invalidate entries, the bits and the stack are exact (BitsExact); that  *)
(* takes EntriesExact, which ties tlb_algo_hi to the entries.              *)
(***************************************************************************)
EXTENDS Tlb, TLAPS

\* A page with TLB_P can only be translated by the entry TLBIDX names.
IndexTells ==
  \A x \in Page : \A i \in Matches(x) : TLB_P(cur_pgdir, x) => TLBIDX[cur_pgdir][x] = i

\* TLB_P is only set in entries that are present.
BitsPresent == \A s \in Table : \A x \in Page : TLB_P(s, x) => x \in present[s]

\* A page table that fork may hand out carries no bits of an earlier use.
UnusedClean == /\ cur_pgdir \in mm \union {boot_pgdir}
               /\ \A s \in Space \ mm : \A x \in Page : ~TLB_P(s, x)

\* The checks at start-up use the kernel's page table, and no process exists.
BootTable == booting => cur_pgdir = boot_pgdir /\ mm = {}

\* During the checks tlb_algo_hi names the pair of every entry in use, an entry in
\* use translates a page, and no two entries are for the same pair.
EntriesExact ==
  booting => \A i \in Index : tlb[i].hi # NoPair =>
                /\ algo_hi[i] = tlb[i].hi
                /\ \E b \in {0, 1} : tlb[i].lo[b].V
                /\ \A j \in Index : tlb[j].hi = tlb[i].hi => j = i

\* No entry is twice on the stack of free entries.
StackDistinct == \A m, n \in 1 .. Len(empty) : empty[m] = empty[n] => m = n

Clean == BitsPresent /\ UnusedClean /\ BootTable
Sound == TlbCoherent /\ SingleMatch /\ IndexTells
Exact == BitsExact /\ EntriesExact /\ StackDistinct

IInv == TypeOK /\ Clean /\ Sound /\ Exact

-----------------------------------------------------------------------------
\* A step that leaves the page tables, the TLB and the algorithm's tables alone.
LEMMA SameTables ==
  ASSUME IInv,
         booting' = booting, cur_pgdir' = cur_pgdir, mm' = mm, present' = present,
         TLBIDX' = TLBIDX, tlb' = tlb, empty' = empty, algo_hi' = algo_hi,
         algo_ptr' = algo_ptr, insn' \in Insn \union {None}
  PROVE  IInv'
<1>1. TypeOK'
  BY Zenon DEF IInv, TypeOK
<1>2. Clean'
  <2>1. BitsPresent' /\ UnusedClean'
    BY Zenon DEF IInv, Clean, BitsPresent, UnusedClean, TLB_P
  <2>2. BootTable'
    BY Zenon DEF IInv, Clean, BootTable, TLB_P
  <2> QED
    BY <2>1, <2>2, Zenon DEF Clean
<1>3. Sound'
  <2>1. TlbCoherent' /\ SingleMatch'
    BY ZenonT(30) DEF IInv, Sound, TlbCoherent, SingleMatch, Matches
  <2>2. IndexTells'
    BY Zenon DEF IInv, Sound, IndexTells, Matches, TLB_P
  <2> QED
    BY <2>1, <2>2, Zenon DEF Sound
<1>4. Exact'
  <2>1. BitsExact'
    BY Zenon DEF IInv, Exact, BitsExact, Matches, TLB_P
  <2>2. EntriesExact' /\ StackDistinct'
    BY Zenon DEF IInv, Exact, EntriesExact, StackDistinct
  <2> QED
    BY <2>1, <2>2, Zenon DEF Exact
<1> QED
  BY <1>1, <1>2, <1>3, <1>4, Zenon DEF IInv

\* The other page of a pair is a page of the same pair.
LEMMA PairProperties ==
  ASSUME NEW x \in Page
  PROVE  /\ x[1] \in Pair /\ x[2] \in {0, 1} /\ x = <<x[1], x[2]>>
         /\ TLBPAIR(x) \in Page /\ TLBPAIR(x)[1] = x[1]
         /\ TLBPAIR(x)[2] \in {0, 1} /\ TLBPAIR(x)[2] # x[2]
         /\ \A b \in {0, 1} : b # x[2] => TLBPAIR(x) = <<x[1], b>>
  BY DEF Page, TLBPAIR

\* What an entry of the TLB is, apart from its contents.
EntryType == [hi : Pair \union {NoPair}, lo : [{0, 1} -> Lo]]

\* The stack that tlb_init_callback builds holds every entry once.
LEMMA AllEmptyProperties ==
  /\ AllEmpty \in Seq(Index) /\ Len(AllEmpty) = TLBN
  /\ \A m, n \in 1 .. TLBN : AllEmpty[m] = AllEmpty[n] => m = n
  /\ \A i \in Index : \E n \in 1 .. TLBN : AllEmpty[n] = i
<1>1. TLBN \in Nat
  BY TlbAssumption, Zenon DEF TlbAssumption
<1>2. \A i \in 1 .. TLBN : i - 1 \in Index /\ AllEmpty[i] = i - 1
  BY <1>1 DEF Index, AllEmpty
<1>3. AllEmpty \in Seq(Index) /\ Len(AllEmpty) = TLBN
  BY <1>1, <1>2 DEF AllEmpty
<1>4. \A m, n \in 1 .. TLBN : AllEmpty[m] = AllEmpty[n] => m = n
  BY <1>1, <1>2
<1>5. ASSUME NEW i \in Index PROVE \E n \in 1 .. TLBN : AllEmpty[n] = i
  <2>1. i + 1 \in 1 .. TLBN /\ (i + 1) - 1 = i
    BY <1>1 DEF Index
  <2> QED
    BY <1>2, <2>1, Zenon
<1> QED
  BY <1>3, <1>4, <1>5, Zenon

\* Entries that tlb_init has written have their type and translate nothing.
LEMMA FlushedProperties ==
  /\ Flushed \in [Index -> EntryType]
  /\ \A i \in Index : Flushed[i].hi = NoPair
  /\ \A i \in Index, b \in {0, 1} : ~Flushed[i].lo[b].V
<1>1. Invalid \in Lo /\ ~Invalid.V
  BY Zenon DEF Invalid, Lo
<1>2. ASSUME NEW i \in Index, NEW b \in {0, 1} PROVE Flushed[i].lo[b] = Invalid
  BY Zenon DEF Flushed
<1>3. Flushed \in [Index -> EntryType]
  BY <1>1, Zenon DEF Flushed, EntryType
<1>4. \A i \in Index : Flushed[i].hi = NoPair
  BY Zenon DEF Flushed
<1> QED
  BY <1>1, <1>2, <1>3, <1>4, Zenon

(***************************************************************************)
(* load_pgdir empties the TLB.  If the rest of the state is in order then, *)
(* and the checks at start-up are over, the invariant holds.               *)
(***************************************************************************)
LEMMA FlushIInv ==
  ASSUME TypeOK, NEW p \in Table, load_pgdir(p), booting' = FALSE, Clean',
         mm' \subseteq Space, present' \in [Table -> SUBSET Page],
         TLBIDX' \in [Table -> [Page -> Index \union {None}]],
         insn' \in Insn \union {None}
  PROVE  IInv'
<1>1. tlb' = Flushed /\ empty' = AllEmpty /\ cur_pgdir' = p
  BY Zenon DEF load_pgdir
<1>2. \A x \in Page : Matches(x)' = {}
  <2>1. \A i \in Index, b \in {0, 1} : ~tlb'[i].lo[b].V
    BY <1>1, FlushedProperties, Zenon
  <2> QED
    BY <2>1, PairProperties, Zenon DEF Matches
<1>3. Sound'
  BY <1>2, Zenon DEF Sound, TlbCoherent, SingleMatch, IndexTells
<1>4. StackDistinct'
  BY <1>1, AllEmptyProperties DEF StackDistinct
<1>5. Exact'
  BY <1>4, Zenon DEF Exact, BitsExact, EntriesExact
<1>6. TypeOK'
  <2>1. tlb' \in [Index -> [hi : Pair \union {NoPair}, lo : [{0, 1} -> Lo]]]
    BY <1>1, FlushedProperties, Zenon DEF EntryType
  <2>2. empty' \in Seq(Index)
    BY <1>1, AllEmptyProperties, Zenon
  <2>3. algo_hi' = algo_hi /\ algo_ptr' = algo_ptr
    BY Zenon DEF load_pgdir
  <2> QED
    BY <1>1, <2>1, <2>2, <2>3, Zenon DEF TypeOK
<1> QED
  BY <1>3, <1>5, <1>6, Zenon DEF IInv

-----------------------------------------------------------------------------
(***************************************************************************)
(* The entry tlb_miss_handler fills, and what it puts there.               *)
(***************************************************************************)
LEMMA SlotProperties ==
  ASSUME TypeOK, NEW x \in Page
  PROVE  /\ Slot(x) \in Index
         /\ Entry(x) \in EntryType
         /\ Entry(x).hi = x[1]
         /\ \A b \in {0, 1} : b = x[2] \/ Paired(x) =>
               Entry(x).lo[b] = ENTRYLO(cur_pgdir, <<x[1], b>>)
         /\ \A b \in {0, 1} : ~(b = x[2] \/ Paired(x)) => ~Entry(x).lo[b].V
<1>1. Slot(x) \in Index
  <2>1. empty # <<>> => empty[Len(empty)] \in Index
    BY DEF TypeOK
  <2>2. Paired(x) => TLBIDX[cur_pgdir][TLBPAIR(x)] \in Index
    BY PairProperties DEF TypeOK, Paired, TLB_P
  <2> QED
    BY <2>1, <2>2, Zenon DEF Slot, TypeOK
<1> DEFINE half(b) == IF b = x[2] \/ Paired(x) THEN ENTRYLO(cur_pgdir, <<x[1], b>>) ELSE Invalid
<1>2. ASSUME NEW b \in {0, 1} PROVE half(b) \in Lo
  <2>1. Invalid \in Lo
    BY Zenon DEF Invalid, Lo
  <2>2. <<x[1], b>> \in Page
    BY PairProperties, Zenon DEF Page
  <2>3. ENTRYLO(cur_pgdir, <<x[1], b>>) \in Lo
    BY <2>2, Zenon DEF ENTRYLO, Lo, Frame, TypeOK
  <2> QED
    BY <2>1, <2>3, Zenon
<1>3. Entry(x) = [hi |-> x[1], lo |-> [b \in {0, 1} |-> half(b)]]
  BY Zenon DEF Entry
<1>4. \A b \in {0, 1} : Entry(x).lo[b] = half(b)
  BY <1>3
<1>5. ~Invalid.V
  BY Zenon DEF Invalid
<1>6. x[1] \in Pair
  BY PairProperties, Zenon
<1>7. Entry(x) \in EntryType
  <2> HIDE DEF half
  <2> QED
    BY <1>2, <1>3, <1>6 DEF EntryType
<1> QED
  BY <1>1, <1>3, <1>4, <1>5, <1>7

\* What tlb_miss_handler writes, entry by entry and page by page.
LEMMA RefillWrites ==
  ASSUME TypeOK, NEW x \in Page, Refill(x)
  PROVE  /\ tlb'[Slot(x)] = Entry(x)
         /\ \A i \in Index : i # Slot(x) => tlb'[i] = tlb[i]
         /\ TLBIDX'[cur_pgdir][x] = Slot(x)
         /\ \A z \in Page : z # x => TLBIDX'[cur_pgdir][z] =
               IF z \in Evicted(x) THEN None ELSE TLBIDX[cur_pgdir][z]
         /\ \A s \in Table : s # cur_pgdir => TLBIDX'[s] = TLBIDX[s]
<1>1. Slot(x) \in Index
  BY SlotProperties, Zenon
<1>2. tlb' = [tlb EXCEPT ![Slot(x)] = Entry(x)]
  BY Zenon DEF Refill
<1>3. tlb'[Slot(x)] = Entry(x) /\ \A i \in Index : i # Slot(x) => tlb'[i] = tlb[i]
  BY <1>1, <1>2, Zenon DEF TypeOK
<1> DEFINE row == [y \in Page |-> IF y = x THEN Slot(x)
                                  ELSE IF y \in Evicted(x) THEN None
                                  ELSE TLBIDX[cur_pgdir][y]]
<1>4. TLBIDX' = [TLBIDX EXCEPT ![cur_pgdir] = row]
  BY Zenon DEF Refill
<1>5. /\ row[x] = Slot(x)
      /\ \A z \in Page : z # x =>
            row[z] = IF z \in Evicted(x) THEN None ELSE TLBIDX[cur_pgdir][z]
  BY Zenon
<1> HIDE DEF row
<1>6. TLBIDX'[cur_pgdir] = row /\ \A s \in Table : s # cur_pgdir => TLBIDX'[s] = TLBIDX[s]
  BY <1>4, Zenon DEF TypeOK
<1> QED
  BY <1>3, <1>5, <1>6, Zenon

\* Which entries translate a page after tlb_miss_handler for page x.
LEMMA RefillMatches ==
  ASSUME TypeOK, NEW x \in Page, Refill(x)
  PROVE  /\ Slot(x) \in Matches(x)'
         /\ \A z \in Page : \A i \in Matches(z)' : i # Slot(x) => i \in Matches(z)
         /\ \A z \in Page : \A i \in Matches(z) : i # Slot(x) => i \in Matches(z)'
         /\ \A z \in Page : Slot(x) \in Matches(z)' =>
               /\ z = x \/ (z = TLBPAIR(x) /\ Paired(x))
               /\ tlb'[Slot(x)].lo[z[2]] = ENTRYLO(cur_pgdir, z)
         /\ Paired(x) => Slot(x) \in Matches(TLBPAIR(x))'
<1> DEFINE k == Slot(x)
<1>1. k \in Index /\ tlb'[k] = Entry(x) /\ \A i \in Index : i # k => tlb'[i] = tlb[i]
  BY SlotProperties, RefillWrites, Zenon
<1>2. \A s, z : ENTRYLO(s, z).V = TRUE
  BY Zenon DEF ENTRYLO
<1>3. ASSUME NEW z \in Page, z[1] = x[1], z[2] = x[2] \/ Paired(x)
      PROVE  k \in Matches(z)' /\ tlb'[k].lo[z[2]] = ENTRYLO(cur_pgdir, z)
  <2>1. z[2] \in {0, 1} /\ z = <<x[1], z[2]>>
    BY <1>3, PairProperties, Zenon
  <2>2. Entry(x).hi = x[1] /\ Entry(x).lo[z[2]] = ENTRYLO(cur_pgdir, z)
    BY <1>3, <2>1, SlotProperties, Zenon
  <2> QED
    BY <1>1, <1>2, <1>3, <2>2 DEF Matches
<1>4. ASSUME NEW z \in Page, k \in Matches(z)'
      PROVE  z[1] = x[1] /\ (z[2] = x[2] \/ Paired(x))
  <2>1. Entry(x).hi = z[1] /\ Entry(x).lo[z[2]].V
    BY <1>1, <1>4, Zenon DEF Matches
  <2> QED
    BY <2>1, SlotProperties, PairProperties, SMTT(30)
<1>5. ASSUME NEW z \in Page, z[1] = x[1], z[2] = x[2] \/ Paired(x)
      PROVE  z = x \/ (z = TLBPAIR(x) /\ Paired(x))
  BY <1>5, PairProperties
<1>6. \A z \in Page, i \in Index : i # k => (i \in Matches(z)' <=> i \in Matches(z))
  BY <1>1, Zenon DEF Matches
<1>7. \A z \in Page : Matches(z)' \subseteq Index /\ Matches(z) \subseteq Index
  BY Zenon DEF Matches
<1>8. TLBPAIR(x) \in Page /\ TLBPAIR(x)[1] = x[1]
  BY PairProperties, Zenon
<1> HIDE DEF k
<1> QED
  BY <1>3, <1>4, <1>5, <1>6, <1>7, <1>8, Zenon DEF k

(***************************************************************************)
(* tlb_miss_handler for a page that is not translated: the entries stay    *)
(* coherent, and no page gets a second translation.                        *)
(***************************************************************************)
LEMMA RefillSound ==
  ASSUME TypeOK, Sound, BitsPresent, NEW x \in Page, Matches(x) = {}, Refill(x),
         present' = [present EXCEPT ![cur_pgdir] = @ \union {x}],
         cur_pgdir' = cur_pgdir
  PROVE  Sound'
<1> DEFINE k == Slot(x)
           y == TLBPAIR(x)
<1>1. present'[cur_pgdir] = present[cur_pgdir] \union {x}
  BY Zenon DEF TypeOK
<1>2. y \in Page /\ y # x
  BY PairProperties, Zenon
<1>3. Paired(x) => y \in present[cur_pgdir] /\ k = TLBIDX[cur_pgdir][y] /\ Evicted(x) = {}
  BY <1>2, Zenon DEF Paired, BitsPresent, Slot, Evicted, TypeOK
<1>4. ASSUME NEW z \in Page, NEW i \in Matches(z)'
      PROVE  /\ z \in present'[cur_pgdir]
             /\ tlb'[i].lo[z[2]] = ENTRYLO(cur_pgdir, z)
             /\ TLBIDX'[cur_pgdir][z] # None => TLBIDX'[cur_pgdir][z] = i
             /\ \A j \in Matches(z)' : j = i
  <2>1. CASE i = k
    <3>1. z = x \/ (z = y /\ Paired(x))
      BY <2>1, RefillMatches, Zenon
    <3>2. tlb'[i].lo[z[2]] = ENTRYLO(cur_pgdir, z)
      BY <2>1, RefillMatches, Zenon
    <3>3. z \in present'[cur_pgdir]
      BY <3>1, <1>1, <1>3, Zenon
    <3>4. TLBIDX'[cur_pgdir][z] = i
      BY <2>1, <3>1, <1>2, <1>3, RefillWrites, Zenon
    <3>5. ASSUME NEW j \in Matches(z)', j # k PROVE FALSE
      <4>1. j \in Matches(z)
        BY <3>5, RefillMatches, Zenon
      <4>2. z = y /\ Paired(x)
        BY <4>1, <3>1, Zenon
      <4>3. TLBIDX[cur_pgdir][y] = j
        BY <4>1, <4>2, <1>2, Zenon DEF Sound, IndexTells, Paired
      <4> QED
        BY <4>2, <4>3, <3>5, <1>3, Zenon
    <3> QED
      BY <2>1, <3>2, <3>3, <3>4, <3>5, Zenon
  <2>2. CASE i # k
    <3>1. i \in Matches(z) /\ z # x
      BY <2>2, RefillMatches, Zenon
    <3>2. i \in Index /\ tlb'[i] = tlb[i]
      BY <2>2, <3>1, RefillWrites, Zenon DEF Matches
    <3>3. z \in present[cur_pgdir] /\ tlb[i].lo[z[2]] = ENTRYLO(cur_pgdir, z)
      BY <3>1, Zenon DEF Sound, TlbCoherent
    <3>4. TLBIDX'[cur_pgdir][z] # None => TLBIDX'[cur_pgdir][z] = i
      <4>1. TLBIDX'[cur_pgdir][z] \in {None, TLBIDX[cur_pgdir][z]}
        BY <3>1, RefillWrites, Zenon
      <4>2. TLBIDX[cur_pgdir][z] # None => TLBIDX[cur_pgdir][z] = i
        BY <3>1, Zenon DEF Sound, IndexTells, TLB_P
      <4> QED
        BY <4>1, <4>2, Zenon
    <3>5. ASSUME NEW j \in Matches(z)' PROVE j = i
      <4>1. CASE j # k
        BY <4>1, <3>1, RefillMatches, Zenon DEF Sound, SingleMatch
      <4>2. CASE j = k
        <5>1. z = y /\ Paired(x)
          BY <4>2, <3>1, RefillMatches, Zenon
        <5>2. TLBIDX[cur_pgdir][y] = i
          BY <3>1, <5>1, <1>2, Zenon DEF Sound, IndexTells, Paired
        <5> QED
          BY <5>1, <5>2, <2>2, <1>3, Zenon
      <4> QED
        BY <4>1, <4>2, Zenon
    <3> QED
      BY <3>2, <3>3, <3>4, <3>5, <1>1, Zenon
  <2> QED
    BY <2>1, <2>2, Zenon
<1>5. TlbCoherent'
  BY <1>4, Zenon DEF TlbCoherent, ENTRYLO
<1>6. SingleMatch'
  BY <1>4, Zenon DEF SingleMatch
<1>7. IndexTells'
  BY <1>4, Zenon DEF IndexTells, TLB_P
<1> QED
  BY <1>5, <1>6, <1>7, Zenon DEF Sound

-----------------------------------------------------------------------------
\* tlb_miss_handler keeps the types of what it writes.
LEMMA RefillType ==
  ASSUME TypeOK, NEW x \in Page, Refill(x)
  PROVE  /\ TLBIDX' \in [Table -> [Page -> Index \union {None}]]
         /\ tlb' \in [Index -> EntryType]
         /\ empty' \in Seq(Index)
         /\ algo_hi' \in [Index -> Pair \union {NoPair}]
         /\ algo_ptr' \in Index
<1>1. TLBIDX' \in [Table -> [Page -> Index \union {None}]]
  <2> DEFINE row == [y \in Page |-> IF y = x THEN Slot(x)
                                    ELSE IF y \in Evicted(x) THEN None
                                    ELSE TLBIDX[cur_pgdir][y]]
  <2>1. row \in [Page -> Index \union {None}]
    <3>1. Slot(x) \in Index
      BY SlotProperties, Zenon
    <3>2. \A y \in Page : TLBIDX[cur_pgdir][y] \in Index \union {None}
      BY DEF TypeOK
    <3> QED
      BY <3>1, <3>2, Zenon
  <2>2. TLBIDX' = [TLBIDX EXCEPT ![cur_pgdir] = row]
    BY Zenon DEF Refill
  <2> HIDE DEF row
  <2> QED
    BY <2>1, <2>2, Zenon DEF TypeOK
<1>2. tlb' \in [Index -> EntryType]
  <2>1. tlb' = [tlb EXCEPT ![Slot(x)] = Entry(x)]
    BY Zenon DEF Refill
  <2>2. Slot(x) \in Index /\ Entry(x) \in EntryType
    BY SlotProperties, Zenon
  <2>3. tlb \in [Index -> EntryType]
    BY Zenon DEF TypeOK, EntryType
  <2> QED
    BY <2>1, <2>2, <2>3, Zenon
<1>3. /\ empty' \in Seq(Index)
      /\ algo_hi' \in [Index -> Pair \union {NoPair}]
      /\ algo_ptr' \in Index
  <2>1. CASE Paired(x)
    BY <2>1, Zenon DEF Refill, TypeOK, algo
  <2>2. CASE ~Paired(x) /\ empty # <<>>
    <3>1. GetEmpty(x[1])
      BY <2>2, Zenon DEF Refill
    <3>2. /\ empty' = SubSeq(empty, 1, Len(empty) - 1)
          /\ algo_hi' = [algo_hi EXCEPT ![empty[Len(empty)]] = x[1]]
          /\ algo_ptr' = algo_ptr
      BY <2>2, <3>1, Zenon DEF GetEmpty
    <3>3. SubSeq(empty, 1, Len(empty) - 1) \in Seq(Index)
      BY <2>2 DEF TypeOK
    <3> QED
      BY <3>2, <3>3, PairProperties, Zenon DEF TypeOK
  <2>3. CASE ~Paired(x) /\ empty = <<>>
    <3>1. GetEmpty(x[1])
      BY <2>3, Zenon DEF Refill
    <3>2. NextPtr \in Index
      BY TlbAssumption DEF TlbAssumption, NextPtr, Index, TypeOK
    <3> QED
      BY <2>3, <3>1, <3>2, PairProperties, Zenon DEF GetEmpty, TypeOK
  <2> QED
    BY <2>1, <2>2, <2>3, Zenon
<1> QED
  BY <1>1, <1>2, <1>3, Zenon

\* A stack without its last element, as tlb_get_empty leaves it.
LEMMA PopProperties ==
  ASSUME NEW S, NEW q \in Seq(S), q # <<>>
  PROVE  /\ Len(SubSeq(q, 1, Len(q) - 1)) = Len(q) - 1
         /\ \A n \in 1 .. Len(q) - 1 : SubSeq(q, 1, Len(q) - 1)[n] = q[n]
<1> DEFINE m == Len(q) - 1
<1>1. m \in Nat /\ m \in 0 .. Len(q)
  OBVIOUS
<1> HIDE DEF m
<1>2. /\ Len(SubSeq(q, 1, m)) = m
      /\ \A i \in 1 .. m : SubSeq(q, 1, m)[i] = q[i]
  BY <1>1
<1> QED
  BY <1>2, Zenon DEF m

(***************************************************************************)
(* tlb_miss_handler takes entries off the stack only: an entry handed out  *)
(* is the last one, and stays off.                                         *)
(***************************************************************************)
LEMMA RefillStack ==
  ASSUME TypeOK, StackDistinct, NEW x \in Page, Refill(x)
  PROVE  /\ StackDistinct'
         /\ \A i \in Index : (\E n \in 1 .. Len(empty') : empty'[n] = i) <=>
               /\ \E n \in 1 .. Len(empty) : empty[n] = i
               /\ Paired(x) \/ i # Slot(x)
<1>1. CASE Paired(x) \/ empty = <<>>
  <2>1. empty' = empty
    BY <1>1, Zenon DEF Refill, GetEmpty, algo
  <2>2. empty = <<>> => Len(empty) = 0
    OBVIOUS
  <2> QED
    BY <1>1, <2>1, <2>2 DEF StackDistinct
<1>2. CASE ~Paired(x) /\ empty # <<>>
  <2>1. empty' = SubSeq(empty, 1, Len(empty) - 1) /\ Slot(x) = empty[Len(empty)]
    BY <1>2, Zenon DEF Refill, GetEmpty, Slot
  <2>2. Len(empty) \in Nat \ {0}
    BY <1>2 DEF TypeOK
  <2>3. /\ Len(empty') = Len(empty) - 1
        /\ \A n \in 1 .. Len(empty) - 1 : empty'[n] = empty[n]
    BY <1>2, <2>1, PopProperties, Zenon DEF TypeOK
  <2>4. \A n \in 1 .. Len(empty) - 1 : n \in 1 .. Len(empty) /\ n # Len(empty)
    BY <2>2
  <2>5. StackDistinct'
    BY <2>3, <2>4, Zenon DEF StackDistinct
  <2>6. Len(empty) \in 1 .. Len(empty)
    BY <2>2
  <2>7. \A n \in 1 .. Len(empty) : n # Len(empty) => n \in 1 .. Len(empty) - 1
    BY <2>2
  <2>8. ASSUME NEW i \in Index
        PROVE  (\E n \in 1 .. Len(empty') : empty'[n] = i) <=>
                 (\E n \in 1 .. Len(empty) : empty[n] = i) /\ i # Slot(x)
    BY <2>1, <2>3, <2>4, <2>6, <2>7, ZenonT(30) DEF StackDistinct
  <2> QED
    BY <1>2, <2>5, <2>8, Zenon
<1> QED
  BY <1>1, <1>2, Zenon

(***************************************************************************)
(* During the checks at start-up tlb_miss_handler keeps bits, stack and    *)
(* entries exact.  A pair that has an entry is completed there; a fresh    *)
(* entry comes off the stack, or is the one whose pair, the one named by   *)
(* tlb_algo_hi, loses its bits.                                            *)
(***************************************************************************)
LEMMA RefillExact ==
  ASSUME TypeOK, Sound, Exact, booting, BootTable, NEW x \in Page, Matches(x) = {}, Refill(x),
         cur_pgdir' = cur_pgdir
  PROVE  Exact'
<1> DEFINE k == Slot(x)
           y == TLBPAIR(x)
           Free(i) == \E n \in 1 .. Len(empty) : empty[n] = i
<1>1. cur_pgdir = boot_pgdir
  BY Zenon DEF BootTable
<1>2. /\ \A z \in Page : TLB_P(boot_pgdir, z) <=> Matches(z) # {}
      /\ \A i \in Index : Free(i) <=> tlb[i].hi = NoPair
  BY Zenon DEF Exact, BitsExact
<1>3. \A i \in Index : tlb[i].hi # NoPair =>
          /\ algo_hi[i] = tlb[i].hi
          /\ \E b \in {0, 1} : tlb[i].lo[b].V
          /\ \A j \in Index : tlb[j].hi = tlb[i].hi => j = i
  BY Zenon DEF Exact, EntriesExact
<1>4. /\ k \in Index /\ tlb'[k] = Entry(x) /\ Entry(x).hi = x[1]
      /\ \A i \in Index : i # k => tlb'[i] = tlb[i]
  BY SlotProperties, RefillWrites, Zenon
<1>5. y \in Page /\ y # x /\ y[1] = x[1] /\ x[1] \in Pair /\ x[1] # NoPair
  BY PairProperties, TlbAssumption DEF TlbAssumption
<1>6. ASSUME NEW i \in Index, tlb[i].hi \in Pair
      PROVE  \E z \in Page : z[1] = tlb[i].hi /\ i \in Matches(z)
  <2>1. PICK b \in {0, 1} : tlb[i].lo[b].V
    BY <1>3, <1>6, TlbAssumption, Zenon DEF TlbAssumption
  <2>2. <<tlb[i].hi, b>> \in Page
    BY <1>6, Zenon DEF Page
  <2>3. i \in Matches(<<tlb[i].hi, b>>)
    BY <2>1, Zenon DEF Matches
  <2> QED
    BY <2>2, <2>3, Zenon
<1>7. \A i \in Index : tlb[i].hi \in Pair \union {NoPair}
  BY Zenon DEF TypeOK
\* No other entry is for the pair of x.
<1>8. ASSUME NEW i \in Index, tlb[i].hi = x[1] PROVE i = k /\ Paired(x)
  <2>1. PICK z \in Page : z[1] = x[1] /\ i \in Matches(z)
    BY <1>5, <1>6, <1>8, Zenon
  <2>2. z = y
    <3>1. z # x
      BY <2>1, Zenon
    <3> QED
      BY <2>1, <3>1, PairProperties
  <2>3. Paired(x)
    BY <1>1, <1>2, <2>1, <2>2, Zenon DEF Paired
  <2>4. TLBIDX[cur_pgdir][y] = i
    BY <2>1, <2>2, <2>3, <1>5, Zenon DEF Sound, IndexTells, Paired
  <2> QED
    BY <2>3, <2>4, Zenon DEF Slot
<1>9. Paired(x) => tlb[k].hi = x[1]
  <2>1. ASSUME Paired(x) PROVE k \in Matches(y)
    <3>1. PICK i : i \in Matches(y)
      BY <2>1, <1>1, <1>2, <1>5, Zenon DEF Paired
    <3>2. TLBIDX[cur_pgdir][y] = i
      BY <2>1, <3>1, <1>5, Zenon DEF Sound, IndexTells, Paired
    <3> QED
      BY <2>1, <3>1, <3>2, Zenon DEF Slot
  <2> QED
    BY <2>1, <1>5, Zenon DEF Matches
<1>10. ~Paired(x) /\ empty # <<>> => tlb[k].hi = NoPair
  <2>1. empty # <<>> => Len(empty) \in 1 .. Len(empty)
    BY DEF TypeOK
  <2> QED
    BY <1>2, <1>4, <2>1, Zenon DEF Slot
<1>11. ~Paired(x) /\ empty = <<>> => tlb[k].hi # NoPair /\ algo_hi[k] = tlb[k].hi /\ k = algo_ptr
  <2>1. empty = <<>> => ~Free(k)
    OBVIOUS
  <2> QED
    BY <1>2, <1>3, <1>4, <2>1 DEF Slot
<1>12. algo_hi'[k] = x[1] /\ \A i \in Index : i # k => algo_hi'[i] = algo_hi[i]
  <2>1. CASE Paired(x)
    BY <2>1, <1>3, <1>4, <1>5, <1>9, Zenon DEF Refill, algo
  <2>2. CASE ~Paired(x) /\ empty # <<>>
    <3>1. algo_hi' = [algo_hi EXCEPT ![k] = x[1]]
      BY <2>2, Zenon DEF Refill, GetEmpty, Slot
    <3> QED
      BY <3>1, <1>4, Zenon DEF TypeOK
  <2>3. CASE ~Paired(x) /\ empty = <<>>
    <3>1. algo_hi' = [algo_hi EXCEPT ![k] = x[1]]
      BY <2>3, Zenon DEF Refill, GetEmpty, Slot
    <3> QED
      BY <3>1, <1>4, Zenon DEF TypeOK
  <2> QED
    BY <2>1, <2>2, <2>3, Zenon
<1>13. EntriesExact'
  <2>1. ASSUME NEW i \in Index, tlb'[i].hi # NoPair
        PROVE  /\ algo_hi'[i] = tlb'[i].hi
               /\ \E b \in {0, 1} : tlb'[i].lo[b].V
               /\ \A j \in Index : tlb'[j].hi = tlb'[i].hi => j = i
    <3>1. CASE i = k
      <4>1. algo_hi'[i] = tlb'[i].hi
        BY <3>1, <1>4, <1>12, Zenon
      <4>2. x[2] \in {0, 1} /\ tlb'[i].lo[x[2]].V
        BY <3>1, PairProperties, RefillMatches, Zenon DEF Matches
      <4>3. \A j \in Index : tlb'[j].hi = tlb'[i].hi => j = i
        BY <3>1, <1>4, <1>8, Zenon
      <4> QED
        BY <4>1, <4>2, <4>3, Zenon
    <3>2. CASE i # k
      <4>1. tlb'[i] = tlb[i] /\ tlb[i].hi # NoPair
        BY <2>1, <3>2, <1>4, Zenon
      <4>2. \A j \in Index : tlb'[j].hi = tlb'[i].hi => j = i
        <5>1. tlb[i].hi # x[1]
          BY <3>2, <1>8, Zenon
        <5> QED
          BY <4>1, <5>1, <1>3, <1>4
      <4> QED
        BY <3>2, <4>1, <4>2, <1>3, <1>12, Zenon
    <3> QED
      BY <3>1, <3>2, Zenon
  <2> QED
    BY <2>1, Zenon DEF EntriesExact
<1>14. ASSUME NEW i \in Index
       PROVE  (\E n \in 1 .. Len(empty') : empty'[n] = i) <=> tlb'[i].hi = NoPair
  <2>1. (\E n \in 1 .. Len(empty') : empty'[n] = i) <=> Free(i) /\ (Paired(x) \/ i # k)
    BY RefillStack, Zenon DEF Exact
  <2>2. tlb'[i].hi = NoPair <=> tlb[i].hi = NoPair /\ i # k
    BY <1>4, <1>5, Zenon
  <2>3. Paired(x) /\ i = k => tlb[i].hi # NoPair
    BY <1>9, <1>5, Zenon
  <2> HIDE DEF Free, k
  <2> QED
    BY <2>1, <2>2, <2>3, <1>2, Zenon
<1>15. ASSUME NEW z \in Page
       PROVE  TLBIDX'[boot_pgdir][z] # None <=> Matches(z)' # {}
  <2>1. CASE z = x
    <3>1. TLBIDX'[boot_pgdir][x] = k /\ k \in Matches(x)'
      BY <1>1, RefillWrites, RefillMatches, Zenon
    <3> QED
      BY <2>1, <3>1, <1>4, TlbAssumption DEF TlbAssumption
  <2>2. CASE z # x /\ z \in Evicted(x)
    <3>1. ~Paired(x) /\ empty = <<>> /\ z[1] = algo_hi[algo_ptr]
      BY <2>2, Zenon DEF Evicted
    <3>2. TLBIDX'[boot_pgdir][z] = None
      BY <2>2, <1>1, RefillWrites, Zenon
    <3>3. ASSUME NEW i \in Matches(z)' PROVE FALSE
      <4>1. i # k
        BY <2>2, <3>1, RefillMatches
      <4>2. i \in Matches(z)
        BY <4>1, RefillMatches, Zenon
      <4>3. i \in Index /\ tlb[i].hi = z[1]
        BY <4>2, Zenon DEF Matches
      <4> QED
        BY <3>1, <4>1, <4>3, <1>3, <1>4, <1>11
    <3> QED
      BY <3>2, <3>3, Zenon
  <2>3. CASE z # x /\ z \notin Evicted(x)
    <3>1. TLBIDX'[boot_pgdir][z] = TLBIDX[boot_pgdir][z]
      BY <2>3, <1>1, RefillWrites, Zenon
    <3>2. TLBIDX[boot_pgdir][z] # None <=> Matches(z) # {}
      BY <1>2, Zenon DEF TLB_P
    <3>3. ASSUME NEW i \in Matches(z)' PROVE Matches(z) # {}
      <4>1. CASE i = k
        <5>1. z = y /\ Paired(x)
          BY <4>1, <2>3, RefillMatches, Zenon
        <5> QED
          BY <5>1, <1>1, <1>2, Zenon DEF Paired
      <4>2. CASE i # k
        BY <4>2, RefillMatches, Zenon
      <4> QED
        BY <4>1, <4>2, Zenon
    <3>4. ASSUME NEW i \in Matches(z) PROVE Matches(z)' # {}
      <4>1. CASE i # k
        BY <4>1, RefillMatches, Zenon
      <4>2. CASE i = k
        <5>1. tlb[k].hi = z[1] /\ z[1] \in Pair /\ z[2] \in {0, 1} /\ z = <<z[1], z[2]>>
          BY <4>2, PairProperties, Zenon DEF Matches
        <5>2. Paired(x)
          <6>1. ~Paired(x) /\ empty = <<>> => z \in Evicted(x)
            BY <5>1, <1>11, Zenon DEF Evicted
          <6>2. z[1] # NoPair
            BY <5>1, TlbAssumption, Zenon DEF TlbAssumption
          <6> QED
            BY <6>1, <6>2, <5>1, <2>3, <1>10, Zenon
        <5>3. z = y
          BY <5>1, <5>2, <1>9, <2>3, PairProperties
        <5> QED
          BY <5>2, <5>3, RefillMatches, Zenon
      <4> QED
        BY <4>1, <4>2, Zenon
    <3> QED
      BY <3>1, <3>2, <3>3, <3>4, Zenon
  <2> QED
    BY <2>1, <2>2, <2>3, Zenon
<1>16. BitsExact'
  BY <1>14, <1>15, Zenon DEF BitsExact, TLB_P
<1>17. StackDistinct'
  BY RefillStack, Zenon DEF Exact
<1> QED
  BY <1>13, <1>16, <1>17, Zenon DEF Exact

-----------------------------------------------------------------------------
\* The entry tlb_invalidate writes for page x: what is left is its neighbour.
LEMMA InvalidatedProperties ==
  ASSUME TypeOK, cur_pgdir = boot_pgdir, NEW x \in Page, TLB_P(boot_pgdir, x)
  PROVE  LET k == TLBIDX[boot_pgdir][x]
         IN  /\ k \in Index
             /\ Invalidated(x) \in [Index -> EntryType]
             /\ \A i \in Index : i # k => Invalidated(x)[i] = tlb[i]
             /\ Invalidated(x)[k].hi = IF Paired(x) THEN x[1] ELSE NoPair
             /\ ~Invalidated(x)[k].lo[x[2]].V
             /\ Paired(x) => Invalidated(x)[k].lo[TLBPAIR(x)[2]] = ENTRYLO(boot_pgdir, TLBPAIR(x))
             /\ ~Paired(x) => \A b \in {0, 1} : ~Invalidated(x)[k].lo[b].V
<1> DEFINE k == TLBIDX[boot_pgdir][x]
           y == TLBPAIR(x)
           half(b) == IF Paired(x) /\ b = y[2] THEN ENTRYLO(boot_pgdir, y) ELSE Invalid
           new == [hi |-> IF Paired(x) THEN x[1] ELSE NoPair, lo |-> [b \in {0, 1} |-> half(b)]]
<1>1. k \in Index
  BY DEF TypeOK, TLB_P
<1>2. y \in Page /\ y[2] \in {0, 1} /\ x[2] \in {0, 1} /\ y[2] # x[2] /\ x[1] \in Pair
  BY PairProperties, Zenon
<1>3. Invalidated(x) = [tlb EXCEPT ![k] = new]
  BY Zenon DEF Invalidated
<1>4. /\ half(x[2]) = Invalid
      /\ Paired(x) => half(y[2]) = ENTRYLO(boot_pgdir, y)
      /\ ~Paired(x) => \A b \in {0, 1} : half(b) = Invalid
  BY <1>2, Zenon
<1>5. \A b \in {0, 1} : half(b) \in Lo
  <2>1. Invalid \in Lo
    BY Zenon DEF Invalid, Lo
  <2>2. ENTRYLO(boot_pgdir, y) \in Lo
    BY <1>2, Zenon DEF ENTRYLO, Lo, Frame, Table
  <2> QED
    BY <2>1, <2>2, Zenon
<1>6. ~Invalid.V
  BY Zenon DEF Invalid
<1> HIDE DEF half
<1>7. /\ new \in EntryType /\ new.hi = IF Paired(x) THEN x[1] ELSE NoPair
      /\ \A b \in {0, 1} : new.lo[b] = half(b)
  BY <1>2, <1>5, Zenon DEF EntryType
<1>8. tlb \in [Index -> EntryType]
  BY Zenon DEF TypeOK, EntryType
<1> HIDE DEF new, k, y
<1>9. /\ Invalidated(x) \in [Index -> EntryType]
      /\ Invalidated(x)[k] = new /\ \A i \in Index : i # k => Invalidated(x)[i] = tlb[i]
  BY <1>1, <1>3, <1>7, <1>8, Zenon
<1> QED
  BY <1>1, <1>2, <1>4, <1>6, <1>7, <1>9 DEF k, y

(***************************************************************************)
(* Unmapping a page with tlb_invalidate takes away its translation, and    *)
(* every other page keeps its own.                                         *)
(***************************************************************************)
LEMMA RemoveMatches ==
  ASSUME IInv, NEW x \in Page, page_remove(x)
  PROVE  /\ cur_pgdir = boot_pgdir
         /\ Matches(x)' = {}
         /\ \A z \in Page : z # x => Matches(z)' = Matches(z)
         /\ \A z \in Page : \A i \in Matches(z)' : tlb'[i].lo[z[2]] = ENTRYLO(boot_pgdir, z)
         /\ TLB_P(boot_pgdir, x) =>
               /\ TLBIDX[boot_pgdir][x] \in Index
               /\ tlb[TLBIDX[boot_pgdir][x]].hi = x[1]
<1> DEFINE k == TLBIDX[boot_pgdir][x]
           y == TLBPAIR(x)
<1>1. cur_pgdir = boot_pgdir /\ booting
  BY Zenon DEF page_remove, IInv, Clean, BootTable
<1>2. /\ \A z \in Page : TLB_P(boot_pgdir, z) <=> Matches(z) # {}
      /\ \A z \in Page : \A i \in Matches(z) : TLB_P(boot_pgdir, z) => TLBIDX[boot_pgdir][z] = i
      /\ \A z \in Page : \A i \in Matches(z) : tlb[i].lo[z[2]] = ENTRYLO(boot_pgdir, z)
  BY <1>1, Zenon DEF IInv, Exact, BitsExact, Sound, IndexTells, TlbCoherent
<1>3. CASE ~TLB_P(boot_pgdir, x)
  <2>1. tlb' = tlb
    BY <1>3, Zenon DEF page_remove
  <2>2. \A z \in Page : Matches(z)' = Matches(z)
    BY <2>1, Zenon DEF Matches
  <2> QED
    BY <1>1, <1>2, <1>3, <2>1, <2>2, Zenon
<1>4. CASE TLB_P(boot_pgdir, x)
  <2>1. tlb' = Invalidated(x)
    BY <1>4, Zenon DEF page_remove
  <2>2. y \in Page /\ y[1] = x[1] /\ y # x /\ x[1] # NoPair /\ x[2] \in {0, 1} /\ y[2] \in {0, 1}
    BY PairProperties, TlbAssumption, SMTT(30) DEF TlbAssumption
  <2>3. k \in Matches(x) /\ k \in Index /\ tlb[k].hi = x[1]
    <3>1. k \in Matches(x)
      BY <1>2, <1>4, Zenon
    <3> QED
      BY <3>1, Zenon DEF Matches
  <2>4. Matches(y) \subseteq {k} /\ (Paired(x) <=> Matches(y) # {})
    <3>1. \A i \in Matches(y) : i \in Index /\ tlb[i].hi = x[1]
      BY <2>2, Zenon DEF Matches
    <3>2. \A i \in Matches(y) : i = k
      BY <3>1, <2>2, <2>3, <1>1, SMTT(30) DEF IInv, Exact, EntriesExact
    <3> QED
      BY <3>2, <1>1, <1>2, <2>2, Zenon DEF Paired
  <2>5. /\ \A i \in Index : i # k => tlb'[i] = tlb[i]
        /\ tlb'[k].hi = IF Paired(x) THEN x[1] ELSE NoPair
        /\ ~tlb'[k].lo[x[2]].V
        /\ Paired(x) => tlb'[k].lo[y[2]] = ENTRYLO(boot_pgdir, y)
        /\ ~Paired(x) => \A b \in {0, 1} : ~tlb'[k].lo[b].V
    BY <2>1, <1>1, <1>4, InvalidatedProperties, ZenonT(30) DEF IInv
  <2>6. \A z \in Page, i \in Index : i # k => (i \in Matches(z)' <=> i \in Matches(z))
    BY <2>5, Zenon DEF Matches
  <2>7. \A z \in Page : Matches(z)' \subseteq Index /\ Matches(z) \subseteq Index
    BY Zenon DEF Matches
  <2>8. \A z \in Page : k \in Matches(z)' => z = y /\ Paired(x)
    <3>1. ASSUME NEW z \in Page, k \in Matches(z)' PROVE z = y /\ Paired(x)
      <4>1. tlb'[k].hi = z[1] /\ tlb'[k].lo[z[2]].V /\ z[2] \in {0, 1}
        BY <3>1, PairProperties, Zenon DEF Matches
      <4>2. Paired(x) /\ z[1] = x[1] /\ z # x
        BY <4>1, <2>5, Zenon
      <4> QED
        BY <4>2, PairProperties
    <3> QED
      BY <3>1, Zenon
  <2>9. Paired(x) => k \in Matches(y)' /\ k \in Matches(y)
    <3>1. ASSUME Paired(x) PROVE k \in Matches(y)'
      <4>1. tlb'[k].hi = y[1] /\ tlb'[k].lo[y[2]] = ENTRYLO(boot_pgdir, y)
        BY <3>1, <2>2, <2>5, Zenon
      <4>2. ENTRYLO(boot_pgdir, y).V
        BY Zenon DEF ENTRYLO
      <4> QED
        BY <4>1, <4>2, <2>3, Zenon DEF Matches
    <3> QED
      BY <3>1, <2>4, Zenon
  <2>10. \A z \in Page : k \in Matches(z) => z = x \/ z = y
    BY <2>3, PairProperties, SMTT(60) DEF Matches
  <2>11. Matches(x)' = {}
    <3>1. Matches(x) \subseteq {k}
      BY <1>2, <1>4, Zenon
    <3> QED
      BY <3>1, <2>2, <2>6, <2>7, <2>8, Zenon
  <2>12. ASSUME NEW z \in Page, z # x PROVE Matches(z)' = Matches(z)
    BY <2>12, <2>4, <2>6, <2>7, <2>8, <2>9, <2>10
  <2>13. ASSUME NEW z \in Page, NEW i \in Matches(z)'
         PROVE  tlb'[i].lo[z[2]] = ENTRYLO(boot_pgdir, z)
    <3>1. CASE i = k
      BY <3>1, <2>5, <2>8, Zenon
    <3>2. CASE i # k
      <4>1. i \in Matches(z) /\ tlb'[i] = tlb[i]
        BY <3>2, <2>5, <2>6, <2>7, Zenon
      <4> QED
        BY <4>1, <1>2, Zenon
    <3> QED
      BY <3>1, <3>2, Zenon
  <2> QED
    BY <1>1, <2>3, <2>11, <2>12, <2>13, Zenon
<1> QED
  BY <1>3, <1>4, Zenon

\* Unmapping a page during the checks at start-up keeps the invariant.
LEMMA RemoveIInv ==
  ASSUME IInv, NEW x \in Page, page_remove(x)
  PROVE  IInv'
<1> DEFINE k == TLBIDX[boot_pgdir][x]
           y == TLBPAIR(x)
<1>1. /\ cur_pgdir = boot_pgdir /\ booting /\ boot_pgdir \in Table /\ TypeOK
      /\ booting' = booting /\ cur_pgdir' = cur_pgdir /\ mm' = mm
      /\ algo_hi' = algo_hi /\ algo_ptr' = algo_ptr /\ insn' = insn
  BY RemoveMatches, Zenon DEF page_remove, IInv, Table
<1>2. /\ present'[boot_pgdir] = present[boot_pgdir] \ {x}
      /\ \A s \in Table : s # boot_pgdir => present'[s] = present[s]
      /\ present' \in [Table -> SUBSET Page]
  BY <1>1, Zenon DEF page_remove, TypeOK
<1>3. /\ TLBIDX'[boot_pgdir][x] = None
      /\ \A z \in Page : z # x => TLBIDX'[boot_pgdir][z] = TLBIDX[boot_pgdir][z]
      /\ \A s \in Table : s # boot_pgdir => TLBIDX'[s] = TLBIDX[s]
      /\ TLBIDX' \in [Table -> [Page -> Index \union {None}]]
  BY <1>1, Zenon DEF page_remove, TypeOK
<1>4. Sound'
  <2>1. TlbCoherent'
    <3>1. ASSUME NEW z \in Page, NEW i \in Matches(z)' PROVE z \in present'[boot_pgdir]
      <4>1. z # x /\ i \in Matches(z)
        BY RemoveMatches, Zenon
      <4> QED
        BY <4>1, <1>1, <1>2, Zenon DEF IInv, Sound, TlbCoherent
    <3> QED
      BY <1>1, <3>1, RemoveMatches DEF TlbCoherent, ENTRYLO
  <2>2. SingleMatch'
    BY RemoveMatches DEF IInv, Sound, SingleMatch
  <2>3. IndexTells'
    BY <1>1, <1>3, RemoveMatches DEF IInv, Sound, IndexTells, TLB_P
  <2> QED
    BY <2>1, <2>2, <2>3, Zenon DEF Sound
<1>5. Clean'
  <2>1. BitsPresent'
    BY <1>1, <1>2, <1>3 DEF IInv, Clean, BitsPresent, TLB_P
  <2>2. UnusedClean'
    BY <1>1, <1>3, TlbAssumption DEF IInv, Clean, UnusedClean, TLB_P, TlbAssumption, Table
  <2>3. BootTable'
    BY <1>1, Zenon DEF IInv, Clean, BootTable
  <2> QED
    BY <2>1, <2>2, <2>3, Zenon DEF Clean
<1>6. \A z \in Page : TLBIDX'[boot_pgdir][z] # None <=> Matches(z)' # {}
  <2>1. \A z \in Page : TLBIDX[boot_pgdir][z] # None <=> Matches(z) # {}
    BY <1>1, Zenon DEF IInv, Exact, BitsExact, TLB_P
  <2> QED
    BY <1>1, <1>3, <2>1, RemoveMatches, SMTT(60)
<1>7. CASE ~TLB_P(boot_pgdir, x) \/ Paired(x)
  <2>1. empty' = empty
    BY <1>7, Zenon DEF page_remove, StackAfter
  <2>2. /\ tlb' \in [Index -> EntryType]
        /\ \A i \in Index : tlb'[i].hi = tlb[i].hi
        /\ \A i \in Index : tlb[i].hi # NoPair /\ (\E b \in {0, 1} : tlb[i].lo[b].V)
                              => \E b \in {0, 1} : tlb'[i].lo[b].V
    <3>1. CASE ~TLB_P(boot_pgdir, x)
      <4>1. tlb' = tlb
        BY <3>1, Zenon DEF page_remove
      <4> QED
        BY <4>1, <1>1, Zenon DEF TypeOK, EntryType
    <3>2. CASE TLB_P(boot_pgdir, x)
      <4>1. tlb' = Invalidated(x) /\ Paired(x)
        BY <3>2, <1>7, Zenon DEF page_remove
      <4>2. tlb' \in [Index -> EntryType]
        BY <3>2, <4>1, <1>1, InvalidatedProperties, Zenon
      <4>3. \A i \in Index : i # k => tlb'[i] = tlb[i]
        BY <3>2, <4>1, <1>1, InvalidatedProperties, Zenon
      <4>4. tlb'[k].hi = x[1] /\ tlb'[k].lo[y[2]] = ENTRYLO(boot_pgdir, y)
        BY <3>2, <4>1, <1>1, InvalidatedProperties, Zenon
      <4>5. tlb[k].hi = x[1]
        BY <3>2, RemoveMatches, Zenon
      <4>6. tlb'[k].lo[y[2]].V /\ y[2] \in {0, 1}
        BY <4>4, PairProperties, SMTT(30) DEF ENTRYLO
      <4> QED
        BY <4>2, <4>3, <4>4, <4>5, <4>6, Zenon
    <3> QED
      BY <3>1, <3>2, Zenon
  <2>3. BitsExact'
    BY <1>1, <1>6, <2>1, <2>2, SMTT(30) DEF IInv, Exact, BitsExact, TLB_P
  <2>4. EntriesExact'
    BY <1>1, <2>2, SMTT(60) DEF IInv, Exact, EntriesExact
  <2>5. StackDistinct'
    BY <2>1, Zenon DEF IInv, Exact, StackDistinct
  <2>6. TypeOK'
    BY <1>1, <1>2, <1>3, <2>1, <2>2, Zenon DEF TypeOK, EntryType
  <2> QED
    BY <1>4, <1>5, <2>3, <2>4, <2>5, <2>6, Zenon DEF IInv, Exact
<1>8. CASE TLB_P(boot_pgdir, x) /\ ~Paired(x)
  <2>1. tlb' = Invalidated(x) /\ empty' = Append(empty, k)
    BY <1>8, Zenon DEF page_remove, StackAfter
  <2>2. /\ tlb' \in [Index -> EntryType] /\ k \in Index
        /\ \A i \in Index : i # k => tlb'[i] = tlb[i]
        /\ tlb'[k].hi = NoPair
    <3>1. /\ k \in Index /\ Invalidated(x) \in [Index -> EntryType]
          /\ \A i \in Index : i # k => Invalidated(x)[i] = tlb[i]
      BY <1>1, <1>8, InvalidatedProperties, Zenon
    <3>2. Invalidated(x)[k].hi = IF Paired(x) THEN x[1] ELSE NoPair
      BY <1>1, <1>8, InvalidatedProperties, Zenon
    <3>3. Invalidated(x)[k].hi = NoPair
      BY <1>8, <3>2, Zenon
    <3> QED
      BY <2>1, <3>1, <3>3, Zenon
  <2>3. ~ \E n \in 1 .. Len(empty) : empty[n] = k
    <3>1. tlb[k].hi = x[1] /\ x[1] # NoPair
      BY <1>8, RemoveMatches, PairProperties, TlbAssumption DEF TlbAssumption
    <3> QED
      BY <1>1, <2>2, <3>1, Zenon DEF IInv, Exact, BitsExact
  <2>4. empty \in Seq(Index)
    BY <1>1, Zenon DEF TypeOK
  <2> HIDE DEF k
  <2>5. /\ empty' \in Seq(Index) /\ Len(empty') = Len(empty) + 1
        /\ \A n \in 1 .. Len(empty) : empty'[n] = empty[n]
        /\ empty'[Len(empty) + 1] = k
    BY <2>1, <2>2, <2>4, SMTT(60)
  <2>6. \A n \in 1 .. Len(empty) + 1 : n = Len(empty) + 1 \/ n \in 1 .. Len(empty)
    BY <2>4
  <2>7. Len(empty) + 1 \in 1 .. Len(empty) + 1 /\ 1 .. Len(empty) \subseteq 1 .. Len(empty) + 1
    BY <2>4
  <2>8. \A i \in Index : (\E n \in 1 .. Len(empty') : empty'[n] = i) <=>
                           i = k \/ \E n \in 1 .. Len(empty) : empty[n] = i
    BY <2>5, <2>6, <2>7, Zenon
  <2>9. \A i \in Index : (\E n \in 1 .. Len(empty') : empty'[n] = i) <=> tlb'[i].hi = NoPair
    BY <1>1, <2>2, <2>8 DEF IInv, Exact, BitsExact
  <2>10. BitsExact'
    BY <1>6, <2>9, Zenon DEF BitsExact, TLB_P
  <2>11. EntriesExact'
    BY <1>1, <2>2 DEF IInv, Exact, EntriesExact
  <2>12. StackDistinct'
    BY <2>3, <2>5, <2>6, Zenon DEF IInv, Exact, StackDistinct
  <2>13. TypeOK'
    BY <1>1, <1>2, <1>3, <2>2, <2>5, Zenon DEF TypeOK, EntryType
  <2> QED
    BY <1>4, <1>5, <2>10, <2>11, <2>12, <2>13, Zenon DEF IInv, Exact
<1> QED
  BY <1>7, <1>8, Zenon

-----------------------------------------------------------------------------
\* Taking an address space down (do_exit) keeps the invariant.
LEMMA ExitIInv ==
  ASSUME IInv, cur_pgdir \in Space, Exit
  PROVE  IInv'
<1>1. /\ TypeOK /\ load_pgdir(boot_pgdir) /\ boot_pgdir \in Table /\ ~booting /\ booting' = booting
      /\ cur_pgdir \in Table
  BY TlbAssumption, Zenon DEF Exit, IInv, Clean, BootTable, Table, TlbAssumption
<1>2. /\ mm' \subseteq Space
      /\ present' \in [Table -> SUBSET Page]
      /\ TLBIDX' \in [Table -> [Page -> Index \union {None}]]
      /\ insn' \in Insn \union {None}
  BY <1>1, Zenon DEF Exit, ClearBits, TypeOK
<1>3. /\ \A z \in Page : TLBIDX'[cur_pgdir][z] = None
      /\ \A s \in Table : s # cur_pgdir => TLBIDX'[s] = TLBIDX[s] /\ present'[s] = present[s]
  BY <1>1, Zenon DEF Exit, ClearBits, TypeOK
<1>4. BitsPresent'
  BY <1>3, Zenon DEF IInv, Clean, BitsPresent, TLB_P
<1>5. UnusedClean'
  BY <1>3 DEF Exit, load_pgdir, IInv, Clean, UnusedClean, TLB_P, Table
<1>6. Clean'
  BY <1>1, <1>4, <1>5, Zenon DEF Clean, BootTable
<1> QED
  BY <1>1, <1>2, <1>6, FlushIInv, Zenon DEF TypeOK

(***************************************************************************)
(* A TLB miss that do_pgfault accepts keeps the invariant and leaves the   *)
(* page translated.                                                        *)
(***************************************************************************)
LEMMA RefillIInv ==
  ASSUME IInv, NEW in \in Insn, NEW x \in Page, Matches(x) = {}, Refill(x),
         present' = [present EXCEPT ![cur_pgdir] = @ \union {x}], insn' = in,
         UNCHANGED <<booting, cur_pgdir, mm>>,
         cur_pgdir = boot_pgdir => booting
  PROVE  IInv' /\ Matches(x)' # {}
<1>1. TypeOK /\ Sound /\ Exact /\ BitsPresent /\ UnusedClean /\ BootTable
  BY Zenon DEF IInv, Clean
<1>2. TypeOK'
  BY <1>1, RefillType, Zenon DEF TypeOK, EntryType
<1>3. Sound'
  BY <1>1, RefillSound, Zenon
<1>4. Exact'
  <2>1. CASE booting
    BY <1>1, <2>1, RefillExact, Zenon
  <2>2. CASE ~booting
    BY <1>1, <2>2, RefillStack, Zenon DEF Exact, BitsExact, EntriesExact
  <2> QED
    BY <2>1, <2>2, Zenon
<1>5. Clean'
  <2>1. /\ \A z \in Page : TLBIDX'[cur_pgdir][z] # None => z = x \/ TLBIDX[cur_pgdir][z] # None
        /\ \A s \in Table : s # cur_pgdir => TLBIDX'[s] = TLBIDX[s] /\ present'[s] = present[s]
        /\ present'[cur_pgdir] = present[cur_pgdir] \union {x}
    BY <1>1, RefillWrites, SMTT(30) DEF TypeOK
  <2>2. BitsPresent'
    BY <1>1, <2>1 DEF BitsPresent, TLB_P
  <2>3. UnusedClean'
    BY <1>1, <2>1, TlbAssumption DEF UnusedClean, TLB_P, Table, TlbAssumption
  <2>4. BootTable'
    BY <1>1, Zenon DEF BootTable
  <2> QED
    BY <2>2, <2>3, <2>4, Zenon DEF Clean
<1>6. Matches(x)' # {}
  BY <1>1, RefillMatches, Zenon
<1> QED
  BY <1>2, <1>3, <1>4, <1>5, <1>6, Zenon DEF IInv

\* The pages an instruction needs, and what the kernel's accesses may touch.
LEMMA InsnProperties ==
  ASSUME NEW in \in Insn
  PROVE  /\ in.code \in Page \union {None}
         /\ in.data \in Page \union {None}
         /\ in.store \in BOOLEAN
         /\ in # None
         /\ in.code = None => in.data \in Page /\ PgfaultOk(in.data, in.store)
<1>1. in \in [code : Page \union {None}, data : Page \union {None}, store : BOOLEAN]
  BY TlbAssumption, Zenon DEF TlbAssumption
<1>2. in # None /\ (in.code = None => in.data # None /\ PgfaultOk(in.data, in.store))
  BY TlbAssumption, Zenon DEF TlbAssumption
<1> QED
  BY <1>1, <1>2, Zenon

\* A TLB miss, whether the access is refused or refilled, keeps the invariant; if
\* the instruction is executed again the access is translated.
LEMMA MissIInv ==
  ASSUME IInv, NEW in \in Insn, Runs(in), NEW x \in Page, NEW store, Matches(x) = {},
         Miss(in, x, store), cur_pgdir = boot_pgdir => PgfaultOk(x, store)
  PROVE  IInv' /\ insn' \in {None, in} /\ (insn' = in => Matches(x)' # {})
<1>1. cur_pgdir = boot_pgdir => booting
  BY Zenon DEF Runs
<1>2. cur_pgdir # boot_pgdir => cur_pgdir \in Space
  BY Zenon DEF IInv, TypeOK, Table
<1>3. CASE Exit /\ ~PgfaultOk(x, store)
  <2>1. IInv' /\ insn' = None
    BY <1>2, <1>3, ExitIInv, Zenon DEF Exit
  <2> QED
    BY <2>1, InsnProperties, Zenon
<1>4. CASE /\ present' = [present EXCEPT ![cur_pgdir] = @ \union {x}]
           /\ Refill(x)
           /\ insn' = in
           /\ UNCHANGED <<booting, cur_pgdir, mm>>
  BY <1>1, <1>4, RefillIInv, ZenonT(30)
<1> QED
  BY <1>3, <1>4, Zenon DEF Miss

(***************************************************************************)
(* A step of the CPU keeps the invariant, and an instruction is executed   *)
(* again only after the access that missed has become possible.            *)
(***************************************************************************)
LEMMA ExecuteIInv ==
  ASSUME IInv, NEW in \in Insn,
         FetchMiss(in) \/ DataMiss(in) \/ Modified(in) \/ Misread(in) \/ Complete(in)
  PROVE  /\ IInv'
         /\ insn' \in {None, in}
         /\ insn' = in => /\ tlb_missing(in.code) => ~tlb_missing(in.code)'
                          /\ ~tlb_missing(in.code) => ~tlb_missing(in.data)'
<1>1. in # None /\ in.code \in Page \union {None} /\ in.data \in Page \union {None}
  BY InsnProperties, Zenon
<1>2. cur_pgdir \in Space \/ (cur_pgdir = boot_pgdir)
  BY Zenon DEF IInv, TypeOK, Table
<1>3. CASE FetchMiss(in)
  <2>1. Runs(in) /\ in.code \in Page /\ Matches(in.code) = {} /\ Miss(in, in.code, FALSE)
    BY <1>1, <1>3, Zenon DEF FetchMiss, tlb_missing
  <2>2. cur_pgdir # boot_pgdir
    BY <2>1, TlbAssumption, Zenon DEF Runs, TlbAssumption
  <2>3. IInv' /\ insn' \in {None, in} /\ (insn' = in => Matches(in.code)' # {})
    BY <2>1, <2>2, MissIInv, Zenon
  <2> QED
    BY <1>3, <2>3, Zenon DEF FetchMiss, tlb_missing
<1>4. CASE DataMiss(in)
  <2>1. Runs(in) /\ in.data \in Page /\ Matches(in.data) = {} /\ Miss(in, in.data, in.store)
    BY <1>1, <1>4, Zenon DEF DataMiss, tlb_missing
  <2>2. cur_pgdir = boot_pgdir => PgfaultOk(in.data, in.store)
    BY <2>1, InsnProperties, Zenon DEF Runs
  <2>3. IInv' /\ insn' \in {None, in} /\ (insn' = in => Matches(in.data)' # {})
    BY <2>1, <2>2, MissIInv, Zenon
  <2> QED
    BY <1>4, <2>3, Zenon DEF DataMiss, tlb_missing
<1>5. CASE Modified(in)
  <2>1. Exit /\ Runs(in) /\ in.store /\ ~tlb_writable(in.data) /\ ~tlb_missing(in.data)
    BY <1>5, Zenon DEF Modified, Translated, Refused
  <2>2. cur_pgdir # boot_pgdir
    <3>1. ASSUME cur_pgdir = boot_pgdir PROVE FALSE
      <4>1. in.data \in Page /\ in.data # None /\ PgfaultOk(in.data, in.store)
        BY <2>1, <3>1, InsnProperties, TlbAssumption, Zenon DEF Runs, TlbAssumption
      <4>2. PICK i : i \in Matches(in.data)
        BY <2>1, <4>1, Zenon DEF tlb_missing
      <4>3. tlb[i].lo[in.data[2]] = ENTRYLO(cur_pgdir, in.data)
        BY <4>1, <4>2, Zenon DEF IInv, Sound, TlbCoherent
      <4>4. Vma[in.data] = "rw"
        BY <2>1, <4>1, Zenon DEF PgfaultOk
      <4>5. tlb[i].lo[in.data[2]].D
        <5>1. ENTRYLO(cur_pgdir, in.data).D = (Vma[in.data] = "rw")
          BY Zenon DEF ENTRYLO
        <5> QED
          BY <4>3, <4>4, <5>1, Zenon
      <4> QED
        BY <2>1, <4>2, <4>5, Zenon DEF tlb_writable
    <3> QED
      BY <3>1, Zenon
  <2>3. IInv' /\ insn' = None
    BY <1>2, <2>1, <2>2, ExitIInv, Zenon DEF Exit
  <2> QED
    BY <1>1, <2>3, Zenon
<1>6. CASE Misread(in) \/ Complete(in)
  <2>1. /\ insn' = None /\ booting' = booting /\ cur_pgdir' = cur_pgdir /\ mm' = mm
        /\ present' = present /\ TLBIDX' = TLBIDX /\ tlb' = tlb /\ empty' = empty
        /\ algo_hi' = algo_hi /\ algo_ptr' = algo_ptr
    BY <1>6, Zenon DEF Misread, Complete, ptes, algo
  <2>2. IInv'
    BY <2>1, SameTables, Zenon
  <2> QED
    BY <1>1, <2>1, <2>2, Zenon
<1> QED
  BY <1>3, <1>4, <1>5, <1>6, Zenon

-----------------------------------------------------------------------------
\* The TLB starts empty (tlb_init) and the page tables without TLB_P.
LEMMA InitIInv == Init => IInv
<1> SUFFICES ASSUME Init PROVE IInv
  BY Zenon
<1>1. 0 \in Index /\ boot_pgdir \in Table
  BY TlbAssumption DEF TlbAssumption, Index, Table
<1>2. tlb = Flushed /\ empty = AllEmpty
  BY Zenon DEF Init
<1>3. TypeOK
  BY <1>1, <1>2, FlushedProperties, AllEmptyProperties, Zenon DEF Init, TypeOK, EntryType
<1>4. \A x \in Page : Matches(x) = {}
  BY <1>2, FlushedProperties, PairProperties, Zenon DEF Matches
<1>5. \A s \in Table : \A x \in Page : ~TLB_P(s, x)
  BY Zenon DEF Init, TLB_P
<1>6. Clean
  BY <1>5, Zenon DEF Init, Clean, BitsPresent, UnusedClean, BootTable, Table
<1>7. Sound
  BY <1>4, Zenon DEF Sound, TlbCoherent, SingleMatch, IndexTells
<1>8. Exact
  <2>1. BitsExact
    BY <1>1, <1>2, <1>4, <1>5, FlushedProperties, AllEmptyProperties, Zenon DEF BitsExact
  <2>2. EntriesExact
    BY <1>2, FlushedProperties, Zenon DEF EntriesExact
  <2>3. StackDistinct
    BY <1>2, AllEmptyProperties DEF StackDistinct
  <2> QED
    BY <2>1, <2>2, <2>3, Zenon DEF Exact
<1> QED
  BY <1>3, <1>6, <1>7, <1>8, Zenon DEF IInv

(***************************************************************************)
(* Every step keeps the invariant.  Only a refill and tlb_invalidate write *)
(* into the TLB; every change of the page table in use empties it.         *)
(***************************************************************************)
LEMMA StepIInv == IInv /\ [Next]_vars => IInv'
<1> SUFFICES ASSUME IInv, [Next]_vars PROVE IInv'
  BY Zenon
<1>0. TypeOK /\ BitsPresent /\ UnusedClean /\ BootTable
  BY Zenon DEF IInv, Clean
<1>1. ASSUME Execute PROVE IInv'
  BY <1>1, ExecuteIInv, Zenon DEF Execute
<1>2. ASSUME NEW x \in Page, page_remove(x) PROVE IInv'
  BY <1>2, RemoveIInv, Zenon
<1>3. ASSUME NEW s \in Space, Start(s) PROVE IInv'
  <2>1. /\ s \in Table /\ boot_pgdir \in Table /\ s # boot_pgdir /\ Loaded \subseteq Page
        /\ load_pgdir(s) /\ booting' = FALSE /\ mm' = {s} /\ mm = {} /\ insn' = insn
    BY <1>0, <1>3, TlbAssumption, Zenon DEF Start, BootTable, Table, TlbAssumption
  <2>2. /\ present' \in [Table -> SUBSET Page]
        /\ present'[s] = Loaded
        /\ \A q \in Table : q # s /\ q # boot_pgdir => present'[q] = present[q]
    BY <1>0, <1>3, <2>1, Zenon DEF Start, TypeOK
  <2>3. /\ TLBIDX' \in [Table -> [Page -> Index \union {None}]]
        /\ \A x \in Page : TLBIDX'[boot_pgdir][x] = None
        /\ \A q \in Table : q # boot_pgdir => TLBIDX'[q] = TLBIDX[q]
    BY <1>0, <1>3, <2>1, Zenon DEF Start, ClearBits, TypeOK
  <2>4. \A q \in Table : \A x \in Page : TLBIDX'[q][x] = None
    BY <1>0, <2>1, <2>3 DEF UnusedClean, TLB_P, Table
  <2>5. Clean'
    BY <2>1, <2>4, Zenon DEF Clean, BitsPresent, UnusedClean, BootTable, load_pgdir, TLB_P, Table
  <2> QED
    BY <1>0, <2>1, <2>2, <2>3, <2>5, FlushIInv, Zenon DEF TypeOK
<1>4. ASSUME NEW s \in Space, Exec(s) PROVE IInv'
  <2>1. /\ s \in Table /\ Loaded \subseteq Page /\ s # boot_pgdir /\ cur_pgdir = s
        /\ load_pgdir(s) /\ booting' = FALSE /\ mm' = mm /\ insn' = insn
    BY <1>0, <1>4, TlbAssumption, Zenon DEF Exec, Calls, BootTable, Table, TlbAssumption, TypeOK
  <2>2. /\ present' \in [Table -> SUBSET Page]
        /\ \A q \in Table : q # s => present'[q] = present[q]
    BY <1>0, <1>4, <2>1, Zenon DEF Exec, TypeOK
  <2>3. /\ TLBIDX' \in [Table -> [Page -> Index \union {None}]]
        /\ \A x \in Page : TLBIDX'[s][x] = None
        /\ \A q \in Table : q # s => TLBIDX'[q] = TLBIDX[q]
    BY <1>0, <1>4, <2>1, Zenon DEF Exec, ClearBits, TypeOK
  <2>4. BitsPresent'
    BY <1>0, <2>2, <2>3, Zenon DEF BitsPresent, TLB_P
  <2>5. UnusedClean'
    BY <1>0, <2>1, <2>3 DEF UnusedClean, TLB_P, load_pgdir, Table
  <2>6. Clean'
    BY <2>1, <2>4, <2>5, Zenon DEF Clean, BootTable
  <2> QED
    BY <1>0, <2>1, <2>2, <2>3, <2>6, FlushIInv, Zenon DEF TypeOK
<1>5. ASSUME NEW s \in Space, sys_exit(s) PROVE IInv'
  BY <1>5, ExitIInv, Zenon DEF sys_exit, Calls
<1>6. ASSUME NEW s \in Space, NEW c \in Space, Fork(s, c) PROVE IInv'
  <2>1. /\ cur_pgdir = s /\ c \notin mm /\ s \in Table /\ c \in Table /\ mm' = mm \union {c}
        /\ UNCHANGED <<booting, cur_pgdir, TLBIDX, tlb, empty, algo_hi, algo_ptr, insn>>
    BY <1>6, Zenon DEF Fork, Calls, Table, algo
  <2>2. s # boot_pgdir /\ s # c /\ ~booting
    BY <1>0, <2>1, TlbAssumption, Zenon DEF UnusedClean, BootTable, TlbAssumption
  <2>3. /\ present' \in [Table -> SUBSET Page]
        /\ \A q \in Table : q # c => present'[q] = present[q]
    BY <1>0, <1>6, <2>1, Zenon DEF Fork, TypeOK
  <2>4. TypeOK'
    BY <1>0, <2>1, <2>3, Zenon DEF TypeOK
  <2>5. BitsPresent'
    BY <1>0, <2>1, <2>3, Zenon DEF BitsPresent, UnusedClean, TLB_P
  <2>6. UnusedClean'
    BY <1>0, <2>1, Zenon DEF UnusedClean, TLB_P
  <2>7. Clean'
    BY <2>1, <2>2, <2>5, <2>6, Zenon DEF Clean, BootTable
  <2>8. Sound'
    <3>1. \A z \in Page : Matches(z)' = Matches(z)
      BY <2>1, Zenon DEF Matches
    <3>2. /\ TlbCoherent /\ SingleMatch /\ IndexTells
          /\ present'[cur_pgdir'] = present[cur_pgdir] /\ cur_pgdir' = cur_pgdir
          /\ TLBIDX' = TLBIDX /\ tlb' = tlb
      BY <2>1, <2>2, <2>3, Zenon DEF IInv, Sound
    <3>3. TlbCoherent'
      BY <3>1, <3>2, Zenon DEF TlbCoherent
    <3>4. SingleMatch' /\ IndexTells'
      BY <3>1, <3>2, Zenon DEF SingleMatch, IndexTells, TLB_P
    <3> QED
      BY <3>3, <3>4, Zenon DEF Sound
  <2>9. Exact'
    BY <2>1, <2>2, Zenon DEF IInv, Exact, BitsExact, EntriesExact, StackDistinct
  <2> QED
    BY <2>4, <2>7, <2>8, <2>9, Zenon DEF IInv
<1>7. ASSUME NEW p \in Table, Switch(p) PROVE IInv'
  <2>1. /\ load_pgdir(p) /\ p \in mm \union {boot_pgdir} /\ booting' = FALSE /\ insn' = None
        /\ UNCHANGED <<mm, present, TLBIDX>>
    BY <1>0, <1>7, Zenon DEF Switch, ptes, TypeOK
  <2>2. Clean'
    BY <1>0, <2>1, Zenon DEF Clean, BitsPresent, UnusedClean, BootTable, load_pgdir, TLB_P
  <2> QED
    BY <1>0, <2>1, <2>2, FlushIInv, Zenon DEF TypeOK
<1>8. CASE UNCHANGED vars
  <2>1. /\ insn' = insn /\ booting' = booting /\ cur_pgdir' = cur_pgdir /\ mm' = mm
        /\ present' = present /\ TLBIDX' = TLBIDX /\ tlb' = tlb /\ empty' = empty
        /\ algo_hi' = algo_hi /\ algo_ptr' = algo_ptr
    BY <1>8, Zenon DEF vars, ptes, algo
  <2>2. insn \in Insn \union {None}
    BY <1>0, Zenon DEF TypeOK
  <2> QED
    BY <2>1, <2>2, SameTables, Zenon
<1> QED
  BY <1>1, <1>2, <1>3, <1>4, <1>5, <1>6, <1>7, <1>8, Zenon DEF Next

-----------------------------------------------------------------------------
\* The invariant holds in every reachable state of the kernel and the MMU.
LEMMA IInvInvariant == Spec => []IInv
<1>1. Init => IInv
  BY InitIInv, Zenon
<1>2. IInv /\ [Next]_vars => IInv'
  BY StepIInv, Zenon
<1> QED
  BY <1>1, <1>2, PTL DEF Spec

\* Variables, entries, stack and pointers of mm/tlb.c keep their types.
THEOREM TypeCorrect == Spec => []TypeOK
<1>1. IInv => TypeOK
  BY Zenon DEF IInv
<1> QED
  BY <1>1, IInvInvariant, PTL

(***************************************************************************)
(* Whatever load_pgdir, tlb_miss_handler and tlb_invalidate leave in the   *)
(* TLB agrees with the page table in use, for any number of entries, pages *)
(* and processes.                                                          *)
(***************************************************************************)
THEOREM Coherence == Spec => []TlbCoherent
<1>1. IInv => TlbCoherent
  BY Zenon DEF IInv, Sound
<1> QED
  BY <1>1, IInvInvariant, PTL

(***************************************************************************)
(* The MMU never finds two valid translations of a page, so that the OR of *)
(* the frame numbers that match is a frame number.                         *)
(***************************************************************************)
THEOREM MatchesAreUnique == Spec => []SingleMatch
<1>1. IInv => SingleMatch
  BY Zenon DEF IInv, Sound
<1> QED
  BY <1>1, IInvInvariant, PTL

(***************************************************************************)
(* During the checks at start-up TLB_P and the stack of mm/tlb.c say       *)
(* exactly what the TLB holds, which tlb_invalidate relies on.             *)
(***************************************************************************)
THEOREM BitsAreExact == Spec => []BitsExact
<1>1. IInv => BitsExact
  BY Zenon DEF IInv, Exact
<1> QED
  BY <1>1, IInvInvariant, PTL

\* tlb_miss_handler always leaves the access that missed translated.
THEOREM RefillsTakeEffect == Spec => RefillTakes
<1> DEFINE Cured(in) == insn' = in => /\ tlb_missing(in.code) => ~tlb_missing(in.code)'
                                      /\ ~tlb_missing(in.code) => ~tlb_missing(in.data)'
<1>1. IInv /\ [Next]_vars => [\A in \in Insn : Cured(in)]_vars
  <2> SUFFICES ASSUME IInv, Next, NEW in \in Insn PROVE Cured(in)
    BY Zenon
  <2>1. CASE Execute
    <3>1. PICK j \in Insn : \/ FetchMiss(j) \/ DataMiss(j)
                           \/ Modified(j) \/ Misread(j) \/ Complete(j)
      BY <2>1, Zenon DEF Execute
    <3>2. insn' \in {None, j} /\ Cured(j)
      BY <3>1, ExecuteIInv, Zenon
    <3>3. in # None
      BY InsnProperties, Zenon
    <3>4. CASE insn' = in
      <4>1. j = in
        BY <3>2, <3>3, <3>4, Zenon
      <4> QED
        BY <3>2, <4>1, Zenon
    <3> QED
      BY <3>4, Zenon
  <2>2. CASE ~Execute
    <3>1. insn' = None
      BY <2>2, Zenon DEF Next, page_remove, Start, Exec, sys_exit, Exit, Fork, Switch, Calls
    <3> QED
      BY <3>1, InsnProperties, Zenon
  <2> QED
    BY <2>1, <2>2, Zenon
<1> QED
  BY <1>1, IInvInvariant, PTL DEF Spec, RefillTakes

-----------------------------------------------------------------------------
(* The bound of the stack, by counting *)

LOCAL INSTANCE FiniteSetTheorems

(***************************************************************************)
(* tlb_del_callback never writes past the end of tlb_algo_empty: distinct  *)
(* entries fill at most TLBN places.                                       *)
(***************************************************************************)
THEOREM StackFits == Spec => []StackBounded
<1>1. IInv => StackBounded
  <2> SUFFICES ASSUME IInv PROVE StackBounded
    BY Zenon
  <2>1. /\ empty \in Seq(Index) /\ TLBN \in Nat \ {0}
        /\ \A m, n \in 1 .. Len(empty) : empty[m] = empty[n] => m = n
    BY TlbAssumption DEF IInv, TypeOK, Exact, StackDistinct, TlbAssumption
  <2> DEFINE L == Len(empty)
  <2>2. L \in Nat /\ empty \in [1 .. L -> Index]
    BY <2>1
  <2> HIDE DEF L
  <2>3. empty \in Injection(1 .. L, Index)
    BY <2>1, <2>2, Zenon DEF Injection, IsInjective, L
  <2>4. IsFiniteSet(Index) /\ Cardinality(Index) = TLBN
    <3>1. /\ IsFiniteSet(0 .. TLBN - 1)
          /\ Cardinality(0 .. TLBN - 1) = IF 0 > TLBN - 1 THEN 0 ELSE TLBN - 1 - 0 + 1
      BY <2>1, FS_Interval
    <3> QED
      BY <2>1, <3>1 DEF Index
  <2>5. Cardinality(1 .. L) = L
    <3>1. Cardinality(1 .. L) = IF 1 > L THEN 0 ELSE L - 1 + 1
      BY <2>2, FS_Interval
    <3> QED
      BY <2>2, <3>1
  <2>6. Cardinality(1 .. L) <= Cardinality(Index)
    BY <2>3, <2>4, FS_Injection, Zenon
  <2> QED
    BY <2>1, <2>4, <2>5, <2>6 DEF StackBounded, L
<1> QED
  BY <1>1, IInvInvariant, PTL
=============================================================================
