-------------------------------- MODULE Tlb --------------------------------
(***************************************************************************)
(* The TLB of mmu_module.vhd and the kernel's software refill, mm/tlb.c.   *)
(*                                                                         *)
(* An entry of the TLB maps two neighbouring pages.  The kernel remembers  *)
(* in the page table entry of a page whether it is in the TLB (TLB_P) and  *)
(* in which entry (TLBIDX), and keeps a stack of free entries.  load_pgdir *)
(* empties the TLB at every process switch, and leaves the page tables as  *)
(* they are: TLB_P may be set for a page that is not in the TLB any more.  *)
(*                                                                         *)
(* A step is an instruction of a user program that runs or traps, with the *)
(* whole handler, or a kernel call that changes page tables.  The kernel   *)
(* itself runs at addresses the MMU does not map.  At start-up it checks   *)
(* page faults and swapping on user addresses of its own page table: only  *)
(* then are pages of the table in use unmapped.                            *)
(***************************************************************************)
EXTENDS Naturals, Sequences

CONSTANTS Space,        \* address spaces of user processes (mm->pgdir)
          boot_pgdir,   \* the page directory of the kernel
          Pair,         \* virtual page numbers without the lowest bit
          Insn,         \* what instructions need
          Vma,          \* what a page's vma allows: "none", "r" or "rw"
          Loaded,       \* pages that load_icode maps
          TLBN,
          NoPair, None

Table == Space \union {boot_pgdir}
Page == Pair \X {0, 1}
Index == 0 .. TLBN - 1

\* do_pgfault accepts the access.
PgfaultOk(x, store) == Vma[x] = "rw" \/ (Vma[x] = "r" /\ ~store)

\* An instruction is fetched from page code and accesses page data, or none.  If
\* code is None it is the kernel's, and user_mem_check has allowed the access.
ASSUME TlbAssumption ==
  /\ TLBN \in Nat \ {0}
  /\ boot_pgdir \notin Space
  /\ NoPair \notin Pair
  /\ None \notin Page \union Index \union Insn
  /\ Loaded \subseteq Page
  /\ Vma \in [Page -> {"none", "r", "rw"}]
  /\ Insn \subseteq [code : Page \union {None}, data : Page \union {None}, store : BOOLEAN]
  /\ \A in \in Insn : in.code = None => in.data # None /\ PgfaultOk(in.data, in.store)

VARIABLES booting,      \* the checks at start-up are running
          cur_pgdir,
          mm,           \* the address spaces in use
          present,      \* pages with PTE_P, per page table
          TLBIDX,       \* the index per page table entry, None without TLB_P
          tlb,          \* the entries of the hardware
          empty,        \* tlb_algo_empty[0 .. tlb_algo_n - 1]
          algo_hi, algo_ptr,
          insn          \* the instruction that has missed and is executed again

ptes == <<present, TLBIDX>>
algo == <<empty, algo_hi, algo_ptr>>
vars == <<booting, cur_pgdir, mm, ptes, tlb, algo, insn>>

TLB_P(s, x) == TLBIDX[s][x] # None
TLBPAIR(x) == <<x[1], 1 - x[2]>>

\* Each mapped page has a frame of its own, named here after the page.
Frame == Table \X Page
Invalid == [V |-> FALSE, D |-> FALSE, pfn |-> None]
ENTRYLO(s, x) == [V |-> TRUE, D |-> Vma[x] = "rw", pfn |-> <<s, x>>]

-----------------------------------------------------------------------------
\* The hardware: the entries that translate page x.  None stands for an address
\* that does not use the MMU, and for no access at all.
Matches(x) == {i \in Index : tlb[i].hi = x[1] /\ tlb[i].lo[x[2]].V}

tlb_missing(x) == x # None /\ Matches(x) = {}
tlb_writable(x) == x # None => \E i \in Matches(x) : tlb[i].lo[x[2]].D

-----------------------------------------------------------------------------
Flushed == [i \in Index |-> [hi |-> NoPair, lo |-> [b \in {0, 1} |-> Invalid]]]
AllEmpty == [i \in 1 .. TLBN |-> i - 1]

Init == /\ booting = TRUE
        /\ cur_pgdir = boot_pgdir
        /\ mm = {}
        /\ present = [s \in Table |-> {}]
        /\ TLBIDX = [s \in Table |-> [x \in Page |-> None]]
        /\ tlb = Flushed
        /\ empty = AllEmpty
        /\ algo_hi = [i \in Index |-> NoPair]
        /\ algo_ptr = 0
        /\ insn = None

\* Seeded fault: only the stack is reset.
load_pgdirNoFlush(p) == /\ cur_pgdir' = p
                        /\ empty' = AllEmpty
                        /\ UNCHANGED <<tlb, algo_hi, algo_ptr>>

\* With tlb_init: every entry is made invalid and free.
load_pgdir(p) == /\ cur_pgdir' = p
                 /\ tlb' = Flushed
                 /\ empty' = AllEmpty
                 /\ UNCHANGED <<algo_hi, algo_ptr>>

-----------------------------------------------------------------------------
(***************************************************************************)
(* The second half of tlb_miss_handler, for page x of the page table in    *)
(* use.  If the other page of the pair has TLB_P its entry is completed,   *)
(* else tlb_get_empty pops a free entry or evicts one in turn, and clears  *)
(* TLB_P of the two pages which that entry was handed out for.             *)
(***************************************************************************)
Paired(x) == TLB_P(cur_pgdir, TLBPAIR(x))

\* Seeded fault: a new entry is taken even if the pair has one.
SlotFresh(x) == IF empty # <<>> THEN empty[Len(empty)] ELSE algo_ptr

Slot(x) == IF Paired(x) THEN TLBIDX[cur_pgdir][TLBPAIR(x)]
           ELSE IF empty # <<>> THEN empty[Len(empty)] ELSE algo_ptr

NextPtr == (algo_ptr + 1) % TLBN

GetEmpty(hi) ==
  IF empty # <<>>
  THEN /\ empty' = SubSeq(empty, 1, Len(empty) - 1)
       /\ algo_hi' = [algo_hi EXCEPT ![empty[Len(empty)]] = hi]
       /\ UNCHANGED algo_ptr
  ELSE /\ algo_ptr' = NextPtr
       /\ algo_hi' = [algo_hi EXCEPT ![algo_ptr] = hi]
       /\ UNCHANGED empty

Evicted(x) == IF ~Paired(x) /\ empty = <<>> THEN {algo_hi[algo_ptr]} \X {0, 1} ELSE {}

Entry(x) ==
  [hi |-> x[1],
   lo |-> [b \in {0, 1} |-> IF b = x[2] \/ Paired(x)
                            THEN ENTRYLO(cur_pgdir, <<x[1], b>>) ELSE Invalid]]

Refill(x) ==
  /\ IF Paired(x) THEN UNCHANGED algo ELSE GetEmpty(x[1])
  /\ tlb' = [tlb EXCEPT ![Slot(x)] = Entry(x)]
  /\ TLBIDX' = [TLBIDX EXCEPT ![cur_pgdir] =
                  [y \in Page |-> IF y = x THEN Slot(x)
                                 ELSE IF y \in Evicted(x) THEN None ELSE @[y]]]

\* do_exit or exec: the address space of the current process is taken down
\* after load_pgdir(boot_pgdir).
ClearBits(s) == TLBIDX' = [TLBIDX EXCEPT ![s] = [x \in Page |-> None]]

Exit == /\ load_pgdir(boot_pgdir)
        /\ mm' = mm \ {cur_pgdir}
        /\ present' = [present EXCEPT ![cur_pgdir] = {}]
        /\ ClearBits(cur_pgdir)
        /\ insn' = None
        /\ UNCHANGED booting

\* tlb_miss_handler for instruction in, which is executed again.
Miss(in, x, store) ==
  \/ /\ x \notin present[cur_pgdir]
     /\ ~PgfaultOk(x, store)
     /\ Exit
  \/ /\ x \in present[cur_pgdir] \/ PgfaultOk(x, store)
     /\ present' = [present EXCEPT ![cur_pgdir] = @ \union {x}]
     /\ Refill(x)
     /\ insn' = in
     /\ UNCHANGED <<booting, cur_pgdir, mm>>

-----------------------------------------------------------------------------
\* What may be executed now.
Runs(in) == /\ insn \in {None, in}
            /\ cur_pgdir = boot_pgdir => booting /\ in.code = None

FetchMiss(in) == /\ Runs(in)
                 /\ tlb_missing(in.code)
                 /\ Miss(in, in.code, FALSE)

DataMiss(in) == /\ Runs(in)
                /\ ~tlb_missing(in.code)
                /\ tlb_missing(in.data)
                /\ Miss(in, in.data, in.store)

Translated(in) == /\ Runs(in)
                  /\ ~tlb_missing(in.code)
                  /\ ~tlb_missing(in.data)

Refused(in) == in.store /\ ~tlb_writable(in.data)

\* A store to a page without D: the exception kills the process.
Modified(in) == Translated(in) /\ Refused(in) /\ Exit

\* A fetch or load of a page without D: no_exception_accur keeps the request back,
\* nothing is raised, and the core goes on with the word that memory delivered
\* last.  After such a fetch it executes another instruction, which may be any.
Misread(in) == /\ Runs(in)
               /\ ~tlb_missing(in.code)
               /\ \/ ~tlb_writable(in.code)
                  \/ ~tlb_missing(in.data) /\ ~tlb_writable(in.data) /\ ~in.store
               /\ insn' = None
               /\ UNCHANGED <<booting, cur_pgdir, mm, ptes, tlb, algo>>

Complete(in) == /\ Translated(in)
                /\ tlb_writable(in.code) /\ tlb_writable(in.data)
                /\ insn' = None
                /\ UNCHANGED <<booting, cur_pgdir, mm, ptes, tlb, algo>>

Execute == \E in \in Insn : \/ FetchMiss(in) \/ DataMiss(in)
                             \/ Modified(in) \/ Misread(in) \/ Complete(in)

\* schedule picks another process: proc_run loads its page directory.  The
\* process starts its instruction anew when it comes back; which one that is
\* is not remembered, so that it may be any.
Switch(p) == /\ ~booting
             /\ p \in mm \union {boot_pgdir}
             /\ p # cur_pgdir
             /\ load_pgdir(p)
             /\ insn' = None
             /\ UNCHANGED <<booting, mm, ptes>>

\* System calls are made between two instructions.
Calls(s) == cur_pgdir = s /\ insn = None

\* copy_mm: copy_range maps a copy of every present page.
Fork(s, c) == /\ Calls(s)
              /\ c \in Space \ mm
              /\ mm' = mm \union {c}
              /\ present' = [present EXCEPT ![c] = present[s]]
              /\ UNCHANGED <<booting, cur_pgdir, TLBIDX, tlb, algo, insn>>

\* do_execve takes the old page table down and load_icode builds a new one.
Exec(s) == /\ Calls(s)
           /\ load_pgdir(s)
           /\ present' = [present EXCEPT ![s] = Loaded]
           /\ ClearBits(s)
           /\ UNCHANGED <<booting, mm, insn>>

sys_exit(s) == Calls(s) /\ Exit

-----------------------------------------------------------------------------
\* The checks at start-up.

\* tlb_del_callback and tlb_half_del_callback.
StackAfter(x) == IF Paired(x) THEN empty ELSE Append(empty, TLBIDX[boot_pgdir][x])

Invalidated(x) ==
  LET y == TLBPAIR(x)
  IN  [tlb EXCEPT ![TLBIDX[boot_pgdir][x]] =
         [hi |-> IF Paired(x) THEN x[1] ELSE NoPair,
          lo |-> [b \in {0, 1} |-> IF Paired(x) /\ b = y[2]
                                   THEN ENTRYLO(boot_pgdir, y) ELSE Invalid]]]

\* tlb_invalidate, with the page table entry cleared; swap_out, which makes
\* room for the page of an access that missed, does the same.
page_remove(x) ==
  /\ booting
  /\ insn = None
  /\ x \in present[boot_pgdir]
  /\ present' = [present EXCEPT ![boot_pgdir] = @ \ {x}]
  /\ TLBIDX' = [TLBIDX EXCEPT ![boot_pgdir][x] = None]
  /\ IF TLB_P(boot_pgdir, x)
     THEN tlb' = Invalidated(x) /\ empty' = StackAfter(x)
     ELSE UNCHANGED <<tlb, empty>>
  /\ UNCHANGED <<booting, cur_pgdir, mm, algo_hi, algo_ptr, insn>>

\* check_swap drops the page table and leaves the TLB as it is; nobody uses a
\* mapped address before init runs the first program, s.
Start(s) == /\ booting
            /\ insn = None
            /\ booting' = FALSE
            /\ mm' = {s}
            /\ load_pgdir(s)
            /\ present' = [present EXCEPT ![boot_pgdir] = {}, ![s] = Loaded]
            /\ ClearBits(boot_pgdir)
            /\ UNCHANGED insn

-----------------------------------------------------------------------------
Next == \/ Execute
        \/ \E x \in Page : page_remove(x)
        \/ \E s \in Space : \/ Start(s) \/ Exec(s) \/ sys_exit(s)
                            \/ \E c \in Space : Fork(s, c)
        \/ \E p \in Table : Switch(p)

Spec == Init /\ [][Next]_vars

\* The CPU executes on.
Fairness == WF_vars(Execute)

\* A time slice is long: no process is preempted before the instruction it is
\* executing has had all its pages in the TLB.  Leaves out a starvation that
\* only slices of a few instructions could cause.
Calm == cur_pgdir' # cur_pgdir /\ cur_pgdir \in mm' => insn = None

CalmSpec == Init /\ [][Next /\ Calm]_vars /\ Fairness

-----------------------------------------------------------------------------
Lo == [V : BOOLEAN, D : BOOLEAN, pfn : Frame \union {None}]

TypeOK == /\ booting \in BOOLEAN
          /\ cur_pgdir \in Table
          /\ mm \subseteq Space
          /\ present \in [Table -> SUBSET Page]
          /\ TLBIDX \in [Table -> [Page -> Index \union {None}]]
          /\ tlb \in [Index -> [hi : Pair \union {NoPair}, lo : [{0, 1} -> Lo]]]
          /\ empty \in Seq(Index)
          /\ algo_hi \in [Index -> Pair \union {NoPair}]
          /\ algo_ptr \in Index
          /\ insn \in Insn \union {None}

(***************************************************************************)
(* Whatever the TLB translates is what the page table in use says now: the *)
(* same frame, the same permission, and never a page of another process or *)
(* one that is not mapped, although TLB_P and TLBIDX survive switches.     *)
(***************************************************************************)
TlbCoherent ==
  \A x \in Page : \A i \in Matches(x) :
     /\ x \in present[cur_pgdir]
     /\ tlb[i].lo[x[2]] = ENTRYLO(cur_pgdir, x)

(***************************************************************************)
(* At most one entry translates a page: the hardware ORs the frame numbers *)
(* of all that match, and two would give an address of neither.            *)
(***************************************************************************)
SingleMatch == \A x \in Page : \A i, j \in Matches(x) : i = j

(***************************************************************************)
(* The stack of free entries never holds an entry twice, so that it never  *)
(* outgrows the array tlb_algo_empty, which has TLBN elements.             *)
(***************************************************************************)
StackBounded == /\ Len(empty) <= TLBN
                /\ \A m, n \in 1 .. Len(empty) : empty[m] = empty[n] => m = n

(***************************************************************************)
(* While no page table is switched TLB_P tells exactly what is in the TLB, *)
(* and the stack exactly what is free: tlb_invalidate relies on both.      *)
(***************************************************************************)
BitsExact ==
  booting => /\ \A x \in Page : TLB_P(boot_pgdir, x) <=> Matches(x) # {}
             /\ \A i \in Index : (\E n \in 1 .. Len(empty) : empty[n] = i)
                                   <=> tlb[i].hi = NoPair

\* After tlb_miss_handler the access that missed is translated.
RefillTakes ==
  [][\A in \in Insn :
       insn' = in => /\ tlb_missing(in.code) => ~tlb_missing(in.code)'
                     /\ ~tlb_missing(in.code) => ~tlb_missing(in.data)']_vars

\* After a refill the access is executed again, so every instruction completes
\* some time, or its process ends.
InsnCompletes == insn # None ~> insn = None
=============================================================================
