------------------------------ MODULE Startup ------------------------------
(***************************************************************************)
(* What pmm_init, vmm_init and swap_init do before the first user process: *)
(* they set up the frames, boot_pgdir and the heap, and check the page     *)
(* allocator, page tables, vmas, page faults and swapping on the live      *)
(* structures.  A failed assertion stops the kernel.                       *)
(*                                                                         *)
(* Left out are the assertions on permission bits, on the recursive entry  *)
(* at VPT and on what the pages contain.  To k comes boot_pgdir, its       *)
(* frame.  The addresses of the checks are page numbers from address 0.    *)
(***************************************************************************)
EXTENDS Mm, SequencesExt

CONSTANTS STEP1, STEP2    \* the vmas of check_vma_struct: 10 and 100 in the code

ASSUME StartupAssumption == STEP1 \in 1..STEP2 /\ PTPAGES > 5 /\ VPAGES > 5

Expect(k, T(_)) == IF Running(k) /\ T(k) THEN Ok(k, 0) ELSE Fatal(k, "assert")
Must(r) == IF r.ret = "OK" THEN r ELSE Fatal(r.k, "assert")

(* The checks work on a free list of their own for a while. *)
Apart(k) == [k EXCEPT !.list = <<>>, !.nr = 0]
Restored(k, old) == [k EXCEPT !.list = old.list, !.nr = old.nr]

Singles(k, n) ==
  Each(Ok(k, <<>>), [i \in 1..n |-> i], LAMBDA r, i :
    Then(Must(alloc_page(r.k)), LAMBDA p : Ok(p.k, Append(r.val, p.val))))
FreeEach(k, fs) == FoldLeft(free_page, k, fs)
NoneLeft(k, n) == alloc_pages(k, n).ret # "OK"
Block(k, f, n) == [base |-> f, n |-> n] \in ToSet(k.list)
Total(k) == FoldLeft(LAMBDA sum, b : sum + b.n, 0, k.list)
SameFree(k, old) == Len(k.list) = Len(old.list) /\ Total(k) = Total(old)

-----------------------------------------------------------------------------
basic_check(k) ==
  Then(Singles(k, 3), LAMBDA a :
  Then(Expect(Apart(a.k), LAMBDA j : /\ IsInjective(a.val)
                                     /\ \A f \in ToSet(a.val) : j.ref[f] = 0
                                     /\ NoneLeft(j, 1)), LAMBDA b :
  Then(Expect(FreeEach(b.k, a.val), LAMBDA j : j.nr = 3), LAMBDA c :
  Then(Singles(c.k, 3), LAMBDA d :
  Then(Expect(free_page(d.k, d.val[1]), LAMBDA j : NoneLeft(d.k, 1) /\ j.list # <<>>), LAMBDA e :
  Then(Must(alloc_page(e.k)), LAMBDA p :
  Then(Expect(p.k, LAMBDA j : p.val = d.val[1] /\ NoneLeft(j, 1) /\ j.nr = 0), LAMBDA q :
    Ok(FreeEach(Restored(q.k, a.k), <<p.val, d.val[2], d.val[3]>>), 0))))))))

(* Five frames f .. f + 4 are freed and allocated in several orders. *)
default_check(k) ==
  Then(Expect(k, LAMBDA j : Total(j) = j.nr), LAMBDA s :
  Then(basic_check(s.k), LAMBDA a :
  Then(Must(alloc_pages(a.k, 5)), LAMBDA p : LET f == p.val IN
  Then(Expect(p.k, LAMBDA j : ~PageProperty(j, f) /\ NoneLeft([j EXCEPT !.list = <<>>], 1)), LAMBDA b :
  Then(Expect(free_pages(Apart(b.k), f + 2, 3), LAMBDA j : NoneLeft(j, 4) /\ Block(j, f + 2, 3)), LAMBDA c :
  Then(Must(alloc_pages(c.k, 3)), LAMBDA d :
  Then(Expect(d.k, LAMBDA j : NoneLeft(j, 1) /\ d.val = f + 2), LAMBDA e :
  Then(Expect(free_pages(free_page(e.k, f), f + 2, 3), LAMBDA j :
         Block(j, f, 1) /\ Block(j, f + 2, 3)), LAMBDA g :
  Then(Must(alloc_page(g.k)), LAMBDA h :
  Then(Must(alloc_pages(free_page(h.k, h.val), 2)), LAMBDA i :
  Then(Expect(i.k, LAMBDA j : h.val = f /\ i.val = f + 2), LAMBDA l :
  Then(Must(alloc_pages(free_page(free_pages(l.k, i.val, 2), f + 1), 5)), LAMBDA m :
  Then(Expect(m.k, LAMBDA j : NoneLeft(j, 1) /\ j.nr = 0), LAMBDA n :
    Expect(free_pages(Restored(n.k, p.k), m.val, 5), LAMBDA j : SameFree(j, k)))))))))))))))

(* An mm with the kernel's page directory, and the end of a check on it.   *)
Boot(k) == [NoMm EXCEPT !.pgdir = k.boot_pgdir]
FreeTable(k, mm) == free_page(k, mm.pt[0])

check_pgdir(k) ==
  Then(Singles(k, 1), LAMBDA a : LET p1 == a.val[1] IN
  Then(page_insert(a.k, Boot(k), p1, 0), LAMBDA b :
  Then(Expect(b.k, LAMBDA j : b.val.pte[0] = p1 /\ j.ref[p1] = 1), LAMBDA c :
  Then(Singles(c.k, 1), LAMBDA d : LET p2 == d.val[1] IN
  Then(page_insert(d.k, b.val, p2, 1), LAMBDA e :
  Then(page_insert(e.k, e.val, p1, 1), LAMBDA f :
  Then(Expect(f.k, LAMBDA j : /\ e.k.ref[p2] = 1 /\ j.ref[p1] = 2 /\ j.ref[p2] = 0
                              /\ f.val.pte[1] = p1), LAMBDA g :
  Then(page_remove(g.k, f.val, 0), LAMBDA h :
  Then(page_remove(h.k, h.val, 1), LAMBDA i :
  Then(Expect(i.k, LAMBDA j : /\ h.k.ref[p1] = 1 /\ h.k.ref[p2] = 0
                              /\ j.ref[p1] = 0 /\ j.ref[p2] = 0 /\ j.ref[i.val.pt[0]] = 1), LAMBDA l :
    Ok(FreeTable(l.k, i.val), 0)))))))))))

check_boot_pgdir(k) ==
  Then(Singles(k, 1), LAMBDA a : LET p == a.val[1] IN
  Then(page_insert(a.k, Boot(k), p, 0), LAMBDA b :
  Then(page_insert(b.k, b.val, p, 1), LAMBDA c :
  Then(Expect(c.k, LAMBDA j : b.k.ref[p] = 1 /\ j.ref[p] = 2 /\ c.val.pte[0] = c.val.pte[1]), LAMBDA d :
    Ok(FreeTable(free_page(d.k, p), c.val), 0)))))

pmm_init(n) ==
  Then(default_check(page_init(n)), LAMBDA a :
  Then(Singles(a.k, 1), LAMBDA b :
  Then(check_pgdir([boot_pgdir |-> b.val[1]] @@ b.k), LAMBDA c :
  Then(check_boot_pgdir(c.k), LAMBDA d : Ok(kmalloc_init(d.k), 0)))))

-----------------------------------------------------------------------------
(* The vmas are entered in an order that needs both ends of the list.      *)
check_vma_struct(k) ==
  Then(mm_create(k), LAMBDA m :
  Then(Each(m, [i \in 1..STEP2 |-> IF i <= STEP1 THEN STEP1 + 1 - i ELSE i], LAMBDA r, i :
         vma_create(r.k, r.val, [lo |-> 5 * i, hi |-> 5 * i + 2, flags |-> {}, obj |-> 0])), LAMBDA a :
  Then(Expect(a.k, LAMBDA j :
         /\ \A i \in 1..STEP2 : a.val.vmas[i].lo = 5 * i /\ a.val.vmas[i].hi = 5 * i + 2
         /\ \A x \in 0..(5 * STEP2 + 4) :
              find_vma(a.val, x) = (IF x >= 5 /\ x % 5 < 2 THEN x \div 5 ELSE 0)), LAMBDA b :
    mm_destroy(b.k, a.val))))

check_pgfault(k) ==
  Then(mm_create(k), LAMBDA m :
  Then(vma_create(m.k, [m.val EXCEPT !.pgdir = k.boot_pgdir],
                  [lo |-> 0, hi |-> PTPAGES, flags |-> {"R", "W"}, obj |-> 0]), LAMBDA a :
  Then(Touch(a.k, a.val, 0, TRUE), LAMBDA t :
  Then(page_remove(t.k, t.val, 0), LAMBDA r :
  Then(mm_destroy(FreeTable(r.k, r.val), r.val), LAMBDA d :
    Expect(d.k, LAMBDA j : j.nr = k.nr))))))

vmm_init(k) == Then(check_vma_struct(k), LAMBDA a : check_pgfault(a.k))

-----------------------------------------------------------------------------
(* Swapping.  Only while check_swap runs is check_mm_struct set, and can   *)
(* alloc_page go on when no frame is free.  The state c of the check is    *)
(*   mm      check_mm_struct                                               *)
(*   fifo    pra_list_head: the swappable frames, the oldest first         *)
(*   pra     pra_vaddr of the frames, as a page                            *)
(*   faults  pgfault_num                                                   *)
(* swapfs stores no data; a swap entry is SWAPPED.                         *)
SWAPPED == -1

swap_map_swappable(c, f) == [c EXCEPT !.fifo = Append(@, f)]

(* The entry of the victim is found by the address the frame remembers.    *)
swap_out(k, c) ==
  LET f == Head(c.fifo)
      v == c.pra[f]
  IN  IF c.fifo = <<>> \/ c.mm.pte[v] <= 0 THEN Fatal(k, "swap_out")
      ELSE Ok(free_page(k, f), [c EXCEPT !.fifo = Tail(@), !.mm.pte[v] = SWAPPED])

Swapped(k, c) == IF k.nr = 0 THEN swap_out(k, c) ELSE Ok(k, c)

(* A page that has been swapped out comes back in a frame that does not    *)
(* learn its address; a new one's does.                                    *)
Fault(k, c, v) ==
  Then(Swapped(k, c), LAMBDA s : Then(alloc_page(s.k), LAMBDA p :
  Then(page_insert(p.k, s.val.mm, p.val, v), LAMBDA r :
  Then(Expect(r.k, LAMBDA j : c.mm.pte[v] = 0 => j.ref[p.val] = 1), LAMBDA e :
    Ok(e.k, [swap_map_swappable(s.val, p.val) EXCEPT
               !.mm = r.val, !.faults = @ + 1,
               !.pra = IF c.mm.pte[v] = 0 THEN (p.val :> v) @@ @ ELSE @])))))

(* A write to page x[1], after which there have been x[2] page faults.     *)
Write(r, x) ==
  Then(IF r.val.mm.pte[x[1]] > 0 THEN r ELSE Fault(r.k, r.val, x[1]), LAMBDA w :
    IF w.val.faults = x[2] THEN w ELSE Fatal(w.k, "assert"))

check_content_set == <<<<1, 1>>, <<1, 1>>, <<2, 2>>, <<2, 2>>, <<3, 3>>, <<3, 3>>, <<4, 4>>, <<4, 4>>>>
fifo_check_swap == <<<<3, 4>>, <<1, 4>>, <<4, 4>>, <<2, 4>>, <<5, 5>>, <<2, 5>>, <<1, 6>>, <<2, 7>>,
                     <<3, 8>>, <<4, 9>>>>

(* Five pages in four frames. *)
check_swap(k) ==
  Then(Expect(k, LAMBDA j : Total(j) = j.nr), LAMBDA s :
  Then(mm_create(s.k), LAMBDA m :
  Then(vma_create(m.k, [m.val EXCEPT !.pgdir = k.boot_pgdir],
                  [lo |-> 1, hi |-> 6, flags |-> {"R", "W"}, obj |-> 0]), LAMBDA v :
  Then(get_pte(v.k, v.val, 1), LAMBDA t :
  Then(Singles(t.k, 4), LAMBDA rp :
  Then(Expect(FreeEach(Apart(rp.k), rp.val), LAMBDA j : j.nr = 4), LAMBDA a :
  Then(Each(Ok(a.k, [mm |-> t.val, fifo |-> <<>>, pra |-> <<>>, faults |-> 0]), check_content_set, Write),
       LAMBDA w :
  Then(Expect(w.k, LAMBDA j : j.nr = 0 /\ \A i \in 1..4 : w.val.mm.pte[i] = rp.val[i]), LAMBDA b :
  Then(Each(Ok(b.k, w.val), fifo_check_swap, Write), LAMBDA c :
  Then(mm_destroy(FreeTable(FreeEach(Restored(c.k, rp.k), rp.val), t.val), t.val), LAMBDA d :
    Expect(d.k, LAMBDA j : SameFree(j, k))))))))))))

swap_init(k) == check_swap([k EXCEPT !.swap_init_ok = TRUE])
=============================================================================
