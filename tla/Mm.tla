-------------------------------- MODULE Mm ---------------------------------
(***************************************************************************)
(* Address spaces: page tables (kern/mm/pmm.c), vmas and page faults       *)
(* (kern/mm/vmm.c), as operators on the record k of modules Pages and      *)
(* Kmalloc and on an mm.                                                   *)
(*                                                                         *)
(* Addresses are page numbers 0 .. VPAGES - 1.  A page table entry is 0,   *)
(* the frame, or a swap entry: the bits that belong to the TLB are in      *)
(* module Tlb.  mmap_cache is left out: the vmas of an mm are disjoint     *)
(* (AddressSpaces of module Vm), so the cached vma is the one a search     *)
(* finds.                                                                  *)
(***************************************************************************)
EXTENDS Kmalloc

CONSTANTS VPAGES,      \* pages of the user's addresses
          PTPAGES,     \* pages a page table maps
          Size         \* units of proc, mm, vma, din, inode and entry structures

ASSUME MmAssumption == VPAGES \in Nat \ {0} /\ PTPAGES \in Nat \ {0}

Vpn == 0..(VPAGES - 1)

(* F for each member of the sequence seq, while all goes well. *)
Each(r, seq, F(_, _)) == Walk(LAMBDA acc, x : Then(acc, LAMBDA a : F(a, x)), r, seq)

(* A buffer that lives no longer than the call. *)
Scratch(k, units) == Then(kmalloc(k, units), LAMBDA b : Ok(kfree(b.k, b.val), 0))

-----------------------------------------------------------------------------
(* Page tables.  An mm is [obj, pgdir, pt, pte, vmas]: its structure, the  *)
(* frame of its page directory, the frames of its page tables, its entries *)
(* and its vmas [lo, hi, flags, obj] in the order of mmap_list.            *)
NoMm == [obj |-> 0, pgdir |-> 0, pt |-> [i \in 0..((VPAGES - 1) \div PTPAGES) |-> 0],
         pte |-> [v \in Vpn |-> 0], vmas |-> <<>>]

PDX(v) == v \div PTPAGES

get_pte(k, mm, v) ==
  IF mm.pt[PDX(v)] # 0 THEN Ok(k, mm)
  ELSE Then(alloc_page(k), LAMBDA p :
         Ok([p.k EXCEPT !.ref[p.val] = 1], [mm EXCEPT !.pt[PDX(v)] = p.val]))

page_remove_pte(k, mm, v) ==
  LET f == mm.pte[v]
  IN  IF f <= 0 THEN Ok(k, mm)
      ELSE Ok(IF k.ref[f] = 1 THEN free_page([k EXCEPT !.ref[f] = 0], f)
                              ELSE [k EXCEPT !.ref[f] = @ - 1],
              [mm EXCEPT !.pte[v] = 0])

page_insert(k, mm, f, v) ==
  Then(get_pte(k, mm, v), LAMBDA t :
    With(IF t.val.pte[v] = f THEN Ok(t.k, t.val)
         ELSE page_remove_pte([t.k EXCEPT !.ref[f] = @ + 1], t.val, v), LAMBDA r :
      Ok(r.k, [r.val EXCEPT !.pte[v] = f])))

page_remove(k, mm, v) == IF mm.pt[PDX(v)] = 0 THEN Ok(k, mm) ELSE page_remove_pte(k, mm, v)

pgdir_alloc_page(k, mm, v) ==
  Then(alloc_page(k), LAMBDA p : page_insert(p.k, mm, p.val, v))

PagesOf(vma) == [i \in 1..(vma.hi - vma.lo) |-> vma.lo + i - 1]

unmap_range(k, mm, vma) ==
  Each(Ok(k, mm), PagesOf(vma), LAMBDA r, v :
    IF r.val.pt[PDX(v)] = 0 THEN r ELSE page_remove_pte(r.k, r.val, v))

exit_range(k, mm, vma) ==
  Each(Ok(k, mm), [i \in 1..(PDX(vma.hi - 1) - PDX(vma.lo) + 1) |-> PDX(vma.lo) + i - 1],
    LAMBDA r, i : IF r.val.pt[i] = 0 THEN r
                  ELSE Ok(free_page(r.k, r.val.pt[i]), [r.val EXCEPT !.pt[i] = 0]))

(* The child's page table is made before the page, the page before it is   *)
(* entered.                                                                *)
copy_range(k, to, from, vma) ==
  Each(Ok(k, to), SelectSeq(PagesOf(vma), LAMBDA v : from.pte[v] # 0), LAMBDA r, v :
    Then(get_pte(r.k, r.val, v), LAMBDA t : Then(alloc_page(t.k), LAMBDA p :
      page_insert(p.k, t.val, p.val, v))))

-----------------------------------------------------------------------------
(* vmas: the code compares a new one with both its neighbours.             *)
USER_ACCESS(start, end) == start < end /\ end <= VPAGES

find_vma(mm, v) ==
  LET hits == {i \in DOMAIN mm.vmas : mm.vmas[i].lo <= v /\ v < mm.vmas[i].hi}
  IN  IF hits = {} THEN 0 ELSE Min(hits)

insert_vma_struct(k, mm, vma) ==
  LET at == Min({i \in DOMAIN mm.vmas : mm.vmas[i].lo > vma.lo} \cup {Len(mm.vmas) + 1})
      ok == /\ vma.lo < vma.hi
            /\ at > 1 => mm.vmas[at - 1].hi <= vma.lo
            /\ at <= Len(mm.vmas) => vma.hi <= mm.vmas[at].lo
  IN  IF ok THEN Ok(k, [mm EXCEPT !.vmas = list_add_before(@, at, vma)]) ELSE Fatal(k, "vma")

vma_create(k, mm, vma) ==
  Then(kmalloc(k, Size.vma), LAMBDA b : insert_vma_struct(b.k, mm, [vma EXCEPT !.obj = b.val]))

mm_map(k, mm, vma) ==
  IF ~USER_ACCESS(vma.lo, vma.hi) \/ find_vma(mm, vma.lo) # 0 THEN Err(k, "INVAL")
  ELSE vma_create(k, mm, vma)

mm_create(k) == Then(kmalloc(k, Size.mm), LAMBDA b : Ok(b.k, [NoMm EXCEPT !.obj = b.val]))

setup_pgdir(k, mm) == Then(alloc_page(k), LAMBDA p : Ok(p.k, [mm EXCEPT !.pgdir = p.val]))

dup_mmap(k, to, from) ==
  Each(Ok(k, to), Backwards(from.vmas), LAMBDA r, vma :
    Then(vma_create(r.k, r.val, vma), LAMBDA n : copy_range(n.k, n.val, from, vma)))

copy_mm(k, from) ==
  IF from = NoMm THEN Ok(k, NoMm)
  ELSE Then(mm_create(k), LAMBDA m : Then(setup_pgdir(m.k, m.val), LAMBDA d :
         dup_mmap(d.k, d.val, from)))

(* Seeded fault: the page tables stay. *)
exit_mmap_tables(k, mm) ==
  Each(Ok(k, mm), mm.vmas, LAMBDA r, vma : unmap_range(r.k, r.val, vma))

exit_mmap(k, mm) ==
  Then(Each(Ok(k, mm), mm.vmas, LAMBDA r, vma : unmap_range(r.k, r.val, vma)), LAMBDA u :
    Each(u, mm.vmas, LAMBDA r, vma : exit_range(r.k, r.val, vma)))

mm_destroy(k, mm) ==
  Then(Each(Ok(k, mm), mm.vmas, LAMBDA r, vma : Ok(kfree(r.k, vma.obj), mm)), LAMBDA r :
    Ok(kfree(r.k, mm.obj), NoMm))

(* exit_mmap, put_pgdir and mm_destroy, as do_exit and do_execve call them *)
put_mm(k, mm) ==
  IF mm = NoMm THEN Ok(k, NoMm)
  ELSE Then(exit_mmap(k, mm), LAMBDA e : mm_destroy(free_page(e.k, mm.pgdir), mm))

-----------------------------------------------------------------------------
(* do_pgfault for a page that has no entry; Startup has the one that finds *)
(* a swap entry.                                                           *)
do_pgfault(k, mm, v, write) ==
  LET i == find_vma(mm, v)
  IN  IF i = 0 THEN Err(k, "INVAL")
      ELSE IF mm.vmas[i].flags \cap (IF write THEN {"W"} ELSE {"R", "X"}) = {} THEN Err(k, "INVAL")
      ELSE Then(get_pte(k, mm, v), LAMBDA t : pgdir_alloc_page(t.k, t.val, v))

(* An access of the user's page v by the kernel faults like the user's. *)
Touch(k, mm, v, write) ==
  IF mm = NoMm \/ mm.pte[v] # 0 THEN Ok(k, mm)
  ELSE With(do_pgfault(k, mm, v, write), LAMBDA r :
         IF r.ret = "OK" THEN r ELSE Fatal(r.k, "pgfault"))

(* The ranges [a, b) that user_mem_check follows from vma to vma. *)
VmasOf(mm, a, b) == {i \in DOMAIN mm.vmas : mm.vmas[i].lo < b /\ a < mm.vmas[i].hi}

(* Seeded fault: only the first page is looked up. *)
user_mem_check_first(mm, a, n, write) ==
  \/ mm = NoMm
  \/ /\ USER_ACCESS(a, a + n)
     /\ find_vma(mm, a) # 0
     /\ (IF write THEN "W" ELSE "R") \in mm.vmas[find_vma(mm, a)].flags

(* start runs over a and the ends of the vmas that are met.  A write may   *)
(* not start in the lowest page of the stack.                              *)
user_mem_check(mm, a, n, write) ==
  \/ mm = NoMm
  \/ /\ USER_ACCESS(a, a + n)
     /\ \A start \in {a} \cup {mm.vmas[i].hi : i \in VmasOf(mm, a, a + n)} :
          start < a + n =>
            LET i == find_vma(mm, start)
            IN  /\ i # 0
                /\ (IF write THEN "W" ELSE "R") \in mm.vmas[i].flags
                /\ write /\ "STACK" \in mm.vmas[i].flags => start >= mm.vmas[i].lo + 1

Refused(k, val) == [k |-> k, ret |-> "INVAL", val |-> val]

(* A string [at, pages, ends] starts in page at; the search for its end    *)
(* reads that many pages, and without an end there maxn is used up.        *)
StringPages(s) == [i \in 1..s.pages |-> s.at + i - 1]

(* Seeded fault: the user's addresses are not checked. *)
copy_string_unchecked(k, mm, s) ==
  Each(Ok(k, mm), StringPages(s), LAMBDA r, v : Touch(r.k, r.val, v, FALSE))

(* Page by page: each is checked before it is searched. *)
copy_string(k, mm, s) ==
  With(Each(Ok(k, mm), StringPages(s), LAMBDA r, v :
         IF user_mem_check(r.val, v, 1, FALSE) THEN Touch(r.k, r.val, v, FALSE)
         ELSE Refused(r.k, r.val)), LAMBDA c :
    IF c.ret = "OK" /\ Running(c.k) /\ ~s.ends THEN Refused(c.k, c.val) ELSE c)
=============================================================================
