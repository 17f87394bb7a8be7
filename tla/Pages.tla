------------------------------- MODULE Pages -------------------------------
(***************************************************************************)
(* The physical page allocator: the first-fit manager of                   *)
(* kern/mm/default_pmm.c behind alloc_pages and free_pages (kern/mm/pmm.c).*)
(* The record k has                                                        *)
(*   list   free_list: the free blocks [base, n] in the order of the list  *)
(*   nr     nr_free                                                        *)
(*   ref    the reference count of each frame                              *)
(*   npage  the frames page_init finds free, numbered 1..npage             *)
(*   swap_init_ok   set by swap_init                                       *)
(* PageProperty is set on the first frame of the blocks in the list and on *)
(* no other: each change of the list changes the mark with it.             *)
(***************************************************************************)
EXTENDS Integers, Lists, Calls

Frames(k) == 1..k.npage

PageProperty(k, f) == \E i \in DOMAIN k.list : k.list[i].base = f

(* Seeded fault: the block goes to the end of the list. *)
default_list_add_end(k, b) == [k EXCEPT !.list = Append(@, b)]

(* The block goes in front of the first one with a higher address; the     *)
(* assertions compare it with the blocks that are passed on the way.       *)
default_list_add(k, b) ==
  LET at  == Min({i \in DOMAIN k.list : b.base < k.list[i].base} \cup {Len(k.list) + 1})
      fit == /\ \A i \in 1..(at - 1) : k.list[i].base + k.list[i].n <= b.base
             /\ at <= Len(k.list) => b.base + b.n <= k.list[at].base
  IN  IF fit THEN [k EXCEPT !.list = list_add_before(@, at, b)] ELSE Panic(k, "list")

default_init_memmap(k, base, n) ==
  default_list_add([k EXCEPT !.nr = @ + n], [base |-> base, n |-> n])

(* The remainder takes the place of the block.  0 is NULL.                 *)
default_alloc_pages(k, n) ==
  LET fits == {i \in DOMAIN k.list : k.list[i].n >= n}
      at   == Min(fits)
      b    == k.list[at]
  IN  IF n > k.nr \/ fits = {} THEN Ok(k, 0)
      ELSE Ok([k EXCEPT !.nr = @ - n,
                        !.list = IF b.n > n
                                   THEN [@ EXCEPT ![at] = [base |-> b.base + n, n |-> b.n - n]]
                                   ELSE list_del(@, at)],
              b.base)

(* One step of the walk that joins the freed block b with its neighbours.  *)
Merge(acc, p) ==
  IF acc.b.base + acc.b.n = p.base
    THEN [acc EXCEPT !.b.n = @ + p.n]
  ELSE IF p.base + p.n = acc.b.base
    THEN [acc EXCEPT !.b = [base |-> p.base, n |-> p.n + acc.b.n]]
  ELSE [acc EXCEPT !.kept = Append(@, p)]

default_free_pages(k, base, n) ==
  IF \E f \in base..(base + n - 1) : PageProperty(k, f) THEN Panic(k, "property")
  ELSE With(Walk(Merge, [b |-> [base |-> base, n |-> n], kept |-> <<>>], k.list),
            LAMBDA m : default_list_add(
              [k EXCEPT !.list = m.kept, !.nr = @ + n,
                        !.ref = [f \in Frames(k) |-> IF f \in base..(base + n - 1) THEN 0 ELSE @[f]]],
              m.b))

free_pages(k, base, n) == default_free_pages(k, base, n)
free_page(k, f) == free_pages(k, f, 1)

-----------------------------------------------------------------------------
(* From swap_init on a single page is asked for until there is one, but    *)
(* check_mm_struct is NULL by then (check_swap, in module Startup, sets    *)
(* it): swap_out takes its victim from the list of a NULL mm, and faults.  *)
alloc_pages(k, n) ==
  Then(default_alloc_pages(k, n), LAMBDA r :
    IF r.val # 0 THEN r
    ELSE IF n > 1 \/ ~k.swap_init_ok THEN Err(r.k, "NO_MEM") ELSE Fatal(r.k, "swap"))

alloc_page(k) == alloc_pages(k, 1)

page_init(n) ==
  default_init_memmap([list |-> <<>>, nr |-> 0, ref |-> [f \in 1..n |-> 0], npage |-> n,
                       swap_init_ok |-> FALSE, panic |-> ""], 1, n)
=============================================================================
