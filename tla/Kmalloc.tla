------------------------------ MODULE Kmalloc ------------------------------
(***************************************************************************)
(* The kernel's heap (kern/mm/kmalloc.c) on top of the page allocator.     *)
(* Addresses and sizes count units of SLOB_UNIT bytes: frame f holds the   *)
(* addresses f * UNITS .. f * UNITS + UNITS - 1, and arena, in the         *)
(* kernel's data, lies below them at 0.  To the record k it adds           *)
(*   cells      the circular free list from arena on, each cell [a, u]     *)
(*   slobfree   where the next search starts                               *)
(*   head       the units in the header of each block that is in use       *)
(*   big        bigblocks, each [bb, pages, order], the newest first       *)
(***************************************************************************)
EXTENDS Pages, Functions, TLC

CONSTANT UNITS     \* PAGE_SIZE / SLOB_UNIT

ASSUME UnitsAssumption == UNITS \in Nat /\ UNITS > 4

ARENA == 0
BIGBLOCK == 2      \* SLOB_UNITS(sizeof(bigblock_t))

NextCell(k, i) == k.cells[(i % Len(k.cells)) + 1]
AtFree(k) == CHOOSE i \in DOMAIN k.cells : k.cells[i].a = k.slobfree

(* The indices of the cells in the order of a walk that starts at i. *)
WalkFrom(k, i) == [j \in DOMAIN k.cells |-> (((i + j - 2) % Len(k.cells)) + 1)]
First(walk, T(_)) == LET hits == {j \in DOMAIN walk : T(walk[j])}
                     IN  IF hits = {} THEN 0 ELSE walk[Min(hits)]

(* Seeded fault: the freed block is not joined with the cell in front of it. *)
slob_free_apart(k, b, units) ==
  LET at == First(WalkFrom(k, AtFree(k)), LAMBDA i :
              LET c == k.cells[i].a  n == NextCell(k, i).a
              IN  (c < b /\ b < n) \/ (c >= n /\ (b > c \/ b < n)))
  IN  [k EXCEPT !.cells = list_add_before(@, at + 1, [a |-> b, u |-> units]),
                !.slobfree = k.cells[at].a]

(* The freed block is linked behind the cell it follows in the order of    *)
(* the addresses and joined with its neighbours when they touch.           *)
slob_free(k, b, units) ==
  LET at    == First(WalkFrom(k, AtFree(k)), LAMBDA i :
                 LET c == k.cells[i].a  n == NextCell(k, i).a
                 IN  (c < b /\ b < n) \/ (c >= n /\ (b > c \/ b < n)))
      cur   == k.cells[at]
      next  == NextCell(k, at)
      right == b + units = next.a
      u     == IF right THEN units + next.u ELSE units
      put   == IF cur.a + cur.u = b THEN <<[cur EXCEPT !.u = @ + u]>> ELSE <<cur, [a |-> b, u |-> u]>>
  IN  IF at = 0 THEN Panic(k, "slob")      \* the walk does not end
      ELSE [k EXCEPT !.slobfree = cur.a,
                     !.cells = SubSeq(@, 1, at - 1) \o put
                               \o SubSeq(@, IF right THEN at + 2 ELSE at + 1, Len(@))]

(* First fit from the cell behind slobfree; the block is cut from the      *)
(* front of the cell, and slobfree becomes the cell before it.             *)
Fitting(k, units) ==
  First(WalkFrom(k, (AtFree(k) % Len(k.cells)) + 1), LAMBDA i : k.cells[i].u >= units)

TakeCell(k, i, units) ==
  LET c    == k.cells[i]
      prev == k.cells[IF i = 1 THEN Len(k.cells) ELSE i - 1]
  IN  Ok([k EXCEPT !.slobfree = prev.a,
                   !.head = (c.a :> units) @@ @,
                   !.cells = IF c.u = units THEN list_del(@, i)
                             ELSE [@ EXCEPT ![i] = [a |-> c.a + units, u |-> c.u - units]]],
         c.a)

slob_alloc(k, units) ==
  IF units + 1 >= UNITS THEN Fatal(k, "slob_alloc")
  ELSE IF Fitting(k, units) # 0 THEN TakeCell(k, Fitting(k, units), units)
  ELSE Then(alloc_page(k), LAMBDA p :
         With(slob_free(p.k, p.val * UNITS, UNITS), LAMBDA j :
           TakeCell(j, Fitting(j, units), units)))

(* The block at a goes back with the units of its header. *)
FreeBlock(k, a) ==
  With(slob_free(k, a, k.head[a]), LAMBDA j : [j EXCEPT !.head = Restrict(@, DOMAIN @ \ {a})])

find_order(units) == Min({n \in 0..3 : units \div 2^n <= UNITS})

(* A block of a page or more has a bigblock of its own and is the frames   *)
(* themselves; a smaller one follows its header.                           *)
kmalloc(k, units) ==
  IF units < UNITS - 1
    THEN Then(slob_alloc(k, units + 1), LAMBDA m : Ok(m.k, m.val + 1))
    ELSE Then(slob_alloc(k, BIGBLOCK), LAMBDA bb :
           With(alloc_pages(bb.k, 2^find_order(units)), LAMBDA p :
             IF p.ret = "OK"
               THEN Ok([p.k EXCEPT !.big = <<[bb |-> bb.val, pages |-> p.val * UNITS,
                                              order |-> find_order(units)]>> \o @],
                       p.val * UNITS)
               ELSE Err(FreeBlock(p.k, bb.val), p.ret)))

kfree(k, block) ==
  LET hits == {i \in DOMAIN k.big : k.big[i].pages = block}
      at   == Min(hits)
  IN  IF block % UNITS = 0 /\ hits # {}
        THEN FreeBlock(free_pages([k EXCEPT !.big = list_del(@, at)],
                                  block \div UNITS, 2^k.big[at].order),
                       k.big[at].bb)
        ELSE FreeBlock(k, block - 1)

kmalloc_init(k) ==
  [cells |-> <<[a |-> ARENA, u |-> 1]>>, slobfree |-> ARENA, head |-> <<>>, big |-> <<>>] @@ k
=============================================================================
