------------------------------- MODULE Lists -------------------------------
(***************************************************************************)
(* The linked lists of libs/list.h, as sequences: an entry is its position *)
(* and the head of the list, where every walk ends, is behind the last one.*)
(* The lists that kmalloc.c links by hand take the same operators.         *)
(***************************************************************************)
EXTENDS Naturals, Sequences, FiniteSetsExt

(* elm goes in front of the entry at i. *)
list_add_before(list, i, elm) == SubSeq(list, 1, i - 1) \o <<elm>> \o SubSeq(list, i, Len(list))

list_del(list, i) == SubSeq(list, 1, i - 1) \o SubSeq(list, i + 1, Len(list))

(* What a walk that follows list_next makes of acc, step by step. *)
Walk(step(_, _), acc, list) ==
  MapThenFoldSet(LAMBDA elm, a : step(a, elm), acc, LAMBDA i : list[i], Max, DOMAIN list)

(* The list in the order of list_prev. *)
Backwards(list) == [i \in DOMAIN list |-> list[Len(list) + 1 - i]]
=============================================================================
