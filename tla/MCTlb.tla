------------------------------- MODULE MCTlb -------------------------------
(***************************************************************************)
(* Instances of Tlb: c is the pair of the code, d and e are pairs of data  *)
(* pages.                                                                  *)
(***************************************************************************)
EXTENDS Tlb, TLC

CONSTANTS c, d, e

\* A program on page <<c, 0>>, with an instruction on the read-only page <<d, 1>>,
\* and the kernel's accesses.
Short == [code : {<<c, 0>>, None}, data : {<<d, 0>>, <<d, 1>>, <<e, 0>>}, store : {FALSE}]
         \union [code : {<<c, 0>>}, data : {None}, store : {FALSE}]
         \union [code : {<<c, 0>>}, data : {<<d, 1>>}, store : {TRUE}]
         \union [code : {None}, data : {<<c, 0>>}, store : {FALSE}]
         \union [code : {<<d, 1>>}, data : {None}, store : {FALSE}]
ShortLoaded == {<<c, 0>>}

\* A program on two neighbouring pages.
Long == [code : {<<c, 0>>, <<c, 1>>}, data : {<<d, 0>>, <<d, 1>>, None}, store : {FALSE}]
        \union [code : {None}, data : {<<d, 0>>, <<d, 1>>}, store : {FALSE}]
LongLoaded == {<<c, 0>>, <<c, 1>>}

AllWritable == [x \in Page |-> "rw"]
Mixed == [x \in Page |-> IF x = <<d, 1>> THEN "r" ELSE "rw"]

Symmetric == Permutations(Space)
=============================================================================
