------------------------------- MODULE MCProc ------------------------------
(* Three user processes: a parent, a child and a grandchild or sibling.     *)
EXTENDS Proc, TLC

UserSymmetry == Permutations(User)
=============================================================================
