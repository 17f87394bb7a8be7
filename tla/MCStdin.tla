------------------------------ MODULE MCStdin ------------------------------
(* Stdin with two readers and a ring of two characters. *)
EXTENDS Stdin
=============================================================================
