------------------------------- MODULE Calls -------------------------------
(***************************************************************************)
(* How the kernel's functions are written as operators.  A function takes  *)
(* the record k of what it may change, whose field panic is "" or the      *)
(* reason the kernel stopped, and returns [k, ret, val].  Then goes on     *)
(* with F where the code does when a call has succeeded.                   *)
(***************************************************************************)

Running(k) == k.panic = ""
Panic(k, why) == IF Running(k) THEN [k EXCEPT !.panic = why] ELSE k

Ok(k, val) == [k |-> k, ret |-> "OK", val |-> val]
Err(k, why) == [k |-> k, ret |-> why, val |-> 0]
Fatal(k, why) == Ok(Panic(k, why), 0)

With(x, F(_)) == F(x)
Then(r, F(_)) == IF r.ret = "OK" /\ Running(r.k) THEN F(r) ELSE r
=============================================================================
