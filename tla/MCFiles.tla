------------------------------ MODULE MCFiles ------------------------------
(* Module Files with four workloads.  Tables is about the tables and the   *)
(* counts: two processes, three descriptors, a tree with one short file    *)
(* and a symbolic link.  Trees is about what mksfs packs: a file that      *)
(* needs an indirect block, and a subdirectory with a name of the greatest *)
(* length, which holds a hard link to the file, with such a name too, and  *)
(* a file whose name is what is left of it.  Grows is about the blocks a   *)
(* file takes from the few free ones and gives back.  Leaks repeats failed *)
(* exclusive opens until the count of the inode is at its limit.           *)
EXTENDS Files

CONSTANTS p1, p2, init

TwoProcs == {p1, p2}

Dir(ents) == [type |-> "dir", data |-> <<>>, ents |-> ents]
File(data) == [type |-> "file", data |-> data, ents |-> <<>>]
Link(data) == [type |-> "link", data |-> data, ents |-> <<>>]
Path(dev, name) == [dev |-> dev, name |-> name]
Mode(acc, flags) == [acc |-> acc, flags |-> flags]

Read == Mode("R", {})
Write == Mode("W", {})
Create == Mode("W", {"CREAT"})
Truncate == Mode("RW", {"TRUNC"})
Exclusive == Mode("R", {"CREAT", "EXCL"})

Tables ==
  [host |-> (0 :> Dir(<< <<<<"a">>, 1>>, <<<<"s">>, 2>> >>))
            @@ (1 :> File(<<101>>)) @@ (2 :> Link(<<102>>)),
   nblocks |-> 16, procs |-> TwoProcs, fds |-> 3,
   programs |-> {Path("", <<"a">>), Path("", <<"x">>)},
   opens |-> {<<Path("disk0", <<"a">>), Read>>, <<Path("disk0", <<"a">>), Exclusive>>,
              <<Path("disk0", <<"s">>), Read>>,
              <<Path("stdin", <<>>), Read>>, <<Path("none", <<>>), Read>>},
   lengths |-> {}, offsets |-> {}, maxpos |-> 0, leaks |-> 1]

Trees ==
  [host |-> (0 :> Dir(<< <<<<"a">>, 1>>, <<<<"d", "i", "r">>, 2>> >>))
            @@ (1 :> File(<<101, 102, 103, 104, 105>>))
            @@ (2 :> Dir(<< <<<<"l", "n", "k">>, 1>>, <<<<"l", "n">>, 3>> >>))
            @@ (3 :> File(<<>>)),
   nblocks |-> 30, procs |-> {p1}, fds |-> 2,
   programs |-> {Path("", <<"a">>)},
   opens |-> ({Path("", <<"a">>)} \X {Read, Truncate})
             \cup ({Path(":", <<"d", "i">>)} \X {Read, Write})
             \cup ({Path("stdout", <<>>)} \X {Write, Mode("R", {"TRUNC"})}),
   lengths |-> {3}, offsets |-> {0}, maxpos |-> 3, leaks |-> 0]

Grows ==
  [host |-> (0 :> Dir(<< <<<<"p">>, 1>> >>)) @@ (1 :> File(<<101>>)),
   nblocks |-> 12, procs |-> {p1}, fds |-> 2,
   programs |-> {Path("", <<"p">>)},
   opens |-> {<<Path("/", <<"p">>), Mode("RW", {"APPEND"})>>, <<Path("", <<"p">>), Create>>,
              <<Path("", <<"x">>), Create>>},
   lengths |-> {4}, offsets |-> {7}, maxpos |-> 3, leaks |-> 0]

Leaks ==
  [host |-> (0 :> Dir(<< <<<<"a">>, 1>> >>)) @@ (1 :> File(<<101>>)),
   nblocks |-> 16, procs |-> {p1}, fds |-> 2,
   programs |-> {Path("", <<"a">>)},
   opens |-> {Path("disk0", <<"a">>)} \X {Read, Exclusive},
   lengths |-> {}, offsets |-> {}, maxpos |-> 0, leaks |-> MAXINODE]

MCWorkloads == {Tables, Trees, Grows, Leaks}
=============================================================================
