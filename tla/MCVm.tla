-------------------------------- MODULE MCVm -------------------------------
(***************************************************************************)
(* Module Vm for TLC: frames of 10 units and 4 words, 8 pages of user      *)
(* addresses under page tables of six, the last three of them the stack.   *)
(* sh is one page that it does not fill, ls has code and data with a bss.  *)
(* The other files are not well formed: txt is too short for a header, cut *)
(* for its segment; bss has a segment that is longer in the file than in   *)
(* memory; the segments of page start in one page, those of lap overlap    *)
(* further on.                                                             *)
(***************************************************************************)
EXTENDS Vm

CONSTANTS sh, ls, txt, cut, bss, page, lap

Sizes == [proc |-> 3, mm |-> 2, vma |-> 1, din |-> 1, inode |-> 2, entry |-> 3]

Segment(va, off, filesz, memsz, flags) ==
  [va |-> va, off |-> off, filesz |-> filesz, memsz |-> memsz, flags |-> flags]
File(size, segs) == [size |-> size, segs |-> segs]

Programs ==
  (sh :> File(4, <<Segment(1, 2, 2, 2, {"R", "X"})>>))
  @@ (ls :> File(8, <<Segment(4, 3, 4, 4, {"R", "X"}), Segment(8, 7, 1, 6, {"R", "W"})>>))
  @@ (txt :> File(0, <<>>))
  @@ (cut :> File(3, <<Segment(1, 2, 2, 2, {"R", "X"})>>))
  @@ (bss :> File(4, <<Segment(0, 2, 2, 1, {"R", "W"})>>))
  @@ (page :> File(5, <<Segment(5, 3, 1, 1, {"R"}), Segment(4, 4, 1, 1, {"R"})>>))
  @@ (lap :> File(5, <<Segment(0, 3, 1, 5, {"R", "W"}), Segment(4, 4, 1, 1, {"R"})>>))

(* Strings over two pages, one that runs from the data of ls into a gap,   *)
(* and one that does not end.                                              *)
Str(at, pages, ends) == [at |-> at, pages |-> pages, ends |-> ends]
Arguments ==
  {[name |-> Str(7, 1, TRUE), argv |-> 7, str |-> str] :
     str \in {<<Str(6, 2, TRUE)>>, <<Str(7, 1, TRUE), Str(3, 2, TRUE)>>, <<Str(7, 1, FALSE)>>}}

(* The smaller memory, in which a fork may find no two frames for its      *)
(* stack, is used up by touching one more page.                            *)
TouchedPages(n) == IF n = 31 THEN {3, 5, 6} ELSE {3, 5}

UserSymmetry == Permutations(User)
=============================================================================
