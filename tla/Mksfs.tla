------------------------------- MODULE Mksfs -------------------------------
(***************************************************************************)
(* tools/mksfs.c: the host program that packs a directory tree into the    *)
(* image the kernel mounts.  It is a sequential program, so it is modelled *)
(* by operators on its state record, in the order of its calls.            *)
(*                                                                         *)
(* A host tree is a function from host inode numbers to                    *)
(*   [type |-> "dir" | "file" | "link" | "other",                          *)
(*    data |-> words of a file or of a link,                               *)
(*    ents |-> the <<name, host inode>> pairs of a directory, in the order *)
(*             of readdir]                                                 *)
(* with its root at 0.  A name is a sequence of characters.  A block holds *)
(* an inode, a directory entry or BLKWORDS words.                          *)
(***************************************************************************)
EXTENDS Integers, Sequences, SequencesExt

CONSTANTS NDIRECT,   \* SFS_NDIRECT, direct blocks of an inode
          NENTRY,    \* SFS_BLK_NENTRY, block numbers in an indirect block
          BLKWORDS,  \* words of data in a block (SFS_BLKSIZE)
          BLKBITS,   \* SFS_BLKBITS, blocks one freemap block describes
          MAXNAME,   \* SFS_MAX_FNAME_LEN
          INOBYTES,  \* sizeof(uint32_t), what precedes the name in an entry
          MAXNBLKS   \* SFS_MAX_NBLKS

ASSUME LayoutAssumption ==
  /\ {NDIRECT, NENTRY, BLKWORDS, BLKBITS, MAXNAME, INOBYTES, MAXNBLKS} \subseteq Nat \ {0}
  /\ NENTRY <= BLKWORDS /\ INOBYTES <= MAXNAME

SUPER == 0
ROOT == 1
FREEMAP == 2
Dot == <<".">>
DotDot == <<".", ".">>
Zeros(n) == <<>> \o [i \in 1..n |-> 0]
ZeroBlock == Zeros(BLKWORDS)
DentrySize == MAXNAME + 1
BlocksFor(len) == (len + BLKWORDS - 1) \div BLKWORDS

(* A fresh inode: everything zero but its type. *)
NewInode(type) ==
  [type |-> type, size |-> 0, nlinks |-> 0, blocks |-> 0,
   direct |-> Zeros(NDIRECT), indirect |-> 0]

(* The next unused block; running out of them ends the program (bug). *)
sfs_alloc_ino(s) ==
  IF s.next < s.ninos THEN [s EXCEPT !.next = @ + 1, !.unused = @ - 1]
  ELSE [s EXCEPT !.ok = FALSE]

alloc_cache_inode(s, real, type) ==
  [sfs_alloc_ino(s) EXCEPT !.inode = (s.next :> NewInode(type)) @@ @,
                           !.real = (s.next :> real) @@ @]

(* Seeded fault: hard links are not noticed. *)
InodesUnsearched(s, real) == {}

(* The newest inode made for a host inode, as it stands first in its chain. *)
InodesFor(s, real) == {i \in DOMAIN s.real : s.real[i] = real}
search_cache_inode(s, real) == Max(InodesFor(s, real))

(* The block number ino becomes the next block of inode f; past the direct *)
(* blocks an index block is allocated on the first use.  The doubly        *)
(* indirect blocks begin past the size of any device the kernel mounts.    *)
append_block(s, f, size, ino) ==
  LET n    == s.inode[f].blocks
      idx  == IF s.inode[f].indirect = 0 THEN s.next ELSE s.inode[f].indirect
      t    == IF s.inode[f].indirect = 0
                THEN [sfs_alloc_ino(s) EXCEPT !.word = (idx :> ZeroBlock) @@ @]
                ELSE s
      grow == [s.inode[f] EXCEPT !.blocks = @ + 1, !.size = @ + size]
  IN  IF n < NDIRECT
        THEN [s EXCEPT !.inode[f] = [grow EXCEPT !.direct[n + 1] = ino]]
      ELSE IF n < NDIRECT + NENTRY
        THEN [t EXCEPT !.inode[f] = [grow EXCEPT !.indirect = idx],
                       !.word[idx][n - NDIRECT + 1] = ino]
      ELSE [s EXCEPT !.ok = FALSE]

(* An entry is written with the length of its name field alone, so the     *)
(* inode number in front of the name pushes the last characters out.       *)
OnDiskName(name) == SubSeq(name, 1, Min({Len(name), DentrySize - INOBYTES}))

add_entry(s, cur, f, name) ==
  LET t == append_block([sfs_alloc_ino(s) EXCEPT
                           !.entry = (s.next :> [ino |-> f, name |-> OnDiskName(name)]) @@ @],
                        cur, DentrySize, s.next)
  IN  [t EXCEPT !.inode[f].nlinks = @ + 1]

(* The file's data, block by block, the last one padded with zeros. *)
open_file(s, f, data) ==
  LET block(i) == [j \in 1..BLKWORDS |-> IF i * BLKWORDS + j <= Len(data)
                                           THEN data[i * BLKWORDS + j] ELSE 0]
      len(i)   == Min({BLKWORDS, Len(data) - i * BLKWORDS})
      step(t, i) == append_block([sfs_alloc_ino(t) EXCEPT !.word = (t.next :> block(i)) @@ @],
                                 f, len(i), t.next)
  IN  FoldLeft(step, s, [i \in 1..BlocksFor(Len(data)) |-> i - 1])

add_file(s, host, cur, name, real) ==
  LET f == s.next
      t == open_file(alloc_cache_inode(s, real, "file"), f, host[real].data)
  IN  IF InodesFor(s, real) = {} THEN add_entry(t, cur, f, name)
      ELSE add_entry(s, cur, search_cache_inode(s, real), name)

(* The target of a symbolic link takes one block; one that fills it might  *)
(* have been cut and ends the program.                                     *)
open_link(s, f, data) ==
  LET target == [j \in 1..BLKWORDS |-> IF j <= Len(data) THEN data[j] ELSE 0]
  IN  IF Len(data) >= BLKWORDS THEN [sfs_alloc_ino(s) EXCEPT !.ok = FALSE]
      ELSE append_block([sfs_alloc_ino(s) EXCEPT !.word = (s.next :> target) @@ @],
                        f, Len(data), s.next)

add_link(s, host, cur, name, real) ==
  add_entry(open_link(alloc_cache_inode(s, real, "link"), s.next, host[real].data), cur, s.next, name)

RECURSIVE open_dir(_, _, _, _, _)

(* A directory's inode precedes what is below it, its entry in the parent  *)
(* follows.  A directory met before fails an assertion.                    *)
add_dir(s, host, parent, name, real) ==
  LET t == alloc_cache_inode(s, real, "dir")
  IN  IF InodesFor(s, real) # {} THEN [s EXCEPT !.ok = FALSE]
      ELSE add_entry(open_dir(t, host, s.next, parent, real), parent, s.next, name)

open_dir(s, host, cur, parent, real) ==
  LET step(t, e) ==
        IF e[1][1] = "." THEN t
        ELSE IF Len(e[1]) > MAXNAME THEN [t EXCEPT !.ok = FALSE]
        ELSE CASE host[e[2]].type = "link"  -> add_link(t, host, cur, e[1], e[2])
               [] host[e[2]].type = "dir"   -> add_dir(t, host, cur, e[1], e[2])
               [] host[e[2]].type = "file"  -> add_file(t, host, cur, e[1], e[2])
               [] host[e[2]].type = "other" -> t
  IN  FoldLeft(step, add_entry(add_entry(s, cur, cur, Dot), cur, parent, DotDot),
               host[real].ents)

(* An empty file system: superblock, root inode and freemap are in use. *)
create_sfs(nblocks) ==
  LET ninos == Min({nblocks, MAXNBLKS})
      next  == FREEMAP + (ninos + BLKBITS - 1) \div BLKBITS
  IN  [ok |-> next < ninos, ninos |-> ninos, next |-> next, unused |-> ninos - next,
       inode |-> (ROOT :> NewInode("dir")), real |-> (ROOT :> 0), word |-> <<>>, entry |-> <<>>]

(* The bits the freemap blocks get, one freemap block after the other. *)
FreeBits(s) ==
  LET bits(i) == IF i + BLKBITS > s.next
                   THEN (IF i < s.next THEN s.next ELSE i)
                        .. (IF i + BLKBITS > s.ninos THEN s.ninos ELSE i + BLKBITS) - 1
                   ELSE {}
  IN  UNION {bits(b * BLKBITS) : b \in 0..((s.ninos - 1) \div BLKBITS)}

(* What is on the image when the program ends. *)
close_sfs(s) ==
  [blocks |-> s.ninos, unused |-> s.unused, free |-> FreeBits(s),
   inode |-> s.inode, word |-> s.word, entry |-> s.entry]

PackedTree(host, nblocks) == open_dir(create_sfs(nblocks), host, ROOT, ROOT, 0)
create_img(host, nblocks) == close_sfs(PackedTree(host, nblocks))
=============================================================================
