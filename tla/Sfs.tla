-------------------------------- MODULE Sfs --------------------------------
(***************************************************************************)
(* The kernel's Simple FS (kern/fs/sfs) with the inode counts of the VFS   *)
(* (kern/fs/vfs/inode.c) and the disk0 driver.  The kernel is not          *)
(* preempted and none of these paths sleeps, so a call is one step; its    *)
(* parts are operators on the record k of what the kernel holds in memory: *)
(*   free, unused, sdirty   freemap, super.unused_blocks, super_dirty      *)
(*   node                   the inodes in memory, by number; the devices'  *)
(*                          have numbers below zero                        *)
(*   panic                  "" or the reason the kernel stopped            *)
(*   lost                   a block map was changed and the device dropped *)
(*                          the write that records it                      *)
(* disk0 is a flash memory: its driver only warns when it is asked to      *)
(* write, so img, the image mksfs made, never changes.                     *)
(***************************************************************************)
EXTENDS Mksfs, Calls

CONSTANTS DEVBLOCKS,   \* d_blocks of disk0
          MAXINODE,    \* MAX_INODE_COUNT
          MAXFILE      \* SFS_MAX_FILE_SIZE, in words

VARIABLES img, fs

STDIN == -1
STDOUT == -2
DISK0 == -3
Devices == {STDIN, STDOUT}

(* A block of disk0 as words; the image file is zero where mksfs wrote     *)
(* nothing.                                                                *)
Words(b) == IF b \in DOMAIN img.word THEN img.word[b] ELSE ZeroBlock

-----------------------------------------------------------------------------
(* The freemap is a bitmap, here the set of its one bits; the lowest is    *)
(* given out.                                                              *)
bitmap_test(k, b) == b \in k.free

bitmap_alloc(k) ==
  IF k.free = {} THEN Err(k, "NO_MEM")
  ELSE Ok([k EXCEPT !.free = @ \ {Min(k.free)}], Min(k.free))

bitmap_free(k, b) ==
  IF bitmap_test(k, b) THEN Panic(k, "bitmap") ELSE [k EXCEPT !.free = @ \cup {b}]

(* Blocks: sfs_block_inuse, sfs_block_alloc, sfs_block_free.  A new block  *)
(* is cleared on the device only, that is, not at all.                     *)
sfs_block_inuse(k, b) == b # 0 /\ b < img.blocks /\ ~bitmap_test(k, b)

sfs_block_alloc(k) ==
  Then(bitmap_alloc(k), LAMBDA b :
    IF k.unused = 0 THEN Fatal(k, "unused")
    ELSE [b EXCEPT !.k.unused = @ - 1, !.k.sdirty = TRUE])

(* Seeded fault: the superblock is not told. *)
sfs_block_free_uncounted(k, b) ==
  IF sfs_block_inuse(k, b) THEN bitmap_free(k, b) ELSE Panic(k, "block_free")

sfs_block_free(k, b) ==
  IF sfs_block_inuse(k, b)
    THEN [bitmap_free(k, b) EXCEPT !.unused = @ + 1, !.sdirty = TRUE]
    ELSE Panic(k, "block_free")

-----------------------------------------------------------------------------
(* The block map.  The entry of a new block in the indirect block is       *)
(* written to the device and lost.  A new indirect block is given back     *)
(* when there is no block for the entry.                                   *)
sfs_bmap_get_sub_nolock(k, ent, index, create) ==
  LET old == IF ent = 0 THEN 0 ELSE Words(ent)[index + 1]
      fill(e) == With(sfs_block_alloc(e.k), LAMBDA b :
                   IF b.ret # "OK"
                     THEN [b EXCEPT !.k = IF ent = 0 THEN sfs_block_free(@, e.val) ELSE @]
                     ELSE Ok([b.k EXCEPT !.lost = TRUE], [ent |-> e.val, ino |-> b.val]))
  IN  IF old # 0 \/ ~create THEN Ok(k, [ent |-> ent, ino |-> old])
      ELSE Then(IF ent = 0 THEN sfs_block_alloc(k) ELSE Ok(k, ent), fill)

(* A block the map gives is in use. *)
Mapped(k, b) ==
  IF b = 0 \/ sfs_block_inuse(k, b) THEN Ok(k, b) ELSE Fatal(k, "inuse")

sfs_bmap_get_nolock(k, n, index, create) ==
  LET din == k.node[n].din
      old == din.direct[index + 1]
      direct(d) == Mapped([d.k EXCEPT !.node[n].din.direct[index + 1] = d.val,
                                      !.node[n].dirty = @ \/ d.val # old], d.val)
      indirect(s) == Mapped([s.k EXCEPT !.node[n].din.indirect = s.val.ent,
                                        !.node[n].dirty = @ \/ s.val.ent # din.indirect], s.val.ino)
  IN  IF index < NDIRECT
        THEN Then(IF old = 0 /\ create THEN sfs_block_alloc(k) ELSE Ok(k, old), direct)
      ELSE IF index < NDIRECT + NENTRY
        THEN Then(sfs_bmap_get_sub_nolock(k, din.indirect, index - NDIRECT, create), indirect)
      ELSE Fatal(k, "index")

sfs_bmap_load_nolock(k, n, index) ==
  LET blocks  == k.node[n].din.blocks
      load(r) == IF ~sfs_block_inuse(r.k, r.val) THEN Fatal(r.k, "inuse")
                 ELSE [r EXCEPT !.k.node[n].din.blocks = IF index = blocks THEN @ + 1 ELSE @]
  IN  IF index > blocks THEN Fatal(k, "beyond")
      ELSE Then(sfs_bmap_get_nolock(k, n, index, index = blocks), load)

(* Clearing an entry of the indirect block is lost like setting one. *)
sfs_bmap_free_nolock(k, n, index) ==
  LET din == k.node[n].din
      ent == din.indirect
      ino == IF index < NDIRECT THEN din.direct[index + 1]
             ELSE IF ent = 0 THEN 0 ELSE Words(ent)[index - NDIRECT + 1]
  IN  IF index >= NDIRECT /\ ent # 0 /\ ~sfs_block_inuse(k, ent) THEN Panic(k, "inuse")
      ELSE IF ino = 0 THEN k
      ELSE With(sfs_block_free(k, ino), LAMBDA j :
             IF index < NDIRECT
               THEN [j EXCEPT !.node[n].din.direct[index + 1] = 0, !.node[n].dirty = TRUE]
               ELSE [j EXCEPT !.lost = TRUE])

sfs_bmap_truncate_nolock(k, n) ==
  [sfs_bmap_free_nolock(k, n, k.node[n].din.blocks - 1) EXCEPT
     !.node[n].din.blocks = @ - 1, !.node[n].dirty = TRUE]

-----------------------------------------------------------------------------
(* sfs_truncfile: to the new length, a block at a time; when the disk is   *)
(* full the blocks already added stay and the size is not touched.         *)
sfs_truncfile(k, n, len) ==
  LET din   == k.node[n].din
      tblks == BlocksFor(len)
      grow(r, i)   == Then(r, LAMBDA x : sfs_bmap_load_nolock(x.k, n, i))
      shrink(r, i) == Then(r, LAMBDA x : Ok(sfs_bmap_truncate_nolock(x.k, n), 0))
      moved == IF din.blocks < tblks
                 THEN FoldLeft(grow, Ok(k, 0), [i \in 1..(tblks - din.blocks) |-> din.blocks + i - 1])
                 ELSE FoldLeft(shrink, Ok(k, 0), [i \in 1..(din.blocks - tblks) |-> i])
  IN  IF len < 0 \/ len > MAXFILE THEN Err(k, "INVAL")
      ELSE IF din.size = len THEN IF tblks = din.blocks THEN Ok(k, 0) ELSE Fatal(k, "size")
      ELSE Then(moved, LAMBDA m : Ok([m.k EXCEPT !.node[n].din.size = len,
                                                 !.node[n].dirty = TRUE], 0))

sfs_tryseek(k, n, pos) ==
  IF pos < 0 \/ pos >= MAXFILE THEN Err(k, "INVAL")
  ELSE IF pos > k.node[n].din.size THEN sfs_truncfile(k, n, pos)
  ELSE Ok(k, 0)

-----------------------------------------------------------------------------
(* sfs_io: a first part of a block, whole blocks, a last part of a block.  *)
(* The whole blocks are one transfer from the block the map gives for the  *)
(* first of them.                                                          *)
Segments(offset, endpos) ==
  LET blkno  == offset \div BLKWORDS
      nblks  == endpos \div BLKWORDS - blkno
      blkoff == offset % BLKWORDS
      whole  == IF blkoff > 0 /\ nblks > 0 THEN nblks - 1 ELSE nblks
      head   == IF blkoff = 0 THEN <<>>
                ELSE <<[index |-> blkno, from |-> blkoff,
                        len |-> IF nblks > 0 THEN BLKWORDS - blkoff ELSE endpos - offset]>>
      middle == IF whole = 0 THEN <<>>
                ELSE <<[index |-> IF blkoff > 0 THEN blkno + 1 ELSE blkno, from |-> 0,
                        len |-> whole * BLKWORDS]>>
      tail   == IF (blkoff > 0 /\ nblks = 0) \/ endpos % BLKWORDS = 0 THEN <<>>
                ELSE <<[index |-> endpos \div BLKWORDS, from |-> 0, len |-> endpos % BLKWORDS]>>
  IN  head \o middle \o tail

(* Seeded fault: the transfer starts at the first word of the block. *)
TransferFromStart(ino, from, len) ==
  [i \in 1..len |-> Words(ino + (i - 1) \div BLKWORDS)[((i - 1) % BLKWORDS) + 1]]

(* The words of a transfer that starts at word from of block ino. *)
Transfer(ino, from, len) ==
  [i \in 1..len |-> Words(ino + (from + i - 1) \div BLKWORDS)[((from + i - 1) % BLKWORDS) + 1]]

(* A failing block map is an assertion here, not an error.  The value is   *)
(* what was read and how much was transferred.                             *)
sfs_io_nolock(k, n, offset, len, write) ==
  LET size == k.node[n].din.size
      end0 == Min({offset + len, MAXFILE})
      none == Ok(k, [alen |-> 0, data |-> <<>>])
      part(r, s) == Then(r, LAMBDA x : With(sfs_bmap_load_nolock(x.k, n, s.index), LAMBDA b :
        IF b.ret # "OK" THEN [x EXCEPT !.k = Panic(b.k, "full")]
        ELSE IF ~Running(b.k) THEN [x EXCEPT !.k = b.k]
        ELSE Ok(b.k, [alen |-> x.val.alen + s.len,
                      data |-> IF write THEN <<>>
                               ELSE x.val.data \o Transfer(b.val, s.from, s.len)])))
      grown(r) == IF offset + r.val.alen <= r.k.node[n].din.size THEN r
                  ELSE [r EXCEPT !.k.node[n].din.size = offset + r.val.alen,
                                 !.k.node[n].dirty = TRUE]
  IN  IF offset < 0 \/ offset >= MAXFILE THEN [none EXCEPT !.ret = "INVAL"]
      ELSE IF len = 0 \/ (~write /\ offset >= size) THEN none
      ELSE Then(FoldLeft(part, none, Segments(offset, IF write THEN end0 ELSE Min({end0, size}))),
                grown)

-----------------------------------------------------------------------------
(* The operations a kind of inode has; a call of another one is a failed   *)
(* assertion of the vop_ macros, as are counts that do not make sense.     *)
inode_ops(kind) ==
  CASE kind = "dir"  -> {"open", "close", "fstat", "fsync", "namefile", "getdirentry",
                         "reclaim", "gettype", "lookup"}
    [] kind = "file" -> {"open", "close", "read", "write", "fstat", "fsync", "reclaim",
                         "gettype", "tryseek", "truncate"}
    [] kind = "dev"  -> {"open", "close", "read", "write", "fstat", "ioctl", "gettype",
                         "tryseek", "lookup"}

vop(k, n, op) ==
  IF op \notin inode_ops(k.node[n].kind) THEN Panic(k, "vop")
  ELSE IF MAXINODE > k.node[n].ref /\ k.node[n].ref >= k.node[n].open /\ k.node[n].open >= 0
    THEN k
  ELSE Panic(k, "counts")

(* The write of the inode is lost, and with it what the block map became. *)
sfs_fsync(k, n) ==
  LET map(d) == <<d.blocks, d.direct, d.indirect>>
  IN  IF ~k.node[n].dirty THEN k
      ELSE [k EXCEPT !.node[n].dirty = FALSE,
                     !.lost = @ \/ map(k.node[n].din) # map(img.inode[n])]

(* The last reference is gone: the inode leaves memory.  One without links *)
(* gives its blocks back.                                                  *)
sfs_reclaim(k, n) ==
  LET din  == k.node[n].din
      bare == din.nlinks = 0
      free(j, b) == IF bare /\ b # 0 THEN sfs_block_free(j, b) ELSE j
      drop(j) == [j EXCEPT !.node = [m \in DOMAIN @ \ {n} |-> @[m]]]
      done(t) == IF k.node[n].open # 0 THEN Panic(k, "kill")
                 ELSE free(free(drop(sfs_fsync(t.k, n)), n), din.indirect)
  IN  IF k.node[n].rc <= 0 THEN Panic(k, "reclaim")
      ELSE With([k EXCEPT !.node[n].rc = @ - 1], LAMBDA j :
             IF j.node[n].rc # 0 THEN j
             ELSE With(IF bare THEN sfs_truncfile(vop(j, n, "truncate"), n, 0) ELSE Ok(j, 0), LAMBDA t :
                    IF t.ret = "OK" /\ Running(t.k) THEN done(t) ELSE t.k))

inode_ref_inc(k, n) == [k EXCEPT !.node[n].ref = @ + 1]
inode_open_inc(k, n) == [k EXCEPT !.node[n].open = @ + 1]

inode_ref_dec(k, n) ==
  IF k.node[n].ref <= 0 THEN Panic(k, "refs")
  ELSE IF k.node[n].ref > 1 THEN [k EXCEPT !.node[n].ref = @ - 1]
  ELSE With(vop([k EXCEPT !.node[n].ref = 0], n, "reclaim"), LAMBDA j :
         IF Running(j) THEN sfs_reclaim(j, n) ELSE j)

(* On the last close the file system syncs the inode; a device does        *)
(* nothing.                                                                *)
inode_open_dec(k, n) ==
  IF k.node[n].open <= 0 THEN Panic(k, "open")
  ELSE With([k EXCEPT !.node[n].open = @ - 1], LAMBDA j :
         IF j.node[n].open > 0 \/ n \in Devices THEN j ELSE sfs_fsync(vop(j, n, "close"), n))

-----------------------------------------------------------------------------
(* An inode in memory is found by its number and gains a reference (and,   *)
(* when it was down to none, a reclaim to come).                           *)
lookup_sfs_nolock(k, ino) ==
  IF ino \notin DOMAIN k.node THEN Err(k, "NOENT")
  ELSE Ok([inode_ref_inc(k, ino) EXCEPT
             !.node[ino].rc = IF k.node[ino].ref = 0 THEN @ + 1 ELSE @], ino)

(* Directories and files have operations, symbolic links have none. *)
sfs_create_inode(k, din, ino) ==
  LET node == [kind |-> din.type, ref |-> 1, open |-> 0, rc |-> 1, dirty |-> FALSE, din |-> din]
  IN  IF din.type = "link" THEN Fatal(k, "type") ELSE Ok([k EXCEPT !.node = (ino :> node) @@ @], ino)

(* Another inode is read from the device. *)
sfs_load_inode(k, ino, mem) ==
  With(lookup_sfs_nolock(k, ino), LAMBDA l :
    IF l.ret = "OK" THEN l
    ELSE IF ~mem THEN Err(k, "NO_MEM")
    ELSE IF ~sfs_block_inuse(k, ino) THEN Fatal(k, "inuse")
    ELSE IF img.inode[ino].nlinks = 0 THEN Fatal(k, "nlinks")
    ELSE sfs_create_inode(k, img.inode[ino], ino))

-----------------------------------------------------------------------------
(* Directories: one entry per block, read through the block map. *)
NoEntry == [ino |-> 0, name |-> <<>>]

sfs_dirent_read_nolock(k, n, slot) ==
  Then(sfs_bmap_load_nolock(k, n, slot), LAMBDA b :
    Ok(b.k, IF b.val \in DOMAIN img.entry THEN img.entry[b.val] ELSE NoEntry))

(* The entries of a directory in the order of its slots, up to a panic. *)
DirEntries(k, n) ==
  LET step(r, i) == Then(r, LAMBDA x :
                      With(sfs_dirent_read_nolock(x.k, n, i), LAMBDA e :
                        Ok(e.k, IF Running(e.k) THEN Append(x.val, e.val) ELSE x.val)))
  IN  FoldLeft(step, Ok(k, <<>>), [i \in 1..k.node[n].din.blocks |-> i - 1])

(* The first of the entries with the property P. *)
FirstEntry(d, P(_)) ==
  With({i \in DOMAIN d.val : P(d.val[i])}, LAMBDA hits :
    IF hits # {} THEN Ok(d.k, d.val[Min(hits)])
    ELSE IF Running(d.k) THEN Err(d.k, "NOENT") ELSE Ok(d.k, NoEntry))

sfs_dirent_search_nolock(k, n, name) ==
  IF Len(name) > MAXNAME THEN Fatal(k, "name")
  ELSE FirstEntry(DirEntries(k, n), LAMBDA x : x.ino # 0 /\ x.name = name)

sfs_dirent_findino_nolock(k, n, ino) == FirstEntry(DirEntries(k, n), LAMBDA x : x.ino = ino)

sfs_lookup_once(k, n, name, mem) ==
  IF ~mem THEN Err(k, "NO_MEM")
  ELSE Then(sfs_dirent_search_nolock(k, n, name), LAMBDA s : sfs_load_inode(k, s.val.ino, mem))

(* The names from the root to directory n: each step asks ".." for the     *)
(* parent and the parent for the name of the child.  The references taken  *)
(* on the way are given back, room is what the buffer has left.            *)
sfs_namefile(k, n, room, mem) ==
  LET ends(r, j, why) == [r EXCEPT !.k = j, !.ret = why, !.over = TRUE]
      child(r, k2, up, e) ==
        IF e.ret # "OK" THEN ends(r, inode_ref_dec(k2, up), e.ret)
        ELSE IF Len(e.val.name) + 1 > r.room THEN ends(r, inode_ref_dec(k2, up), "NO_MEM")
        ELSE [r EXCEPT !.k = k2, !.n = up, !.room = @ - Len(e.val.name) - 1,
                       !.names = <<e.val.name>> \o @]
      parent(r, up) ==
        IF ~Running(up.k) THEN ends(r, up.k, "OK")
        ELSE With(inode_ref_dec(up.k, r.n), LAMBDA j :
               IF up.ret # "OK" THEN ends(r, j, up.ret)
               ELSE IF up.val = r.n THEN ends(r, inode_ref_dec(j, r.n), "OK")
               ELSE child(r, j, up.val, sfs_dirent_findino_nolock(j, up.val, r.n)))
      step(r, i) == IF r.over THEN r ELSE parent(r, sfs_lookup_once(r.k, r.n, DotDot, mem))
      start == [k |-> inode_ref_inc(k, n), n |-> n, room |-> room - 2, names |-> <<>>,
                ret |-> "OK", over |-> FALSE]
  IN  IF room <= 2 \/ ~mem THEN ends(start, k, "NO_MEM")
      ELSE FoldLeft(step, start, [i \in 1..Cardinality(DOMAIN img.inode) |-> i])

(* Entry number offset / DentrySize among those in use. *)
sfs_getdirentry(k, n, offset) ==
  LET slot == offset \div DentrySize
  IN  IF offset < 0 \/ offset % DentrySize # 0 THEN Err(k, "INVAL")
      ELSE IF slot > k.node[n].din.blocks THEN Err(k, "NOENT")
      ELSE With(SelectSeq(DirEntries(k, n).val, LAMBDA x : x.ino # 0), LAMBDA used :
             IF slot >= Len(used) THEN Err(k, "NOENT") ELSE Ok(k, used[slot + 1].name))

-----------------------------------------------------------------------------
(* Mounting: the image must fit the device and the bits of its freemap     *)
(* must be as many as the superblock says; the devices' inodes are made    *)
(* before.                                                                 *)
DeviceNode == [kind |-> "dev", ref |-> 1, open |-> 0, rc |-> 0, dirty |-> FALSE,
               din |-> NewInode("dev")]

sfs_init_freemap == img.free

sfs_do_mount ==
  LET k == [free |-> sfs_init_freemap, unused |-> img.unused, sdirty |-> FALSE,
            node |-> [d \in Devices |-> DeviceNode], panic |-> "", lost |-> FALSE]
  IN  IF img.blocks > DEVBLOCKS THEN Err(k, "INVAL")
      ELSE IF Cardinality({b \in 0..(img.blocks - 1) : bitmap_test(k, b)}) # img.unused
        THEN Fatal(k, "freemap")
      ELSE Ok(k, 0)

(* The superblock and the freemap are written when they have changed, and  *)
(* no write fails.                                                         *)
sfs_sync(k) ==
  LET step(j, n) == sfs_fsync(vop(j, n, "fsync"), n)
  IN  [FoldLeft(step, k, SetToSeq(DOMAIN k.node \ Devices)) EXCEPT !.sdirty = FALSE]

(* One attempt is enough. *)
sfs_cleanup(k) == sfs_sync(k)
=============================================================================
