------------------------------- MODULE Files -------------------------------
(***************************************************************************)
(* The file side of the kernel: the system calls (kern/fs/sysfile.c,       *)
(* file.c), the open file tables of the processes (fs.c, copy_files and    *)
(* put_files of proc.c), paths, devices and open (kern/fs/vfs, devs) on    *)
(* top of the file system of module Sfs and the image of module Mksfs.     *)
(*                                                                         *)
(* The kernel is not preempted, so a system call is one step; only a read  *)
(* of stdin sleeps, with its file entry acquired.  A call that fails       *)
(* before it changes anything is a stuttering step, and an argument mem or *)
(* ok says whether the allocations and the copies from and to the user's   *)
(* memory succeed.  No system call changes a working directory or shares   *)
(* an open file table, so files_count is always 1.                         *)
(***************************************************************************)
EXTENDS Sfs

CONSTANTS PROCS,      \* places for user processes
          INITPROC,   \* initproc
          NFDS,       \* FILES_STRUCT_NENTRY
          IOBUF,      \* IOBUF_SIZE, in words
          Workloads   \* what the programs do, each a record of
                      \*   host, nblocks         the tree mksfs packs, the size of its image
                      \*   procs, fds            processes, descriptors below fds in use
                      \*   programs              what they execute
                      \*   opens                 pairs of a path and how it is opened
                      \*   lengths, offsets      of reads and writes, of seeks
                      \*   maxpos, leaks         bounds on the positions in a device and
                      \*                         on the failed exclusive opens

VARIABLES load,       \* the workload
          real,       \* the host inode each inode of the image was made for
          stage,      \* of init_main
          proc,       \* "free", "new" (user_main before its exec), "run", "read"
          files,      \* the open file tables
          pwd,        \* the working directories, 0 for none
          bootfs,     \* bootfs_node
          reading,    \* the descriptor a process sleeps on in a read of stdin
          leak        \* references no table holds after a failed exclusive open

vars == <<img, fs, load, real, stage, proc, files, pwd, bootfs, reading, leak>>

All == PROCS \cup {INITPROC}
Fds == 0..(NFDS - 1)
NO_FD == -1

NoFile == [status |-> "NONE", count |-> 0, readable |-> FALSE, writable |-> FALSE,
           pos |-> 0, node |-> 0]

(* A step works on s = [k, f]: the file system and the tables. *)
Now == [k |-> fs, f |-> files]
Up(s) == Running(s.k)
Stop(s, why) == [s EXCEPT !.k = Panic(@, why)]

-----------------------------------------------------------------------------
(* The table of process p: fd_array_alloc gives a free entry, the lowest   *)
(* or the one asked for.                                                   *)
fd_array_alloc(s, p, fd) ==
  LET free == {d \in Fds : s.f[p][d].status = "NONE"}
      hits == IF fd = NO_FD THEN free ELSE free \cap {fd}
      d    == Min(hits)
  IN  IF hits = {}
        THEN [s |-> s, fd |-> NO_FD,
              ret |-> IF fd = NO_FD THEN "MAX_OPEN" ELSE IF fd \in Fds THEN "BUSY" ELSE "INVAL"]
      ELSE [s |-> IF s.f[p][d].count = 0
                    THEN [s EXCEPT !.f[p][d] = [NoFile EXCEPT !.status = "INIT"]]
                    ELSE Stop(s, "fd"),
            fd |-> d, ret |-> "OK"]

(* Seeded fault: the reference is not given back. *)
vfs_close_half(k, n) == inode_open_dec(k, n)
vfs_close(k, n) ==
  With(inode_open_dec(k, n), LAMBDA j : IF Running(j) THEN inode_ref_dec(j, n) ELSE j)

fd_array_free(s, p, d) ==
  LET e == s.f[p][d]
  IN  IF e.status \notin {"INIT", "CLOSED"} \/ e.count # 0 THEN Stop(s, "fd")
      ELSE [k |-> IF e.status = "CLOSED" THEN vfs_close(s.k, e.node) ELSE s.k,
            f |-> [s.f EXCEPT ![p][d] = NoFile]]

fd_array_acquire(s, p, d) ==
  IF s.f[p][d].status = "OPENED" THEN [s EXCEPT !.f[p][d].count = @ + 1] ELSE Stop(s, "fd")

(* The entry is freed by the last of its users. *)
Released(t, p, d) == IF t.f[p][d].count = 0 THEN fd_array_free(t, p, d) ELSE t

(* Seeded fault: the entry stays acquired. *)
fd_array_release_missed(s, p, d) == s

fd_array_release(s, p, d) ==
  IF s.f[p][d].status \notin {"OPENED", "CLOSED"} \/ s.f[p][d].count <= 0 THEN Stop(s, "fd")
  ELSE Released([s EXCEPT !.f[p][d].count = @ - 1], p, d)

fd_array_open(s, p, d) ==
  IF s.f[p][d].status = "INIT" /\ s.f[p][d].node # 0
    THEN [s EXCEPT !.f[p][d].status = "OPENED", !.f[p][d].count = @ + 1]
    ELSE Stop(s, "fd")

fd_array_close(s, p, d) ==
  IF s.f[p][d].status # "OPENED" \/ s.f[p][d].count <= 0 THEN Stop(s, "fd")
  ELSE Released([s EXCEPT !.f[p][d].status = "CLOSED", !.f[p][d].count = @ - 1], p, d)

(* Entry d of p becomes a second user of the inode of entry e of q. *)
fd_array_dup(s, p, d, q, e) ==
  LET from == s.f[q][e]
      k    == inode_open_inc(inode_ref_inc(s.k, from.node), from.node)
  IN  IF s.f[p][d].status # "INIT" \/ from.status # "OPENED" THEN Stop(s, "fd")
      ELSE fd_array_open([k |-> k,
                          f |-> [s.f EXCEPT ![p][d] = [from EXCEPT !.status = "INIT", !.count = 0]]],
                         p, d)

IsOpen(p, d) == d \in Fds /\ files[p][d].status = "OPENED"

(* Seeded fault: the last descriptor is left open. *)
CloseRangeShort(s, p, first) ==
  LET step(t, d) == IF Up(t) /\ t.f[p][d].status = "OPENED" THEN fd_array_close(t, p, d) ELSE t
  IN  FoldLeft(step, s, [i \in 1..(NFDS - first - 1) |-> first + i - 1])

(* files_closeall and files_destroy close the open entries of their range. *)
CloseRange(s, p, first) ==
  LET step(t, d) == IF Up(t) /\ t.f[p][d].status = "OPENED" THEN fd_array_close(t, p, d) ELSE t
  IN  FoldLeft(step, s, [i \in 1..(NFDS - first) |-> first + i - 1])

files_closeall(s, p) == CloseRange(s, p, 2)

files_destroy(s, p) ==
  With(CloseRange(IF pwd[p] = 0 THEN s ELSE [s EXCEPT !.k = inode_ref_dec(@, pwd[p])], p, 0), LAMBDA u :
    IF Up(u) /\ \E d \in Fds : u.f[p][d].status # "NONE" THEN Stop(u, "fd") ELSE u)

dup_files(s, to, from) ==
  LET t == IF pwd[from] = 0 THEN s ELSE [s EXCEPT !.k = inode_ref_inc(@, pwd[from])]
      step(u, d) == IF u.f[from][d].status # "OPENED" THEN u
                    ELSE fd_array_dup([u EXCEPT !.f[to][d].status = "INIT"], to, d, from, d)
  IN  FoldLeft(step, t, [i \in 1..NFDS |-> i - 1])

-----------------------------------------------------------------------------
(* The devices: dev_init puts them in front of the list, and sfs_init      *)
(* mounts the file system on disk0.                                        *)
vfs_do_add(list, name, node, mountable) ==
  IF \E i \in DOMAIN list : list[i].name = name THEN list
  ELSE <<[name |-> name, node |-> node, mountable |-> mountable, fs |-> FALSE]>> \o list

dev_init_stdin(list) == vfs_do_add(list, "stdin", STDIN, FALSE)
dev_init_stdout(list) == vfs_do_add(list, "stdout", STDOUT, FALSE)
dev_init_disk0(list) == vfs_do_add(list, "disk0", DISK0, TRUE)
dev_init == dev_init_disk0(dev_init_stdout(dev_init_stdin(<<>>)))

find_mount(list, name) == {i \in DOMAIN list : list[i].mountable /\ list[i].name = name}

vfs_mount(list, name) ==
  [i \in DOMAIN list |-> [list[i] EXCEPT !.fs = @ \/ i \in find_mount(list, name)]]

vdev_list == vfs_mount(dev_init, "disk0")

sfs_get_root(k) ==
  With(sfs_load_inode(k, ROOT, TRUE), LAMBDA r :
    IF r.ret = "OK" THEN r ELSE Fatal(k, "root"))

vfs_get_root(k, dev) ==
  LET hits == {i \in DOMAIN vdev_list : vdev_list[i].name = dev}
      vdev == vdev_list[Min(hits)]
  IN  IF hits = {} THEN Err(k, "NO_DEV")
      ELSE IF vdev.fs THEN sfs_get_root(k)
      ELSE IF ~vdev.mountable THEN Ok(inode_ref_inc(k, vdev.node), vdev.node)
      ELSE Err(k, "NA_DEV")

(* Everything mounted is synced at the end. *)
vfs_cleanup(k) ==
  LET step(j, vdev) == IF vdev.fs THEN sfs_cleanup(j) ELSE j
  IN  FoldLeft(step, k, vdev_list)

-----------------------------------------------------------------------------
(* Paths: a device name, "/" or ":" in front of a name, or a name alone.   *)
(* A directory that is handed out carries a reference.                     *)
Counted(k, n) == IF n = 0 THEN Err(k, "NOENT") ELSE Ok(inode_ref_inc(k, n), n)
vfs_get_curdir(k, p) == Counted(k, pwd[p])
vfs_get_bootfs(k) == Counted(k, bootfs)

get_device(k, p, path) ==
  CASE path.dev = ""  -> vfs_get_curdir(k, p)
    [] path.dev = "/" -> vfs_get_bootfs(k)
    [] path.dev = ":" -> Then(vfs_get_curdir(k, p), LAMBDA c :
                           With(sfs_get_root(c.k), LAMBDA r :
                             [r EXCEPT !.k = IF Running(@) THEN inode_ref_dec(@, c.val) ELSE @]))
    [] OTHER          -> vfs_get_root(k, path.dev)

(* One name, looked up in the directory the path starts from. *)
vop_lookup(k, n, name, mem) ==
  Then(Ok(vop(k, n, "lookup"), 0), LAMBDA c :
    IF n \in Devices THEN Err(k, "NOENT") ELSE sfs_lookup_once(k, n, name, mem))

vfs_lookup(k, p, path, mem) ==
  Then(get_device(k, p, path), LAMBDA d :
    IF path.name = <<>> THEN d
    ELSE With(vop_lookup(d.k, d.val, path.name, mem), LAMBDA l :
           IF Running(l.k) THEN [l EXCEPT !.k = inode_ref_dec(@, d.val)] ELSE l))

(* The directory a missing file would be created in. *)
vfs_lookup_parent(k, p, path) == get_device(k, p, path)

(* The process keeps a reference to its new directory and drops the one to *)
(* the old.                                                                *)
vfs_set_curdir(k, old, dir) ==
  IF old = dir THEN Ok(k, dir)
  ELSE IF k.node[dir].kind # "dir" THEN Err(k, "NOTDIR")
  ELSE With(inode_ref_inc(vop(k, dir, "gettype"), dir), LAMBDA j :
         Ok(IF old = 0 THEN j ELSE inode_ref_dec(j, old), dir))

vfs_chdir(k, p, path) ==
  Then(vfs_lookup(k, p, path, TRUE), LAMBDA l :
    With(vfs_set_curdir(l.k, pwd[p], l.val), LAMBDA c : [c EXCEPT !.k = inode_ref_dec(@, l.val)]))

change_bootfs(k) == IF bootfs = 0 THEN k ELSE inode_ref_dec(k, bootfs)

(* The root of a device becomes the working directory of p and the boot    *)
(* file system.                                                            *)
vfs_set_bootfs(k, p, dev) ==
  Then(vfs_chdir(k, p, [dev |-> dev, name |-> <<>>]), LAMBDA c :
    With(Counted(c.k, c.val), LAMBDA n : Ok(change_bootfs(n.k), n.val)))

(* "disk0:", in six characters, and the path of the working directory. *)
vfs_getcwd(k, p, room, mem) ==
  Then(vfs_get_curdir(k, p), LAMBDA c :
    IF room < 6 THEN Err(inode_ref_dec(c.k, c.val), "NO_MEM")
    ELSE With(sfs_namefile(c.k, c.val, room - 6, mem), LAMBDA r :
           [k |-> IF Running(r.k) THEN inode_ref_dec(r.k, c.val) ELSE r.k,
            ret |-> r.ret, val |-> r.names]))

-----------------------------------------------------------------------------
(* Opening.  fl = [acc |-> "R" | "W" | "RW", flags |-> a set of O_ flags]. *)
Plain(acc) == [acc |-> acc, flags |-> {}]

vop_open(k, n, fl) ==
  CASE k.node[n].kind = "dir"  -> IF fl.acc = "R" /\ "APPEND" \notin fl.flags THEN "OK" ELSE "ISDIR"
    [] k.node[n].kind = "file" -> "OK"
    [] n = STDIN               -> IF fl = Plain("R") THEN "OK" ELSE "INVAL"
    [] n = STDOUT              -> IF fl = Plain("W") THEN "OK" ELSE "INVAL"

vop_truncate(k, n, len) ==
  Then(Ok(vop(k, n, "truncate"), 0), LAMBDA c : sfs_truncfile(c.k, n, len))

(* A missing file is to be created by an operation no inode has.  O_CREAT  *)
(* empties a file that is there, and an exclusive creation of one that is  *)
(* there keeps the reference the lookup took.                              *)
vfs_open(k, p, path, fl, mem) ==
  LET create == "CREAT" \in fl.flags
      emptied(n, t) == IF t.ret = "OK" \/ ~Running(t.k) THEN [t EXCEPT !.val = n]
                       ELSE Err(vfs_close(t.k, n), t.ret)
      found(l) ==
        IF create /\ "EXCL" \in fl.flags THEN [l EXCEPT !.ret = "EXISTS"]
        ELSE Then(Ok(vop(l.k, l.val, "open"), l.val), LAMBDA c :
               IF vop_open(c.k, c.val, fl) # "OK"
                 THEN Err(inode_ref_dec(c.k, c.val), vop_open(c.k, c.val, fl))
               ELSE With(Ok(inode_open_inc(c.k, c.val), c.val), LAMBDA o :
                      IF create \/ "TRUNC" \in fl.flags
                        THEN emptied(o.val, vop_truncate(o.k, o.val, 0))
                        ELSE o))
  IN  IF "TRUNC" \in fl.flags /\ fl.acc = "R" THEN Err(k, "INVAL")
      ELSE With(vfs_lookup(k, p, path, mem), LAMBDA l :
             IF l.ret = "NOENT" /\ create
               THEN Then(vfs_lookup_parent(l.k, p, path), LAMBDA d : Fatal(d.k, "vop"))
               ELSE Then(l, found))

(* The result is [s, ret, fd, node]. *)
file_open(s, p, path, fl, mem) ==
  LET entry(v) == [status |-> "INIT", count |-> 0, readable |-> fl.acc # "W",
                   writable |-> fl.acc # "R",
                   pos |-> IF "APPEND" \in fl.flags THEN v.k.node[v.val].din.size ELSE 0,
                   node |-> v.val]
      result(t, v, d) == [s |-> t, ret |-> v.ret, fd |-> d, node |-> v.val]
      opened(a, t, v) ==
        IF ~Up(t) THEN result(t, v, NO_FD)
        ELSE IF v.ret # "OK" THEN result(fd_array_free(t, p, a.fd), v, NO_FD)
        ELSE result(fd_array_open([t EXCEPT !.f[p][a.fd] = entry(v)], p, a.fd), v, a.fd)
  IN  With(fd_array_alloc(s, p, NO_FD), LAMBDA a :
        IF a.ret # "OK" \/ ~Up(a.s) THEN result(a.s, Err(0, a.ret), NO_FD)
        ELSE With(vfs_open(a.s.k, p, path, fl, mem), LAMBDA v :
               opened(a, [a.s EXCEPT !.k = v.k], v)))

-----------------------------------------------------------------------------
(* Reading and writing a file: file_read and file_write with their vop_,   *)
(* at the entry's position, which moves by what was transferred.           *)
file_rw(s, p, d, len, write) ==
  LET e == s.f[p][d]
      io(k) == IF Running(k) THEN sfs_io_nolock(k, e.node, e.pos, len, write)
               ELSE Ok(k, [alen |-> 0, data |-> <<>>])
      result(t, r) == [s |-> IF Up(t) THEN fd_array_release(t, p, d) ELSE t,
                       ret |-> r.ret, alen |-> r.val.alen, data |-> r.val.data]
  IN  With(fd_array_acquire(s, p, d), LAMBDA a :
        With(io(vop(a.k, e.node, IF write THEN "write" ELSE "read")), LAMBDA r :
          result([k |-> r.k, f |-> [a.f EXCEPT ![p][d].pos = @ + r.val.alen]], r)))

(* In pieces of the kernel's buffer until all is done, nothing more comes  *)
(* or the copy to the user fails, when the position has moved already.     *)
Pieces(s, p, d, len, ok, write) ==
  LET next(r, x) == [s |-> x.s, over |-> ~ok \/ x.ret # "OK" \/ x.alen = 0 \/ ~Up(x.s),
                     data |-> IF ok THEN r.data \o x.data ELSE r.data, done |-> r.done + x.alen]
      piece(r, i) == IF r.over \/ r.done = len THEN r
                     ELSE next(r, file_rw(r.s, p, d, Min({IOBUF, len - r.done}), write))
  IN  FoldLeft(piece, [s |-> s, over |-> FALSE, data |-> <<>>, done |-> 0], [i \in 1..len |-> i])

sysfile_read(s, p, d, len, ok) == Pieces(s, p, d, len, ok, FALSE)
sysfile_write(s, p, d, len, ok) == IF ok THEN Pieces(s, p, d, len, TRUE, TRUE).s ELSE s

vop_tryseek(k, n, pos) ==
  Then(Ok(vop(k, n, "tryseek"), 0), LAMBDA c :
    IF n \in Devices THEN Err(c.k, "INVAL") ELSE sfs_tryseek(c.k, n, pos))

file_seek(s, p, d, off, whence) ==
  LET e   == s.f[p][d]
      pos == off + CASE whence = "SET" -> 0
                     [] whence = "CUR" -> e.pos
                     [] whence = "END" -> s.k.node[e.node].din.size
  IN  With(fd_array_acquire(s, p, d), LAMBDA a :
        With(vop_tryseek(a.k, e.node, pos), LAMBDA v :
          With([k |-> v.k, f |-> IF v.ret = "OK" THEN [a.f EXCEPT ![p][d].pos = pos] ELSE a.f], LAMBDA t :
            IF Up(t) THEN fd_array_release(t, p, d) ELSE t)))

(* The calls that ask one operation of the inode: fstat, fsync and         *)
(* getdirentry.                                                            *)
Ask(s, p, d, op) ==
  LET n == s.f[p][d].node
  IN  With(fd_array_acquire(s, p, d), LAMBDA a : With(vop(a.k, n, op), LAMBDA c :
        IF ~Running(c) THEN [a EXCEPT !.k = c]
        ELSE fd_array_release([a EXCEPT !.k = IF op = "fsync" THEN sfs_fsync(c, n) ELSE c], p, d)))

-----------------------------------------------------------------------------
(* Nothing but its reason matters of a kernel that has stopped. *)
Stopped(k) == [free |-> {}, unused |-> 0, sdirty |-> FALSE, node |-> <<>>,
               panic |-> k.panic, lost |-> k.lost]
NoFiles == [p \in All |-> [d \in Fds |-> NoFile]]

Becomes(x) ==
  \E s \in {x} :
    /\ fs' = IF Up(s) THEN s.k ELSE Stopped(s.k)
    /\ files' = IF Up(s) THEN s.f ELSE NoFiles

Live == Running(fs) /\ stage # "done"
Kept == UNCHANGED <<img, load, real, bootfs>>

(* What mksfs leaves and the kernel finds when fs_init and proc_init are   *)
(* done.                                                                   *)
Init ==
  /\ load \in Workloads
  /\ LET made == PackedTree(load.host, load.nblocks)
     IN  made.ok /\ img = close_sfs(made) /\ real = made.real
  /\ fs = IF sfs_do_mount.ret = "OK" THEN sfs_do_mount.k ELSE Panic(sfs_do_mount.k, "mount")
  /\ stage = "boot"
  /\ proc = [p \in PROCS |-> "free"]
  /\ files = NoFiles
  /\ pwd = [p \in All |-> 0]
  /\ bootfs = 0
  /\ reading = [p \in PROCS |-> NO_FD]
  /\ leak = [n \in {} |-> 0]

(* init_main: vfs_set_bootfs("disk0:"). *)
Boot ==
  /\ Live /\ stage = "boot"
  /\ \E r \in {vfs_set_bootfs(fs, INITPROC, "disk0")} :
       /\ fs' = IF r.ret = "OK" THEN r.k ELSE Panic(r.k, "bootfs")
       /\ pwd' = [pwd EXCEPT ![INITPROC] = r.val]
       /\ bootfs' = r.val
  /\ stage' = "main"
  /\ UNCHANGED <<img, load, real, proc, files, reading, leak>>

(* do_fork: copy_files gives the child a copy of the table. *)
Copied(p, q) ==
  /\ Becomes(dup_files(Now, q, p))
  /\ pwd' = [pwd EXCEPT ![q] = pwd[p]]
  /\ UNCHANGED <<reading, leak>> /\ Kept

user_main(q) ==
  /\ Live /\ stage = "main" /\ proc[q] = "free"
  /\ stage' = "run"
  /\ proc' = [proc EXCEPT ![q] = "new"]
  /\ Copied(INITPROC, q)

do_fork(p, q) ==
  /\ Live /\ proc[p] = "run" /\ proc[q] = "free"
  /\ proc' = [proc EXCEPT ![q] = "run"]
  /\ UNCHANGED stage
  /\ Copied(p, q)

(* do_exit: put_files closes everything. *)
Exited(s, p) ==
  /\ Becomes(files_destroy(s, p))
  /\ pwd' = [pwd EXCEPT ![p] = 0]
  /\ proc' = [proc EXCEPT ![p] = "free"]

do_exit(p) ==
  /\ Live /\ proc[p] = "run"
  /\ Exited(Now, p)
  /\ UNCHANGED <<stage, reading, leak>> /\ Kept

(* do_execve: the descriptors from 2 on are closed and the program is      *)
(* opened; a process that cannot open it exits.  load_icode reads the      *)
(* program through the descriptor, which stays open: where it seeks, where *)
(* the position ends, and whether one of its assertions fails, depends on  *)
(* the program headers in the file.  A seek past the end grows the file; a *)
(* segment without data in the file reads nothing there and goes on.       *)
do_execve(p, path, mem) ==
  /\ Live /\ proc[p] \in {"run", "new"}
  /\ UNCHANGED <<stage, reading, leak>> /\ Kept
  /\ \E o \in {file_open(files_closeall(Now, p), p, path, Plain("R"), mem)} :
       \/ o.ret # "OK" /\ Exited(o.s, p)
       \/ o.ret = "OK" /\ ~Up(o.s) /\ Becomes(o.s) /\ UNCHANGED <<pwd, proc>>
       \/ /\ o.ret = "OK" /\ Up(o.s)
          /\ UNCHANGED pwd
          /\ proc' = [proc EXCEPT ![p] = "run"]
          /\ \E off \in {0} \cup load.offsets :
               LET sought == vop_tryseek(vop(o.s.k, o.node, "read"), o.node, off)
               IN  \E g \in {sought} :
                     \/ /\ g.ret = "OK" /\ Running(g.k)
                        /\ \E end \in 0..g.k.node[o.node].din.size :
                             Becomes([k |-> g.k, f |-> [o.s.f EXCEPT ![p][o.fd].pos = end]])
                     \/ Becomes([o.s EXCEPT !.k = Panic(g.k, "elf")])

sys_open(p, path, fl, mem) ==
  /\ Live /\ proc[p] = "run"
  /\ "EXCL" \in fl.flags => SumFunction(leak) < load.leaks
  /\ \E o \in {file_open(Now, p, path, fl, mem)} :
       /\ o.fd < load.fds
       /\ Becomes(o.s)
       /\ leak' = IF o.ret = "EXISTS"
                    THEN (o.node :> (IF o.node \in DOMAIN leak THEN leak[o.node] + 1 ELSE 1)) @@ leak
                    ELSE leak
  /\ UNCHANGED <<stage, proc, pwd, reading>> /\ Kept

(* A system call of p on the open descriptor d that leaves the rest alone. *)
Call(p, d, s) ==
  /\ Live /\ proc[p] = "run" /\ IsOpen(p, d)
  /\ Becomes(s)
  /\ UNCHANGED <<stage, proc, pwd, reading, leak>> /\ Kept

sys_close(p, d) == Call(p, d, fd_array_close(Now, p, d))

(* Only stdin is a readable device, only stdout a writable one. *)
sys_read(p, d, len, ok) ==
  /\ files[p][d].readable /\ files[p][d].node # STDIN
  /\ Call(p, d, sysfile_read(Now, p, d, len, ok).s)

sys_write(p, d, len, ok) ==
  /\ files[p][d].writable /\ files[p][d].node # STDOUT
  /\ Call(p, d, sysfile_write(Now, p, d, len, ok))

WriteStdout(p, d, len) ==
  /\ files[p][d].node = STDOUT /\ files[p][d].pos + len <= load.maxpos
  /\ Call(p, d, [Now EXCEPT !.f[p][d].pos = @ + len])

(* A read of stdin sleeps with the entry acquired until characters come or *)
(* the process is killed.                                                  *)
ReadStdin(p, d) ==
  /\ Live /\ proc[p] = "run" /\ IsOpen(p, d) /\ files[p][d].node = STDIN
  /\ Becomes(fd_array_acquire(Now, p, d))
  /\ proc' = [proc EXCEPT ![p] = "read"]
  /\ reading' = [reading EXCEPT ![p] = d]
  /\ UNCHANGED <<stage, pwd, leak>> /\ Kept

StdinRead(p, got) ==
  LET d == reading[p]
  IN  /\ Live /\ proc[p] = "read" /\ files[p][d].pos + got <= load.maxpos
      /\ Becomes(fd_array_release([Now EXCEPT !.f[p][d].pos = @ + got], p, d))
      /\ proc' = [proc EXCEPT ![p] = "run"]
      /\ reading' = [reading EXCEPT ![p] = NO_FD]
      /\ UNCHANGED <<stage, pwd, leak>> /\ Kept

sys_seek(p, d, off, whence) == Call(p, d, file_seek(Now, p, d, off, whence))
sys_fstat(p, d) == Call(p, d, Ask(Now, p, d, "fstat"))
sys_fsync(p, d) == Call(p, d, Ask(Now, p, d, "fsync"))
sys_getdirentry(p, d) == Call(p, d, Ask(Now, p, d, "getdirentry"))

sys_getcwd(p, room, mem) ==
  /\ Live /\ proc[p] = "run"
  /\ Becomes([Now EXCEPT !.k = vfs_getcwd(@, p, room, mem).k])
  /\ UNCHANGED <<stage, proc, pwd, reading, leak>> /\ Kept

sys_dup(p, d, e) ==
  LET a == fd_array_alloc(Now, p, e)
  IN  /\ a.ret = "OK" /\ a.fd < load.fds
      /\ Call(p, d, IF Up(a.s) THEN fd_array_dup(a.s, p, a.fd, p, d) ELSE a.s)

(* The last process is gone: init_main syncs the file system. *)
fs_cleanup ==
  /\ Live /\ stage = "run" /\ \A p \in PROCS : proc[p] = "free"
  /\ fs' = vfs_cleanup(fs)
  /\ stage' = "done"
  /\ UNCHANGED <<proc, files, pwd, reading, leak>> /\ Kept

Next ==
  \/ Boot
  \/ \E q \in load.procs : user_main(q)
  \/ \E p, q \in load.procs : do_fork(p, q)
  \/ \E p \in load.procs : do_exit(p)
  \/ \E p \in load.procs, path \in load.programs, mem \in BOOLEAN : do_execve(p, path, mem)
  \/ \E p \in load.procs, o \in load.opens, mem \in BOOLEAN : sys_open(p, o[1], o[2], mem)
  \/ \E p \in load.procs, d \in Fds : sys_close(p, d)
  \/ \E p \in load.procs, d \in Fds, len \in load.lengths, ok \in BOOLEAN : sys_read(p, d, len, ok)
  \/ \E p \in load.procs, d \in Fds, len \in load.lengths, ok \in BOOLEAN : sys_write(p, d, len, ok)
  \/ \E p \in load.procs, d \in Fds, len \in load.lengths : WriteStdout(p, d, len)
  \/ \E p \in load.procs, d \in Fds : ReadStdin(p, d)
  \/ \E p \in load.procs, got \in 0..1 : StdinRead(p, got)
  \/ \E p \in load.procs, d \in Fds, off \in load.offsets, whence \in {"SET", "CUR", "END"} :
       sys_seek(p, d, off, whence)
  \/ \E p \in load.procs, d \in Fds : sys_fstat(p, d)
  \/ \E p \in load.procs, d \in Fds : sys_fsync(p, d)
  \/ \E p \in load.procs, d \in Fds : sys_getdirentry(p, d)
  \/ \E p \in load.procs, room \in load.lengths, mem \in BOOLEAN : sys_getcwd(p, 6 + room, mem)
  \/ \E p \in load.procs, d \in Fds, e \in Fds \cup {NO_FD} : sys_dup(p, d, e)
  \/ fs_cleanup

Spec == Init /\ [][Next]_vars

-----------------------------------------------------------------------------
Users(n) ==
  Cardinality({u \in All \X Fds : files[u[1]][u[2]].status = "OPENED" /\ files[u[1]][u[2]].node = n})
One(b) == IF b THEN 1 ELSE 0

(* The counts of an inode are the uses there are of it: an open for every  *)
(* open entry of every process, and a reference for each of them, for each *)
(* working directory, for the boot file system and for the device list,    *)
(* beside the references failed exclusive opens left behind; an inode      *)
(* without references is not in memory and no table names one that is not. *)
(* (inode_ref_inc/dec and inode_open_inc/dec over open, close, dup, fork,  *)
(* exec and exit.)                                                         *)
RefsExact ==
  Running(fs) =>
    /\ \A n \in DOMAIN fs.node :
         LET dirs == Cardinality({p \in All : pwd[p] = n})
         IN  /\ fs.node[n].open = Users(n)
             /\ fs.node[n].ref = Users(n) + dirs + One(bootfs = n) + One(n \in Devices)
                                 + (IF n \in DOMAIN leak THEN leak[n] ELSE 0)
             /\ fs.node[n].ref > 0
             /\ n \notin Devices => fs.node[n].rc = 1
    /\ \A p \in All, d \in Fds : files[p][d].status = "OPENED" => files[p][d].node \in DOMAIN fs.node

(* Between system calls a file entry is free or open, with one user, or    *)
(* two while a read of stdin sleeps on it.  (fd_array_* and the acquire    *)
(* and release of file.c.)                                                 *)
EntriesSettled ==
  Running(fs) =>
    \A p \in All, d \in Fds :
      \/ files[p][d] = NoFile
      \/ /\ files[p][d].status = "OPENED"
         /\ files[p][d].count = 1 + One(p \in PROCS /\ reading[p] = d)

(* The assertions on file entries (file.c), on reference, open and reclaim *)
(* counts (inode.c, sfs_inode.c:847), on the mount, the roots, the freemap *)
(* and the number of free blocks never fail; the one on the size of a      *)
(* count fails only when failed exclusive opens have left behind what all  *)
(* entries and working directories together could not; and those on the    *)
(* use of a block (sfs_block_inuse) only when the device has dropped an    *)
(* update of a block map.  The assertions a program can make fail by what  *)
(* it asks for are not among them: sfs_inode.c:46, :356, :442, :609-626,   *)
(* :930, operations an inode does not have, and those of load_icode.       *)
CountsNeverPanic ==
  /\ fs.panic \notin {"fd", "refs", "open", "kill", "reclaim", "mount", "freemap", "root",
                      "bootfs", "bitmap", "nlinks", "unused", "index"}
  /\ fs.panic = "counts" =>
       \E n \in DOMAIN leak :
         leak[n] + Cardinality(All \X Fds) + Cardinality(All) + 2 >= MAXINODE
  /\ fs.panic \in {"inuse", "block_free"} => fs.lost

(* The blocks of inode n as its map in memory, or else on the image, has   *)
(* them.                                                                   *)
BlocksOf(n) ==
  LET din == IF n \in DOMAIN fs.node THEN fs.node[n].din ELSE img.inode[n]
      ind == IF din.indirect = 0 THEN <<>>
             ELSE <<din.indirect>> \o SubSeq(Words(din.indirect), 1, din.blocks - NDIRECT)
  IN  SelectSeq(<<n>> \o din.direct \o ind, LAMBDA b : b # 0)

(* The superblock's count is the number of free blocks and, as long as no  *)
(* update of a block map was dropped, every block is free or has exactly   *)
(* one owner: superblock, freemap, or one place of one inode's map.        *)
(* (sfs_block_alloc/free, the bmap functions, and mksfs before them.)      *)
BlocksAccounted ==
  Running(fs) =>
    LET own  == [n \in DOMAIN img.inode |-> BlocksOf(n)]
        all  == UNION {ToSet(own[n]) : n \in DOMAIN own}
        used == (0..(img.blocks - 1)) \ fs.free
    IN  /\ fs.unused = Cardinality(fs.free)
        /\ fs.lost \/ /\ all = used \ {b \in used : b = SUPER \/
                                         (b >= FREEMAP /\ b < create_sfs(load.nblocks).next)}
                      /\ Cardinality(all) = FoldFunction(LAMBDA q, n : Len(q) + n, 0, own)

(* A read of an open file whose inode is as mksfs wrote it returns the     *)
(* words of the host's file from the entry's position on, whatever length  *)
(* is asked; when it cannot, an update of the map was dropped or the       *)
(* inode's count has reached its limit.  (sysfile_read, file_read, sfs_io, *)
(* the block map, and open_file and append_block of mksfs.)                *)
ReadsHostFile ==
  Running(fs) =>
    \A p \in PROCS, d \in Fds :
      LET n    == files[p][d].node
          data == load.host[real[n]].data
          pos  == files[p][d].pos
      IN  (files[p][d].readable /\ n \notin Devices /\ fs.node[n].din = img.inode[n]
            /\ fs.node[n].kind = "file") =>
            \A len \in 1..(Len(data) + 1) :
              LET r == sysfile_read(Now, p, d, len, TRUE)
              IN  IF Up(r.s) THEN r.data = SubSeq(data, pos + 1, Min({pos + len, Len(data)}))
                  ELSE fs.lost \/ fs.node[n].ref >= MAXINODE

(* An open directory lists ".", ".." and the names of the host's directory *)
(* in their order, as far as mksfs has written them (OnDiskName); a name   *)
(* on the list is found again as the one inode made for the first of the   *)
(* host's files that has it; and the directory's own path leads to it in   *)
(* the host's tree, with every count as it was before.  (sfs_getdirentry,  *)
(* sfs_lookup_once, sfs_namefile; open_dir, add_entry and the hard links   *)
(* of mksfs.)                                                              *)
ListsHostDirectory ==
  Running(fs) =>
    \A p \in PROCS, d \in Fds :
      LET n    == files[p][d].node
          ents == load.host[real[n]].ents
          names == [i \in 1..Len(ents) |-> OnDiskName(ents[i][1])]
          listed == <<Dot, DotDot>> \o names
          first(i) == Min({j \in 1..i : names[j] = names[i]})
          path == sfs_namefile(fs, n, 3 + MAXNAME * Cardinality(DOMAIN real), TRUE)
          child(r, name) == {e[2] : e \in {x \in ToSet(load.host[r].ents) : OnDiskName(x[1]) = name}}
          walk(R, name) == UNION {child(r, name) : r \in R}
      IN  (IsOpen(p, d) /\ fs.node[n].kind = "dir") =>
            /\ \A i \in 1..Len(listed) :
                 sfs_getdirentry(fs, n, (i - 1) * DentrySize) = Ok(fs, listed[i])
            /\ sfs_getdirentry(fs, n, Len(listed) * DentrySize).ret = "NOENT"
            /\ \A i \in 1..Len(ents) :
                 LET f == sfs_dirent_search_nolock(fs, n, names[i])
                 IN  f.ret = "OK" /\ {m \in DOMAIN real : real[m] = ents[first(i)][2]} = {f.val.ino}
            /\ path.k = fs /\ path.ret = "OK" /\ real[n] \in FoldLeft(walk, {0}, path.names)

(* What the limit on names that mksfs enforces (mksfs.c:483) promises, and *)
(* the image does not keep: every name it accepts is listed as it is.  The *)
(* last INOBYTES - 1 characters of the longest names are cut.              *)
ListsEveryName ==
  Running(fs) =>
    \A p \in PROCS, d \in Fds :
      (IsOpen(p, d) /\ fs.node[files[p][d].node].kind = "dir") =>
        LET ents == load.host[real[files[p][d].node]].ents
        IN  \A i \in 1..Len(ents) :
              sfs_getdirentry(fs, files[p][d].node, (i + 1) * DentrySize) = Ok(fs, ents[i][1])
=============================================================================
