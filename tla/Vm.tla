-------------------------------- MODULE Vm ---------------------------------
(***************************************************************************)
(* The memory of the processes: what fork, exec, exit and wait allocate    *)
(* and free (kern/process/proc.c), from the address spaces of module Mm    *)
(* down to the kernel's heap and its frames, after the kernel's start      *)
(* (module Startup).                                                       *)
(*                                                                         *)
(* The kernel is not preempted: a system call or a page fault is one step, *)
(* but for a read of stdin, which sleeps with its buffer allocated.  All   *)
(* memory is asked for through alloc_page, alloc_pages and kmalloc; after  *)
(* start-up only a request for more than one frame can return NULL, so the *)
(* branches for a NULL page or a NULL small block are never taken and are  *)
(* left out.  User addresses are page numbers 0 .. VPAGES - 1 from         *)
(* USERBASE to USERTOP.                                                    *)
(***************************************************************************)
EXTENDS Startup

CONSTANTS MemSizes,    \* numbers of frames the machine may have
          User,        \* places for user processes
          INITPROC,    \* initproc
          IDLEPROC,    \* idleproc
          PGWORDS,     \* words of a page
          USTACKPAGE,  \* pages of the user stack's vma
          STACKLOAD,   \* pages load_icode gives to it at once
          Program,     \* the files: [size, segs], the size in words and the segments
                       \* [va, off, filesz, memsz, flags] its headers describe
          Missing,     \* a path that names no file
          Args,        \* the arguments exec is called with: [name, argv, str], the
                       \* strings as copy_string has them
          Touched(_),  \* the pages user programs touch in a memory of that size
          MAXFORKS,    \* bound on the forks
          MAXEXECS     \* bound on the programs a process executes

KSTACKPAGE == 2

VARIABLES mem,    \* the frames and the heap; inode, the inodes in memory; made, the
                  \* calls of alloc_proc; loading, the file load_icode reads
          proc    \* the processes

vars == <<mem, proc>>

-----------------------------------------------------------------------------
(* load_icode.  A segment is read piece by piece: its first page when it   *)
(* starts inside one, whole pages, the rest of the file's part, and zeros  *)
(* up to memsz.  new: the piece gets a page of its own; otherwise it goes  *)
(* to the page that was allocated last.                                    *)
Piece(la, len, new, file) == [la |-> la, len |-> len, new |-> new, file |-> file]

(* Seeded fault: the first piece is always the rest of the page. *)
HeadLenWhole(g) == PGWORDS - (g.va % PGWORDS)

HeadLen(g) == IF g.va \div PGWORDS = (g.va + g.filesz) \div PGWORDS
                THEN g.filesz ELSE PGWORDS - (g.va % PGWORDS)

FirstPiece(g) == IF g.va % PGWORDS > 0 THEN <<Piece(g.va, HeadLen(g), TRUE, TRUE)>> ELSE <<>>
WholePages(g, la) ==
  LET end == ((g.va + g.filesz) \div PGWORDS) * PGWORDS
  IN  IF la >= end THEN <<>>
      ELSE [i \in 1..((end - la) \div PGWORDS) |-> Piece(la + (i - 1) * PGWORDS, PGWORDS, TRUE, TRUE)]
LastPiece(g, la) ==
  IF la < g.va + g.filesz THEN <<Piece(la, (g.va + g.filesz) % PGWORDS, TRUE, TRUE)>> ELSE <<>>
ZeroPieces(g, la) ==
  LET end  == g.va + g.memsz
      from == la \div PGWORDS
      at(i) == IF i = 1 THEN la ELSE (from + i - 1) * PGWORDS
      len(a) == PGWORDS - (a % PGWORDS)
                - (IF a \div PGWORDS = end \div PGWORDS THEN PGWORDS - (end % PGWORDS) ELSE 0)
  IN  IF la >= end THEN <<>>
      ELSE [i \in 1..(((end - 1) \div PGWORDS) - from + 1) |->
              Piece(at(i), len(at(i)), at(i) % PGWORDS = 0, FALSE)]

(* The pieces so far, and the next ones from where they end. *)
Behind(g, pieces, F(_, _)) ==
  pieces \o F(g, IF pieces = <<>> THEN g.va ELSE Last(pieces).la + Last(pieces).len)

Pieces(g) == Behind(g, Behind(g, Behind(g, FirstPiece(g), WholePages), LastPiece), ZeroPieces)

(* Every caller asserts that all could be read.  A read of nothing takes   *)
(* no buffer.  (What a seek past the end does to the file is in Files.)    *)
load_icode_read(k, len, off) ==
  IF len = 0 THEN Ok(k, 0)
  ELSE Then(Scratch(k, UNITS), LAMBDA b :
         IF off + len <= Program[k.loading].size THEN b ELSE Fatal(b.k, "load_icode"))

LoadPiece(k, mm, g, q) ==
  Then(IF q.new THEN pgdir_alloc_page(k, mm, q.la \div PGWORDS) ELSE Ok(k, mm), LAMBDA p :
    IF q.file THEN Then(load_icode_read(p.k, q.len, g.off + q.la - g.va), LAMBDA b : Ok(b.k, p.val))
    ELSE p)

VmaOf(g) == [lo |-> g.va \div PGWORDS, hi |-> (g.va + g.memsz + PGWORDS - 1) \div PGWORDS,
             flags |-> g.flags, obj |-> 0]

Checked(r) == IF r.ret = "OK" THEN r ELSE Fatal(r.k, "load_icode")

(* The program header i, in the word behind the ELF header's and those of  *)
(* the headers before it, and its segment.                                 *)
LoadSegment(k, mm, i) ==
  LET g == Program[k.loading].segs[i]
  IN  Then(load_icode_read(k, 1, i), LAMBDA b : Then(Checked(mm_map(b.k, mm, VmaOf(g))), LAMBDA m :
        IF g.memsz < g.filesz THEN Fatal(m.k, "load_icode")
        ELSE Each(m, Pieces(g), LAMBDA r, q : LoadPiece(r.k, r.val, g, q))))

Stack == [lo |-> VPAGES - USTACKPAGE, hi |-> VPAGES, flags |-> {"R", "W", "STACK"}, obj |-> 0]

(* The program headers are read from the last to the first. *)
load_icode(k, path) ==
  LET headers == Reverse([i \in DOMAIN Program[path].segs |-> i])
  IN  Then(mm_create([k EXCEPT !.loading = path]), LAMBDA c : Then(setup_pgdir(c.k, c.val), LAMBDA d :
      Then(load_icode_read(d.k, 1, 0), LAMBDA h :
      Then(Each(Ok(h.k, d.val), headers, LAMBDA r, i : LoadSegment(r.k, r.val, i)), LAMBDA m :
      Then(Checked(mm_map(m.k, m.val, Stack)), LAMBDA t :
      Then(Each(t, [i \in 1..STACKLOAD |-> VPAGES - i], LAMBDA r, v :
             pgdir_alloc_page(r.k, r.val, v)), LAMBDA u :
        Ok([u.k EXCEPT !.loading = Missing], u.val)))))))

-----------------------------------------------------------------------------
(* Processes: [st, parent, obj, kstack, files, mm, path, buf].  The state  *)
(* st is "none", "new" (user_main before its exec), "run", "read" (asleep  *)
(* in a read of stdin, with its buffer) or "zombie"; path is the program   *)
(* file, which stays open until the next exec or the exit.                 *)
NoProc == [st |-> "none", parent |-> INITPROC, obj |-> 0, kstack |-> 0, files |-> 0,
           mm |-> NoMm, path |-> Missing, buf |-> 0, execs |-> 0]

files_create(k) == kmalloc(k, UNITS)

(* The inode of a program file is in memory while a process has it open.   *)
OpenInode(k, path) ==
  IF k.inode[path].refs > 0 THEN Ok([k EXCEPT !.inode[path].refs = @ + 1], path)
  ELSE Then(kmalloc(k, Size.din), LAMBDA d : Then(kmalloc(d.k, Size.inode), LAMBDA n :
         Ok([n.k EXCEPT !.inode[path] = [refs |-> 1, din |-> d.val, node |-> n.val]], path)))

CloseInode(k, path) ==
  IF path = Missing THEN k
  ELSE IF k.inode[path].refs > 1 THEN [k EXCEPT !.inode[path].refs = @ - 1]
  ELSE [kfree(kfree(k, k.inode[path].din), k.inode[path].node) EXCEPT
          !.inode[path] = [refs |-> 0, din |-> 0, node |-> 0]]

(* copy_path, the search of the directory with its entry buffer, the       *)
(* inode, and the path's buffer again.                                     *)
sysfile_open(k, mm, path, s) ==
  Then(kmalloc(k, UNITS), LAMBDA b : With(copy_string(b.k, mm, s), LAMBDA c :
    IF c.ret # "OK" THEN [c EXCEPT !.k = kfree(@, b.val)]
    ELSE Then(Scratch(c.k, Size.entry), LAMBDA e :
           With(IF path = Missing THEN Err(e.k, "NOENT") ELSE OpenInode(e.k, path), LAMBDA o :
             [ret |-> o.ret, val |-> c.val, k |-> IF Running(o.k) THEN kfree(o.k, b.val) ELSE o.k]))))

(* alloc_proc makes a files_struct that copy_files replaces. *)
alloc_proc(k) ==
  Then(kmalloc([k EXCEPT !.made = @ + 1], Size.proc), LAMBDA b :
    Then(files_create(b.k), LAMBDA f :
      Ok(f.k, [NoProc EXCEPT !.st = "run", !.obj = b.val, !.files = f.val])))

setup_kstack(k) == alloc_pages(k, KSTACKPAGE)

copy_files(k, child, path) ==
  Then(files_create(k), LAMBDA f :
    Ok(IF path = Missing THEN f.k ELSE [f.k EXCEPT !.inode[path].refs = @ + 1],
       [child EXCEPT !.files = f.val, !.path = path]))

(* The child of the process par, or NO_MEM. *)
Forked(k, par) ==
  Then(alloc_proc(k), LAMBDA a :
    With(setup_kstack(a.k), LAMBDA s :
      IF s.ret # "OK" THEN Err(kfree(s.k, a.val.obj), s.ret)
      ELSE Then(copy_mm(s.k, par.mm), LAMBDA m :
             copy_files(m.k, [a.val EXCEPT !.kstack = s.val, !.mm = m.val], par.path))))

put_files(k, p) == kfree(CloseInode(k, p.path), p.files)

Exited(k, p) ==
  Then(put_mm(k, p.mm), LAMBDA m :
    Ok(put_files(m.k, p), [p EXCEPT !.st = "zombie", !.mm = NoMm, !.files = 0, !.path = Missing,
                           !.execs = 0]))

(* copy_kargv: the strings are copied into buffers of a page; when one     *)
(* cannot be, put_kargv frees those before it.  val is [mm, bufs].         *)
put_kargv(k, bufs) == FoldRight(LAMBDA b, j : kfree(j, b), bufs, k)

(* Seeded fault: the buffer of the string that was refused is kept. *)
CopyArgKept(k, val, s) ==
  Then(kmalloc(k, UNITS), LAMBDA b : With(copy_string(b.k, val.mm, s), LAMBDA c :
    IF c.ret = "OK" THEN Ok(c.k, [mm |-> c.val, bufs |-> Append(val.bufs, b.val)])
    ELSE Refused(put_kargv(c.k, val.bufs), val)))

CopyArg(k, val, s) ==
  Then(kmalloc(k, UNITS), LAMBDA b : With(copy_string(b.k, val.mm, s), LAMBDA c :
    IF c.ret = "OK" THEN Ok(c.k, [mm |-> c.val, bufs |-> Append(val.bufs, b.val)])
    ELSE Refused(put_kargv(kfree(c.k, b.val), val.bufs), val)))

copy_kargv(k, mm, args) ==
  IF ~user_mem_check(mm, args.argv, 1, FALSE) THEN Refused(k, [mm |-> mm, bufs |-> <<>>])
  ELSE Then(Touch(k, mm, args.argv, FALSE), LAMBDA t :
         Each(Ok(t.k, [mm |-> t.val, bufs |-> <<>>]), args.str, LAMBDA r, s : CopyArg(r.k, r.val, s)))

(* The old memory goes only when the new program file is open; without it  *)
(* the process exits.                                                      *)
Execute(k, p, path, args, bufs) ==
  With(sysfile_open(CloseInode(k, p.path), p.mm, path, args.str[1]), LAMBDA o :
    IF ~Running(o.k) THEN o
    ELSE IF o.ret # "OK"
      THEN Exited(put_kargv(o.k, bufs), [p EXCEPT !.path = Missing, !.mm = o.val])
      ELSE Then(put_mm(o.k, o.val), LAMBDA u : Then(load_icode(u.k, path), LAMBDA m :
             Ok(put_kargv(m.k, bufs), [p EXCEPT !.st = "run", !.mm = m.val, !.path = path,
                                                !.execs = @ + 1]))))

Exec(k, p, path, args) ==
  With(copy_string(k, p.mm, args.name), LAMBDA n :
    IF n.ret # "OK" \/ ~Running(n.k) THEN [n EXCEPT !.val = p]
    ELSE With(copy_kargv(n.k, n.val, args), LAMBDA a :
           IF ~Running(a.k) THEN a
           ELSE IF a.ret # "OK" THEN Ok(a.k, [p EXCEPT !.mm = a.val.mm])
           ELSE Execute(a.k, [p EXCEPT !.mm = a.val.mm], path, args, a.val.bufs)))

-----------------------------------------------------------------------------
(* proc_init: idleproc, whose first files_struct is replaced too, and      *)
(* init_main's thread.                                                     *)
proc_init(k) ==
  Then(alloc_proc([made |-> 0, loading |-> Missing,
                   inode |-> [f \in DOMAIN Program |-> [refs |-> 0, din |-> 0, node |-> 0]]]
                  @@ k), LAMBDA i :
    Then(files_create(i.k), LAMBDA f :
      Then(Forked(f.k, NoProc), LAMBDA t :
        Ok(t.k, [q \in User |-> NoProc] @@ (INITPROC :> t.val)
                @@ (IDLEPROC :> [i.val EXCEPT !.files = f.val])))))

kern_init(n) ==
  Then(pmm_init(n), LAMBDA p : Then(vmm_init(p.k), LAMBDA v : Then(proc_init(v.k), LAMBDA i :
    Then(swap_init(i.k), LAMBDA s : Ok(s.k, i.val)))))

Started == [n \in MemSizes |-> kern_init(n)]

Init == \E n \in MemSizes :
          /\ mem = Started[n].k
          /\ proc = IF Running(mem) THEN Started[n].val ELSE [q \in User |-> NoProc]

(* A step ends in k and the processes ps.  Of a kernel that has stopped    *)
(* only the reason and the free frames are kept.                           *)
Becomes(k, ps) ==
  IF Running(k) THEN mem' = k /\ proc' = ps
  ELSE /\ mem' = [k EXCEPT !.cells = <<>>, !.slobfree = ARENA, !.head = <<>>, !.big = <<>>,
                           !.made = 0, !.ref = <<>>,
                           !.inode = [f \in DOMAIN Program |-> [refs |-> 0, din |-> 0, node |-> 0]]]
       /\ proc' = [q \in DOMAIN proc |-> NoProc]

Live(p) == Running(mem) /\ proc[p].st = "run"

user_main(u) ==
  /\ Running(mem) /\ mem.made = 2
  /\ proc[u].st = "none"
  /\ \E r \in {Forked(mem, NoProc)} :
       IF r.ret = "OK" THEN Becomes(r.k, [proc EXCEPT ![u] = [r.val EXCEPT !.st = "new"]])
       ELSE Becomes(Panic(r.k, "user_main"), proc)

do_fork(p, u) ==
  /\ Live(p) /\ mem.made < MAXFORKS + 2
  /\ proc[u].st = "none"
  /\ \E r \in {Forked(mem, proc[p])} :
       IF r.ret = "OK" THEN Becomes(r.k, [proc EXCEPT ![u] = [r.val EXCEPT !.parent = p]])
       ELSE Becomes(r.k, proc)

Orphans(ps, p) == [q \in DOMAIN ps |-> IF q # p /\ ps[q].parent = p /\ ps[q].st # "none"
                                         THEN [ps[q] EXCEPT !.parent = INITPROC] ELSE ps[q]]

(* p goes on as r.val, or has exited and leaves its children to initproc.  *)
Continue(p, r) ==
  Becomes(r.k, IF Running(r.k) /\ r.val.st = "zombie"
                 THEN Orphans([proc EXCEPT ![p] = r.val], p) ELSE [proc EXCEPT ![p] = r.val])

(* user_main passes strings that end. *)
do_execve(p, path, args) ==
  /\ Running(mem) /\ proc[p].st \in {"new", "run"} /\ proc[p].execs < MAXEXECS
  /\ proc[p].st = "new" => \A i \in DOMAIN args.str : args.str[i].ends
  /\ \E r \in {Exec(mem, proc[p], path, args)} : Continue(p, r)

do_exit(p) == Live(p) /\ \E r \in {Exited(mem, proc[p])} : Continue(p, r)

put_kstack(k, p) == free_pages(k, p.kstack, KSTACKPAGE)

(* The exit code goes to the page v, unless v is NULL as in init_main.     *)
NULL == -1
do_wait(p, c, v) ==
  /\ Running(mem) /\ (IF p = INITPROC THEN v = NULL ELSE Live(p))
  /\ v # NULL => user_mem_check(proc[p].mm, v, 1, TRUE)
  /\ proc[c].st = "zombie" /\ proc[c].parent = p
  /\ \E r \in {IF v = NULL THEN Ok(mem, proc[p].mm) ELSE Touch(mem, proc[p].mm, v, TRUE)} :
       Becomes(IF Running(r.k) THEN kfree(put_kstack(r.k, proc[c]), proc[c].obj) ELSE r.k,
               [proc EXCEPT ![c] = NoProc, ![p].mm = r.val])

(* A fault that cannot be handled kills the process. *)
tlb_miss_handler(p, v, write) ==
  /\ Live(p) /\ proc[p].mm.pte[v] = 0
  /\ \E r \in {do_pgfault(mem, proc[p].mm, v, write)} :
       IF r.ret # "OK" THEN \E x \in {Exited(r.k, proc[p])} : Continue(p, x)
       ELSE Becomes(r.k, [proc EXCEPT ![p].mm = r.val])

(* A write, or a read that need not wait: the data goes through a buffer.  *)
Access(k, mm, v, write) ==
  IF user_mem_check(mm, v, 1, write) THEN Touch(k, mm, v, write) ELSE Ok(k, mm)

sysfile_write(p, v) ==
  /\ Live(p)
  /\ \E r \in {Then(kmalloc(mem, UNITS), LAMBDA b : Then(Access(b.k, proc[p].mm, v, FALSE), LAMBDA t :
                 Ok(kfree(t.k, b.val), t.val)))} :
       Becomes(r.k, [proc EXCEPT ![p].mm = r.val])

(* A read of stdin sleeps with the buffer, and gets on when a character    *)
(* comes or the process is killed.                                         *)
sysfile_read(p) ==
  /\ Live(p)
  /\ \E r \in {kmalloc(mem, UNITS)} :
       Becomes(r.k, [proc EXCEPT ![p].st = "read", ![p].buf = r.val])

ReadReturns(p, v) ==
  /\ Running(mem) /\ proc[p].st = "read"
  /\ \E r \in {Access(mem, proc[p].mm, v, TRUE)} :
       Becomes(IF Running(r.k) THEN kfree(r.k, proc[p].buf) ELSE r.k,
               [proc EXCEPT ![p].st = "run", ![p].buf = 0, ![p].mm = r.val])

Next ==
  \/ \E u \in User : user_main(u)
  \/ \E p, u \in User : do_fork(p, u)
  \/ \E p \in User, path \in DOMAIN Program \cup {Missing}, args \in Args : do_execve(p, path, args)
  \/ \E p \in User : do_exit(p)
  \/ \E p \in User \cup {INITPROC}, c \in User, v \in Touched(mem.npage) \cup {NULL} : do_wait(p, c, v)
  \/ \E p \in User, v \in Touched(mem.npage), write \in BOOLEAN : tlb_miss_handler(p, v, write)
  \/ \E p \in User, v \in Touched(mem.npage) : sysfile_write(p, v)
  \/ \E p \in User : sysfile_read(p)
  \/ \E p \in User, v \in Touched(mem.npage) : ReadReturns(p, v)

Spec == Init /\ [][Next]_vars
-----------------------------------------------------------------------------
(* Properties. *)
Span(a, n) == a..(a + n - 1)
FreeFrames == UNION {Span(mem.list[i].base, mem.list[i].n) : i \in DOMAIN mem.list}

(* The cells of the free list but for arena, and the blocks in use.        *)
HeapParts == {<<mem.cells[i].a, mem.cells[i].u>> : i \in 2..Len(mem.cells)}
             \cup {<<a, mem.head[a]>> : a \in DOMAIN mem.head}
HeapFrames == {x \div UNITS : x \in UNION {Span(h[1], h[2]) : h \in HeapParts}}

(* Who has the frame f: the heap, a big block, a kernel stack, the         *)
(* kernel's page directory, or a page directory, a page table or a page of *)
(* an address space.                                                       *)
Owners(f, heap) ==
  {<<"heap">> : x \in {f} \cap heap}
  \cup {<<"big", i>> : i \in {j \in DOMAIN mem.big :
                           f * UNITS \in Span(mem.big[j].pages, UNITS * 2^mem.big[j].order)}}
  \cup {<<"kstack", p>> : p \in {q \in DOMAIN proc : proc[q].kstack # 0
                                                     /\ f \in Span(proc[q].kstack, KSTACKPAGE)}}
  \cup {<<"boot">> : x \in {f} \cap {mem.boot_pgdir}}
  \cup {<<"pgdir", p>> : p \in {q \in DOMAIN proc : proc[q].mm.pgdir = f}}
  \cup {<<"pt", x>> : x \in {y \in (DOMAIN proc) \X (DOMAIN NoMm.pt) : proc[y[1]].mm.pt[y[2]] = f}}
  \cup {<<"page", x>> : x \in {y \in (DOMAIN proc) \X Vpn : proc[y[1]].mm.pte[y[2]] = f}}

(* Every frame is either in the free list or has exactly one owner: the    *)
(* frames that fork, exec, page faults, exit and wait hand around are      *)
(* neither lost nor given out twice.  The count of a frame is 1 for a page *)
(* or a page table, and 0 otherwise.                                       *)
FramesOwnedOnce ==
  Running(mem) => \E heap \in {HeapFrames}, free \in {FreeFrames} : \A f \in Frames(mem) :
    \E own \in {Owners(f, heap)} :
      /\ Cardinality(own) = (IF f \in free THEN 0 ELSE 1)
      /\ mem.ref[f] = (IF \E o \in own : o[1] \in {"pt", "page"} THEN 1 ELSE 0)

(* The free list of default_pmm.c stays in the order of the addresses,     *)
(* without a pair of blocks that touch, and nr_free is its size.  So a     *)
(* request is refused only when no run of that many frames is free, which  *)
(* first fit would not give with blocks that were left apart.              *)
FirstFitComplete ==
  \E free \in {FreeFrames} :
  /\ mem.nr = Cardinality(free)
  /\ \A i \in 1..(Len(mem.list) - 1) : mem.list[i].base + mem.list[i].n < mem.list[i + 1].base
  /\ \A n \in {1, 2, 4} : default_alloc_pages(mem, n).val = 0 <=>
                            \A f \in Frames(mem) : ~(Span(f, n) \subseteq free)

(* The heap of kmalloc.c: the circular list ascends from arena, cells that *)
(* touch are joined, slobfree is in the list, and every unit of every page *)
(* the heap has taken is in one free cell or one block in use.             *)
HeapExact ==
  Running(mem) =>
    /\ mem.cells[1] = [a |-> ARENA, u |-> 1]
    /\ \A i \in 1..(Len(mem.cells) - 1) : mem.cells[i].a + mem.cells[i].u < mem.cells[i + 1].a
    /\ \E i \in DOMAIN mem.cells : mem.cells[i].a = mem.slobfree
    /\ \E parts \in {HeapParts} :
         /\ \A g, h \in parts : g = h \/ Span(g[1], g[2]) \cap Span(h[1], h[2]) = {}
         /\ UNION {Span(h[1], h[2]) : h \in parts} = UNION {Span(f * UNITS, UNITS) : f \in HeapFrames}

(* The structures processes and inodes hold, and the big blocks they hold. *)
SmallHeld ==
  {proc[p].obj : p \in DOMAIN proc} \cup {proc[p].mm.obj : p \in DOMAIN proc}
  \cup UNION {{proc[p].mm.vmas[i].obj : i \in DOMAIN proc[p].mm.vmas} : p \in DOMAIN proc}
  \cup UNION {{mem.inode[f].din, mem.inode[f].node} : f \in DOMAIN mem.inode}
BigHeld == {proc[p].files : p \in DOMAIN proc} \cup {proc[p].buf : p \in DOMAIN proc}

SmallLost == DOMAIN mem.head \ ({b - 1 : b \in SmallHeld} \cup {mem.big[i].bb : i \in DOMAIN mem.big})
BigLost == {mem.big[i].pages : i \in DOMAIN mem.big} \ BigHeld

(* No structure is given up without being freed, and none is freed while   *)
(* it is held: after every step each proc, mm, vma and inode in the heap   *)
(* belongs to a process or an open file, and a step of exec, exit, wait, a *)
(* page fault, a read or a write, whether it succeeds or fails half-way,   *)
(* leaves behind no files_struct and no buffer.  (do_execve, copy_kargv,   *)
(* do_exit, do_wait, sysfile_read and sysfile_write; what alloc_proc adds  *)
(* in a fork is the subject of AllResourcesFree.)                          *)
HeldOrFreed ==
  [][Running(mem') =>
       /\ SmallLost' = {} /\ {b - 1 : b \in SmallHeld' \ {0}} \subseteq DOMAIN mem'.head
       /\ BigHeld' \ {0} \subseteq {mem'.big[i].pages : i \in DOMAIN mem'.big}
       /\ mem'.made = mem.made => BigLost' = BigLost]_vars

(* What the comment on do_wait says (proc.c:797) and the code does not     *)
(* keep: when no child is left, all resources of the children are free.    *)
(* Every process loses the files_struct that alloc_proc makes and          *)
(* copy_files replaces, the two of start-up among them.                    *)
AllResourcesFree ==
  (Running(mem) /\ \A u \in User : proc[u].st = "none") => Cardinality(BigLost) = 2

(* The address spaces: vmas are disjoint and in order, a page is mapped    *)
(* only inside a vma and under a page table, and whatever range            *)
(* user_mem_check lets the kernel read or write lies in vmas that allow it *)
(* page by page, so that the copy cannot fault for good.                   *)
AddressSpaces ==
  \A p \in DOMAIN proc : LET mm == proc[p].mm IN
    /\ \A i \in 1..(Len(mm.vmas) - 1) : mm.vmas[i].hi <= mm.vmas[i + 1].lo
    /\ \A v \in Vpn : mm.pte[v] # 0 => find_vma(mm, v) # 0 /\ mm.pt[PDX(v)] # 0
    /\ mm # NoMm => \A a \in Vpn, n \in 1..VPAGES, write \in BOOLEAN :
         user_mem_check(mm, a, n, write) => \A v \in Span(a, n) :
           /\ v < VPAGES /\ find_vma(mm, v) # 0
           /\ (IF write THEN "W" ELSE "R") \in mm.vmas[find_vma(mm, v)].flags

(* A file load_icode can load: its headers and what they point to are in   *)
(* it, no segment is longer in the file than in memory, and the segments   *)
(* are on different pages below the stack.                                 *)
WellFormed(path) ==
  LET file == Program[path]
      vma(i) == VmaOf(file.segs[i])
  IN  /\ 1 + Len(file.segs) <= file.size
      /\ \A i \in DOMAIN file.segs :
           /\ file.segs[i].off + file.segs[i].filesz <= file.size
           /\ file.segs[i].filesz <= file.segs[i].memsz
           /\ vma(i).lo < vma(i).hi /\ vma(i).hi <= Stack.lo
           /\ \A j \in 1..(i - 1) : vma(i).hi <= vma(j).lo \/ vma(j).hi <= vma(i).lo

(* The kernel stops for two reasons: a frame is wanted and none is free,   *)
(* or an assertion of load_icode or of insert_vma_struct meets a file that *)
(* is not well formed, and such a file never runs.  All the checks of      *)
(* start-up pass, no assertion of the allocators fails, those of           *)
(* load_icode hold for every other file, and no fault in the kernel goes   *)
(* unhandled.                                                              *)
StopsWithCause ==
  /\ mem.panic # "" =>
       \/ mem.panic = "swap" /\ mem.nr = 0 /\ mem.list = <<>>
       \/ mem.panic \in {"load_icode", "vma"} /\ mem.loading # Missing /\ ~WellFormed(mem.loading)
  /\ \A p \in User : proc[p].path # Missing => WellFormed(proc[p].path)

(* What the pieces of load_icode leave in memory: a word of the file or    *)
(* zero at each address, in the page that was allocated last.              *)
PageOf(pieces, i) == Last(SelectSeq(SubSeq(pieces, 1, i), LAMBDA q : q.new)).la \div PGWORDS
Written(g, pieces) ==
  UNION {{<<PageOf(pieces, i) * PGWORDS + ((pieces[i].la + j) % PGWORDS),
            IF pieces[i].file THEN pieces[i].la + j - g.va ELSE -1>> :
              j \in 0..(pieces[i].len - 1)} : i \in DOMAIN pieces}

AllSegmentsLoaded ==
  \A va \in 0..(2 * PGWORDS - 1), memsz \in 1..(3 * PGWORDS) : \A filesz \in 0..memsz :
    \E g \in {[va |-> va, off |-> 0, filesz |-> filesz, memsz |-> memsz, flags |-> {}]} :
    \E pieces \in {Pieces(g)} : \E fresh \in {SelectSeq(pieces, LAMBDA q : q.new)} :
      /\ Written(g, pieces) = {<<va + j, IF j < filesz THEN j ELSE -1>> : j \in 0..(memsz - 1)}
      /\ [i \in DOMAIN fresh |-> fresh[i].la \div PGWORDS] = PagesOf(VmaOf(g))

(* load_icode reads every segment to its place, whatever its start and its *)
(* sizes: each word of the file once, zeros from filesz to memsz, and      *)
(* exactly the pages of the vma, each allocated once.                      *)
LoadsSegments == Running(mem) => AllSegmentsLoaded
=============================================================================
