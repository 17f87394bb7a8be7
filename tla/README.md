# A verification of Cache-CPU

Cache-CPU is a MIPS32-subset computer on an FPGA, from the gates up to a shell:
a multi-cycle CPU in VHDL (`src/cacpu`), a port of the teaching kernel ucore
that runs on it (`ucore_modified`), a compiler for the decaf language and some
tools.  This directory holds TLA+ models of the parts of it that are hard to get
right by testing, TLC configurations that check them on small instances, and
proofs, checked by TLAPS, that the most important properties hold for every
size.

Paths below are relative to the repository; `kern/` is
`ucore_modified/kern/`, `cacpu/` is `src/cacpu/`.

## 1. The system and its parts

| part | where | state | operations |
|---|---|---|---|
| CPU core | `cacpu/cacpu.vhd`, `IFetch`, `IDecode`, `alu`, `mem`, `WB`, `general_register` | stage registers, PC, decoded instruction, write-back registers | one rising edge of `cpu_clk` performs one stage |
| exceptions, CP0 | `Exception.vhd`, `CP0.vhd` | cause, EPC, Status, Count, Compare, interrupt requests | latch an exception, write a CP0 register, tick |
| MMU with TLB | `mmu_module.vhd` | latched address, request lines, sixteen TLB entries | translate, refuse, send a request, TLBWI |
| physical memory | `phy_mem.vhd`, `ram.vhd`, `flash.vhd`, `rom.vhd`, `async.v` | a state machine per device, serial buffers | read, write, transmit, receive |
| processes | `kern/process/proc.c` | `proc_struct`s, the process tree, pid statics | fork, exec, exit, wait, kill, sleep, yield |
| scheduler, timers | `kern/schedule` | run queue, time slices, delta list of timers | wakeup, schedule, tick, add and delete timers |
| synchronisation | `kern/sync` | semaphores, wait queues, monitors | up, down, wait, signal |
| memory management | `kern/mm` | free list, slob heap, page tables, vmas, TLB bookkeeping, swap queue | allocate, free, map, fault, refill |
| traps, system calls | `kern/trap`, `kern/syscall` | trap frame | dispatch, return |
| files | `kern/fs` | descriptor tables, inodes with reference counts, block map | open, close, dup, read, write, truncate, reclaim |
| drivers | `kern/driver`, `kern/fs/devs` | console ring, stdin ring | interrupt, read |
| debugger | `src/cadb_cacpu`, `utils` | breakpoints, a serial protocol | stop, step, dump |
| compiler, loader, tools | `decaf`, `ucore_modified/tools`, `boot` | none that outlives a run | translate, copy |

How they interact: the core sends every fetch and every load or store through
the MMU to the physical memory, which runs on a clock four times as fast and
answers by dropping `busy`.  The clock register of CP0 and the serial port
request interrupts; `Exception.vhd` arbitrates, CP0 records the cause, and the
core continues at EBase, where the kernel's `__alltraps` saves the registers
and calls `trap`.  The kernel is not preemptible: the trap entry clears IE, and
a trap taken in kernel mode never calls `schedule`.  So inside the kernel the
only interleavings are at calls of `schedule` and, in the two kernel threads
and in user mode, at interrupts.

What makes the system hard: two clocks with coinciding edges; exceptions and
interrupts that meet in one cycle; wakeups that race with going to sleep; a
process killed at each point of its life; list structures edited by many mixes
of calls; cached knowledge (the pid gap, TLB bits in page tables) that must
stay true.  These hazards are listed, line by line, in `PROJECT.json`.

## 2. Modules

| module | models | kind |
|---|---|---|
| `PidSpec` | the promise of `get_pid` | abstract specification |
| `PidAlloc` | `get_pid` with its statics `last_pid`, `next_safe` | one action per branch of the walk |
| `Proc` | process life cycle, round-robin scheduler, trap exit, idle and init threads | composition of `proc.c`, `sched.c`, `default_sched.c`, `trap.c` |
| `ProcTree`, `ProcProofs` | | proofs: the data structures and what operations do to them; the steps and the theorems |
| `TimerSpec` | timers that count down by themselves | abstract specification |
| `Lists` | the linked lists of `libs/list.h` | operators |
| `TimerList` | `add_timer`, `del_timer`, `run_timer_list` | one action per round of a loop |
| `TimerListProofs` | | proofs |
| `Stages` | the stages of an instruction and their order | operators |
| `Cpu` | stage machine, fetch, decode, write back, exceptions, CP0 | one action per kind of clock edge |
| `CpuProofs` | | proofs |
| `Bus` | MMU requests, `phy_mem`, RAM controller, serial port across the two clocks | one action per edge of the faster clock |
| `BusProofs` | | proofs |
| `Tlb` | the TLB of `mmu_module.vhd` with the refill, replacement and invalidation of `kern/mm/tlb.c` | one action per instruction outcome and per kernel call that changes page tables |
| `TlbProofs` | | proofs |
| `Stdin` | characters from the serial interrupt to readers: `cons_getc`, `dev_stdin.c`, its wait queue, `kill` | one action per round of a loop, cut at `schedule` |
| `StdinProofs` | | proofs |
| `Calls` | how a kernel function that may fail or stop the kernel is written | operators |
| `Mksfs` | `tools/mksfs.c`, the program that packs a host directory into an image | operators |
| `Sfs` | the simple file system with its inodes in memory, freemap and block maps, on `disk0` | operators on the kernel's record |
| `Files` | descriptor tables, VFS, devices and the file system calls, on `Sfs` and an image of `Mksfs` | one action per system call |
| `Pages` | the first-fit page allocator with `alloc_pages` and `free_pages` | operators |
| `Kmalloc` | the slob heap, on `Pages` | operators |
| `Mm` | page tables, vmas, page faults, checks of user addresses, on `Kmalloc` | operators |
| `Startup` | the checks the kernel runs at its start: pages, page tables, vmas, page faults, swapping | operators that execute them |
| `AllocProofs` | | proofs about what is handed out: pids (`PidAlloc`), frames (`Pages`) and ranges of addresses (`Mm`) |
| `Vm` | fork, exec with `load_icode`, exit, wait, page faults and user buffers on all of it | one action per system call or fault |
| `MC...` | | instances for TLC |

Definitions that start a comment with "Seeded fault" are not part of a model:
each is a plausible bug for one definition, used to show that a property
notices it.

### PidAlloc

`proc_list` and `pid` are the linked `proc_struct`s and their pids, `last_pid`
and `next_safe` the two statics.  `CallWrap`, `CallFast` and `CallScan` are the
three ways `get_pid` begins; `VisitClash`, `VisitBump` and `VisitOther` are the
branches of the loop body for one list entry; `Rescan` is the label `inside`
with `repeat` below it; `Link` and `Unlink` are what `do_fork` and `do_wait` do
with the result.  The order of the list is abstracted: a walk visits the
entries in any order, which includes the order of the code.

### Proc

One variable per field of `proc_struct` that matters (`state`, `wait_state`,
`PF_EXITING`, `need_resched`, `time_slice`, the four tree pointers), the run
queue, the time left on each process's timer, and `current`.  `pc` says where a
process is or resumes; a function that may sleep is cut at its call of
`schedule`.  A failed assertion or a panic sets `panicked`, after which nothing
moves.  `Schedule` is `schedule` with `proc_run`; `TimerInterrupt` is the whole
timer branch (`ticks++`, `run_timer_list`, `sched_class_proc_tick`);
`wait_found`, `wait_block`, `wait_woken`, `wait_none` are the ways through
`do_wait`; `exit_zombie`, `exit_notify`, `exit_reparent`, `exit_schedule` the
parts of `do_exit`, which run with interrupts off but are separate steps so that
the state between them can be stated about.  A pid is the process itself, and a
timer is its time left: `PidAlloc` and `TimerList` show that both are right.

### TimerList

`timer_list` is the list of timers, `expires` the difference each of them holds.
`left` is a history variable, the time asked for in `do_sleep` counted down by
every tick.  `AddPass`, `AddHere`, `AddEnd` are the branches of `add_timer`'s
loop, `HandedOn` is `del_timer`'s correction of the successor, `Tick`,
`RunWake`, `RunEnd` are `run_timer_list`.

### Cpu

One step is one rising edge of `cpu_clk`; every component takes its new
register values from the old ones, as the VHDL processes do.  `state` is the
combinational stage that the edge performs.  An instruction is its class and the
address of its successor, chosen at the decode edge, so every program is
covered.  The MMU is an input: `Stall` (not ready), `MmuFault` (exception) or
neither (`Run`); `Receive` is a character arriving.  `todo` and `faulted` are
history variables.  `Stall` may happen only where `Bus` shows that the memory
can be busy (`BusyOnlyInAccess`), and `MmuFault` takes its exception at once
because a faulting access finds the memory idle (`FaultFindsReady`); `BusProofs`
proves both.

### Bus

A cycle of `cpu_clk` has four edges of `high_freq_clk`: `Rise`, `High`, `Fall`,
`Low`.  At the two edges that coincide each side may see the other's registers
before or after they change.  `Perform` is the core's side of a rising edge,
`Send` the MMU's falling edge, `PhyEdge` everything in the memory.  Words are
pairs of bytes, so that a byte store (a read in Mem1 and a write of the merged
word in Mem2) can go wrong.  `arch` is the RAM as the program sees it.
`readonly` says that the page has V and not D: `no_exception_accur` asks for D
whatever the access is, so a fetch or a load of such a page raises nothing and
sends nothing (`Mute`), and its data is what `data_out` held before.  The other
mute access is a load of the serial port's status, which the MMU answers from
the flag itself; `polled` is what the program has been told.

### Tlb

A page is a pair (the virtual page number without its lowest bit) and a half;
an entry of the TLB maps both halves of a pair.  `present` and `TLBIDX` are the
fields of the page table entries, per page table (`TLBIDX` is `None` where the
bit TLB_P is clear: nobody looks at the index then); `tlb` is the hardware's
table, `empty` the stack `tlb_algo_empty`, `algo_hi` and `algo_ptr` the rest of
the replacement algorithm.  `Execute` is an instruction of the process that
runs: `FetchMiss` and `DataMiss` are the TLB exceptions with the whole of
`tlb_miss_handler` (`Miss`, `Refill`, `GetEmpty`), after which the same
instruction (`insn`) is executed again; `Modified` is the store to a page
without D, which ends the process; `Complete` is the access itself, and `Misread` a
fetch or load of a page without D, for which the MMU sends no request (the same
condition as in `Bus`; the programs of the repository are linked as one writable
segment and never meet it).  `Switch` is
`proc_run`; `Fork`, `Exec` and `sys_exit` are what these calls do to page
tables.  While `booting` holds the kernel checks page faults and swapping on its
own page table: `page_remove`, with `tlb_invalidate`, is applied to the table in
use only then.  `Start` ends that phase and loads the first program.  A frame is
named after the page it was allocated for.

### Stdin

`port` is the character in the serial port (the next one replaces it), `cons`
console.c's buffer, `stdin_buffer`, `p_rpos` and `p_wpos` the ring,
`wait_queue` the readers whose wait structure is linked in it.  `handling` says
that `running`, or the idle thread, has been interrupted: `cons_intr` takes a
character from the port, `cons_polled` is its last look at it, `HandleChar` moves
one from the console's buffer into the ring (`dev_stdin_write`, with
`wakeup_queue`), `HandleEnd` is the return from the interrupt; a character that
comes after the last look stays in the port for the next interrupt.  `ReadChar`, `ReadSleep`, `ReadWoken` and `ReadDone` are the ways
through the loop of `dev_stdin_read`; a reader in `schedule` is at "wait".
`TrapReturn` is the end of `trap`, where a killed process exits.  Characters are
numbered as they come, and `taken` and `got` are histories of what was read from
the port and by readers.  Three abstractions: the console's buffer has no limit
(the handler empties it faster than the line fills it), the wait queue is a set
(all in it are woken together), and `schedule` may choose anybody who can run.

### Mksfs, Sfs, Files

`Mksfs` packs a host tree (a function from host inodes to files, directories and
links) block by block, in the order of `readdir`; `create_img` is what is on the
image at the end.  `Sfs` starts from that image: `fs` is the kernel's memory
(freemap, the inodes in memory with their reference and open counts, the count
of unused blocks), `img` the device.  `disk0` is flash, and its driver answers a
write with a warning only, so the image never changes and `fs` may know more
than it; the model keeps that difference.  `sfs_bmap_get_nolock`,
`sfs_io_nolock`, `sfs_truncfile` and the others are operators from the record to
the record, composed with `Then`, which goes on where the code does when a call
has succeeded.  `Files` adds the tables (`files`), working directories, the
device list with its lookup of `disk0:`, `stdin:` and `stdout:`, and one action
per system call.  A call is one step, as the kernel is not preempted; only a
read of `stdin` sleeps, and is two.  `Workloads` says which programs run.

### Pages, Kmalloc, Mm, Startup, Vm

`mem` is one record for the kernel's memory: the free list, `nr_free` and the
reference counts of `default_pmm.c` and `pmm.c`, the slob list with its moving
start `slobfree`, the big blocks, the inodes in memory and the calls of
`alloc_proc`.  A process is its structure, kernel stack, descriptor table, `mm`
(page directory, page tables, entries, vmas) and the program it runs.  The
initial state is `kern_init`, executed: the kernel's own checks (`default_check`,
`check_pgdir`, `check_vma_struct`, `check_pgfault`, `check_swap`) run on the
model with their assertions, in the order of the code, and what they leave
behind is where the processes start.  Then `user_main`, `do_fork`, `do_execve`,
`do_exit`, `do_wait`, `tlb_miss_handler`, `sysfile_write`, `sysfile_read` and
`ReadReturns` are steps.  Sizes are scaled (10 units to a frame, four words to a
page); a structure has a size in units, an address is a page number.  The order
of all allocations inside a call is that of the code, so that running out of
memory happens at every place it can.

Facts about the code these modules bring out, which are properties or bounds of
theirs rather than separate runs:

* `alloc_proc` calls `files_create` (`proc.c:132`) and nobody ever frees or uses
  the result: `copy_files` and `proc_init` put another one in its place.  So one
  `files_struct` is lost per fork, whether it succeeds or not.
  `HeldOrFreed` says that all other steps lose nothing (section 5 has the claim
  this breaks).
* After start-up `check_mm_struct` is NULL, so `alloc_pages` with no page left
  calls `swap_out(NULL, ...)` and faults; `StopsWithCause` says that the kernel
  stops there only with an empty free list, and else only at the assertions with
  which `load_icode` meets a file that is no well-formed program.
* A page that `do_pgfault` takes back from swap keeps the `pra_vaddr` of the page
  its frame held before (`vmm.c:510`).  Only `check_swap` swaps, and it ends
  before such a page is evicted again: `Startup` executes it.
* An exclusive open of an existing file returns without dropping the reference of
  the lookup (`vfsfile.c:44-47`); `RefsExact` counts these (`leak`).  When they
  have brought the count to MAX_INODE_COUNT, the next operation on the inode
  stops the kernel (`inode.c:114`), which `CountsNeverPanic` allows for no other
  reason.
* `load_icode_read` seeks before it reads, and a seek past the end grows a file,
  read-only or not.  A segment without data in the file but with an offset past
  its end makes the program file longer when it is executed (`do_execve` of
  `Files`).
* `O_CREAT` on an existing file truncates it (`vfsfile.c:57`), and on a missing
  one calls a `vop_create` that SFS does not have: the kernel stops.
* A write that cannot grow a file leaves the blocks it did get beyond the size,
  and a truncation to the size it has then fails the assertion at
  `sfs_inode.c:930`; an access whose position another descriptor's truncation
  has left beyond the end fails the one at `sfs_inode.c:356`; a write on a full
  disk those at `sfs_inode.c:609-626`; a name of more than SFS_MAX_FNAME_LEN
  characters the one at `:442`; and opening a symbolic link the panic at `:46`.
  `CountsNeverPanic` is about the assertions on counts and leaves these out.
* `mksfs` writes an entry with the length of the name field alone, so a name of
  253 to 255 characters loses its end (`mksfs.c:434`); `OnDiskName` does the same
  (section 5).
* `sfs_io_nolock` would read consecutive device blocks for several whole blocks of
  a file (`sfs_inode.c:622`), but its callers' buffer is one block long.

## 3. Runs

| run | bounds | checks |
|---|---|---|
| `pid_alloc` | 4 processes, 5 pids, table of 5 | `Terminates`, refinement of `PidSpec` |
| `proc` | 3 user processes, slices of 1, sleeps of 1 tick, symmetric | `NoFailedAssertion`, `RunQueueExact`, `NoLostChild`, `ChildListsExact` |
| `proc_live` | 2 user processes | `NoStarvation`, `OrphansAreReaped`, `KilledSleeperExits` |
| `proc_kill` | 2 user processes | violated: `KilledProcessExits` |
| `timer_list` | 3 sleepers, sleeps of up to 3 ticks | `DeltasExact`, `SleepersWake`, refinement of `TimerSpec` |
| `cpu` | 2 addresses, Compare up to 2 | `EpcIsPrecise`, `FaultsDoNotCommit`, `TickKept`, `ExcEntersHandler`, `EnabledInterruptTaken` |
| `bus` | 2 byte values, 1 RAM word, pages with and without D, several transmission lengths, a line with input | `BusyOnlyInAccess`, `ReadsAreRight`, `SendsOnce`, `FlagIsHonest`, `Progress` |
| `tlb` | the kernel's table and 2 processes, 3 pairs, 2 entries, writable and read-only pages | `TlbCoherent`, `SingleMatch` |
| `tlb_livelock` | 1 process, the instructions that meet in one entry, 2 entries | violated: `InsnCompletes` |
| `stdin` | 2 readers, a ring of 2, reads of 1 or 2 characters, 4 characters | `InputIntact`, `NoLostWakeup`, `CharsReachReaders` |
| `files` | four workloads; 2 processes, 3 descriptors, 2 direct and 2 indirect blocks, blocks and buffers of 2 words, images of 12 to 30 blocks | `RefsExact`, `EntriesSettled`, `CountsNeverPanic`, `BlocksAccounted`, `ReadsHostFile`, `ListsHostDirectory` |
| `vm` | memories of 31 and 33 frames, 2 user processes beside `idle` and `init`, 8 user pages under page tables of six, 3 forks, one exec each of 7 files, 5 of them malformed, symmetric | `FramesOwnedOnce`, `FirstFitComplete`, `HeapExact`, `AddressSpaces`, `StopsWithCause`, `LoadsSegments`, `HeldOrFreed` |

Why the bounds are enough.  With four processes and five pids the pid space is
exactly full at times, wraps, and has gaps on both sides of `last_pid`.  Three
user processes give a parent, a child and a grandchild or a sibling, so that a
list of children has a middle, and a process can be orphaned while its siblings
are alive, dead or asleep.  Three timers give one with neighbours on both
sides, and three ticks let equal and different times meet.  Two instruction
addresses tell "the handler" from "elsewhere", and the clock with Compare up to
2 requests an interrupt at every possible position relative to an instruction.
One RAM word suffices because accesses are never reordered; two byte values
tell a merged word from an unmerged one.  More pairs than TLB entries make the
stack run empty and the pointer wrap; a pair has two halves whatever the bounds,
and stale bits need only one switch away and back; two processes let a page
table be copied, left and taken up again.  Two readers let one take what woke the
other, or be killed beside it; four characters fill a ring of two, overwrite in it
and make both positions wrap.

`files` has one workload for each thing that can go wrong.  *Tables*: two
processes with three descriptors copy, close, duplicate and reopen the same file
and `stdin`, so that a count is shared, is the last one, or is taken in a
failing call, and may open a symbolic link.  *Trees*: a file that just needs an
indirect block, and a subdirectory with a second link to it; both of these have
names of the greatest length, which `mksfs` cuts, and a third file has the name
that is left of one of them; read, listed and truncated.  *Grows*: a file takes the
few free blocks, through its direct ones into an indirect one, and finds none left
half-way, also by being executed with a header that points past its end.
*Leaks*: one process repeats failed exclusive opens until the count of the inode is
at its limit (`MAXINODE`, 20 here).  `vm`: one memory is just too small for the second
fork's two stack frames in some states and the other lets everything happen
before it is used up; the programs have a segment that starts inside a page, one
that fills a page, and one with a bss that goes on into a new page; user addresses
span two page tables; of the strings passed to `exec` one lies in two pages, one
runs into an unmapped page and one does not end, so that `exec` fails half-way; and
each assertion of `load_icode` has a file that makes it fail.  The bounds on forks and execs (`MAXFORKS`, `MAXEXECS`)
end what would otherwise run until the lost `files_struct`s fill the memory.

The `tlb`, `stdin`, `files` and `vm` runs do not check deadlock: when the last
process has exited, or the kernel has stopped, nothing is left to run.

Fairness.  `Proc`: weak fairness of the kernel's own steps (the CPU always
executes `current`) and an assumption on the hardware, `TicksServed`: strong
fairness of the timer interrupt, because its request stays pending while
interrupts are off; nothing is assumed of user programs.  The hardware does not
keep `TicksServed` in one case, an interrupt at ERET (section 5), after which
a program that makes no system call keeps the CPU; `NoStarvation`, `OrphansAreReaped`
and `KilledSleeperExits` are about the kernel's algorithms and hold for behaviours
without it.  `TimerList`: the loops run on, and `TicksServed` again.  `PidAlloc`: a walk runs with interrupts off and is not
preempted.  `Cpu`: the clock runs and no access stalls for ever; `Bus` shows the
latter (`Progress`) from the two clocks alone.  `Tlb`: the CPU executes on, and
a process is preempted only between two instructions (`Calm`), so that the
livelock below is not an effect of short slices.  `Stdin`: the kernel's code runs
on, a pending interrupt is served once interrupts are on, and the scheduler gives
everybody who can run a turn (`NoStarvation` of `proc_live`); the last two are
`InterruptsServed`, with the same exception.

`OrphansAreReaped` says that initproc goes on reaping while it has zombies, not that
a given zombie is reaped: `do_wait` takes the youngest child first, and an old one
waits as long as younger ones keep coming.

Each violated run is a disagreement between the code and what a document or a
comment of the repository says; `PROJECT.json` quotes it under "findings":

* `proc_kill`: `trap` tests `PF_EXITING` before it calls `schedule`, so a
  process that is killed while it waits for the CPU goes on in user mode; if it
  then sleeps in `wait` or `sleep` the flag is not looked at until it wakes.
* `tlb_livelock`: TLB_P and TLBIDX survive `load_pgdir`.  If the neighbours of an
  instruction's code and data pages carry the same stale index, each refill
  overwrites the other's entry, for ever and with free entries on the stack.

Section 5 lists four more disagreements, stated as formulas that no run checks.

## 4. Proofs

`AllocProofs`, on `PidAlloc` (for every `MAX_PID > MAX_PROCESS >= 1` and every set of
processes): `UniquePids` is not inductive; linking needs the returned pid to be
fresh, the fast path needs the gap between the statics to be free, and the end
of a walk needs the same for the entries visited so far.  The inductive
invariant is `TypeOK /\ UniquePids /\ FreshResult /\ SafeGap /\ ScanGap`.  From
it follow uniqueness, freshness and the refinement of `PidSpec`.

`ProcTree` and `ProcProofs` (any finite set of user processes, any `MAX_PROCESS`,
time slice and sleep): none of the four invariants is inductive.
The inductive one, `IInv`, has two halves.

* About the scheduler.  `Life` ties the state and the wait state of a process to
  the place where its code is, `Current` says that the process that runs is asleep
  or dead only on its way into `schedule`, and `RunQueueExact` says who is queued.
  `wakeup_proc` asserts that it is given no zombie and queues nobody twice, which
  rests on all three.
* About the process tree.  `Family` says who has a parent, `Heads` and `Siblings`
  that `cptr`, `optr` and `yptr` are a doubly linked list for each parent, and
  `Counted` that `nr_process` is right.  `do_exit` takes the youngest child off its
  list without clearing the `yptr` of the next one; `Heads` allows for that stale
  pointer while the loop runs; the next round clears it, and the last child leaves
  none behind.  Local facts about pointers do not exclude a ring of siblings that no
  `cptr` reaches; `Acyclic` does, said without paths: every set of processes has a
  member whose `parent`, and one whose `yptr`, is outside it.  `ChainExact` derives
  from it that the walk along `optr` meets every child once.  A step keeps
  `Acyclic` because the one process that gets new pointers is, or becomes, the
  member that leads out of the set.

`Waiting` joins the halves: a process asleep in `do_wait` has no zombie child of the
kind it waits for, except one that runs and is about to wake it.  Reparenting keeps
it because `do_exit` looks at `initproc`'s wait state for each zombie it hands over,
and `do_wait` establishes it because the walk has met all children.  What is used of
the finiteness of the set of processes is said once, in `CountingLaws`, which the
lemmas assume and `CountingHolds` derives from `ProcAssumption` and the theorems on
finite sets.  First come, in `ProcTree`, lemmas on what each operation does to the queue (`QueueListsNext`,
`WakeupWakes`) and to the tree (`ForkTree`, `ReapTree`, `OrphanTree`), then, in
`ProcProofs`, one lemma per kind of step.  From `IInv` follow that no assertion of the scheduler or of
`init_main` fails (`KernelNeverPanics`), that the run queue is exact, that the list
of children is exactly the children, and that no child is lost to its parent.

`TimerListProofs` (any number of processes, any times): the invariant says that
the list has no duplicates, that the counts are the differences of the times
left (`DeltasExact`), that the list is sorted by time left, and that everyone
who waits has a timer on it.  Sortedness is needed for the expiry loop: it stops
at the first timer that has not run out, and only a sorted list has no other
behind it.  From it follow `NoOversleep`, the assertion of `run_timer_list` and
the refinement of `TimerSpec`.

`CpuProofs` (any addresses, any bound on Compare, any program and any timing of
stalls, faults, ticks and characters): the invariant ties the history variable
`todo` to PC, EPC and the fetch multiplexer at each stage (`Targets`), says
which stage may follow which (`Flow`), what decoding leaves behind (`Decoded`),
which causes an Exc stage can have (`Taken`) and how far Count can run
(`Counts`).  From it follow precise exceptions, that a faulting instruction has
no effect, that every synchronous exception enters the handler
(`ExcEntersHandler`), that EPC is protected while EXL is set, and that a tick that
comes together with a character stays pending (`TickKept`).  Neither `TickKept` nor
`EnabledInterruptTaken` says that a handler runs: at an ERET it does not (section 5).

`BusProofs` (any RAM, any program, any transmission time above three edges, both
outcomes of every coincidence of edges): what the properties say about completed
accesses depends on where an unfinished one is.  The inductive invariant follows it
edge by edge.  `Lines` says which request the MMU's lines carry, and that the core
has overtaken it only for a read of ROM or of the port and for a store to the port.
`Seen` says how far `phy_mem` can be with the request at each of the four edges of a
cycle: it has noticed it at the falling edge that sent it or at the next edge, so
two states are possible, and neither is the last one before the core has looked at
`busy`.  `Under` says that `phy_mem` works for nobody but the current stage, `RamExact`
and `RamHolds` that the RAM controller follows it with the right word.  `Sending` is
about a store to the port, which `phy_mem` sees twice: the second time the
transmitter is still busy, because a transmission lasts longer than three edges, and
the request is withdrawn before it ends.  `Contents`, `Data`, `Port` and `Counted` say
what chip, `data_out`, latch and line have meanwhile, compared with the program's
view.  `PhyMoves` says once what an edge of `high_freq_clk` does; then there is one
lemma per edge of the cycle (`LowStep`, `HighStep`, `FallStep`, `RiseStep`).  The
`Still` lemmas serve every edge at which the core stands still, `RiseStall` the rising
edge that finds the memory busy, and the `Move` lemmas the one at which the core goes
on, one per part of the invariant.  From it follow the four invariants of the run
`bus` and `FaultFindsReady`.

`TlbProofs` (any number of entries, pairs and processes, any vmas): TLB_P and
TLBIDX may be stale after a switch, so they cannot be said to describe the TLB.
The invariant says the converse, `IndexTells`: a page with TLB_P can only be
translated by the entry that its TLBIDX names.  Together with `SingleMatch` it
is inductive, because a page enters the TLB only when its TLBIDX is written, or
as the neighbour in the entry that its TLBIDX names.  `BitsPresent`, `UnusedClean` and `BootTable` (bits only
in present entries, none in a page table not in use, no process during
start-up) complete that half.  For the start-up phase, where no
table is switched, the invariant is stronger: `EntriesExact` and `BitsExact` say
which entries are handed out and for which pair, and `StackDistinct` that no
entry is free twice, from which the bound of the stack follows by counting.
From it follow coherence, unique matches, that a refill cures the miss, and that
`tlb_invalidate` frees exactly what is free.

`StdinProofs` (any number of readers, any size of the ring, any number of
characters): the invariant has two halves.  The one about processes (`Sane`,
`QueueExact`) says that whoever has the CPU is awake, and that the queue holds
exactly those who wait and have not been given a character.  The one about
characters treats what readers have got, what the ring holds and what the
console's buffer holds as one sequence, `Stream`: moving a character leaves it
as it is, and an overflow puts the new character in the place of the oldest one
in the ring (`RingBounded`, `Intact`).  That characters are not duplicated then
needs `Fresh`: all in the stream are different, and different from the one in
the port.  `NoLostWakeup` needs both halves: a character wakes everybody only
because everybody who sleeps is in the queue.

`AllocProofs`, on `Pages` and `Mm` (memories, address spaces and lists of any size), proves the steps
behind `FirstFitComplete` and `AddressSpaces`.  For a free list in order in which
no two blocks touch (`Apart`): a run of free frames lies in one block, because
the frame behind a block is never free (`RunInBlock`), so a search that finds no
block large enough proves that no such run is free (`FirstFitFinds`); an
allocation takes exactly its frames out and keeps `Apart` (`FirstFitTakes`); and
`default_list_add` keeps it for a block that touches none, without failing its
assertions (`ListAddKeeps`).  For disjoint vmas: comparing a new vma with its two
neighbours is enough (`InsertKeepsDisjoint`), and a range that `user_mem_check`
accepts by looking at a few addresses is allowed page by page (`UserCheckSound`):
the last of these addresses in front of a page is in a vma that reaches past the
page, or its end would be a later one.  These are facts about the operators; that
the walk of `default_free_pages` joins all that touches is a fold over the list,
which the prover cannot reason about, so that `Apart` is an invariant of `Vm` is
checked by TLC only.

Properties that are proved for every size and stated in no run: `UniquePids`,
`FreshResult`, `SafeGap`, `NoOversleep`, `HeadCounts`, `EpcProtected`, `BitsExact`,
`RefillTakes`, `StackBounded`, `QueueExact`, `FaultFindsReady` and the type invariants.

The constants' assumptions are `PidAssumption`, `ProcAssumption`, `TimerAssumption`,
`CpuAssumption`, `BusAssumption`, `TlbAssumption`, `StdinAssumption`, `LayoutAssumption`,
`UnitsAssumption`, `MmAssumption` and `StartupAssumption`; TLC evaluates them in every run of the modules.

Only model-checked: everything about `Files` and `Vm` beyond the facts of
`AllocProofs` (what `Mksfs`, `Sfs`, `Kmalloc` and `load_icode` compute are
folds over sequences, and induction over data is outside the prover's reach), all
liveness properties (so is temporal reasoning with fairness) and the termination
of `get_pid`.

## 5. What is not modelled, and what the code does not keep

* ALU results, general registers, immediate values: data.  The models cover
  every program because the successor of an instruction is arbitrary.
* Disagreements with the documents or the tools that no run states:
  `Cpu!EveryExcEntersHandler`, `Files!ListsEveryName`, `Vm!AllResourcesFree` and
  `Bus!KeptUntilRead`.  Each is defined beside the properties of its module, and TLC
  shows a behaviour that violates it when it is added to the configuration.
* `Cpu!EveryExcEntersHandler`: `technical_documentation/sections/section2_modules.tex:417-419`
  sends every exception to EBase.  An interrupt that is pending when ERET clears EXL
  passes through Exc, Cause and Status record it and the clock's request is cleared,
  but the fetch goes to EPC (`IFetch.vhd:50-57`) with EXL set again
  (`CP0.vhd:107-127`): no handler runs, and interrupts stay off until the program
  traps.  `ExcEntersHandler` is about the synchronous exceptions.
* `Files!ListsEveryName`: `mksfs` accepts names of up to SFS_MAX_FNAME_LEN characters
  (`mksfs.c:483`) and writes entries that keep three fewer (`mksfs.c:434`).  A file
  with such a name cannot be opened by it, and another one may have the name that is
  left.  `ListsHostDirectory` is about the names on the image.
* `Vm!AllResourcesFree`: the comment at `proc.c:797` says that after `do_wait` all
  resources of the child are free.  The `files_struct` that `alloc_proc` made is not.
  `HeldOrFreed` is about the steps that do not call `alloc_proc`, and about all other
  structures.
* `Bus!KeptUntilRead` is what `design/mmu&physical_mem.txt:26` asks of the serial
  port's flag, and the code does not keep it: a read of the port is seen at
  several edges of `high_freq_clk`, each of which clears the flag after the
  receiver's assignment, so a character that arrives at one of them is latched
  without its flag (TLC shows it when the formula is added to `MCBus.cfg`).
  No run states it; `Stdin` starts at the flag.
* Bit timing on the serial line, the flash chip's command set: the model starts
  at the ready and busy lines.
* Semaphores and monitors (`kern/sync/sem.c`, `monitor.c`).  The semaphores in use
  are locks of the file system and of `mm`; the code under them is not preempted
  and does not sleep, so nobody ever waits on one and `Files` and `Vm` leave them
  out.  The only other client, the philosophers of `check_sync.c`, is commented
  out at `proc.c:928`.
* Branches for a NULL single page or a NULL small block: after `swap_init` such a
  request never returns NULL (it stops the kernel instead).  The cleanup of
  `do_fork` behind `copy_files`, which would keep the copied address space, is one
  of them.  A request for two frames can fail, and does in `vm`.
* `mmap_cache`: the vmas are disjoint, so the cached one is the one a search finds.
* Functions nothing calls: `mm_unmap`, unmounting, renaming, and the like.
* Swapping after start-up: the kernel stops before it (section 2).
* Late writing in `mksfs` (its cache of blocks) and the double indirect block, which begins past
  the size of any device the kernel mounts.
* Registers and trap frames (`trapentry.S`, `switch.S`), the dispatch of system calls, the
  kernel monitor, the C library, user programs: straight-line code or functions
  without a state.  A user program is any sequence of calls.
* `src/cadb_cacpu` repeats the files of `src/cacpu` with a debugger added, and the
  copies under `test` repeat both.  Its breakpoint unit (`bp_debug.vhd`) changes
  nothing in the processor until it stops its clock, and its protocol ends in a
  host program at the other end of a cable; neither is part of the system that
  boots.
* The decaf compiler, `utils`, `boot` and the CPLD: sequential programs whose
  result is data, copies, and wires; a model checker adds nothing to a test there.

## 6. Plan

What could follow, most useful first: the debugger's breakpoint unit against the
core's stages; `Proc` and `Vm` as one module, so that memory runs out between the
steps of several processes that sleep.
