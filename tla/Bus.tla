-------------------------------- MODULE Bus --------------------------------
(***************************************************************************)
(* Memory accesses across the two clocks: the CPU's stages and the MMU's   *)
(* request registers run on cpu_clk, phy_mem with the RAM controller and   *)
(* the serial port on high_freq_clk, which is four times as fast.  A cycle *)
(* of cpu_clk has four rising edges of high_freq_clk: one together with    *)
(* its rising edge, one together with its falling edge, one after each.    *)
(*                                                                         *)
(* When edges of both clocks coincide, each side may see the other's       *)
(* registers before or after the edge; the request lines change together.  *)
(* Words are abstract, but a RAM word is a pair of bytes, so that a byte   *)
(* store (sb: read in Mem1, write the merged word in Mem2) can go wrong.   *)
(***************************************************************************)
EXTENDS Naturals, Stages

CONSTANTS Byte,       \* the bytes that programs store
          Cell,       \* RAM words
          Quiet,      \* edges between two received characters, at least
          Worlds      \* what programs and the line may do, records of
                      \*   to     the places that are accessed
                      \*   bytes  the bytes that are stored
                      \*   times  high_freq_clk edges that a transmission may take
                      \*   line   {FALSE} for a silent serial line, BOOLEAN for input
                      \*   ro     {FALSE}, or BOOLEAN if some pages are mapped without D

\* A transmission takes ten bit times, far more than a request lasts.
ASSUME BusAssumption ==
  /\ Quiet \in Nat \ {0}
  /\ Byte # {} /\ "none" \notin Byte
  /\ Cell \cap {"rom", "flash", "serial", "status"} = {}
  /\ \A w \in Worlds : /\ w.to \subseteq Cell \cup {"rom", "flash", "serial", "status"}
                       /\ "rom" \in w.to
                       /\ w.bytes \subseteq Byte
                       /\ \A t \in w.times : t \in Nat /\ t > 3
                       /\ FALSE \in w.line /\ w.line \subseteq BOOLEAN
                       /\ FALSE \in w.ro /\ w.ro \subseteq BOOLEAN

Word == Byte \X Byte
NoWord == <<"none", "none">>
RomWord == <<"rom", "rom">>
FlashWord == <<"flash", "flash">>
Ops(w) == [op : {"alu"}]
          \cup [op : {"load"}, to : w.to]
          \cup [op : {"store"}, to : w.to \ {"rom", "flash", "status"}, val : w.bytes \X w.bytes]
          \cup [op : {"sb"}, to : w.to \cap Cell, val : w.bytes]
None == [read |-> FALSE, write |-> FALSE, to |-> "rom", data |-> NoWord]

VARIABLES
  world,                  \* the member of Worlds that this is
  phase,                  \* the next edge: "rise", "high", "fall" or "low"
  old_state, next_state, fresh, instr,
  addr, readonly,         \* MMU: latched address, and that its TLB entry lacks D
  exc,                    \* MMU: exception raised
  request,                \* MMU: to_physical_{read,write}_enable, _addr, _data
  pstate, data_out,       \* phy_mem: its state and output register
  ram, ram_ope, read_data, cells,   \* RAM controller and its chip
  transmit, sending,      \* serialport_transmit_signal and _data; the transmitter
  latch, data_ready,      \* the received character and its flag
  quiet,                  \* edges until the next character may arrive
  arch,                   \* history: the RAM as the program sees it
  value,                  \* history: the word the last read delivered, and ...
  want,                   \* ... the word it should deliver
  stored, sent,           \* history: stores to the serial port and transmissions, mod 4
  arrived, taken,         \* history: the last character received and the last read
  polled                  \* the program has seen the flag set and not read the port since

cpu == <<old_state, next_state, fresh, instr, addr, readonly,
         arch, value, want, stored, taken, polled>>
phy == <<pstate, data_out, ram, ram_ope, read_data, cells, transmit, sending,
         latch, data_ready, quiet, sent, arrived>>
vars == <<world, phase, cpu, request, exc, phy>>

Blank == CHOOSE w \in Word : TRUE

Init == /\ world \in Worlds /\ phase = "rise"
        \* reset leaves the MMU's state_reg at WriteB and next_state at InsF
        /\ old_state = "WriteB" /\ next_state = "InsF" /\ fresh = FALSE
        /\ instr = [op |-> "alu"] /\ addr = "rom" /\ readonly = FALSE /\ exc = FALSE
        /\ request = None
        /\ pstate = 0 /\ data_out = NoWord
        /\ ram = "idle" /\ ram_ope = None /\ read_data = NoWord
        /\ cells = [c \in Cell |-> Blank] /\ arch = cells
        /\ transmit = "none" /\ sending = 0
        /\ latch = 0 /\ data_ready = FALSE /\ quiet = 0
        /\ value = NoWord /\ want = NoWord /\ stored = 0 /\ sent = 0
        /\ arrived = 0 /\ taken = 0 /\ polled = FALSE

busy == pstate # 0

-----------------------------------------------------------------------------
(* phy_mem: one rising edge of high_freq_clk, seeing the request r *)

\* async_receiver raises receive_signal for one edge.  A character is a number
\* that tells it from the one before it and from the one last read.
Arrives(yes) == IF yes
                THEN /\ quiet = 0
                     /\ arrived' \in 0 .. 2 \ {arrived, taken} /\ quiet' = Quiet
                ELSE /\ UNCHANGED arrived
                     /\ quiet' = IF quiet > 0 THEN quiet - 1 ELSE 0

ReadsPort(r) == pstate = 0 /\ r.read /\ r.to = "serial"
Sends(r) == pstate = 0 /\ r.write /\ r.to = "serial"

\* Seeded fault: reading the port leaves the flag set.
ReceiveLatchKeep(r, yes) == latch' = (IF yes THEN arrived' ELSE latch)
                            /\ data_ready' = (yes \/ data_ready)

\* The assignment of the read branch comes after the receiver's and wins.
ReceiveLatch(r, yes) ==
  /\ latch' = IF yes THEN arrived' ELSE latch
  /\ data_ready' = IF ReadsPort(r) THEN FALSE ELSE yes \/ data_ready

\* The last state of a flash read, a RAM write and a RAM read.
Last == {13, 110, 208}

NextPState(r) ==
  CASE pstate = 0 -> IF r.read /\ r.to = "flash" THEN 1
                     ELSE IF r.write /\ r.to \in Cell THEN 101
                     ELSE IF r.read /\ r.to \in Cell THEN 201
                     ELSE IF Sends(r) THEN 301
                     ELSE 0
    [] pstate \in Last -> 0
    [] pstate = 301 -> IF sending = 0 THEN 0 ELSE 301
    [] OTHER -> pstate + 1

\* Seeded fault: the RAM's word is taken before the RAM has delivered it.
DataOutEarly(r) == CASE ReadsPort(r) -> <<"serial", latch>>
                     [] pstate = 0 /\ r.read /\ r.to = "rom" -> RomWord
                     [] pstate = 13 -> FlashWord
                     [] pstate = 203 -> read_data
                     [] OTHER -> data_out

DataOut(r) == CASE ReadsPort(r) -> <<"serial", latch>>
                [] pstate = 0 /\ r.read /\ r.to = "rom" -> RomWord
                [] pstate = 13 -> FlashWord
                [] pstate = 208 -> read_data
                [] OTHER -> data_out

\* ram_ope holds the address and data until the next access; read and write
\* stand for ope_ce with ope_we, which are high for one edge.
RamRequest(r) ==
  ram_ope' = IF pstate = 0 /\ r.to \in Cell /\ (r.read \/ r.write) THEN r
             ELSE IF pstate \in {101, 201}
             THEN [ram_ope EXCEPT !.read = FALSE, !.write = FALSE] ELSE ram_ope

\* ram.vhd: select, access, unselect.
Ram == /\ ram' = CASE ram = "idle" -> IF ram_ope.write THEN "write1"
                                      ELSE IF ram_ope.read THEN "read1" ELSE "idle"
                   [] ram = "read1" -> "read2"
                   [] ram = "read2" -> "read3"
                   [] ram = "write1" -> "write2"
                   [] ram = "write2" -> "write3"
                   [] ram \in {"read3", "write3"} -> "idle"
       /\ read_data' = IF ram = "read2" THEN cells[ram_ope.to] ELSE read_data
       /\ cells' = IF ram = "write3" THEN [cells EXCEPT ![ram_ope.to] = ram_ope.data]
                   ELSE cells

\* Seeded fault: a request restarts the transmitter.
TransmitterRestart(r) ==
  /\ transmit' = IF Sends(r) THEN r.data[1] ELSE IF pstate = 301 THEN "none" ELSE transmit
  /\ IF transmit # "none"
     THEN sending' \in world.times /\ sent' = (sent + 1) % 4
     ELSE /\ sending' = IF sending > 0 THEN sending - 1 ELSE 0
          /\ UNCHANGED sent

\* The request register of the transmitter, and async_transmitter, which
\* ignores a request while it is sending.
Transmitter(r) ==
  /\ transmit' = IF Sends(r) THEN r.data[1] ELSE IF pstate = 301 THEN "none" ELSE transmit
  /\ IF sending = 0 /\ transmit # "none"
     THEN sending' \in world.times /\ sent' = (sent + 1) % 4
     ELSE /\ sending' = IF sending > 0 THEN sending - 1 ELSE 0
          /\ UNCHANGED sent

PhyEdge(r) == /\ pstate' = NextPState(r)
              /\ data_out' = DataOut(r)
              /\ RamRequest(r)
              /\ Ram
              /\ Transmitter(r)
              /\ \E yes \in world.line : Arrives(yes) /\ ReceiveLatch(r, yes)

-----------------------------------------------------------------------------
(* cpu_clk: a rising edge performs a stage, seeing b for busy and d for data_out *)

HasMem1 == instr.op \in {"load", "store", "sb"}
HasMem2 == instr.op = "sb"

\* serial_proc_data (console.c) reads the port behind a load of the status that
\* had the flag set; nothing else reads it.
Decode == instr' \in Ops(world) /\ (instr'.op = "load" /\ instr'.to = "serial" => polled)

\* The word that the MMU gives the core: the status word has the flag in it.
MmuOut(d, ready) == IF addr = "status" THEN <<"status", ready>> ELSE d

Fetched == CASE addr' = "rom" -> RomWord [] addr' = "flash" -> FlashWord
             [] OTHER -> arch[addr']

Loaded == CASE instr.to = "rom" -> RomWord [] instr.to = "flash" -> FlashWord
            [] instr.to \in {"serial", "status"} -> NoWord
            [] OTHER -> arch[instr.to]

Retire(s, d) ==
  LET done == s = "WriteB" /\ old_state # "WriteB"
  IN /\ value' = IF s = "InsD" \/ (done /\ instr.op = "load") THEN d
                 ELSE IF s = "InsF" THEN NoWord ELSE value
     /\ taken' = IF done /\ instr.op = "load" /\ instr.to = "serial" THEN d[2] ELSE taken
     /\ polled' = IF done /\ instr.op = "load" /\ instr.to \in {"serial", "status"}
                  THEN instr.to = "status" /\ d[2] ELSE polled
     /\ stored' = IF done /\ instr.op = "store" /\ instr.to = "serial"
                  THEN (stored + 1) % 4 ELSE stored
     /\ arch' = IF ~done \/ instr.op \notin {"store", "sb"} \/ instr.to \notin Cell THEN arch
                ELSE [arch EXCEPT ![instr.to] =
                        IF instr.op = "store" THEN instr.val ELSE <<instr.val, @[2]>>]

\* Seeded fault: the core does not wait for the memory.
StageNowImpatient(b) == IF exc THEN "Exc" ELSE next_state

StageNow(b) == IF b THEN old_state ELSE IF exc THEN "Exc" ELSE next_state

Perform(b, d) ==
  LET s == StageNow(b)
  IN /\ old_state' = s
     /\ next_state' = StageAfter(s, HasMem1, HasMem2)
     /\ fresh' = (s # old_state)
     /\ IF s = "InsD" THEN Decode ELSE UNCHANGED instr
     /\ IF s = "InsF" /\ ~b THEN addr' \in world.to \ {"serial", "status"}
        ELSE addr' = IF s \in {"Mem1", "Mem2"} /\ ~b THEN instr.to ELSE addr
     /\ readonly' \in IF s \notin {"InsF", "Mem1"} \/ b THEN {readonly}
                      ELSE IF addr' \in Cell THEN world.ro ELSE {FALSE}
     /\ want' = IF s = "InsF" /\ ~b THEN Fetched
                ELSE IF s = "Mem1" /\ ~b THEN Loaded ELSE want
     /\ Retire(s, d)

\* ... and a falling edge sends the request of a new stage, unless it faults (a
\* fault is the MMU's verdict on the address: a fresh one, or none).  A write to
\* a page without D always faults; a read of it raises nothing, but is not sent
\* either, and neither is a load of the status.
Accesses == old_state \in {"InsF", "Mem1", "Mem2"}
Writes == old_state = "Mem2" \/ (old_state = "Mem1" /\ instr.op = "store")
Reads == old_state = "InsF" \/ (old_state = "Mem1" /\ instr.op \in {"load", "sb"})
Mute == readonly \/ addr = "status"

StoreData == IF instr.op = "sb" THEN <<instr.val, data_out[2]>> ELSE instr.val

Sent(b, fault) ==
  LET go == fresh /\ ~fault /\ ~b /\ ~Mute
  IN [read |-> go /\ Reads, write |-> go /\ Writes, to |-> addr,
      data |-> IF go /\ Writes THEN StoreData ELSE NoWord]

Send(b) == \E bad \in BOOLEAN :
             /\ exc' = (Accesses /\ fresh /\ ~exc /\ (bad \/ (readonly /\ Writes)))
             /\ request' = Sent(b, exc')

-----------------------------------------------------------------------------
(* The four edges of a cycle *)

Rise == /\ phase = "rise" /\ phase' = "high"
        /\ PhyEdge(request)
        /\ \/ Perform(busy, MmuOut(data_out, data_ready))
           \/ Perform(busy', MmuOut(data_out', data_ready'))
        /\ UNCHANGED <<world, request, exc>>

High == /\ phase = "high" /\ phase' = "fall"
        /\ PhyEdge(request)
        /\ UNCHANGED <<world, cpu, request, exc>>

Fall == /\ phase = "fall" /\ phase' = "low"
        /\ \/ Send(busy) /\ PhyEdge(request)
           \/ Send(busy) /\ PhyEdge(request')
           \/ PhyEdge(request) /\ Send(busy')
        /\ UNCHANGED <<world, cpu>>

Low == /\ phase = "low" /\ phase' = "rise"
       /\ PhyEdge(request)
       /\ UNCHANGED <<world, cpu, request, exc>>

Next == Rise \/ High \/ Fall \/ Low

Spec == Init /\ [][Next]_vars

\* Both clocks run.
FairSpec == Spec /\ WF_vars(Next)

-----------------------------------------------------------------------------
\* A stage that read memory, through a page with D or without the TLB, delivers
\* the word that the program last stored there: the core never goes on before the data has come, never with the data
\* of an earlier access, and never starts an access that phy_mem is too busy
\* to notice.  When the next instruction is fetched, RAM holds what the program
\* stored, including the bytes that a byte store merged.
ReadsAreRight ==
  /\ old_state \in {"InsD", "Exe"} /\ ~readonly => value = want
  /\ old_state = "WriteB" /\ instr.op = "load" /\ instr.to \notin {"serial", "status"}
       /\ ~readonly => value = want
  /\ old_state = "InsF" => cells = arch

\* Between two fetches a store to the serial port sends its character exactly
\* once, although the request lasts long enough to be seen twice.
SendsOnce == /\ old_state = "InsF" => sent = stored
             /\ transmit # "none" /\ sending = 0 => transmit = instr.val[1]

\* The memory is busy only while the access of the current stage is under way
\* or behind a store: whenever the core decodes, executes or takes an
\* exception the MMU is ready.
BusyOnlyInAccess == busy => \/ Accesses
                            \/ old_state = "WriteB" /\ instr.op = "store"

\* A set flag announces a character that is in the latch and has not been read,
\* and so does a status word that had it set, up to the load that follows it:
\* no character is read twice.
FlagIsHonest == /\ data_ready => latch = arrived /\ arrived # taken
                /\ polled => arrived # taken

\* A received character stays flagged until it is read.  This is what the design
\* asks for and not an invariant of the code: see the README, section 5.
KeptUntilRead ==
  arrived # taken => \/ data_ready
                     \/ request.read /\ request.to = "serial"
                     \/ /\ instr.op = "load" /\ instr.to = "serial"
                        /\ old_state = "Mem1"

\* Every access completes: the core comes back to fetch again and again.
Progress == []<>(old_state = "InsF" /\ fresh)
=============================================================================
