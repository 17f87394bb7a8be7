----------------------------- MODULE BusProofs -----------------------------
(***************************************************************************)
(* The invariants of Bus, for every RAM, every program, every transmission *)
(* time above three edges and every way in which coinciding edges of the   *)
(* two clocks are seen.                                                    *)
(*                                                                         *)
(* The inductive invariant IInv follows an access through the cycles of    *)
(* cpu_clk: which request the lines carry (Lines), how far phy_mem can be  *)
(* with it at each edge (Seen, Sending), that phy_mem works only for the   *)
(* stage that asked (Under), how the RAM controller follows it (RamExact,  *)
(* RamHolds), and what chip, data_out and the serial port hold meanwhile   *)
(* (Contents, Data, Port, Counted).  The preservation proof has one lemma  *)
(* per edge: LowStep, HighStep, FallStep, and RiseStep with its two        *)
(* outcomes, RiseStall and the Move lemmas.                                *)
(***************************************************************************)
EXTENDS Bus, TLAPS

\* What addresses stand for, the states of phy_mem, the lines of a request.
Place == Cell \cup {"rom", "flash", "serial", "status"}
PState == 0 .. 13 \cup 101 .. 110 \cup 201 .. 208 \cup {301}
Fields == {"read", "write", "to", "data"}

\* Whether the stage accesses memory, and whether its request is out.
Access == Reads \/ Writes
Started == phase \in {"low", "rise"}
Pending == request.read \/ request.write
Putting == Writes /\ instr.to = "serial"

\* The word that the instruction is to leave in the place that it writes.
WriteWord == IF instr.op = "sb" THEN <<instr.val, arch[addr][2]>> ELSE instr.val

\* The types of what the proof computes with.
TypeOK ==
  /\ world \in Worlds
  /\ phase \in {"rise", "high", "fall", "low"}
  /\ old_state \in Stage
  /\ fresh \in BOOLEAN /\ exc \in BOOLEAN /\ readonly \in BOOLEAN
  /\ instr \in Ops(world)
  /\ addr \in Place
  /\ request.read \in BOOLEAN /\ request.write \in BOOLEAN
  /\ ~(request.read /\ request.write)
  /\ DOMAIN ram_ope = Fields /\ DOMAIN request = Fields
  /\ pstate \in PState
  /\ sending \in Nat
  /\ arch \in [Cell -> Word]
  /\ stored \in 0 .. 3

\* Stages follow each other as cacpu.vhd has it, with the address that belongs
\* to them; only RAM is mapped by pages without D; an exception is raised by a new access and taken at the next
\* rising edge; reading the serial port takes one cycle.
Order ==
  /\ next_state = StageAfter(old_state, HasMem1, HasMem2)
  /\ old_state = "Mem1" => HasMem1
  /\ old_state = "Mem2" => HasMem2
  /\ old_state \in {"Mem1", "Mem2"} => addr = instr.to
  /\ old_state = "InsF" => addr # "serial" /\ addr # "status"
  /\ readonly => addr \in Cell
  /\ Reads /\ addr = "serial" => fresh
  /\ exc => IF Started THEN Access /\ fresh ELSE old_state = "Exc"

\* The request lines: from a falling edge to the next rising edge they carry
\* the access of the new stage; after that edge the core has gone on, or phy_mem
\* is at work on it.  Only a read of ROM or of the port, and a store to the
\* port, are overtaken by the core.
Lines ==
  /\ Started => /\ request.read <=> fresh /\ ~exc /\ ~Mute /\ Reads
                /\ request.write <=> fresh /\ ~exc /\ Writes
  /\ Access /\ Pending => request.to = addr /\ (request.write => request.data = WriteWord)
  /\ ~Started /\ Pending =>
       \/ request.read /\ request.to \in {"rom", "serial"} /\ fresh /\ ~Access
       \/ request.read /\ request.to \in Cell \cup {"flash"} /\ Reads /\ ~fresh
       \/ request.write /\ request.to \in Cell /\ Writes /\ ~fresh
       \/ request.write /\ request.to = "serial" /\ ((Putting /\ ~fresh) \/ old_state = "WriteB")

\* Where phy_mem can be in a sequence of states that begins at b and that the
\* request started: it has seen the request for the first time at the falling
\* edge that sent it, or at the next edge.
At(b) == \/ phase = "low" /\ (pstate = 0 \/ pstate = b)
         \/ phase = "rise" /\ (pstate = b \/ pstate = b + 1)
         \/ phase = "high" /\ (pstate = b + 1 \/ pstate = b + 2)
         \/ phase = "fall" /\ (pstate = b + 2 \/ pstate = b + 3)

\* Accesses of one edge leave phy_mem idle.
Seen ==
  /\ request.read /\ request.to = "flash" => At(1)
  /\ request.read /\ request.to \in Cell => At(201)
  /\ request.read /\ request.to \in {"rom", "serial"} => pstate = 0
  /\ request.write /\ request.to \in Cell => At(101)

\* phy_mem works for the stage that the core is in, except that a store to the
\* port may be in WriteB already.
Under ==
  /\ pstate \in 1 .. 13 => Reads /\ addr = "flash"
  /\ pstate \in 101 .. 110 => Writes /\ addr \in Cell
  /\ pstate \in 201 .. 208 => Reads /\ addr \in Cell
  /\ pstate = 301 => /\ instr.op = "store" /\ instr.to = "serial"
                     /\ old_state \in {"Mem1", "WriteB"}
  /\ pstate # 0 /\ Access /\ fresh => Pending

\* A store to the port.  phy_mem hands the character over and is idle for one
\* edge; it sees the request a second time while the transmitter is sending,
\* which ignores it, and withdraws it before the transmission ends.
Sending ==
  LET putting == request.write /\ request.to = "serial"
      char == instr.val[1]
  IN /\ ~putting => transmit = "none" /\ (pstate # 301 => sending = 0)
     /\ putting =>
          /\ instr.op = "store" /\ instr.to = "serial" /\ request.data = instr.val
          /\ phase = "low" => /\ pstate \in {0, 301} /\ sending = 0
                              /\ transmit = IF pstate = 0 THEN "none" ELSE char
          /\ phase = "rise" => \/ pstate = 301 /\ transmit = char /\ sending = 0
                               \/ pstate = 0 /\ transmit = "none" /\ sending > 3
          /\ phase = "high" => \/ pstate = 0 /\ transmit = "none" /\ sending > 3
                               \/ pstate = 301 /\ transmit = char /\ sending > 2
          /\ phase = "fall" => /\ pstate = 301 /\ sending > 1
                               /\ transmit \in {"none", char}

\* The RAM controller is in step with phy_mem ...
RamExact ==
  /\ ram = CASE pstate = 102 -> "write1" [] pstate = 103 -> "write2"
             [] pstate = 104 -> "write3" [] pstate = 202 -> "read1"
             [] pstate = 203 -> "read2" [] pstate = 204 -> "read3" [] OTHER -> "idle"
  /\ ram_ope.read <=> pstate = 201
  /\ ram_ope.write <=> pstate = 101

\* ... and works on the word of the stage.
RamHolds ==
  /\ pstate \in 101 .. 110 => ram_ope.to = addr /\ ram_ope.data = WriteWord
  /\ pstate \in 201 .. 208 => ram_ope.to = addr
  /\ pstate \in 204 .. 208 => read_data = cells[addr]

\* The chip has the word of a write before the program's view of RAM has it.
Written == Writes /\ addr \in Cell /\ ~fresh /\ (pstate = 0 \/ pstate >= 105)

Contents == cells = IF Written THEN [arch EXCEPT ![addr] = WriteWord] ELSE arch

\* The word that a read of addr should deliver.
Wanted == CASE addr = "rom" -> RomWord [] addr = "flash" -> FlashWord [] OTHER -> arch[addr]

\* data_out has it as soon as phy_mem is idle again, and keeps it for a byte
\* store to merge; value has it once the core has taken it.
Data ==
  /\ old_state = "Mem2" /\ fresh /\ ~Started /\ ~Mute => data_out = arch[addr]
  /\ Reads /\ addr # "serial" /\ ~Mute => want = Wanted
  /\ Reads /\ addr # "serial" /\ ~Mute /\ ~exc /\ pstate = 0 /\ (~fresh \/ phase = "rise")
       => data_out = want
  /\ old_state \in {"InsD", "Exe"} /\ ~readonly => value = want
  /\ old_state = "WriteB" /\ instr.op = "load" /\ instr.to \notin {"serial", "status"}
       /\ ~readonly => value = want

\* The latch has the last character, and a flag announces one that is unread.
Port == latch = arrived /\ (data_ready => arrived # taken) /\ (polled => arrived # taken)

\* A character is counted as sent before its store retires.
Counted ==
  sent = IF Putting /\ ~(fresh /\ sending = 0) THEN (stored + 1) % 4 ELSE stored

\* The inductive invariant.
IInv == /\ TypeOK /\ Order /\ Lines /\ Seen /\ Under /\ Sending
        /\ RamExact /\ RamHolds /\ Contents /\ Data /\ Port /\ Counted

\* What Decode can give.
LEMMA OpsFacts == ASSUME world \in Worlds, NEW i \in Ops(world)
  PROVE
  /\ i.op \in {"alu", "load", "store", "sb"}
  /\ i.op \in {"load", "store", "sb"} => i.to \in Place
  /\ i.op = "store" => i.val \in Word /\ i.to \in Cell \cup {"serial"}
  /\ i.op = "sb" => i.val \in Byte /\ i.to \in Cell
<1>1. world.to \subseteq Place /\ world.bytes \subseteq Byte
  BY BusAssumption, Zenon DEF Place
<1>2. CASE i \in [op : {"alu"}]
  BY <1>2, Zenon
<1>3. CASE i \in [op : {"load"}, to : world.to]
  BY <1>1, <1>3, Zenon DEF Place
<1>4. CASE i \in [op : {"store"}, to : world.to \ {"rom", "flash", "status"}, val : world.bytes \X world.bytes]
  <2>1. i.op = "store" /\ i.to \in world.to \ {"rom", "flash", "status"} /\ i.val \in world.bytes \X world.bytes
    BY <1>4, Zenon
  <2>2. i.val \in Word
    BY <1>1, <2>1, Zenon DEF Word
  <2> QED
    BY <1>1, <2>1, <2>2, Zenon DEF Place
<1>5. CASE i \in [op : {"sb"}, to : world.to \cap Cell, val : world.bytes]
  BY <1>1, <1>5, Zenon DEF Place
<1> QED
  BY <1>2, <1>3, <1>4, <1>5, Zenon DEF Ops

\* RAM words are none of the other places.
LEMMA CellsApart == \A c \in Cell : c # "rom" /\ c # "flash" /\ c # "serial" /\ c # "status"
  BY BusAssumption, Zenon

\* The character of a store is not the empty request.
LEMMA Character == ASSUME TypeOK, instr.op = "store" PROVE instr.val[1] # "none"
<1>1. instr.val \in Word
  BY OpsFacts, Zenon DEF TypeOK
<1> QED
  BY <1>1, BusAssumption, Zenon DEF Word

\* The RAM controller follows phy_mem.
LEMMA RamFollows ==
  ASSUME TypeOK, RamExact, NEW r, r.read \in BOOLEAN, r.write \in BOOLEAN, ~(r.read /\ r.write),
         DOMAIN r = Fields, PhyEdge(r)
  PROVE  RamExact' /\ DOMAIN ram_ope' = Fields /\ pstate' \in PState
<1>1. pstate' \in PState
  BY DEF PhyEdge, NextPState, Last, Sends, PState, TypeOK
<1>2. DOMAIN ram_ope' = Fields
  BY Zenon DEF PhyEdge, RamRequest, TypeOK
<1>3. (ram_ope'.read <=> pstate' = 201) /\ (ram_ope'.write <=> pstate' = 101)
  <2>1. CASE pstate = 0 /\ r.to \in Cell /\ (r.read \/ r.write)
    <3>1. ram_ope' = r
      BY <2>1, Zenon DEF PhyEdge, RamRequest
    <3>2. (r.read <=> pstate' = 201) /\ (r.write <=> pstate' = 101)
      <4>1. r.to # "flash" /\ r.to # "serial"
        BY <2>1, CellsApart, Zenon
      <4>2. CASE r.read
        BY <2>1, <4>1, <4>2 DEF PhyEdge, NextPState, Last
      <4>3. CASE r.write
        BY <2>1, <4>1, <4>3 DEF PhyEdge, NextPState, Last
      <4> QED
        BY <2>1, <4>2, <4>3, Zenon
    <3> QED
      BY <3>1, <3>2, Zenon
  <2>2. CASE pstate \in {101, 201}
    <3>1. ram_ope' = [ram_ope EXCEPT !.read = FALSE, !.write = FALSE]
      BY <2>2 DEF PhyEdge, RamRequest
    <3>2. ~ram_ope'.read /\ ~ram_ope'.write
      BY <3>1, Zenon DEF TypeOK, Fields
    <3>3. pstate' = pstate + 1
      BY <2>2 DEF PhyEdge, NextPState, Last
    <3> QED
      BY <2>2, <3>2, <3>3
  <2>3. CASE ~(pstate = 0 /\ r.to \in Cell /\ (r.read \/ r.write)) /\ pstate \notin {101, 201}
    <3>1. ram_ope' = ram_ope
      BY <2>3, Zenon DEF PhyEdge, RamRequest
    <3>2. pstate' \notin {101, 201}
      BY <2>3 DEF PhyEdge, NextPState, Last, Sends, TypeOK, PState
    <3>3. ~ram_ope.read /\ ~ram_ope.write
      BY <2>3, Zenon DEF RamExact
    <3> QED
      BY <3>1, <3>2, <3>3, Zenon
  <2> QED
    BY <2>1, <2>2, <2>3, Zenon
<1>4. ram' = CASE pstate' = 102 -> "write1" [] pstate' = 103 -> "write2"
             [] pstate' = 104 -> "write3" [] pstate' = 202 -> "read1"
             [] pstate' = 203 -> "read2" [] pstate' = 204 -> "read3" [] OTHER -> "idle"
  BY DEF PhyEdge, Ram, TypeOK, Fields, RamExact, NextPState, Last, Sends, PState
<1> QED
  BY <1>1, <1>2, <1>3, <1>4, Zenon DEF RamExact

\* Request lines: a read, a write or nothing.
Shape(r) == /\ r.read \in BOOLEAN /\ r.write \in BOOLEAN /\ ~(r.read /\ r.write)
            /\ DOMAIN r = Fields

\* What an edge of high_freq_clk does that sees the request r.
MovesOn(r) ==
  /\ pstate = 0 /\ r.read /\ r.to = "flash" => pstate' = 1
  /\ pstate = 0 /\ r.write /\ r.to \in Cell => pstate' = 101
  /\ pstate = 0 /\ r.read /\ r.to \in Cell => pstate' = 201
  /\ pstate = 0 /\ r.write /\ r.to = "serial" => pstate' = 301
  /\ pstate = 0 /\ ~(r.read /\ r.to \in Cell \cup {"flash"})
       /\ ~(r.write /\ r.to \in Cell \cup {"serial"}) => pstate' = 0
  /\ pstate \in Last => pstate' = 0
  /\ pstate = 301 => pstate' = IF sending = 0 THEN 0 ELSE 301
  /\ pstate \in PState \ (Last \cup {0, 301}) => pstate' = pstate + 1

Delivers(r) ==
  /\ pstate = 0 /\ r.read /\ r.to = "serial" => data_out' = <<"serial", latch>>
  /\ pstate = 0 /\ r.read /\ r.to = "rom" => data_out' = RomWord
  /\ pstate = 13 => data_out' = FlashWord
  /\ pstate = 208 => data_out' = read_data
  /\ ~(pstate = 0 /\ r.read /\ r.to \in {"rom", "serial"}) /\ pstate \notin {13, 208}
       => data_out' = data_out

UsesRam(r) ==
  /\ pstate = 0 /\ r.to \in Cell /\ (r.read \/ r.write) => ram_ope' = r
  /\ ~(pstate = 0 /\ r.to \in Cell /\ (r.read \/ r.write))
       => ram_ope'.to = ram_ope.to /\ ram_ope'.data = ram_ope.data
  /\ read_data' = IF pstate = 203 THEN cells[ram_ope.to] ELSE read_data
  /\ cells' = IF pstate = 104 THEN [cells EXCEPT ![ram_ope.to] = ram_ope.data] ELSE cells

Transmits(r) ==
  /\ pstate = 0 /\ r.write /\ r.to = "serial" => transmit' = r.data[1]
  /\ pstate = 301 => transmit' = "none"
  /\ ~(pstate = 0 /\ r.write /\ r.to = "serial") /\ pstate # 301 => transmit' = transmit
  /\ sending = 0 /\ transmit # "none" => sending' \in Nat /\ sending' > 3 /\ sent' = (sent + 1) % 4
  /\ sending = 0 /\ transmit = "none" => sending' = 0 /\ sent' = sent
  /\ sending > 0 => sending' = sending - 1 /\ sent' = sent

Receives(r) ==
  /\ latch = arrived => latch' = arrived'
  /\ arrived' = arrived \/ arrived' # taken
  /\ data_ready' /\ data_ready => arrived' # taken \/ arrived' = arrived
  /\ data_ready' /\ ~data_ready => arrived' # taken
  /\ pstate = 0 /\ r.read /\ r.to = "serial" => ~data_ready'

\* An edge in these terms.
LEMMA PhyMoves ==
  ASSUME TypeOK, RamExact, NEW r, Shape(r), PhyEdge(r)
  PROVE  MovesOn(r) /\ Delivers(r) /\ UsesRam(r) /\ Transmits(r) /\ Receives(r)
<1>1. MovesOn(r)
  BY CellsApart DEF PhyEdge, NextPState, Sends, Last, TypeOK, PState, Shape, MovesOn
<1>2. Delivers(r)
  BY DEF PhyEdge, DataOut, ReadsPort, TypeOK, PState, Shape, Delivers
<1>3. UsesRam(r)
  <2>1. /\ pstate = 0 /\ r.to \in Cell /\ (r.read \/ r.write) => ram_ope' = r
        /\ ~(pstate = 0 /\ r.to \in Cell /\ (r.read \/ r.write))
             => ram_ope'.to = ram_ope.to /\ ram_ope'.data = ram_ope.data
    BY Zenon DEF PhyEdge, RamRequest, TypeOK, Fields
  <2>2. (ram = "read2" <=> pstate = 203) /\ (ram = "write3" <=> pstate = 104)
    BY DEF RamExact, TypeOK, PState
  <2>3. /\ read_data' = IF pstate = 203 THEN cells[ram_ope.to] ELSE read_data
        /\ cells' = IF pstate = 104 THEN [cells EXCEPT ![ram_ope.to] = ram_ope.data] ELSE cells
    BY <2>2, Zenon DEF PhyEdge, Ram
  <2> QED
    BY <2>1, <2>3, Zenon DEF UsesRam
<1>4. Transmits(r)
  <2>1. \A t \in world.times : t \in Nat /\ t > 3
    BY BusAssumption, Zenon DEF TypeOK
  <2> QED
    BY <2>1 DEF PhyEdge, Transmitter, Sends, TypeOK, Transmits
<1>5. Receives(r)
  BY Zenon DEF PhyEdge, ReceiveLatch, ReadsPort, Arrives, Receives
<1> QED
  BY <1>1, <1>2, <1>3, <1>4, <1>5, Zenon

\* What an edge starts, if it starts something.
LEMMA Starts ==
  ASSUME NEW r, MovesOn(r), pstate = 0, pstate' # 0
  PROVE  \/ pstate' = 1 /\ r.read /\ r.to = "flash"
         \/ pstate' = 101 /\ r.write /\ r.to \in Cell
         \/ pstate' = 201 /\ r.read /\ r.to \in Cell
         \/ pstate' = 301 /\ r.write /\ r.to = "serial"
  BY Zenon DEF MovesOn

\* What the MMU's lines look like.
LEMMA RequestShape == TypeOK => Shape(request)
  BY Zenon DEF TypeOK, Shape

\* What phy_mem may start on seeing r is the access of the current stage, or a
\* store to the port that has reached WriteB.
Fits(r) ==
  pstate = 0 =>
    /\ r.read /\ r.to \in Cell \cup {"flash"} => Reads /\ fresh /\ r.to = addr
    /\ r.read /\ r.to \in {"rom", "serial"} => (Reads /\ fresh /\ r.to = addr) \/ ~Access
    /\ r.write /\ r.to \in Cell => Writes /\ fresh /\ r.to = addr /\ r.data = WriteWord
    /\ r.write /\ r.to = "serial" => /\ instr.op = "store" /\ instr.to = "serial"
                                     /\ old_state \in {"Mem1", "WriteB"}

\* A write that is under way was begun in an earlier cycle of cpu_clk.
LEMMA WriteIsOld == ASSUME IInv, pstate = 104 PROVE Writes /\ addr \in Cell /\ ~fresh
<1>1. Writes /\ addr \in Cell /\ Access
  BY DEF IInv, Under, Access
<1>2. ASSUME fresh PROVE FALSE
  <2>1. Pending
    BY <1>1, <1>2 DEF IInv, Under
  <2>2. Started
    BY <1>1, <1>2, <2>1, Zenon DEF IInv, Lines, Reads, Writes
  <2>3. request.write /\ request.to \in Cell
    BY <1>1, <2>1, <2>2, Zenon DEF IInv, Lines, Pending, Reads, Writes, TypeOK
  <2> QED
    BY <2>2, <2>3 DEF IInv, Seen, At, Started
<1> QED
  BY <1>1, <1>2, Zenon

\* A read and a write exclude each other.
LEMMA OneAccess == ~(Reads /\ Writes)
  BY Zenon DEF Reads, Writes

\* The CPU stands still: at the edges between those of cpu_clk, at a falling
\* edge, and at a rising edge that finds the memory busy.  In that last case
\* the stage is no longer new.
Rests == /\ old_state' = old_state /\ next_state' = next_state /\ instr' = instr
         /\ addr' = addr /\ readonly' = readonly /\ arch' = arch /\ want' = want
         /\ stored' = stored /\ taken' = taken /\ polled' = polled
         /\ old_state \in {"InsD", "Exe", "WriteB"} => value' = value
         /\ fresh' = fresh \/ (fresh /\ fresh' = FALSE)

\* By then its access has begun.
Settled == fresh' # fresh =>
             /\ ~(Writes /\ addr \in Cell) \/ pstate' \in 1 .. 104
             /\ pstate # 0 \/ pstate' # 0
             /\ Putting => sending' > 0

\* Between the edges of cpu_clk nothing of the CPU changes.
LEMMA Resting == UNCHANGED cpu => Rests /\ Settled
  BY Zenon DEF cpu, Rests, Settled

\* An edge at which the CPU stands still.
LEMMA StillRam ==
  ASSUME IInv, NEW r, Shape(r), PhyEdge(r), Rests, Settled, Fits(r)
  PROVE  RamHolds' /\ Contents'
<1> USE DEF IInv
<1>1. /\ old_state' = old_state /\ instr' = instr /\ addr' = addr /\ arch' = arch
  BY Zenon DEF Rests
<1>2. MovesOn(r) /\ UsesRam(r)
  BY PhyMoves, Zenon
<1>3. Reads' = Reads /\ Writes' = Writes /\ WriteWord' = WriteWord
  BY <1>1, Zenon DEF Reads, Writes, WriteWord
<1>4. ASSUME pstate = 0, pstate' # 0
      PROVE  RamHolds' /\ Contents'
  <2>1. cells' = cells
    BY <1>2, <1>4 DEF UsesRam
  <2>2. \/ pstate' = 1 /\ r.read /\ r.to = "flash"
        \/ pstate' = 101 /\ r.write /\ r.to \in Cell
        \/ pstate' = 201 /\ r.read /\ r.to \in Cell
        \/ pstate' = 301 /\ r.write /\ r.to = "serial"
    BY <1>2, <1>4, Starts, Zenon
  <2>3. r.to \in Cell => ram_ope' = r /\ r.to = addr /\ (r.write => r.data = WriteWord)
    BY <1>2, <1>4, <2>2, CellsApart, Zenon DEF UsesRam, Fits
  <2>4. RamHolds'
    BY <1>1, <1>3, <2>2, <2>3 DEF RamHolds, Shape
  <2>5. ~Written /\ ~Written'
    BY <1>1, <1>3, <1>4, <2>2, OneAccess, CellsApart DEF Written, Fits, Order, Writes, HasMem2
  <2> QED
    BY <1>1, <2>1, <2>4, <2>5, Zenon DEF Contents
<1>5. ASSUME pstate = 0, pstate' = 0
      PROVE  RamHolds' /\ Contents'
  <2>1. cells' = cells
    BY <1>2, <1>5 DEF UsesRam
  <2>2. Written' = Written
    BY <1>1, <1>3, <1>5 DEF Written, Rests, Settled
  <2> QED
    BY <1>1, <1>3, <1>5, <2>1, <2>2 DEF Contents, RamHolds
<1>6. ASSUME pstate = 104
      PROVE  RamHolds' /\ Contents'
  <2>1. Writes /\ addr \in Cell /\ ~fresh
    BY <1>6, WriteIsOld, Zenon
  <2>2. pstate' = 105
    BY <1>2, <1>6 DEF MovesOn, PState, Last
  <2>3. cells' = [cells EXCEPT ![addr] = WriteWord]
    <3>1. ram_ope.to = addr /\ ram_ope.data = WriteWord
      BY <1>6 DEF RamHolds
    <3>2. cells' = [cells EXCEPT ![ram_ope.to] = ram_ope.data]
      BY <1>2, <1>6, Zenon DEF UsesRam
    <3> QED
      BY <3>1, <3>2, Zenon
  <2>4. cells = arch /\ Written'
    BY <1>1, <1>3, <1>6, <2>1, <2>2 DEF Contents, Written, Rests
  <2>5. ram_ope'.to = ram_ope.to /\ ram_ope'.data = ram_ope.data
    BY <1>2, <1>6 DEF UsesRam
  <2>6. RamHolds'
    BY <1>1, <1>3, <1>6, <2>2, <2>5 DEF RamHolds
  <2>7. Contents'
    BY <1>1, <1>3, <2>3, <2>4, Zenon DEF Contents
  <2> QED
    BY <2>6, <2>7, Zenon
<1>7. ASSUME pstate # 0, pstate # 104
      PROVE  RamHolds' /\ Contents'
  <2>1. cells' = cells /\ ram_ope'.to = ram_ope.to /\ ram_ope'.data = ram_ope.data
    BY <1>2, <1>7, Zenon DEF UsesRam
  <2>2. Written' = Written
    <3>1. CASE fresh' = fresh
      BY <1>1, <1>2, <1>3, <1>7, <3>1, OneAccess
         DEF Written, MovesOn, PState, Last, TypeOK, Under, Order, Writes
    <3>2. CASE fresh' # fresh
      BY <1>1, <1>3, <3>2 DEF Written, Rests, Settled
    <3> QED
      BY <3>1, <3>2, Zenon
  <2>3. RamHolds'
    BY <1>1, <1>2, <1>3, <1>7, <2>1 DEF RamHolds, UsesRam, MovesOn, PState, Last, TypeOK
  <2> QED
    BY <1>1, <1>3, <2>1, <2>2, <2>3, Zenon DEF Contents
<1> QED
  BY <1>4, <1>5, <1>6, <1>7, Zenon

\* What phy_mem does belongs to the stage.
LEMMA StillUnder ==
  ASSUME IInv, NEW r, Shape(r), PhyEdge(r), Rests, Fits(r),
         Access /\ fresh' /\ pstate' # 0 => Pending'
  PROVE  Under'
<1> USE DEF IInv
<1>1. old_state' = old_state /\ instr' = instr /\ addr' = addr
  BY Zenon DEF Rests
<1>2. MovesOn(r)
  BY PhyMoves, Zenon
<1>3. Reads' = Reads /\ Writes' = Writes /\ Access' = Access
  BY <1>1, Zenon DEF Reads, Writes, Access
<1>4. ASSUME pstate = 0, pstate' # 0
      PROVE  Under'
  <2>1. \/ pstate' = 1 /\ r.read /\ r.to = "flash"
        \/ pstate' = 101 /\ r.write /\ r.to \in Cell
        \/ pstate' = 201 /\ r.read /\ r.to \in Cell
        \/ pstate' = 301 /\ r.write /\ r.to = "serial"
    BY <1>2, <1>4, Starts, Zenon
  <2> QED
    BY <1>1, <1>3, <1>4, <2>1 DEF Under, Fits
<1>5. ASSUME pstate = 0, pstate' = 0
      PROVE  Under'
  BY <1>5 DEF Under
<1>6. ASSUME pstate # 0
      PROVE  Under'
  BY <1>1, <1>2, <1>3, <1>6 DEF Under, MovesOn, TypeOK, PState, Last
<1> QED
  BY <1>4, <1>5, <1>6, Zenon

\* The data of an access that has ended is in data_out and stays there.
LEMMA StillData ==
  ASSUME IInv, NEW r, Shape(r), PhyEdge(r), Rests, Settled, Fits(r), Contents',
         fresh' /\ ~Started' => ~Started,
         Reads /\ ~exc' => ~exc,
         Reads /\ fresh /\ ~exc' /\ ~Mute /\ phase' = "rise" => r.read /\ r.to = addr
  PROVE  Data'
<1> USE DEF IInv
<1>1. /\ old_state' = old_state /\ instr' = instr /\ addr' = addr /\ arch' = arch
      /\ readonly' = readonly /\ want' = want /\ (fresh' => fresh)
      /\ old_state \in {"InsD", "Exe", "WriteB"} => value' = value
  BY DEF Rests
<1>2. MovesOn(r) /\ Delivers(r)
  BY PhyMoves, Zenon
<1>3. /\ Reads' = Reads /\ Writes' = Writes /\ Access' = Access
      /\ Wanted' = Wanted /\ Mute' = Mute
  BY <1>1, Zenon DEF Reads, Writes, Access, Wanted, Mute
<1>4. old_state = "Mem2" /\ fresh' /\ ~Started' /\ ~Mute => data_out' = arch[addr]
  <2> SUFFICES ASSUME old_state = "Mem2", fresh', ~Started', ~Mute
               PROVE  data_out' = arch[addr]
    BY Zenon
  <2>1. Access /\ ~Reads
    BY Zenon DEF Access, Reads, Writes
  <2>2. pstate \notin {13, 208}
    BY <2>1 DEF Under
  <2>3. data_out' = data_out
    BY <1>2, <2>1, <2>2, Zenon DEF Delivers, Fits
  <2> QED
    BY <1>1, <2>3, Zenon DEF Data
<1>5. ASSUME Reads, addr # "serial", ~Mute, ~exc', pstate' = 0, ~fresh' \/ phase' = "rise"
      PROVE  data_out' = want
  <2>1. want = Wanted /\ ~exc /\ Access
    BY <1>5, Zenon DEF Data, Access
  <2>2. CASE pstate = 13
    <3>1. addr = "flash" /\ data_out' = FlashWord
      BY <1>2, <2>2 DEF Under, Delivers
    <3> QED
      BY <2>1, <3>1, Zenon DEF Wanted
  <2>3. CASE pstate = 208
    <3>1. addr \in Cell /\ data_out' = read_data /\ read_data = cells[addr]
      BY <1>2, <2>3 DEF Under, Delivers, RamHolds
    <3>2. cells = arch
      BY <1>5, OneAccess, Zenon DEF Contents, Written
    <3> QED
      BY <2>1, <3>1, <3>2, CellsApart, Zenon DEF Wanted
  <2>4. CASE pstate = 0
    <3>1. CASE fresh
      <4>1. r.read /\ r.to = addr
        BY <1>5, <2>4, <3>1, Zenon DEF Settled
      <4>2. addr = "rom"
        BY <1>2, <1>5, <2>4, <4>1 DEF MovesOn, TypeOK, Place, Mute
      <4> QED
        BY <1>2, <2>1, <2>4, <4>1, <4>2, Zenon DEF Delivers, Wanted
    <3>2. CASE ~fresh
      <4>1. data_out = want
        BY <1>5, <2>1, <2>4, <3>2, Zenon DEF Data
      <4>2. data_out' = data_out
        BY <1>2, <2>1, <2>4, <3>2 DEF Delivers, Fits
      <4> QED
        BY <4>1, <4>2, Zenon
    <3> QED
      BY <3>1, <3>2, Zenon
  <2>5. CASE pstate \notin {0, 13, 208}
    BY <1>2, <1>5, <2>5 DEF MovesOn, TypeOK, PState, Last, Under, Writes, Reads
  <2> QED
    BY <2>2, <2>3, <2>4, <2>5, Zenon
<1> QED
  BY <1>1, <1>3, <1>4, <1>5, Zenon DEF Data

\* The characters that have been sent.
LEMMA StillCounted ==
  ASSUME IInv, NEW r, Shape(r), PhyEdge(r), Rests, Settled,
         transmit # "none" /\ sending = 0 => Putting /\ fresh,
         Putting /\ fresh => sending # 1
  PROVE  Counted'
<1> USE DEF IInv
<1>1. old_state' = old_state /\ instr' = instr /\ stored' = stored
  BY Zenon DEF Rests
<1>2. Transmits(r)
  BY PhyMoves, Zenon
<1>3. Putting' = Putting
  BY <1>1, Zenon DEF Putting, Writes
<1>4. CASE transmit # "none" /\ sending = 0
  <2>1. sent' = (sent + 1) % 4 /\ sending' > 3
    BY <1>2, <1>4, Zenon DEF Transmits
  <2>2. sent = stored
    BY <1>4, Zenon DEF Counted
  <2> QED
    BY <1>1, <1>3, <1>4, <2>1, <2>2 DEF Counted
<1>5. CASE ~(transmit # "none" /\ sending = 0)
  <2>1. sent' = sent /\ sending' = IF sending > 0 THEN sending - 1 ELSE 0
    BY <1>2, <1>5 DEF Transmits, TypeOK
  <2>2. Putting => (fresh' /\ sending' = 0 <=> fresh /\ sending = 0)
    BY <2>1 DEF TypeOK, Rests, Settled
  <2> QED
    BY <1>1, <1>3, <2>1, <2>2, Zenon DEF Counted
<1> QED
  BY <1>4, <1>5, Zenon

\* A character in the latch is announced until it is read.
LEMMA StillPort ==
  ASSUME IInv, NEW r, Shape(r), PhyEdge(r), Rests PROVE Port'
<1>1. taken' = taken /\ polled' = polled
  BY Zenon DEF Rests
<1> QED
  BY <1>1, PhyMoves, Zenon DEF IInv, Port, Receives

\* Without a request the transmitter only goes on.
LEMMA Silent ==
  ASSUME IInv, NEW r, Shape(r), PhyEdge(r), ~(r.write /\ r.to = "serial"),
         transmit = "none", pstate # 301 => sending = 0
  PROVE  transmit' = "none" /\ (pstate' # 301 => sending' = 0)
<1> USE DEF IInv
<1>1. MovesOn(r) /\ Transmits(r)
  BY PhyMoves, Zenon
<1>2. transmit' = "none"
  BY <1>1, Zenon DEF Transmits
<1>3. pstate' # 301 => sending' = 0
  BY <1>1 DEF MovesOn, Transmits, TypeOK, PState, Last
<1> QED
  BY <1>2, <1>3, Zenon

\* Between a rising edge and the next falling edge of cpu_clk a new stage has
\* no request yet, and phy_mem is idle.
LEMMA NotYet ==
  ASSUME IInv, ~Started, Access, fresh
  PROVE  ~Pending /\ pstate = 0 /\ sending = 0 /\ transmit = "none"
<1>1. ~Pending
  BY Zenon DEF IInv, Lines, Reads, Writes, Access
<1>2. pstate = 0
  BY <1>1, Zenon DEF IInv, Under
<1> QED
  BY <1>1, <1>2 DEF IInv, Sending, Pending

\* The same facts for all edges at which the CPU stands still.
LEMMA StillTypes ==
  ASSUME IInv, NEW r, Shape(r), PhyEdge(r), world' = world, Rests,
         exc' \in BOOLEAN, Shape(request'), phase' \in {"rise", "high", "fall", "low"}
  PROVE  TypeOK' /\ RamExact'
<1> USE DEF IInv
<1>1. /\ old_state' = old_state /\ instr' = instr /\ addr' = addr
      /\ arch' = arch /\ stored' = stored /\ fresh' \in BOOLEAN /\ readonly' = readonly
  BY Zenon DEF Rests, TypeOK
<1>2. RamExact' /\ DOMAIN ram_ope' = Fields /\ pstate' \in PState
  BY RamFollows DEF Shape
<1>3. sending' \in Nat
  BY PhyMoves DEF Transmits, TypeOK
<1> QED
  BY <1>1, <1>2, <1>3, Zenon DEF TypeOK, Shape

\* What a request tells of the stage, from the falling edge of cpu_clk that
\* sends it to the next rising edge.
Asked == /\ fresh /\ ~exc /\ request.to = addr
         /\ request.read => Reads /\ ~Mute
         /\ request.write => Writes

\* A request belongs to the stage that is new and did not fault.
LEMMA Requested ==
  ASSUME IInv, Started
  PROVE  /\ Pending => Asked
         /\ request.write /\ request.to = "serial" =>
              /\ instr.op = "store" /\ instr.to = "serial" /\ old_state = "Mem1"
              /\ Putting /\ fresh
         /\ Fits(request)
<1> USE DEF IInv
<1>1. Pending => Asked
  BY Zenon DEF Lines, Pending, Access, Asked
<1>2. request.write /\ request.to = "serial" => /\ instr.op = "store" /\ instr.to = "serial"
                                                /\ old_state = "Mem1" /\ Putting /\ fresh
  BY <1>1, Zenon DEF Sending, Putting, Writes, Order, HasMem2, Pending, Asked
<1>3. Fits(request)
  BY <1>1, <1>2, Zenon DEF Fits, Lines, Pending, Access, Asked
<1> QED
  BY <1>1, <1>2, <1>3, Zenon

\* The rising edge of high_freq_clk after a falling edge of cpu_clk.
LEMMA LowStep == ASSUME IInv, Low PROVE IInv'
<1> USE DEF IInv
<1>1. /\ phase = "low" /\ phase' = "rise" /\ Started /\ Started'
      /\ old_state' = old_state /\ next_state' = next_state /\ fresh' = fresh
      /\ instr' = instr /\ addr' = addr /\ readonly' = readonly /\ arch' = arch
      /\ request' = request /\ exc' = exc
  BY Zenon DEF Low, cpu, Started
<1>2. Shape(request) /\ PhyEdge(request) /\ Rests /\ Settled /\ world' = world
  BY RequestShape, Resting, Zenon DEF Low
<1>3. MovesOn(request) /\ Transmits(request)
  BY <1>2, PhyMoves, Zenon
<1>4. TypeOK' /\ RamExact'
  BY <1>1, <1>2, StillTypes, Zenon DEF TypeOK
<1>5. /\ Reads' = Reads /\ Writes' = Writes /\ Access' = Access /\ Pending' = Pending
      /\ WriteWord' = WriteWord /\ Putting' = Putting /\ HasMem1' = HasMem1 /\ HasMem2' = HasMem2
      /\ Mute' = Mute
  BY <1>1, Zenon DEF Reads, Writes, Access, Pending, WriteWord, Putting, HasMem1, HasMem2, Mute
<1>6. Order' /\ Lines'
  BY <1>1, <1>5, Zenon DEF Order, Lines
<1>7. Seen'
  BY <1>1, <1>3, CellsApart DEF Seen, At, MovesOn, TypeOK, PState, Last
<1>8. Pending => Asked
  BY <1>1, Requested, Zenon
<1>9. request.write /\ request.to = "serial" => /\ instr.op = "store" /\ instr.to = "serial"
                                                /\ old_state = "Mem1" /\ Putting /\ fresh
  BY <1>1, Requested, Zenon
<1>10. Fits(request)
  BY <1>1, Requested, Zenon
<1>11. RamHolds' /\ Contents'
  BY <1>2, <1>10, StillRam, Zenon
<1>12. Under'
  <2>1. pstate = 0 /\ pstate' # 0 => Pending
    BY <1>3, Starts, Zenon DEF Pending
  <2>2. Access /\ fresh' /\ pstate' # 0 => Pending'
    BY <1>1, <1>5, <2>1, Zenon DEF Under
  <2> QED
    BY <1>2, <1>10, <2>2, StillUnder, Zenon
<1>13. Data'
  <2>1. Reads /\ fresh /\ ~exc /\ ~Mute => request.read /\ request.to = addr
    BY <1>1, <1>8, Zenon DEF Lines, Pending, Asked
  <2> QED
    BY <1>1, <1>2, <1>10, <1>11, <2>1, StillData, Zenon
<1>14. Port'
  BY <1>2, StillPort, Zenon
<1>15. Counted'
  <2>1. transmit # "none" /\ sending = 0 => Putting /\ fresh
    BY <1>9, Zenon DEF Sending
  <2>2. Putting /\ fresh => sending = 0
    <3> SUFFICES ASSUME Putting, fresh PROVE sending = 0
      BY Zenon
    <3>1. Writes /\ Access /\ addr = "serial"
      BY Zenon DEF Putting, Access, Writes, Order
    <3>2. CASE Pending
      BY <1>1, <1>8, <3>1, <3>2, OneAccess, Zenon DEF Sending, Pending, Asked
    <3>3. CASE ~Pending
      BY <3>1, <3>3 DEF Under, Sending, Pending
    <3> QED
      BY <3>2, <3>3, Zenon
  <2> QED
    BY <1>2, <2>1, <2>2, StillCounted
<1>16. Sending'
  <2>1. CASE request.write /\ request.to = "serial"
    <3>1. /\ instr.op = "store" /\ request.data = instr.val /\ pstate \in {0, 301} /\ sending = 0
          /\ transmit = IF pstate = 0 THEN "none" ELSE instr.val[1]
      BY <1>1, <2>1, Zenon DEF Sending
    <3>2. CASE pstate = 0
      <4>1. pstate' = 301 /\ transmit' = instr.val[1] /\ sending' = 0
        BY <1>3, <2>1, <3>1, <3>2 DEF MovesOn, Transmits
      <4> QED
        BY <1>1, <1>9, <2>1, <3>1, <4>1, Zenon DEF Sending
    <3>3. CASE pstate = 301
      <4>1. pstate' = 0 /\ transmit' = "none" /\ sending' > 3
        BY <1>3, <3>1, <3>3, Character DEF MovesOn, Transmits
      <4> QED
        BY <1>1, <1>9, <2>1, <3>1, <4>1, Zenon DEF Sending
    <3> QED
      BY <3>1, <3>2, <3>3, Zenon
  <2>2. CASE ~(request.write /\ request.to = "serial")
    <3>1. transmit' = "none" /\ (pstate' # 301 => sending' = 0)
      BY <1>2, <2>2, Silent, Zenon DEF Sending
    <3> QED
      BY <1>1, <2>2, <3>1, Zenon DEF Sending
  <2> QED
    BY <2>1, <2>2, Zenon
<1> QED
  BY <1>4, <1>6, <1>7, <1>11, <1>12, <1>13, <1>14, <1>15, <1>16, Zenon

\* The rising edge of high_freq_clk after a rising edge of cpu_clk.
LEMMA HighStep == ASSUME IInv, High PROVE IInv'
<1> USE DEF IInv
<1>1. /\ phase = "high" /\ phase' = "fall" /\ ~Started /\ ~Started'
      /\ old_state' = old_state /\ next_state' = next_state /\ fresh' = fresh
      /\ instr' = instr /\ addr' = addr /\ readonly' = readonly /\ arch' = arch
      /\ request' = request /\ exc' = exc
  BY Zenon DEF High, cpu, Started
<1>2. Shape(request) /\ PhyEdge(request) /\ Rests /\ Settled /\ world' = world
  BY RequestShape, Resting, Zenon DEF High
<1>3. MovesOn(request) /\ Transmits(request)
  BY <1>2, PhyMoves, Zenon
<1>4. TypeOK' /\ RamExact'
  BY <1>1, <1>2, StillTypes, Zenon DEF TypeOK
<1>5. /\ Reads' = Reads /\ Writes' = Writes /\ Access' = Access /\ Pending' = Pending
      /\ WriteWord' = WriteWord /\ Putting' = Putting /\ HasMem1' = HasMem1 /\ HasMem2' = HasMem2
      /\ Mute' = Mute
  BY <1>1, Zenon DEF Reads, Writes, Access, Pending, WriteWord, Putting, HasMem1, HasMem2, Mute
<1>6. Order' /\ Lines'
  BY <1>1, <1>5, ZenonT(30) DEF Order, Lines
<1>7. Seen'
  BY <1>1, <1>3, CellsApart DEF Seen, At, MovesOn, TypeOK, PState, Last
<1>8. Fits(request)
  <2> SUFFICES ASSUME pstate = 0 PROVE Fits(request)
    BY Zenon DEF Fits
  <2>1. ~(request.read /\ request.to \in Cell \cup {"flash"}) /\ ~(request.write /\ request.to \in Cell)
    BY <1>1 DEF Seen, At
  <2>2. request.read /\ request.to \in {"rom", "serial"} => ~Access
    BY <1>1, CellsApart, Zenon DEF Lines, Pending, TypeOK
  <2>3. request.write /\ request.to = "serial" => /\ instr.op = "store" /\ instr.to = "serial"
                                                  /\ old_state \in {"Mem1", "WriteB"}
    BY <1>1, CellsApart, Zenon DEF Lines, Pending, TypeOK, Sending, Putting, Writes, Order, HasMem2
  <2> QED
    BY <2>1, <2>2, <2>3, Zenon DEF Fits
<1>9. RamHolds' /\ Contents'
  BY <1>2, <1>8, StillRam, Zenon
<1>10. Under'
  <2>1. pstate = 0 /\ pstate' # 0 => Pending
    BY <1>3, Starts, Zenon DEF Pending
  <2>2. Access /\ fresh' /\ pstate' # 0 => Pending'
    BY <1>1, <1>5, <2>1, Zenon DEF Under
  <2> QED
    BY <1>2, <1>8, <2>2, StillUnder, Zenon
<1>11. Data'
  BY <1>1, <1>2, <1>8, <1>9, StillData, Zenon
<1>12. Port'
  BY <1>2, StillPort, Zenon
<1>13. Counted'
  <2>1. ~(transmit # "none" /\ sending = 0)
    BY <1>1 DEF Sending
  <2>2. Putting /\ fresh => sending = 0
    BY <1>1, NotYet, Zenon DEF Putting, Access
  <2> QED
    BY <1>2, <2>1, <2>2, StillCounted
<1>14. Sending'
  <2>1. CASE request.write /\ request.to = "serial"
    <3>1. /\ instr.op = "store" /\ instr.to = "serial" /\ request.data = instr.val
          /\ \/ pstate = 0 /\ transmit = "none" /\ sending > 3
             \/ pstate = 301 /\ transmit = instr.val[1] /\ sending > 2
      BY <1>1, <2>1, Zenon DEF Sending
    <3>2. /\ pstate' = 301 /\ sending' > 1
          /\ transmit' \in {"none", instr.val[1]}
      BY <1>3, <2>1, <3>1 DEF MovesOn, Transmits, TypeOK
    <3> QED
      BY <1>1, <2>1, <3>1, <3>2, Zenon DEF Sending
  <2>2. CASE ~(request.write /\ request.to = "serial")
    <3>1. transmit' = "none" /\ (pstate' # 301 => sending' = 0)
      BY <1>2, <2>2, Silent, Zenon DEF Sending
    <3> QED
      BY <1>1, <2>2, <3>1, Zenon DEF Sending
  <2> QED
    BY <2>1, <2>2, Zenon
<1> QED
  BY <1>4, <1>6, <1>7, <1>9, <1>10, <1>11, <1>12, <1>13, <1>14, Zenon

\* What a falling edge of cpu_clk sends: the request of a new stage, unless it
\* faults.
Posted == /\ exc' \in BOOLEAN /\ (exc' => Access /\ fresh)
          /\ request'.read <=> fresh /\ ~exc' /\ ~Mute /\ Reads
          /\ request'.write <=> fresh /\ ~exc' /\ Writes
          /\ request'.to = addr /\ (request'.write => request'.data = WriteWord)
          /\ Shape(request')

\* The MMU sends it when the memory is not busy, and a new stage finds it idle.
LEMMA SendFacts ==
  ASSUME IInv, phase = "fall", NEW b \in BOOLEAN, Access /\ fresh => ~b, Send(b)
  PROVE  Posted
<1> USE DEF IInv
<1>1. Access <=> Accesses
  BY Zenon DEF Access, Reads, Writes, Accesses, Order, HasMem1, HasMem2
<1>2. PICK bad \in BOOLEAN :
        /\ exc' = (Accesses /\ fresh /\ ~exc /\ (bad \/ (readonly /\ Writes)))
        /\ request' = Sent(b, exc')
  BY Zenon DEF Send
<1>3. /\ exc' \in BOOLEAN /\ (exc' => Access /\ fresh)
      /\ fresh /\ Writes /\ ~exc' => ~Mute
  <2>1. exc' \in BOOLEAN /\ (exc' => Access /\ fresh)
    BY <1>1, <1>2, Zenon
  <2>2. Writes => ~exc /\ addr # "status"
    BY OpsFacts, CellsApart, Zenon DEF Writes, Order, Started, TypeOK, HasMem2
  <2> QED
    BY <1>1, <1>2, <2>1, <2>2, Zenon DEF Mute, Access, TypeOK
<1> DEFINE go == fresh /\ ~exc' /\ ~b /\ ~Mute
<1>4. Sent(b, exc') = [read |-> go /\ Reads, write |-> go /\ Writes, to |-> addr,
                       data |-> IF go /\ Writes THEN StoreData ELSE NoWord]
  BY Zenon DEF Sent
<1>5. /\ request'.read = (go /\ Reads) /\ request'.write = (go /\ Writes)
      /\ request'.to = addr /\ DOMAIN request' = Fields
      /\ (go /\ Writes => request'.data = StoreData)
  BY <1>2, <1>4 DEF Fields
<1>6. /\ request'.read <=> fresh /\ ~exc' /\ ~Mute /\ Reads
      /\ request'.write <=> fresh /\ ~exc' /\ Writes
  BY <1>3, <1>5, Zenon DEF Access
<1>7. fresh /\ Writes /\ ~Mute => StoreData = WriteWord
  <2> SUFFICES ASSUME fresh, Writes, ~Mute PROVE StoreData = WriteWord
    BY Zenon
  <2>1. CASE old_state = "Mem2"
    <3>1. data_out = arch[addr]
      BY <2>1, Zenon DEF Data, Started
    <3> QED
      BY <3>1, Zenon DEF StoreData, WriteWord
  <2>2. CASE old_state = "Mem1" /\ instr.op = "store"
    BY <2>2, Zenon DEF StoreData, WriteWord
  <2> QED
    BY <2>1, <2>2, Zenon DEF Writes
<1>8. Shape(request')
  BY <1>5, OneAccess, Zenon DEF Shape
<1> QED
  BY <1>3, <1>5, <1>6, <1>7, <1>8, Zenon DEF Posted

\* What does not depend on whether phy_mem sees the lines before or after the
\* edge.
LEMMA FallRest ==
  ASSUME IInv, phase = "fall", phase' = "low", UNCHANGED <<world, cpu>>, Posted,
         NEW r, Shape(r), PhyEdge(r), Fits(r), Access /\ fresh /\ pstate' # 0 => Pending'
  PROVE  /\ TypeOK' /\ RamExact' /\ Order' /\ Lines' /\ Under'
         /\ RamHolds' /\ Contents' /\ Data' /\ Port' /\ Counted'
<1> USE DEF IInv
<1>1. /\ ~Started /\ Started' /\ Rests /\ Settled /\ world' = world
      /\ old_state' = old_state /\ next_state' = next_state /\ fresh' = fresh
      /\ instr' = instr /\ addr' = addr /\ readonly' = readonly /\ arch' = arch
  BY Resting, Zenon DEF cpu, Started
<1>2. TypeOK' /\ RamExact'
  BY <1>1, StillTypes, Zenon DEF Posted
<1>3. /\ Reads' = Reads /\ Writes' = Writes /\ Access' = Access
      /\ WriteWord' = WriteWord /\ HasMem1' = HasMem1 /\ HasMem2' = HasMem2 /\ Mute' = Mute
  BY <1>1, Zenon DEF Reads, Writes, Access, WriteWord, HasMem1, HasMem2, Mute
<1>4. Order'
  BY <1>1, <1>3, Zenon DEF Order, Posted
<1>5. Lines'
  BY <1>1, <1>3, Zenon DEF Lines, Posted
<1>6. Under'
  BY <1>1, StillUnder, Zenon
<1>7. RamHolds' /\ Contents'
  BY <1>1, StillRam, Zenon
<1>8. Data'
  <2>1. Reads => ~exc
    BY <1>1, Zenon DEF Order, Reads
  <2> QED
    BY <1>1, <1>7, <2>1, StillData, Zenon
<1>9. Port'
  BY <1>1, StillPort, Zenon
<1>10. Counted'
  <2>1. ~(transmit # "none" /\ sending = 0)
    BY DEF Sending
  <2>2. Putting /\ fresh => sending = 0
    BY <1>1, NotYet, Zenon DEF Putting, Access
  <2> QED
    BY <1>1, <2>1, <2>2, StillCounted
<1> QED
  BY <1>2, <1>4, <1>5, <1>6, <1>7, <1>8, <1>9, <1>10, Zenon

\* phy_mem sees the lines before the edge: it does not know of a new stage yet.
LEMMA FallOld ==
  ASSUME IInv, phase = "fall", phase' = "low", UNCHANGED <<world, cpu>>, Posted,
         PhyEdge(request)
  PROVE  IInv'
<1> USE DEF IInv
<1>1. Shape(request) /\ ~Started
  BY RequestShape, Zenon DEF Started
<1>2. MovesOn(request) /\ Transmits(request)
  BY <1>1, PhyMoves, Zenon
<1>3. ASSUME Access, fresh
      PROVE  ~Pending /\ pstate = 0 /\ sending = 0 /\ transmit = "none" /\ pstate' = 0
  <2>1. ~Pending /\ pstate = 0 /\ sending = 0 /\ transmit = "none"
    BY <1>1, <1>3, NotYet, Zenon
  <2>2. pstate' = 0
    BY <1>2, <2>1, Zenon DEF MovesOn, Pending
  <2> QED
    BY <2>1, <2>2, Zenon
<1>4. Pending' => Access /\ fresh
  BY Zenon DEF Posted, Pending, Access
<1>5. Fits(request)
  <2> SUFFICES ASSUME pstate = 0 PROVE Fits(request)
    BY Zenon DEF Fits
  <2>1. ~(request.read /\ request.to \in Cell \cup {"flash"}) /\ ~(request.write /\ request.to \in Cell)
    BY DEF Seen, At
  <2>2. request.read /\ request.to \in {"rom", "serial"} => ~Access
    BY <1>1, CellsApart, Zenon DEF Lines, Pending, TypeOK
  <2>3. ~(request.write /\ request.to = "serial")
    BY DEF Sending
  <2> QED
    BY <2>1, <2>2, <2>3, Zenon DEF Fits
<1>6. /\ TypeOK' /\ RamExact' /\ Order' /\ Lines' /\ Under'
      /\ RamHolds' /\ Contents' /\ Data' /\ Port' /\ Counted'
  <2>1. Access /\ fresh /\ pstate' # 0 => Pending'
    BY <1>3, Zenon
  <2> QED
    BY <1>1, <1>5, <2>1, FallRest, Zenon
<1>7. Seen'
  BY <1>3, <1>4, CellsApart, Zenon DEF Seen, At, Pending
<1>8. Sending'
  <2>1. CASE request'.write /\ request'.to = "serial"
    <3>1. Access /\ fresh /\ Writes /\ addr = "serial"
      BY <2>1, Zenon DEF Posted, Access
    <3>2. pstate' = 0 /\ transmit' = "none" /\ sending' = 0
      BY <1>2, <1>3, <3>1 DEF Transmits, Pending
    <3>3. instr' = instr /\ instr.op = "store" /\ instr.to = "serial"
      BY <3>1, OpsFacts, CellsApart, Zenon DEF cpu, TypeOK, Writes, Order, HasMem2
    <3>4. request'.data = instr.val
      BY <2>1, <3>3, Zenon DEF Posted, WriteWord
    <3> QED
      BY <2>1, <3>2, <3>3, <3>4, Zenon DEF Sending
  <2>2. CASE ~(request'.write /\ request'.to = "serial")
    <3>1. CASE request.write /\ request.to = "serial"
      <4>1. pstate = 301 /\ sending > 1
        BY <3>1 DEF Sending
      <4>2. pstate' = 301 /\ transmit' = "none"
        BY <1>2, <4>1 DEF MovesOn, Transmits, TypeOK
      <4> QED
        BY <2>2, <4>2, Zenon DEF Sending
    <3>2. CASE ~(request.write /\ request.to = "serial")
      <4>1. transmit' = "none" /\ (pstate' # 301 => sending' = 0)
        BY <1>1, <3>2, Silent, Zenon DEF Sending
      <4> QED
        BY <2>2, <4>1, Zenon DEF Sending
    <3> QED
      BY <3>1, <3>2, Zenon
  <2> QED
    BY <2>1, <2>2, Zenon
<1> QED
  BY <1>6, <1>7, <1>8, Zenon

\* phy_mem sees the lines after the edge: it begins at once.
LEMMA FallNew ==
  ASSUME IInv, phase = "fall", phase' = "low", UNCHANGED <<world, cpu>>, Posted,
         PhyEdge(request')
  PROVE  IInv'
<1> USE DEF IInv
<1>1. Shape(request') /\ ~Started
  BY Zenon DEF Started, Posted
<1>2. MovesOn(request') /\ Transmits(request')
  BY <1>1, PhyMoves, Zenon
<1>3. Access /\ fresh => pstate = 0 /\ sending = 0 /\ transmit = "none"
  BY <1>1, NotYet, Zenon
<1>4. Pending' => /\ Access /\ fresh /\ request'.to = addr
                  /\ (request'.read => Reads)
                  /\ (request'.write => Writes /\ request'.data = WriteWord)
  BY Zenon DEF Posted, Pending, Access
<1>5. request'.write /\ request'.to = "serial" =>
        /\ instr.op = "store" /\ instr.to = "serial" /\ request'.data = instr.val
        /\ old_state = "Mem1"
  <2> SUFFICES ASSUME request'.write, request'.to = "serial"
               PROVE  /\ instr.op = "store" /\ instr.to = "serial"
                      /\ request'.data = instr.val /\ old_state = "Mem1"
    BY Zenon
  <2>1. Writes /\ addr = "serial" /\ request'.data = WriteWord
    BY <1>4, Zenon DEF Pending
  <2>2. instr.to = "serial" /\ instr.op # "sb"
    BY <2>1, OpsFacts, CellsApart, Zenon DEF TypeOK, Writes, Order, HasMem2
  <2>3. old_state = "Mem1" /\ instr.op = "store"
    BY <2>1, <2>2, Zenon DEF Writes, Order, HasMem2
  <2> QED
    BY <2>1, <2>2, <2>3, Zenon DEF WriteWord
<1>6. Fits(request')
  BY <1>4, <1>5, Zenon DEF Fits, Pending
<1>7. /\ TypeOK' /\ RamExact' /\ Order' /\ Lines' /\ Under'
      /\ RamHolds' /\ Contents' /\ Data' /\ Port' /\ Counted'
  <2>1. Access /\ fresh /\ pstate' # 0 => Pending'
    BY <1>2, <1>3, Starts, ZenonT(30) DEF Pending
  <2> QED
    BY <1>1, <1>6, <2>1, FallRest, Zenon
<1>8. Seen'
  BY <1>1, <1>2, <1>3, <1>4, CellsApart DEF Seen, At, Pending, MovesOn, Shape
<1>9. Sending'
  <2>1. CASE request'.write /\ request'.to = "serial"
    <3>1. /\ instr.op = "store" /\ instr.to = "serial" /\ request'.data = instr.val
          /\ instr' = instr
      BY <1>5, <2>1, Zenon DEF cpu
    <3>2. pstate = 0 /\ sending = 0 /\ transmit = "none"
      BY <1>3, <1>4, <2>1, Zenon DEF Pending
    <3>3. pstate' = 301 /\ transmit' = instr.val[1] /\ sending' = 0
      BY <1>2, <2>1, <3>1, <3>2 DEF MovesOn, Transmits
    <3> QED
      BY <2>1, <3>1, <3>3 DEF Sending
  <2>2. CASE ~(request'.write /\ request'.to = "serial")
    <3>1. CASE request.write /\ request.to = "serial"
      <4>1. pstate = 301 /\ sending > 1
        BY <3>1, Zenon DEF Sending
      <4>2. pstate' = 301 /\ transmit' = "none"
        BY <1>2, <4>1 DEF MovesOn, Transmits, TypeOK
      <4> QED
        BY <2>2, <4>2, Zenon DEF Sending
    <3>2. CASE ~(request.write /\ request.to = "serial")
      <4>1. transmit' = "none" /\ (pstate' # 301 => sending' = 0)
        BY <1>1, <2>2, <3>2, Silent, Zenon DEF Sending
      <4> QED
        BY <2>2, <4>1, Zenon DEF Sending
    <3> QED
      BY <3>1, <3>2, Zenon
  <2> QED
    BY <2>1, <2>2, Zenon
<1> QED
  BY <1>7, <1>8, <1>9, Zenon

\* A falling edge of cpu_clk.
LEMMA FallStep == ASSUME IInv, Fall PROVE IInv'
<1>1. phase = "fall" /\ phase' = "low" /\ UNCHANGED <<world, cpu>>
  BY Zenon DEF Fall
<1>2. ~Started
  BY <1>1, Zenon DEF Started
<1>3. Access /\ fresh => ~busy
  BY <1>2, NotYet, Zenon DEF busy
<1>4. CASE Send(busy) /\ PhyEdge(request)
  <2>1. Posted
    BY <1>1, <1>3, <1>4, SendFacts, Zenon DEF busy
  <2> QED
    BY <1>1, <1>4, <2>1, FallOld, Zenon
<1>5. CASE Send(busy) /\ PhyEdge(request')
  <2>1. Posted
    BY <1>1, <1>3, <1>5, SendFacts, Zenon DEF busy
  <2> QED
    BY <1>1, <1>5, <2>1, FallNew, Zenon
<1>6. CASE PhyEdge(request) /\ Send(busy')
  <2>1. Access /\ fresh => pstate' = 0
    <3>1. MovesOn(request)
      BY <1>6, RequestShape, PhyMoves, Zenon DEF IInv
    <3> QED
      BY <1>2, <3>1, NotYet, Zenon DEF MovesOn, Pending
  <2>2. Posted
    BY <1>1, <1>6, <2>1, SendFacts, Zenon DEF busy
  <2> QED
    BY <1>1, <1>6, <2>2, FallOld, Zenon
<1> QED
  BY <1>4, <1>5, <1>6, Zenon DEF Fall

\* At a rising edge of cpu_clk the transmitter does the same whether the core
\* goes on or not.
LEMMA RiseSending ==
  ASSUME IInv, phase = "rise", phase' = "high", PhyEdge(request), request' = request,
         request.write /\ request.to = "serial" => instr' = instr
  PROVE  Sending'
<1> USE DEF IInv
<1>1. Shape(request) /\ MovesOn(request) /\ Transmits(request)
  BY RequestShape, PhyMoves, Zenon
<1>2. CASE request.write /\ request.to = "serial"
  <2>1. /\ instr.op = "store" /\ instr.to = "serial" /\ request.data = instr.val
        /\ \/ pstate = 301 /\ transmit = instr.val[1] /\ sending = 0
           \/ pstate = 0 /\ transmit = "none" /\ sending > 3
    BY <1>2, ZenonT(30) DEF Sending
  <2>2. \/ pstate' = 0 /\ transmit' = "none" /\ sending' > 3
        \/ pstate' = 301 /\ transmit' = instr.val[1] /\ sending' > 2
    BY <1>1, <1>2, <2>1, Character DEF MovesOn, Transmits, TypeOK
  <2> QED
    BY <1>2, <2>1, <2>2 DEF Sending
<1>3. CASE ~(request.write /\ request.to = "serial")
  <2>1. transmit' = "none" /\ (pstate' # 301 => sending' = 0)
    BY <1>1, <1>3, Silent, Zenon DEF Sending
  <2> QED
    BY <1>3, <2>1, Zenon DEF Sending
<1> QED
  BY <1>2, <1>3, Zenon

\* A rising edge of cpu_clk that finds the memory busy: the stage is repeated.
LEMMA RiseStall ==
  ASSUME IInv, phase = "rise", phase' = "high", PhyEdge(request),
         world' = world, request' = request, exc' = exc,
         NEW d, Perform(TRUE, d), pstate # 0 \/ pstate' # 0
  PROVE  IInv'
<1> USE DEF IInv
<1>1. Started /\ ~Started' /\ Shape(request)
  BY RequestShape, Zenon DEF Started
<1>2. MovesOn(request) /\ Transmits(request)
  BY <1>1, PhyMoves, Zenon
<1>3. (Pending => Asked) /\ Fits(request)
  BY <1>1, Requested, Zenon
<1>4. Access \/ old_state = "WriteB"
  <2>1. CASE pstate # 0
    BY <2>1 DEF Under, TypeOK, PState, Access, Writes
  <2>2. CASE pstate = 0
    BY <1>2, <1>3, <2>2, Starts, Zenon DEF Pending, Asked, Access
  <2> QED
    BY <2>1, <2>2, Zenon
<1>5. ~exc
  <2> SUFFICES ASSUME exc PROVE FALSE
    BY Zenon
  <2>1. Access /\ fresh /\ ~Pending
    BY <1>1, <1>3, Zenon DEF Order, Asked
  <2>2. pstate = 0
    BY <2>1, Zenon DEF Under
  <2> QED
    BY <1>2, <2>1, <2>2, Starts, Zenon DEF Pending
<1>6. Rests /\ fresh' = FALSE
  <2>1. old_state # "InsD"
    BY <1>4, Zenon DEF Access, Reads, Writes
  <2>2. StageNow(TRUE) = old_state
    BY Zenon DEF StageNow
  <2>3. /\ old_state' = old_state /\ fresh' = FALSE
        /\ next_state' = StageAfter(old_state, HasMem1, HasMem2)
        /\ instr' = instr /\ addr' = addr /\ readonly' = readonly
        /\ want' = want /\ Retire(old_state, d)
    BY <2>1, <2>2, Zenon DEF Perform
  <2>4. /\ old_state # "InsF" => value' = value
        /\ taken' = taken /\ polled' = polled /\ stored' = stored /\ arch' = arch
    BY <2>1, <2>3, Zenon DEF Retire
  <2> QED
    BY <2>3, <2>4, Zenon DEF Rests, Order, TypeOK
<1>7. Pending => \/ request.read /\ request.to \in Cell \cup {"flash"} /\ Reads
                 \/ request.write /\ request.to \in Cell /\ Writes
                 \/ request.write /\ request.to = "serial" /\ Putting
  <2> SUFFICES ASSUME Pending
               PROVE  \/ request.read /\ request.to \in Cell \cup {"flash"} /\ Reads
                      \/ request.write /\ request.to \in Cell /\ Writes
                      \/ request.write /\ request.to = "serial" /\ Putting
    BY Zenon
  <2>1. Asked
    BY <1>3, Zenon
  <2>2. CASE request.read
    <3>1. request.to \notin {"rom", "serial"}
      BY <1>1, <1>2, <2>2, CellsApart DEF Seen, MovesOn, Shape
    <3> QED
      BY <2>1, <2>2, <3>1, Zenon DEF Asked, TypeOK, Place, Mute
  <2>3. CASE request.write
    <3>1. Writes /\ addr = instr.to /\ request.to = addr
      BY <2>1, <2>3, Zenon DEF Asked, Writes, Order
    <3>2. instr.to \in Cell \cup {"serial"}
      BY <3>1, OpsFacts, Zenon DEF TypeOK, Writes, Order, HasMem2
    <3> QED
      BY <2>3, <3>1, <3>2, Zenon DEF Putting
  <2> QED
    BY <2>2, <2>3, Zenon DEF Pending
<1>8. Settled
  <2> SUFFICES ASSUME fresh
               PROVE  /\ ~(Writes /\ addr \in Cell) \/ pstate' \in 1 .. 104
                      /\ Putting => sending' > 0
    BY <1>6, Zenon DEF Settled, TypeOK
  <2>1. Writes => request.write /\ request.to = addr
    BY <1>1, <1>3, <1>5, ZenonT(30) DEF Lines, Pending, Asked
  <2>2. ~(Writes /\ addr \in Cell) \/ pstate' \in 1 .. 104
    BY <1>2, <2>1 DEF Seen, At, MovesOn, TypeOK, PState, Last
  <2>3. Putting => sending' > 0
    <3> SUFFICES ASSUME Putting PROVE sending' > 0
      BY Zenon
    <3>1. request.write /\ request.to = "serial"
      BY <2>1, Zenon DEF Putting, Writes, Order
    <3>2. sending > 3 \/ (sending = 0 /\ transmit # "none")
      BY <3>1, Character DEF Sending
    <3> QED
      BY <1>2, <3>2 DEF Transmits, TypeOK
  <2> QED
    BY <2>2, <2>3, Zenon
<1>9. TypeOK' /\ RamExact'
  BY <1>1, <1>6, StillTypes, Zenon DEF TypeOK
<1>10. /\ Reads' = Reads /\ Writes' = Writes /\ Access' = Access /\ Pending' = Pending
       /\ WriteWord' = WriteWord /\ Putting' = Putting /\ HasMem1' = HasMem1 /\ HasMem2' = HasMem2
       /\ old_state' = old_state /\ next_state' = next_state /\ addr' = addr /\ instr' = instr
       /\ readonly' = readonly
  BY <1>6, Zenon DEF Rests, Reads, Writes, Access, Pending, WriteWord, Putting, HasMem1, HasMem2
<1>11. Order'
  <2>1. ~(Reads /\ addr = "serial")
    <3> SUFFICES ASSUME Reads, addr = "serial" PROVE FALSE
      BY Zenon
    <3>1. pstate = 0
      BY CellsApart, OneAccess DEF Under, TypeOK, PState, Reads
    <3>2. Pending
      BY <1>2, <3>1, Starts, ZenonT(30) DEF Pending
    <3> QED
      BY <1>3, <1>7, <3>2, CellsApart, OneAccess, Zenon DEF Asked, Putting
  <2> QED
    BY <1>5, <1>10, <2>1, Zenon DEF Order
<1>12. Lines'
  BY <1>1, <1>6, <1>7, <1>10, Zenon DEF Lines
<1>13. Seen'
  BY <1>2, CellsApart DEF Seen, At, MovesOn, TypeOK, PState, Last
<1>14. Under'
  BY <1>1, <1>3, <1>6, StillUnder, Zenon
<1>15. Sending'
  BY <1>10, RiseSending, Zenon
<1>16. RamHolds' /\ Contents'
  BY <1>1, <1>3, <1>6, <1>8, StillRam, Zenon
<1>17. Data'
  BY <1>1, <1>3, <1>6, <1>8, <1>16, StillData, Zenon
<1>18. Port'
  BY <1>1, <1>6, StillPort, Zenon
<1>19. Counted'
  <2>1. transmit # "none" /\ sending = 0 => Putting /\ fresh
    BY <1>1, Requested, Zenon DEF Sending
  <2>2. Putting /\ fresh => sending # 1
    <3> SUFFICES ASSUME Putting, fresh PROVE sending # 1
      BY Zenon
    <3>1. request.write /\ request.to = "serial"
      BY <1>1, <1>3, <1>5, Zenon DEF Putting, Writes, Order, Lines, Pending, Asked
    <3> QED
      BY <3>1 DEF Sending
  <2> QED
    BY <1>1, <1>6, <1>8, <2>1, <2>2, StillCounted, Zenon
<1> QED
  BY <1>9, <1>11, <1>12, <1>13, <1>14, <1>15, <1>16, <1>17, <1>18, <1>19, Zenon

\* A rising edge of cpu_clk at which the core goes on: it sees phy_mem idle and
\* takes the word d from the MMU, both before the edge or both after it.
Moves(d) == /\ phase = "rise" /\ phase' = "high" /\ PhyEdge(request)
            /\ world' = world /\ request' = request /\ exc' = exc
            /\ Perform(FALSE, d)
            /\ \/ pstate = 0 /\ d = MmuOut(data_out, data_ready)
               \/ pstate' = 0 /\ d = MmuOut(data_out', data_ready')

\* The requests that can still be out then.
AskedShort == \/ request.read /\ request.to \in {"rom", "serial"} /\ Reads
              \/ request.write /\ request.to = "serial" /\ Putting

\* An access that takes time has ended, and its word is in data_out.
LEMMA MoveMemory ==
  ASSUME IInv, NEW d, Moves(d)
  PROVE  /\ Pending => Asked /\ AskedShort
         /\ pstate' = 0 \/ (pstate' = 301 /\ request.write /\ request.to = "serial")
         /\ cells' = cells
         /\ Reads /\ addr # "serial" /\ ~Mute /\ ~exc => d = want /\ data_out' = want
<1> USE DEF IInv
<1>1. /\ Started /\ Shape(request) /\ PhyEdge(request) /\ phase = "rise"
      /\ pstate = 0 \/ pstate' = 0
  BY RequestShape, Zenon DEF Started, Moves
<1>2. MovesOn(request) /\ Delivers(request) /\ UsesRam(request)
  BY <1>1, PhyMoves, Zenon
<1>3. Pending => Asked
  BY <1>1, Requested, ZenonT(30)
<1>4. ~(request.read /\ request.to \in Cell \cup {"flash"}) /\ ~(request.write /\ request.to \in Cell)
  BY <1>1, <1>2, CellsApart DEF Seen, At, MovesOn, TypeOK, PState, Last
<1>5. Pending => AskedShort
  <2> SUFFICES ASSUME Pending PROVE AskedShort
    BY Zenon
  <2>1. Asked
    BY <1>3, Zenon
  <2>2. CASE request.read
    BY <1>4, <2>1, <2>2, Zenon DEF Asked, AskedShort, TypeOK, Place, Mute
  <2>3. CASE request.write
    <3>1. Writes /\ addr = instr.to /\ request.to = addr
      BY <2>1, <2>3, Zenon DEF Asked, Writes, Order
    <3>2. instr.to \in Cell \cup {"serial"}
      BY <3>1, OpsFacts, Zenon DEF TypeOK, Writes, Order, HasMem2
    <3> QED
      BY <1>4, <2>3, <3>1, <3>2, Zenon DEF Putting, AskedShort
  <2> QED
    BY <2>2, <2>3, Zenon DEF Pending
<1>6. pstate' = 0 \/ (pstate' = 301 /\ request.write /\ request.to = "serial")
  BY <1>1, <1>2, <1>4, Starts, ZenonT(30)
<1>7. cells' = cells
  BY <1>1, <1>2 DEF UsesRam, MovesOn, PState, Last
<1>8. ASSUME Reads, addr # "serial", ~Mute, ~exc
      PROVE  d = want /\ data_out' = want
  <2>1. want = Wanted
    BY <1>8, Zenon DEF Data
  <2>2. CASE pstate = 0
    <3>1. data_out = want
      BY <1>1, <1>8, <2>2, Zenon DEF Data
    <3>2. data_out' = want
      <4>1. CASE request.read /\ request.to \in {"rom", "serial"}
        <5>1. request.to = addr /\ addr = "rom"
          BY <1>3, <1>8, <4>1, Zenon DEF Pending, Asked
        <5> QED
          BY <1>2, <2>1, <2>2, <4>1, <5>1, Zenon DEF Delivers, Wanted
      <4>2. CASE ~(request.read /\ request.to \in {"rom", "serial"})
        BY <1>2, <2>2, <3>1, <4>2 DEF Delivers
      <4> QED
        BY <4>1, <4>2, Zenon
    <3> QED
      BY <1>8, <3>1, <3>2, Zenon DEF Moves, MmuOut, Mute
  <2>3. CASE pstate # 0
    <3>1. d = data_out' /\ pstate' = 0
      BY <1>8, <2>3, ZenonT(30) DEF Moves, MmuOut, Mute
    <3>2. pstate \in {13, 208}
      BY <1>2, <1>8, <2>3, <3>1, OneAccess
         DEF MovesOn, TypeOK, PState, Last, Under, Reads
    <3>3. CASE pstate = 13
      BY <1>2, <2>1, <3>1, <3>3 DEF Under, Delivers, Wanted
    <3>4. CASE pstate = 208
      <4>1. addr \in Cell /\ data_out' = read_data /\ read_data = cells[addr]
        BY <1>2, <3>4 DEF Under, Delivers, RamHolds
      <4>2. cells = arch
        BY <1>8, OneAccess, Zenon DEF Contents, Written
      <4> QED
        BY <2>1, <3>1, <4>1, <4>2, CellsApart, Zenon DEF Wanted
    <3> QED
      BY <3>2, <3>3, <3>4, Zenon
  <2> QED
    BY <2>2, <2>3, Zenon
<1> QED
  BY <1>3, <1>5, <1>6, <1>7, <1>8, Zenon

\* The stage that follows.
Successor ==
  \/ exc /\ Access /\ fresh /\ old_state' = "Exc"
  \/ ~exc /\ old_state = "InsF" /\ old_state' = "InsD"
  \/ ~exc /\ old_state = "InsD" /\ old_state' = "Exe"
  \/ ~exc /\ old_state = "Exe" /\ old_state' = "Mem1" /\ HasMem1
  \/ ~exc /\ old_state = "Exe" /\ old_state' = "WriteB" /\ ~HasMem1
  \/ ~exc /\ old_state = "Mem1" /\ old_state' = "Mem2" /\ HasMem2
  \/ ~exc /\ old_state = "Mem1" /\ old_state' = "WriteB" /\ ~HasMem2
  \/ ~exc /\ old_state = "Mem2" /\ old_state' = "WriteB"
  \/ ~exc /\ old_state \in {"WriteB", "Exc"} /\ old_state' = "InsF"

\* What the core does in it.
Takes(d) ==
  /\ fresh' = TRUE
  /\ next_state' = StageAfter(old_state', HasMem1, HasMem2)
  /\ old_state' = "InsD" => instr' \in Ops(world)
  /\ old_state' # "InsD" => instr' = instr
  /\ old_state' = "InsF" => addr' \in world.to \ {"serial", "status"} /\ want' = Fetched
  /\ old_state' \in {"Mem1", "Mem2"} => addr' = instr.to
  /\ old_state' \notin {"InsF", "Mem1", "Mem2"} => addr' = addr
  /\ old_state' \notin {"InsF", "Mem1"} => readonly' = readonly
  /\ readonly' \in BOOLEAN /\ (readonly' => addr' \in Cell)
  /\ old_state' = "Mem1" => want' = Loaded
  /\ old_state' \notin {"InsF", "Mem1"} => want' = want
  /\ Retire(old_state', d)

\* An edge at which the core goes on, in these terms.
LEMMA MoveStage ==
  ASSUME IInv, NEW d, Moves(d)
  PROVE  Successor /\ Takes(d)
<1> USE DEF IInv
<1>1. StageNow(FALSE) = IF exc THEN "Exc" ELSE next_state
  BY Zenon DEF StageNow
<1>2. old_state' = StageNow(FALSE) /\ Started
  BY Zenon DEF Moves, Perform, Started
<1>3. Successor
  <2>1. CASE exc
    BY <1>1, <1>2, <2>1, Zenon DEF Order, Successor
  <2>2. CASE ~exc
    <3>1. old_state' = StageAfter(old_state, HasMem1, HasMem2)
      BY <1>1, <1>2, <2>2, Zenon DEF Order
    <3> QED
      BY <2>2, <3>1, Zenon DEF StageAfter, TypeOK, Stage, Successor
  <2> QED
    BY <2>1, <2>2, Zenon DEF TypeOK
<1>4. fresh' = TRUE
  <2>1. old_state' # old_state
    BY <1>3, Zenon DEF Successor, Access, Reads, Writes
  <2>2. fresh' = (old_state' # old_state)
    BY <1>2, Zenon DEF Moves, Perform
  <2> QED
    BY <2>1, <2>2, Zenon
<1>5. Takes(d)
  <2>1. Retire(old_state', d) /\ next_state' = StageAfter(old_state', HasMem1, HasMem2)
    BY <1>2, Zenon DEF Moves, Perform
  <2>2. /\ old_state' = "InsD" => instr' \in Ops(world)
        /\ old_state' # "InsD" => instr' = instr
    BY <1>2, Zenon DEF Moves, Perform, Decode
  <2>3. /\ old_state' = "InsF" => addr' \in world.to \ {"serial", "status"} /\ want' = Fetched
        /\ old_state' \in {"Mem1", "Mem2"} => addr' = instr.to
        /\ old_state' \notin {"InsF", "Mem1", "Mem2"} => addr' = addr
        /\ old_state' = "Mem1" => want' = Loaded
        /\ old_state' \notin {"InsF", "Mem1"} => want' = want
    BY <1>2, Zenon DEF Moves, Perform
  <2>4. /\ old_state' \notin {"InsF", "Mem1"} => readonly' = readonly
        /\ old_state' \in {"InsF", "Mem1"} => readonly' \in IF addr' \in Cell THEN world.ro ELSE {FALSE}
    BY <1>2, Zenon DEF Moves, Perform
  <2>5. readonly' \in BOOLEAN /\ (readonly' => addr' \in Cell)
    <3>1. world.ro \subseteq BOOLEAN
      BY BusAssumption, Zenon DEF TypeOK
    <3>2. CASE old_state' \in {"InsF", "Mem1"}
      BY <2>4, <3>1, <3>2, Zenon
    <3>3. CASE old_state' \notin {"InsF", "Mem1"}
      <4>1. addr' = addr
        <5>1. CASE old_state' = "Mem2"
          <6>1. old_state = "Mem1" /\ addr' = instr.to
            BY <1>3, <2>3, <5>1, Zenon DEF Successor
          <6> QED
            BY <6>1, Zenon DEF Order
        <5>2. CASE old_state' # "Mem2"
          BY <2>3, <3>3, <5>2, Zenon
        <5> QED
          BY <5>1, <5>2, Zenon
      <4>2. readonly' = readonly
        BY <2>4, <3>3, Zenon
      <4>3. readonly \in BOOLEAN /\ (readonly => addr \in Cell)
        BY Zenon DEF TypeOK, Order
      <4> QED
        BY <4>1, <4>2, <4>3, Zenon
    <3> QED
      BY <3>2, <3>3, Zenon
  <2> QED
    BY <1>4, <2>1, <2>2, <2>3, <2>4, <2>5, Zenon DEF Takes
<1> QED
  BY <1>3, <1>5, Zenon

\* The new stage's types, and the order of the stages.
LEMMA MoveOrder ==
  ASSUME IInv, NEW d, Moves(d)
  PROVE  TypeOK' /\ RamExact' /\ Order'
<1> USE DEF IInv
<1>1. Successor /\ Takes(d)
  BY MoveStage, Zenon
<1>2. /\ Started /\ ~Started' /\ Shape(request) /\ PhyEdge(request)
      /\ phase' = "high" /\ world' = world /\ request' = request /\ exc' = exc
  BY RequestShape, Zenon DEF Started, Moves
<1>3. RamExact' /\ DOMAIN ram_ope' = Fields /\ pstate' \in PState
  BY <1>2, RamFollows DEF Shape
<1>4. sending' \in Nat
  <2>1. Transmits(request)
    BY <1>2, PhyMoves, Zenon
  <2>2. sending \in Nat
    BY Zenon DEF TypeOK
  <2> QED
    BY <2>1, <2>2 DEF Transmits
<1>5. old_state' \in Stage
  BY <1>1, Zenon DEF Successor, Stage
<1>6. instr' \in Ops(world')
  BY <1>1, <1>2, Zenon DEF Takes, TypeOK
<1>7. instr.op \in {"load", "store", "sb"} => instr.to \in Place
  BY OpsFacts, Zenon DEF TypeOK
<1>8. old_state' \in {"Mem1", "Mem2"} => HasMem1
  BY <1>1, Zenon DEF Successor, HasMem1, HasMem2
<1>9. addr' \in Place
  <2>1. world.to \subseteq Place
    BY BusAssumption, Zenon DEF TypeOK, Place
  <2> QED
    BY <1>1, <1>5, <1>7, <1>8, <2>1, Zenon DEF Takes, TypeOK, HasMem1
<1>10. stored' \in 0 .. 3
  BY <1>1 DEF Takes, Retire, TypeOK
<1>11. arch' \in [Cell -> Word]
  <2>1. CASE arch' = arch
    BY <2>1, Zenon DEF TypeOK
  <2>2. CASE arch' # arch
    <3>1. /\ instr.op \in {"store", "sb"} /\ instr.to \in Cell
          /\ arch' = [arch EXCEPT ![instr.to] =
                        IF instr.op = "store" THEN instr.val ELSE <<instr.val, arch[instr.to][2]>>]
      BY <1>1, <2>2, Zenon DEF Takes, Retire
    <3>2. arch[instr.to] \in Word
      BY <3>1, Zenon DEF TypeOK
    <3>3. instr.op = "store" => instr.val \in Word
      BY OpsFacts, Zenon DEF TypeOK
    <3>4. instr.op = "sb" => <<instr.val, arch[instr.to][2]>> \in Word
      BY <3>2, OpsFacts, Zenon DEF TypeOK, Word
    <3> QED
      BY <3>1, <3>3, <3>4, Zenon DEF TypeOK
  <2> QED
    BY <2>1, <2>2, Zenon
<1>12. TypeOK'
  BY <1>1, <1>2, <1>3, <1>4, <1>5, <1>6, <1>9, <1>10, <1>11, Zenon DEF TypeOK, Takes
<1>13. next_state' = StageAfter(old_state', HasMem1', HasMem2')
  <2>1. CASE old_state' = "InsD"
    <3>1. next_state' = "Exe"
      BY <1>1, <2>1, Zenon DEF Takes, StageAfter
    <3> QED
      BY <2>1, <3>1, Zenon DEF StageAfter
  <2>2. CASE old_state' # "InsD"
    <3>1. HasMem1' = HasMem1 /\ HasMem2' = HasMem2
      BY <1>1, <2>2, Zenon DEF Takes, HasMem1, HasMem2
    <3> QED
      BY <1>1, <3>1, Zenon DEF Takes
  <2> QED
    BY <2>1, <2>2, Zenon
<1>14. /\ old_state' = "Mem1" => HasMem1'
       /\ old_state' = "Mem2" => HasMem2'
       /\ old_state' \in {"Mem1", "Mem2"} => addr' = instr'.to
       /\ old_state' = "InsF" => addr' # "serial" /\ addr' # "status"
       /\ readonly' => addr' \in Cell
  BY <1>1, <1>8, Zenon DEF Takes, Successor, HasMem1, HasMem2
<1>15. exc' => old_state' = "Exc"
  BY <1>1, <1>2, Zenon DEF Successor
<1> QED
  BY <1>1, <1>2, <1>3, <1>12, <1>13, <1>14, <1>15, Zenon DEF Order, Takes

\* The request of the stage that has ended and the access of the next one do
\* not meet.
LEMMA MoveLines ==
  ASSUME IInv, NEW d, Moves(d)
  PROVE  Lines' /\ Seen' /\ Under' /\ Sending' /\ RamHolds'
<1> USE DEF IInv
<1>1. Successor /\ Takes(d)
  BY MoveStage, Zenon
<1>2. /\ Started /\ ~Started' /\ Shape(request) /\ PhyEdge(request)
      /\ phase = "rise" /\ phase' = "high" /\ request' = request
  BY RequestShape, Zenon DEF Started, Moves
<1>3. /\ Pending => Asked /\ AskedShort
      /\ pstate' = 0 \/ (pstate' = 301 /\ request.write /\ request.to = "serial")
  BY MoveMemory, Zenon
<1>4. MovesOn(request)
  BY <1>2, PhyMoves, Zenon
<1>5. request.write /\ request.to = "serial" =>
        /\ instr.op = "store" /\ instr.to = "serial" /\ old_state = "Mem1" /\ ~exc
  BY <1>2, <1>3, Requested DEF Pending, Asked
<1>6. request.write /\ request.to = "serial" => old_state' = "WriteB" /\ instr' = instr
  BY <1>1, <1>5, Zenon DEF Successor, Takes, HasMem2
<1>7. request.read => /\ old_state' \in {"InsD", "WriteB"}
                      /\ request.to \in {"rom", "serial"} /\ ~request.write
  <2> SUFFICES ASSUME request.read
               PROVE  /\ old_state' \in {"InsD", "WriteB"}
                      /\ request.to \in {"rom", "serial"} /\ ~request.write
    BY Zenon
  <2>1. Reads /\ ~exc /\ request.to = addr /\ request.to \in {"rom", "serial"} /\ ~request.write
    BY <1>2, <1>3, Zenon DEF Pending, Asked, AskedShort, Shape
  <2>2. old_state = "Mem1" => ~HasMem2
    BY <2>1, OpsFacts, CellsApart, Zenon DEF TypeOK, Order, HasMem2
  <2> QED
    BY <1>1, <2>1, <2>2, Zenon DEF Successor, Reads
<1>8. Pending => ~Access'
  BY <1>3, <1>6, <1>7 DEF Pending, AskedShort, Access, Reads, Writes
<1>9. Pending' = Pending /\ fresh' = TRUE
  BY <1>1, <1>2, Zenon DEF Pending, Takes
<1>10. Lines'
  <2>1. Pending => \/ request.read /\ request.to \in {"rom", "serial"}
                   \/ request.write /\ request.to = "serial" /\ old_state' = "WriteB"
    BY <1>3, <1>6, Zenon DEF AskedShort
  <2> QED
    BY <1>2, <1>8, <1>9, <2>1, Zenon DEF Lines
<1>11. Seen'
  <2>1. ~(request.write /\ request.to \in Cell)
    BY <1>3, <1>7, CellsApart DEF Pending, AskedShort
  <2>2. request.read => pstate' = 0
    BY <1>3, <1>7, Zenon
  <2>3. request.read => request.to # "flash" /\ request.to \notin Cell
    BY <1>7, CellsApart, Zenon
  <2> QED
    BY <1>2, <2>1, <2>2, <2>3, Zenon DEF Seen
<1>12. Under'
  BY <1>3, <1>5, <1>6 DEF Under, Access, Reads, Writes
<1>13. Sending'
  BY <1>2, <1>6, RiseSending, Zenon
<1>14. RamHolds'
  BY <1>3 DEF RamHolds
<1> QED
  BY <1>10, <1>11, <1>12, <1>13, <1>14, Zenon

\* A store retires when the chip holds its word, or a byte store its merged word.
LEMMA MoveContents == ASSUME IInv, NEW d, Moves(d) PROVE Contents'
<1> USE DEF IInv
<1>1. Successor /\ Takes(d)
  BY MoveStage, Zenon
<1>2. (Pending => AskedShort) /\ cells' = cells /\ Started /\ (pstate = 0 \/ pstate' = 0)
  BY MoveMemory, Zenon DEF Started, Moves
<1>3. MovesOn(request)
  BY RequestShape, PhyMoves, Zenon DEF Moves
<1>4. CASE Writes /\ addr \in Cell /\ ~exc
  <2>1. ~fresh
    <3> SUFFICES ASSUME fresh PROVE FALSE
      BY Zenon DEF TypeOK
    <3>1. request.write /\ request.to = addr
      BY <1>2, <1>4, ZenonT(30) DEF Lines, Access, Pending
    <3> QED
      BY <1>2, <1>4, <3>1, CellsApart, OneAccess, Zenon DEF Pending, AskedShort, Putting, Order, Writes
  <2>2. pstate = 0 \/ pstate >= 105
    BY <1>2, <1>3, <1>4, OneAccess
       DEF MovesOn, TypeOK, PState, Last, Under
  <2>3. cells = [arch EXCEPT ![addr] = WriteWord]
    BY <1>4, <2>1, <2>2, Zenon DEF Contents, Written
  <2>4. instr.op \in {"store", "sb"} /\ addr = instr.to /\ old_state' = "WriteB" /\ old_state # "WriteB"
    BY <1>1, <1>4, Zenon DEF Successor, Writes, Order, HasMem2
  <2>5. arch' = [arch EXCEPT ![instr.to] =
                   IF instr.op = "store" THEN instr.val ELSE <<instr.val, arch[instr.to][2]>>]
    BY <1>1, <1>4, <2>4, Zenon DEF Takes, Retire
  <2>6. WriteWord = IF instr.op = "store" THEN instr.val ELSE <<instr.val, arch[instr.to][2]>>
    BY <2>4, Zenon DEF WriteWord
  <2>7. arch' = cells'
    BY <1>2, <2>3, <2>4, <2>5, <2>6, Zenon
  <2> QED
    BY <1>1, <2>7, Zenon DEF Contents, Written, Takes
<1>5. CASE ~(Writes /\ addr \in Cell) \/ exc
  <2>1. ~Written
    BY <1>2, <1>5, Zenon DEF Written, Order
  <2>2. arch' = arch
    <3>1. old_state' = "WriteB" /\ old_state # "WriteB" /\ instr.op \in {"store", "sb"}
            => Writes /\ addr = instr.to /\ ~exc
      BY <1>1, Zenon DEF Successor, HasMem1, HasMem2, Writes, Order
    <3> QED
      BY <1>1, <1>5, <3>1, Zenon DEF Takes, Retire
  <2> QED
    BY <1>1, <1>2, <2>1, <2>2, Zenon DEF Contents, Written, Takes
<1> QED
  BY <1>4, <1>5, Zenon

\* A read delivers the word that the program should see.
LEMMA MoveData == ASSUME IInv, NEW d, Moves(d) PROVE Data'
<1> USE DEF IInv
<1>1. Successor /\ Takes(d) /\ phase' = "high"
  BY MoveStage, Zenon DEF Moves
<1>2. Reads /\ addr # "serial" /\ ~Mute /\ ~exc => d = want /\ data_out' = want
  BY MoveMemory, Zenon
<1>3. fresh' = TRUE
  BY <1>1, Zenon DEF Takes
<1>4. old_state' # "WriteB" => arch' = arch
  BY <1>1, Zenon DEF Takes, Retire
<1>5. old_state' = "Mem2" /\ ~Mute' => data_out' = arch'[addr']
  <2> SUFFICES ASSUME old_state' = "Mem2", ~Mute' PROVE data_out' = arch'[addr']
    BY Zenon
  <2>1. ~exc /\ old_state = "Mem1" /\ instr.op = "sb"
    BY <1>1, Zenon DEF Successor, HasMem2
  <2>2. addr \in Cell /\ Reads /\ addr' = addr /\ readonly' = readonly
    BY <1>1, <2>1, OpsFacts, Zenon DEF TypeOK, Order, Reads, Takes
  <2>3. want = arch[addr] /\ data_out' = want
    BY <1>2, <2>1, <2>2, CellsApart, Zenon DEF Data, Wanted, Mute
  <2> QED
    BY <1>4, <2>2, <2>3, Zenon
<1>6. Reads' /\ addr' # "serial" /\ ~Mute' => want' = Wanted'
  <2>1. CASE old_state' = "InsF"
    <3>1. want' = Fetched /\ arch' = arch
      BY <1>1, <1>4, <2>1, Zenon DEF Takes
    <3> QED
      BY <3>1, Zenon DEF Fetched, Wanted
  <2>2. CASE old_state' = "Mem1"
    <3>1. want' = Loaded /\ arch' = arch /\ addr' = instr.to
      BY <1>1, <1>4, <2>2, Zenon DEF Takes
    <3>2. addr' # "serial" /\ addr' # "status" => Loaded = CASE addr' = "rom" -> RomWord [] addr' = "flash" -> FlashWord
                                         [] OTHER -> arch'[addr']
      BY <3>1, Zenon DEF Loaded
    <3> QED
      BY <3>1, <3>2, Zenon DEF Wanted, Mute
  <2> QED
    BY <2>1, <2>2, Zenon DEF Reads
<1>7. old_state' \in {"InsD", "Exe"} /\ ~readonly' => value' = want'
  <2> SUFFICES ASSUME old_state' \in {"InsD", "Exe"}, ~readonly' PROVE value' = want'
    BY Zenon
  <2>0. ~readonly
    BY <1>1, Zenon DEF Takes
  <2>1. CASE old_state' = "InsD"
    <3>1. ~exc /\ Reads /\ addr # "serial" /\ ~Mute
      BY <1>1, <2>0, <2>1, Zenon DEF Successor, Reads, Order, Mute
    <3> QED
      BY <1>1, <1>2, <2>1, <3>1, Zenon DEF Takes, Retire
  <2>2. CASE old_state' = "Exe"
    <3>1. old_state = "InsD" /\ value = want
      <4>1. old_state = "InsD"
        BY <1>1, <2>2, Zenon DEF Successor, Access, Reads, Writes
      <4> QED
        BY <2>0, <4>1, Zenon DEF Data
    <3> QED
      BY <1>1, <2>2, <3>1, Zenon DEF Takes, Retire
  <2> QED
    BY <2>1, <2>2, Zenon
<1>8. old_state' = "WriteB" /\ instr'.op = "load" /\ instr'.to \notin {"serial", "status"}
        /\ ~readonly' => value' = want'
  <2> SUFFICES ASSUME old_state' = "WriteB", instr'.op = "load",
                      instr'.to \notin {"serial", "status"}, ~readonly'
               PROVE  value' = want'
    BY Zenon
  <2>1. instr' = instr /\ readonly' = readonly
    BY <1>1, Zenon DEF Takes
  <2>2. ~exc /\ old_state = "Mem1" /\ Reads /\ addr # "serial" /\ ~Mute
    BY <1>1, <2>1, Zenon DEF Successor, HasMem1, HasMem2, Reads, Order, Mute
  <2> QED
    BY <1>1, <1>2, <2>1, <2>2, Zenon DEF Takes, Retire
<1> QED
  BY <1>1, <1>3, <1>5, <1>6, <1>7, <1>8, Zenon DEF Data

\* A load from the port reads the latch at the edge that clears the flag.
LEMMA MovePort == ASSUME IInv, NEW d, Moves(d) PROVE Port'
<1> USE DEF IInv
<1>1. Successor /\ Takes(d) /\ Started
  BY MoveStage, Zenon DEF Moves, Started
<1>2. Receives(request)
  BY RequestShape, PhyMoves, Zenon DEF Moves
<1>3. CASE taken' = taken
  <2>1. polled' => arrived' # taken
    <3>1. CASE polled' = polled
      BY <1>2, <3>1, Zenon DEF Port, Receives
    <3>2. CASE polled' # polled
      <4>1. /\ old_state' = "WriteB" /\ old_state # "WriteB" /\ instr.op = "load"
            /\ polled' => instr.to = "status" /\ d[2]
        BY <1>1, <3>2, Zenon DEF Takes, Retire
      <4>2. polled' => addr = "status" /\ d[2]
        BY <1>1, <4>1, Zenon DEF Successor, HasMem1, HasMem2, Order
      <4>3. polled' => data_ready \/ data_ready'
        BY <4>2 DEF Moves, MmuOut
      <4> QED
        BY <1>2, <4>3, Zenon DEF Port, Receives
    <3> QED
      BY <3>1, <3>2, Zenon
  <2> QED
    BY <1>2, <1>3, <2>1, Zenon DEF Port, Receives
<1>4. CASE taken' # taken
  <2>1. ~exc /\ old_state = "Mem1" /\ instr.op = "load" /\ instr.to = "serial"
    <3>1. /\ old_state' = "WriteB" /\ old_state # "WriteB"
          /\ instr.op = "load" /\ instr.to = "serial"
      BY <1>1, <1>4, Zenon DEF Takes, Retire
    <3> QED
      BY <1>1, <3>1, Zenon DEF Successor, HasMem1, Order, HasMem2
  <2>2. Reads /\ addr = "serial"
    BY <2>1, Zenon DEF Reads, Order
  <2>3. request.read /\ request.to = "serial"
    BY <1>1, <2>1, <2>2, CellsApart, Zenon DEF Order, Lines, Access, Pending, Mute
  <2>4. pstate = 0
    BY <2>3, Zenon DEF Seen
  <2>5. ~polled'
    BY <1>1, <1>4, Zenon DEF Takes, Retire
  <2> QED
    BY <1>2, <2>3, <2>4, <2>5, Zenon DEF Port, Receives
<1> QED
  BY <1>3, <1>4, Zenon

\* A store to the port retires when its character has been taken.
LEMMA MoveCounted == ASSUME IInv, NEW d, Moves(d) PROVE Counted'
<1> USE DEF IInv
<1>1. Successor /\ Takes(d) /\ Started /\ phase = "rise"
  BY MoveStage, Zenon DEF Moves, Started
<1>2. Transmits(request) /\ Shape(request)
  BY RequestShape, PhyMoves, Zenon DEF Moves
<1>3. CASE Putting /\ ~exc
  <2>1. instr.op = "store" /\ instr.to = "serial" /\ addr = "serial" /\ old_state = "Mem1"
    BY <1>3, OpsFacts, CellsApart, Zenon DEF Putting, Writes, Order, HasMem2, TypeOK
  <2>2. old_state' = "WriteB"
    BY <1>1, <1>3, <2>1, Zenon DEF Successor, HasMem2
  <2>3. stored' = (stored + 1) % 4 /\ ~Putting'
    BY <1>1, <2>1, <2>2, Zenon DEF Takes, Retire, Putting, Writes
  <2>4. sent' = (stored + 1) % 4
    <3>1. CASE fresh
      <4>1. request.write /\ request.to = "serial"
        BY <1>1, <1>3, <2>1, <3>1 DEF Lines, Access, Pending, Putting
      <4>2. \/ transmit # "none" /\ sending = 0
            \/ sending > 3
        BY <1>1, <4>1, Character DEF Sending
      <4> QED
        BY <1>2, <1>3, <3>1, <4>2 DEF Transmits, Counted, TypeOK
    <3>2. CASE ~fresh
      <4>1. ~request.write
        BY <1>1, <3>2, Zenon DEF Lines
      <4>2. transmit = "none"
        BY <4>1, Zenon DEF Sending
      <4> QED
        BY <1>2, <1>3, <3>2, <4>2 DEF Transmits, Counted, TypeOK
    <3> QED
      BY <3>1, <3>2, ZenonT(30)
  <2> QED
    BY <2>3, <2>4, Zenon DEF Counted
<1>4. CASE ~Putting \/ exc
  <2>1. ~(request.write /\ request.to = "serial")
    BY <1>1, <1>4, Requested, Zenon DEF Pending, Asked
  <2>2. transmit = "none" /\ (pstate # 301 => sending = 0)
    BY <2>1, Zenon DEF Sending
  <2>3. exc => sending = 0 /\ fresh
    <3> SUFFICES ASSUME exc PROVE sending = 0 /\ fresh
      BY Zenon
    <3>1. Access /\ fresh /\ ~Pending
      BY <1>1, Zenon DEF Order, Lines, Pending
    <3> QED
      BY <2>2, <3>1 DEF Under
  <2>4. sent = stored
    BY <1>4, <2>3, Zenon DEF Counted
  <2>5. sent' = sent
    BY <1>2, <2>2 DEF Transmits, TypeOK
  <2>6. stored' = stored
    <3>1. old_state' = "WriteB" /\ old_state # "WriteB" /\ instr.op = "store" /\ instr.to = "serial"
            => Putting /\ ~exc
      BY <1>1, Zenon DEF Successor, HasMem1, HasMem2, Writes, Putting
    <3> QED
      BY <1>1, <1>4, <3>1, Zenon DEF Takes, Retire
  <2>7. Putting' => sending' = 0
    <3> SUFFICES ASSUME Putting' PROVE sending' = 0
      BY Zenon
    <3>1. old_state \in {"Exe", "Mem1"} /\ (old_state = "Mem1" => instr.op = "sb")
      BY <1>1, Zenon DEF Successor, Putting, Writes, HasMem2
    <3>2. pstate # 301
      BY <3>1, Zenon DEF Under
    <3> QED
      BY <1>2, <2>2, <3>2, Zenon DEF Transmits
  <2> QED
    BY <1>1, <2>4, <2>5, <2>6, <2>7, Zenon DEF Counted, Takes
<1> QED
  BY <1>3, <1>4, Zenon

\* A rising edge of cpu_clk.
LEMMA RiseStep == ASSUME IInv, Rise PROVE IInv'
<1>1. /\ phase = "rise" /\ phase' = "high" /\ PhyEdge(request)
      /\ world' = world /\ request' = request /\ exc' = exc
  BY Zenon DEF Rise
<1>2. ASSUME NEW d, Perform(FALSE, d),
             \/ pstate = 0 /\ d = MmuOut(data_out, data_ready)
             \/ pstate' = 0 /\ d = MmuOut(data_out', data_ready')
      PROVE  IInv'
  <2>1. Moves(d)
    BY <1>1, <1>2, Zenon DEF Moves
  <2> QED
    BY <2>1, MoveOrder, MoveLines, MoveContents, MoveData, MovePort, MoveCounted, Zenon DEF IInv
<1>3. CASE Perform(busy, MmuOut(data_out, data_ready))
  <2>1. CASE pstate # 0
    <3>1. Perform(TRUE, MmuOut(data_out, data_ready))
      BY <1>3, <2>1, Zenon DEF busy
    <3> QED
      BY <1>1, <2>1, <3>1, RiseStall, Zenon
  <2>2. CASE pstate = 0
    <3>1. Perform(FALSE, MmuOut(data_out, data_ready))
      BY <1>3, <2>2, Zenon DEF busy
    <3> QED
      BY <1>2, <2>2, <3>1, Zenon
  <2> QED
    BY <2>1, <2>2, Zenon
<1>4. CASE Perform(busy', MmuOut(data_out', data_ready'))
  <2>1. CASE pstate' # 0
    <3>1. Perform(TRUE, MmuOut(data_out', data_ready'))
      BY <1>4, <2>1, Zenon DEF busy
    <3> QED
      BY <1>1, <2>1, <3>1, RiseStall, Zenon
  <2>2. CASE pstate' = 0
    <3>1. Perform(FALSE, MmuOut(data_out', data_ready'))
      BY <1>4, <2>2, Zenon DEF busy
    <3> QED
      BY <1>2, <2>2, <3>1, Zenon
  <2> QED
    BY <2>1, <2>2, Zenon
<1> QED
  BY <1>3, <1>4, Zenon DEF Rise

\* After reset nothing is under way and the RAM is what the program sees.
LEMMA Reset == Init => IInv
<1> SUFFICES ASSUME Init PROVE IInv
  BY Zenon
<1> USE DEF Init
<1>1. Blank \in Word
  <2>1. PICK b \in Byte : TRUE
    BY BusAssumption, Zenon
  <2>2. <<b, b>> \in Word
    BY <2>1, Zenon DEF Word
  <2> QED
    BY <2>2, Zenon DEF Blank
<1>2. /\ request.read = FALSE /\ request.write = FALSE /\ ram_ope.read = FALSE
      /\ ram_ope.write = FALSE /\ DOMAIN request = Fields /\ DOMAIN ram_ope = Fields
  BY Zenon DEF None, Fields
<1>3. instr \in Ops(world) /\ instr.op = "alu"
  BY Zenon DEF Ops
<1>4. ~Reads /\ ~Writes /\ ~Access /\ ~Pending /\ ~Putting
  BY <1>2, Zenon DEF Reads, Writes, Access, Pending, Putting
<1>5. TypeOK
  <2>1. arch \in [Cell -> Word]
    BY <1>1, Zenon
  <2>2. old_state \in Stage /\ addr \in Place /\ pstate \in PState /\ stored \in 0 .. 3
    BY DEF Stage, Place, PState
  <2>3. sending \in Nat /\ world \in Worlds /\ phase \in {"rise", "high", "fall", "low"}
    BY Zenon
  <2>4. fresh = FALSE /\ exc = FALSE
    BY Zenon
  <2> QED
    BY <1>2, <1>3, <2>1, <2>2, <2>3, <2>4, Zenon DEF TypeOK
<1>6. Order /\ Lines
  BY <1>2, <1>3, <1>4, ZenonT(30) DEF Order, Lines, StageAfter, Started
<1>7. Seen /\ Under /\ Sending
  BY <1>2, <1>4 DEF Seen, Under, Sending
<1>8. RamExact /\ RamHolds
  BY <1>2 DEF RamExact, RamHolds
<1>9. Contents /\ Data /\ Port /\ Counted
  BY <1>3, <1>4, Zenon DEF Contents, Written, Data, Port, Counted
<1> QED
  BY <1>5, <1>6, <1>7, <1>8, <1>9, Zenon DEF IInv

\* The inductive invariant holds in every behaviour: for all RAM sizes, all
\* programs, all transmission times above three edges and both resolutions of
\* every coincidence of the two clocks.
THEOREM Invariance == Spec => []IInv
<1>1. ASSUME IInv, [Next]_vars PROVE IInv'
  <2>1. CASE UNCHANGED vars
    <3>1. /\ world' = world /\ phase' = phase /\ old_state' = old_state
          /\ next_state' = next_state /\ fresh' = fresh /\ instr' = instr /\ addr' = addr
          /\ readonly' = readonly /\ polled' = polled /\ exc' = exc /\ request' = request /\ pstate' = pstate /\ data_out' = data_out
          /\ ram' = ram /\ ram_ope' = ram_ope /\ read_data' = read_data /\ cells' = cells
          /\ transmit' = transmit /\ sending' = sending /\ latch' = latch
          /\ data_ready' = data_ready /\ arch' = arch /\ value' = value /\ want' = want
          /\ stored' = stored /\ sent' = sent /\ arrived' = arrived /\ taken' = taken
      BY <2>1, Zenon DEF vars, cpu, phy
    <3>2. /\ Reads' = Reads /\ Writes' = Writes /\ Access' = Access /\ Started' = Started
          /\ Pending' = Pending /\ Putting' = Putting /\ WriteWord' = WriteWord
          /\ HasMem1' = HasMem1 /\ HasMem2' = HasMem2 /\ Written' = Written /\ Wanted' = Wanted
          /\ Mute' = Mute
      BY <3>1, Zenon DEF Reads, Writes, Access, Started, Pending, Putting, WriteWord, HasMem1,
                  HasMem2, Written, Wanted, Mute
    <3>3. TypeOK'
      BY <1>1, <3>1, <3>2, Zenon DEF IInv, TypeOK
    <3>4. Order'
      BY <1>1, <3>1, <3>2, Zenon DEF IInv, Order
    <3>5. Lines'
      BY <1>1, <3>1, <3>2, ZenonT(30) DEF IInv, Lines
    <3>6. Seen'
      BY <1>1, <3>1, <3>2, SMTT(30) DEF IInv, Seen, At
    <3>7. Under'
      BY <1>1, <3>1, <3>2, SMTT(30) DEF IInv, Under
    <3>8. Sending'
      BY <1>1, <3>1, <3>2 DEF IInv, Sending
    <3>9. RamExact'
      BY <1>1, <3>1, <3>2, Zenon DEF IInv, RamExact
    <3>10. RamHolds' /\ Contents'
      BY <1>1, <3>1, <3>2, Zenon DEF IInv, RamHolds, Contents
    <3>11. Data'
      BY <1>1, <3>1, <3>2, Zenon DEF IInv, Data
    <3>12. Port' /\ Counted'
      BY <1>1, <3>1, <3>2, Zenon DEF IInv, Port, Counted
    <3> QED
      BY <3>3, <3>4, <3>5, <3>6, <3>7, <3>8, <3>9, <3>10, <3>11, <3>12, Zenon DEF IInv
  <2> QED
    BY <1>1, <2>1, RiseStep, HighStep, FallStep, LowStep, Zenon DEF Next
<1> QED
  BY <1>1, Reset, PTL DEF Spec

\* phy_mem is busy only in a stage that accesses memory or behind a store: the
\* stages that decode, execute or take an exception never wait (mmu.vhd's ready
\* and phy_mem.vhd's busy).
THEOREM NeverBusyOtherwise == Spec => []BusyOnlyInAccess
<1>1. IInv => BusyOnlyInAccess
  BY DEF IInv, Under, TypeOK, PState, BusyOnlyInAccess, busy, Accesses, Reads, Writes
<1> QED
  BY <1>1, Invariance, PTL

\* Every fetch and load of RAM, ROM or flash that the MMU sends to phy_mem, which
\* are all but those through a page without D, delivers the word that the program
\* last stored, and RAM holds what was stored when the next instruction is fetched.
THEOREM ReadsDeliver == Spec => []ReadsAreRight
<1>1. IInv => ReadsAreRight
  BY Zenon DEF IInv, Data, Contents, Written, Writes, ReadsAreRight
<1> QED
  BY <1>1, Invariance, PTL

\* Each store to the serial port is transmitted exactly once, with its own
\* character.
THEOREM StoresSendOnce == Spec => []SendsOnce
<1>1. IInv => SendsOnce
  <2> SUFFICES ASSUME IInv PROVE SendsOnce
    BY Zenon
  <2>1. old_state = "InsF" => sent = stored
    BY Zenon DEF IInv, Counted, Putting, Writes
  <2>2. transmit # "none" /\ sending = 0 => transmit = instr.val[1]
    BY Zenon DEF IInv, TypeOK, Sending
  <2> QED
    BY <2>1, <2>2, Zenon DEF SendsOnce
<1> QED
  BY <1>1, Invariance, PTL

\* The serial port's flag is set only for the character that is in the latch
\* and has not been read, and what a poll of the status has seen stays true until
\* the port is read.
THEOREM FlagHonest == Spec => []FlagIsHonest
<1>1. IInv => FlagIsHonest
  BY Zenon DEF IInv, Port, FlagIsHonest
<1> QED
  BY <1>1, Invariance, PTL

\* What Cpu takes for granted of the MMU when it reports a fault.
FaultFindsReady == exc /\ phase \in {"low", "rise"} =>
                     Accesses /\ fresh /\ ~busy /\ ~request.read /\ ~request.write

\* A fault is reported by a new access, has sent nothing to phy_mem and finds
\* it idle: the core takes the exception at the next rising edge (mmu_module.vhd's
\* ready, and MmuFault in Cpu).
THEOREM FaultsAreTakenAtOnce == Spec => []FaultFindsReady
<1>1. IInv => FaultFindsReady
  <2> SUFFICES ASSUME IInv, exc, Started
               PROVE  Accesses /\ fresh /\ ~busy /\ ~request.read /\ ~request.write
    BY DEF FaultFindsReady, Started
  <2>1. Access /\ fresh /\ ~request.read /\ ~request.write
    BY DEF IInv, Order, Lines
  <2> QED
    BY <2>1 DEF IInv, Under, Pending, busy, Accesses, Access, Reads, Writes
<1> QED
  BY <1>1, Invariance, PTL
=============================================================================
