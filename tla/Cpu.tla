-------------------------------- MODULE Cpu --------------------------------
(***************************************************************************)
(* The multi-cycle CPU core: the stage machine of cacpu.vhd with the       *)
(* registers of IFetch, IDecode, WB, Exception and CP0 that decide which   *)
(* instruction runs next.  One step is one rising edge of cpu_clk; the     *)
(* components update their registers together, each from the values        *)
(* before the edge.                                                        *)
(*                                                                         *)
(* `state' is combinational: the stage that the coming edge performs.      *)
(* What an instruction computes is abstracted to its class and to the      *)
(* address of its successor, both chosen at the decode edge; addresses are *)
(* members of a small set.  The MMU is an input: it may stall an access,   *)
(* and it reports an exception at the falling edge after the access was    *)
(* latched, in which case nothing was sent and it is ready (Bus).          *)
(***************************************************************************)
EXTENDS Naturals, Stages

CONSTANTS Addr,         \* instruction addresses
          EBase,        \* the exception vector
          ResetPC,
          MaxCompare    \* bound: the largest Compare that programs set

ASSUME CpuAssumption == /\ {EBase, ResetPC} \subseteq Addr
                        /\ MaxCompare \in Nat \ {0}

\* Instruction classes.  getc is the load that empties the serial port; mtc0
\* writes Status, EPC, Compare or another register, of which programs write only
\* those of the TLB.
Op == {"alu", "load", "getc", "store", "sb", "eret", "syscall", "undef",
       "mtc0_status", "mtc0_epc", "mtc0_compare", "mtc0_other"}

Sync == {"mmu", "syscall", "undef"}
Causes == {"none", "serial", "clock"} \cup Sync

Instr == [op : Op \ {"mtc0_status", "mtc0_epc", "mtc0_compare"}, next : Addr]
         \cup [op : {"mtc0_status"}, next : Addr, ie : BOOLEAN, exl : BOOLEAN]
         \cup [op : {"mtc0_epc"}, next : Addr, epc : Addr]
         \cup [op : {"mtc0_compare"}, next : Addr, compare : 1 .. MaxCompare]

VARIABLES
  old_state, next_state,
  fresh,                \* the MMU's to_physical_counter is 0: a new stage
  PCReg,                \* IFetch
  instr, eret_enable,   \* IDecode, with has_mem1 and has_mem2 of cacpu.vhd
  PcSrc,                \* WB
  interrupt_start,      \* Exception: m_interrupt_start, equal to m_pc_sel0
  m_cause, m_epc, compare_recover,
  IE, EXL, EPC, Cause,  \* CP0: Status, EPC, Cause, Count, Compare
  Count, Compare, old_compare, compare_interrupt,
  serial_int,           \* the serial port holds a character
  todo,                 \* history: the instruction that is to complete next
  faulted               \* history: the current instruction raised an exception

pipeline == <<old_state, next_state, fresh>>
exception == <<interrupt_start, m_cause, m_epc, compare_recover>>
cp0 == <<IE, EXL, EPC, Cause, Count, Compare, old_compare, compare_interrupt>>
vars == <<pipeline, PCReg, instr, eret_enable, PcSrc, exception, cp0,
          serial_int, todo, faulted>>

Init == /\ old_state = "InsF" /\ next_state = "InsF" /\ fresh = FALSE
        /\ PCReg = ResetPC /\ PcSrc = ResetPC
        /\ instr = [op |-> "alu", next |-> ResetPC]
        /\ eret_enable = FALSE
        /\ interrupt_start = FALSE /\ compare_recover = FALSE
        /\ m_cause = "none" /\ m_epc = ResetPC
        /\ IE = FALSE /\ EXL = FALSE /\ EPC = ResetPC /\ Cause = "none"
        /\ Count = 0 /\ Compare = MaxCompare /\ old_compare = 0
        /\ compare_interrupt = FALSE
        /\ serial_int = FALSE
        /\ todo = ResetPC /\ faulted = FALSE

-----------------------------------------------------------------------------
(* cacpu.vhd: interrupt gating and the stage machine *)

\* Interrupts are looked at only in the cycle after WriteB.
Enabled == old_state = "WriteB" /\ IE /\ ~EXL

serial_inter == Enabled /\ serial_int
clock_inter == Enabled /\ compare_interrupt

\* id_exc_code, set at the falling edge after the decode edge.
id_exc == old_state = "InsD" /\ instr.op \in {"syscall", "undef"}

\* Seeded fault: only faults of a fetch count.
excepFetchOnly(mmu_exc) == \/ clock_inter \/ serial_inter \/ id_exc
                           \/ mmu_exc /\ old_state = "InsF"

excep(mmu_exc) == clock_inter \/ serial_inter \/ mmu_exc \/ id_exc

state(ready, mmu_exc) == IF ~ready THEN old_state
                         ELSE IF excep(mmu_exc) THEN "Exc" ELSE next_state

has_mem1 == instr.op \in {"load", "getc", "store", "sb"}
has_mem2 == instr.op = "sb"

\* Seeded fault: Mem2 is never left.
SuccessorNoMem2(s) == IF s = "Mem2" THEN "Mem2" ELSE StageAfter(s, has_mem1, has_mem2)

Successor(s) == StageAfter(s, has_mem1, has_mem2)

Pipeline(s) == /\ old_state' = s
               /\ next_state' = Successor(s)
               /\ fresh' = (s # old_state)

-----------------------------------------------------------------------------
(* IFetch: the address that goes to the MMU, and PCReg *)

PCmmu == IF eret_enable THEN EPC ELSE IF interrupt_start THEN EBase ELSE PcSrc

IFetch(s, ready) == PCReg' = IF s = "InsF" /\ ready THEN PCmmu ELSE PCReg

(* IDecode *)
\* Seeded fault: eret_enable is withdrawn by the next decode, not by the fetch.
NextEretLate(s) == IF s = "InsD" THEN instr'.op = "eret" ELSE eret_enable

NextEret(s) == IF s = "InsF" THEN FALSE
               ELSE IF s = "InsD" /\ instr'.op = "eret" THEN TRUE
               ELSE eret_enable

IDecode(s) == /\ IF s = "InsD" THEN instr' \in Instr ELSE UNCHANGED instr
              /\ eret_enable' = NextEret(s)

(* WB *)
WB(s) == PcSrc' = IF s = "WriteB" THEN instr.next ELSE PcSrc

(* Exception.  Exc is never repeated (Stall), so one of the causes is there. *)
\* Seeded fault: an interrupt returns to the instruction that has completed.
LatchedEpcThis(mmu_exc) == PCReg

LatchedEpc(mmu_exc) == IF mmu_exc \/ id_exc THEN PCReg ELSE PCmmu

LatchedCause(mmu_exc) == IF mmu_exc THEN "mmu"
                         ELSE IF id_exc THEN instr.op
                         ELSE IF serial_inter THEN "serial" ELSE "clock"

\* Seeded fault: any exception clears a pending tick.
RecoversAny(mmu_exc) == clock_inter

Recovers(mmu_exc) == LatchedCause(mmu_exc) = "clock"

Exception(s, mmu_exc) ==
  /\ interrupt_start' = (s = "Exc")
  /\ IF s = "Exc"
     THEN /\ m_cause' = LatchedCause(mmu_exc)
          /\ m_epc' = LatchedEpc(mmu_exc)
          /\ compare_recover' = (compare_recover \/ Recovers(mmu_exc))
     ELSE compare_recover' = FALSE /\ UNCHANGED <<m_cause, m_epc>>

(* CP0: the Count register, ... *)
WritesCP0 ==
  eret_enable \/ instr.op \in {"mtc0_status", "mtc0_epc", "mtc0_compare", "mtc0_other"}

NextCount(s) == IF s = "Exe" /\ WritesCP0 THEN Count
                ELSE IF s = "InsF" /\ interrupt_start
                THEN IF compare_recover THEN 0 ELSE Count
                ELSE IF Compare # old_compare THEN 0
                ELSE IF s = "WriteB" /\ ~compare_interrupt THEN Count + 1
                ELSE Count

\* ... the other registers, ...
Registers(s) ==
  LET eret   == s = "Exe" /\ eret_enable
      mtc0   == s = "Exe" /\ ~eret_enable
      entry  == s = "InsF" /\ interrupt_start
      writes(op) == mtc0 /\ instr.op = op
  IN /\ IE' = IF writes("mtc0_status") THEN instr.ie ELSE IE
     /\ EXL' = IF eret THEN FALSE ELSE IF writes("mtc0_status") THEN instr.exl
               ELSE IF entry THEN TRUE ELSE EXL
     /\ EPC' = IF writes("mtc0_epc") THEN instr.epc ELSE IF entry THEN m_epc ELSE EPC
     /\ Cause' = IF entry THEN m_cause ELSE Cause
     /\ Compare' = IF writes("mtc0_compare") THEN instr.compare ELSE Compare
     /\ Count' = NextCount(s)

\* ... and the clock interrupt.
Clock == /\ old_compare' = Compare
         /\ compare_interrupt' = IF Compare # old_compare \/ compare_recover THEN FALSE
                                 ELSE IF Compare <= Count THEN TRUE
                                 ELSE compare_interrupt

-----------------------------------------------------------------------------
(* History: what a reader of the program expects to complete next. *)
History(s, mmu_exc) ==
  /\ todo' = IF s = "WriteB" THEN IF eret_enable THEN EPC ELSE instr.next
             ELSE IF s = "InsF" THEN PCReg' ELSE todo
  /\ faulted' = IF s = "InsF" /\ old_state # "InsF" THEN FALSE
                ELSE faulted \/ mmu_exc \/ id_exc

\* A rising edge of cpu_clk.
Edge(ready, mmu_exc) ==
  LET s == state(ready, mmu_exc)
  IN /\ Pipeline(s)
     /\ IFetch(s, ready)
     /\ IDecode(s)
     /\ WB(s)
     /\ Exception(s, mmu_exc)
     /\ Registers(s)
     /\ Clock
     /\ serial_int' = (serial_int /\ ~(s = "Mem1" /\ instr.op = "getc"))
     /\ History(s, mmu_exc)

Run == Edge(TRUE, FALSE)

\* The physical memory is busy with the access of this stage, or still sends
\* the character of a store that has moved on to WriteB.
Stall == /\ \/ old_state \in {"InsF", "Mem1", "Mem2"}
            \/ old_state = "WriteB" /\ instr.op = "store"
         /\ Edge(FALSE, FALSE)

\* The MMU refuses the address: misaligned, not in the TLB or not writable.  A
\* load that is refused does not empty the serial port, so it is no getc.
MmuFault == /\ old_state \in {"InsF", "Mem1", "Mem2"}
            /\ fresh
            /\ ~(old_state = "Mem1" /\ instr.op = "getc")
            /\ Edge(TRUE, TRUE)

Receive == /\ ~serial_int
           /\ serial_int' = TRUE
           /\ UNCHANGED <<pipeline, PCReg, instr, eret_enable, PcSrc,
                          exception, cp0, todo, faulted>>

Next == Run \/ Stall \/ MmuFault \/ Receive

Spec == Init /\ [][Next]_vars

\* The clock runs, and no access stalls for ever.
FairSpec == Spec /\ SF_vars(Run \/ MmuFault)

-----------------------------------------------------------------------------
TypeOK == /\ old_state \in Stage /\ next_state \in Stage /\ fresh \in BOOLEAN
          /\ PCReg \in Addr /\ PcSrc \in Addr /\ todo \in Addr
          /\ instr \in Instr /\ eret_enable \in BOOLEAN
          /\ interrupt_start \in BOOLEAN /\ compare_recover \in BOOLEAN
          /\ m_cause \in Causes /\ m_epc \in Addr
          /\ IE \in BOOLEAN /\ EXL \in BOOLEAN /\ EPC \in Addr /\ Cause \in Causes
          /\ Compare \in 1 .. MaxCompare /\ old_compare \in 0 .. MaxCompare
          /\ Count \in 0 .. MaxCompare + 1 /\ compare_interrupt \in BOOLEAN
          /\ serial_int \in BOOLEAN /\ faulted \in BOOLEAN

\* The EPC that the Exception module hands to CP0 is the address of the
\* instruction that has not completed: the faulting one itself, or for an
\* interrupt the successor of the one that has just written back, which
\* behind an ERET is the old EPC.  Returning to it neither skips an
\* instruction nor runs one twice.
EpcIsPrecise == interrupt_start => m_epc = todo

\* An instruction that raised an exception has no effect: it never reaches Exe
\* (where CP0 and the TLB are written) or WriteB after the exception.
FaultsDoNotCommit == faulted => old_state \notin {"Exe", "WriteB"}

\* A clock interrupt request is withdrawn only when Compare is rewritten or in
\* the edge that records it in Cause: a character that arrives together with
\* the tick delays the tick and does not swallow it.
TickKept == [][compare_interrupt /\ ~compare_interrupt' =>
                 Compare # old_compare \/ Cause' = "clock"]_vars

\* While EXL is set the EPC of the interrupted program is overwritten only by
\* the handler itself: by mtc0 or by a synchronous exception in its code.
EpcProtected == [][EXL /\ EPC' # EPC =>
                     instr.op = "mtc0_epc" \/ Cause' \in Sync]_vars

\* Every exception that an instruction raises continues at EBase with EXL set,
\* also when the instruction is the one that ERET returns to: IDecode withdraws
\* eret_enable, which goes before pc_sel0 in IFetch, at that fetch.
ExcEntersHandler == [][old_state = "Exc" /\ old_state' = "InsF" /\ m_cause \in Sync =>
                         EXL' /\ PCReg' = EBase]_vars

\* So does every interrupt: what the technical documentation says and not a
\* property of the code, which fetches at EPC when the interrupt was taken
\* directly behind an ERET: see the README, section 5.
EveryExcEntersHandler == [][old_state = "Exc" /\ old_state' = "InsF" =>
                              EXL' /\ PCReg' = EBase]_vars

\* An interrupt request that is enabled is taken, unless the program or
\* another exception disables it first: the core neither hangs in a stage nor
\* passes WriteB for ever without looking.
EnabledInterruptTaken == (compare_interrupt \/ serial_int) /\ IE /\ ~EXL ~>
                         ~(compare_interrupt \/ serial_int) \/ ~IE \/ EXL
=============================================================================
