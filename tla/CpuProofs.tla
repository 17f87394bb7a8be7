----------------------------- MODULE CpuProofs -----------------------------
(***************************************************************************)
(* Exceptions of the CPU core are precise, for every set of addresses and  *)
(* every program: proofs of the safety properties of Cpu from one          *)
(* inductive invariant, IInv.                                              *)
(***************************************************************************)
EXTENDS Cpu, TLAPS

\* The registered stages agree, except between reset and the first edge.
Flow == \/ next_state = Successor(old_state)
        \/ old_state = "InsF" /\ next_state = "InsF" /\ ~fresh

\* What the PC registers say of the instruction that completes next.
Targets == /\ old_state \in {"InsF", "InsD", "Exe", "Mem1", "Mem2"} => PCReg = todo
           /\ old_state = "WriteB" => todo = IF eret_enable THEN EPC ELSE PcSrc

\* eret_enable belongs to the current instruction, and only accesses reach Mem.
Decoded == /\ eret_enable => instr.op = "eret"
           /\ old_state = "InsF" => ~eret_enable
           /\ old_state \in {"Mem1", "Mem2"} => has_mem1

\* The registers of Exception are meant only in the cycle after Exc.
Taken == /\ interrupt_start <=> old_state = "Exc"
         /\ faulted => old_state = "Exc"
         /\ compare_recover => interrupt_start /\ m_cause = "clock"
         /\ interrupt_start => /\ m_epc = todo
                               /\ m_cause \in Sync => ~eret_enable
                               /\ m_cause \notin Sync => ~EXL

\* Count stops one beyond Compare.
Counts == /\ Compare # old_compare => old_state \in {"InsF", "Exe"} /\ (Count = 0 \/ old_state = "Exe")
          /\ Compare = old_compare /\ ~compare_interrupt => Count <= Compare

IInv == TypeOK /\ Flow /\ Targets /\ Decoded /\ Taken /\ Counts

\* The state after reset satisfies the invariant.
LEMMA InitIInv == Init => IInv
<1> SUFFICES ASSUME Init PROVE IInv
  OBVIOUS
<1>1. instr \in Instr
  <2>1. "alu" \in Op \ {"mtc0_status", "mtc0_epc", "mtc0_compare"} /\ ResetPC \in Addr
    BY CpuAssumption DEF Op
  <2> QED
    BY <2>1, Zenon DEF Init, Instr
<1>a. /\ Compare \in 1 .. MaxCompare /\ old_compare \in 0 .. MaxCompare
      /\ Count \in 0 .. MaxCompare + 1
  BY CpuAssumption DEF Init
<1>b. ResetPC \in Addr
  BY CpuAssumption
<1>2. TypeOK
  BY <1>1, <1>a, <1>b, Zenon DEF Init, TypeOK, Stage, Causes, Sync
<1> QED
  BY <1>2 DEF Init, IInv, Flow, Targets, Decoded, Taken, Counts

-----------------------------------------------------------------------------
\* An edge of the clock as Next allows it.
Allowed(ready, mmu_exc) ==
  /\ mmu_exc => ready /\ old_state \in {"InsF", "Mem1", "Mem2"} /\ fresh
  /\ ~ready => \/ old_state \in {"InsF", "Mem1", "Mem2"}
               \/ old_state = "WriteB" /\ instr.op = "store"

\* Where an edge that performs stage s can come from.
Came(s, ready, mmu_exc) ==
  /\ s \in Stage
  /\ s = "InsF" => old_state \in {"WriteB", "Exc", "InsF"} /\ (old_state # "InsF" => ready)
  /\ s = "InsD" => old_state = "InsF" /\ ready
  /\ s = "Exe" => old_state = "InsD"
  /\ s = "Mem1" => old_state \in {"Exe", "Mem1"} /\ has_mem1
  /\ s = "Mem2" => old_state \in {"Mem1", "Mem2"} /\ has_mem1
  /\ s = "WriteB" => old_state \in {"Exe", "Mem1", "Mem2", "WriteB"}
  /\ s = "Exc" => /\ mmu_exc \/ id_exc \/ old_state = "WriteB"
                  /\ ~mmu_exc /\ ~id_exc => ~EXL
  /\ mmu_exc \/ id_exc => s = "Exc"
  /\ old_state = "Exc" => s = "InsF"

\* The combinational stage of cacpu.vhd is a successor of the stage before it,
\* and Exc exactly when there is a reason for it.
LEMMA StageFlow ==
  ASSUME IInv, NEW ready \in BOOLEAN, NEW mmu_exc \in BOOLEAN, Allowed(ready, mmu_exc)
  PROVE  Came(state(ready, mmu_exc), ready, mmu_exc)
<1> DEFINE s == state(ready, mmu_exc)
<1>0. old_state \in Stage /\ Flow /\ (old_state \in {"Mem1", "Mem2"} => has_mem1)
  BY DEF IInv, TypeOK, Decoded
<1>1. CASE ~ready
  <2>1. s = old_state
    BY <1>1 DEF state
  <2>2. old_state \in {"InsF", "Mem1", "Mem2", "WriteB"} /\ ~mmu_exc
    BY <1>1 DEF Allowed
  <2> QED
    BY <1>0, <1>1, <2>1, <2>2 DEF Came, id_exc, Stage
<1>2. CASE ready /\ excep(mmu_exc)
  <2>1. s = "Exc"
    BY <1>2 DEF state
  <2>2. mmu_exc \/ id_exc \/ (old_state = "WriteB" /\ ~EXL)
    BY <1>2 DEF excep, clock_inter, serial_inter, Enabled
  <2>3. mmu_exc => old_state # "Exc"
    BY DEF Allowed
  <2> QED
    BY <1>0, <1>2, <2>1, <2>2, <2>3, Zenon DEF Came, id_exc, Stage
<1>3. CASE ready /\ ~excep(mmu_exc)
  <2>1. s = next_state
    BY <1>3 DEF state
  <2>2. ~mmu_exc /\ ~id_exc
    BY <1>3 DEF excep
  <2>3. CASE old_state = "InsF" /\ next_state = "InsF" /\ ~fresh
    BY <1>3, <2>1, <2>2, <2>3, Zenon DEF Came, Stage
  <2>4. CASE next_state = Successor(old_state)
    BY <1>0, <1>3, <2>1, <2>2, <2>4, Zenon DEF Came, Stage, Successor, StageAfter, has_mem1, has_mem2
  <2> QED
    BY <1>0, <2>3, <2>4 DEF Flow
<1> QED
  BY <1>1, <1>2, <1>3

\* What an edge may do to the variables, told by the stage it performs.
LEMMA EdgeIInv ==
  ASSUME IInv, NEW ready \in BOOLEAN, NEW mmu_exc \in BOOLEAN,
         Allowed(ready, mmu_exc), Edge(ready, mmu_exc)
  PROVE  IInv'
<1> DEFINE s == state(ready, mmu_exc)
<1>1. Came(s, ready, mmu_exc)
  BY StageFlow
<1>2. /\ Pipeline(s) /\ IFetch(s, ready) /\ IDecode(s) /\ WB(s)
      /\ Exception(s, mmu_exc) /\ Registers(s) /\ Clock /\ History(s, mmu_exc)
      /\ serial_int' = (serial_int /\ ~(s = "Mem1" /\ instr.op = "getc"))
  BY DEF Edge
<1> HIDE DEF s
<1>3. old_state' = s /\ next_state' = Successor(s) /\ fresh' = (s # old_state)
  BY <1>2 DEF Pipeline
<1>4. TypeOK /\ Flow /\ Targets /\ Decoded /\ Taken /\ Counts
  BY DEF IInv
<1>5. instr' \in Instr /\ (s # "InsD" => instr' = instr)
  BY <1>2, <1>4 DEF IDecode, TypeOK
<1>6. Flow'
  BY <1>1, <1>3, <1>5 DEF Flow, Successor, StageAfter, has_mem1, has_mem2, Came, Stage
<1>7. Targets'
  BY <1>1, <1>2, <1>3, <1>4 DEF Targets, IFetch, WB, History, Came, Registers, IDecode, NextEret, Taken
<1>8. Decoded'
  BY <1>1, <1>2, <1>3, <1>4, <1>5 DEF Decoded, IDecode, NextEret, Came, has_mem1
<1>9. Taken'
  <2>1. (interrupt_start <=> old_state = "Exc")'
    BY <1>2, <1>3, Zenon DEF Exception
  <2>2. (faulted => old_state = "Exc")'
    BY <1>1, <1>2, <1>3, <1>4, Zenon DEF History, Taken, Came
  <2>3. CASE s # "Exc"
    BY <1>2, <2>1, <2>2, <2>3, Zenon DEF Exception, Taken
  <2>4. CASE s = "Exc"
    <3>1. /\ interrupt_start' /\ m_cause' = LatchedCause(mmu_exc)
          /\ m_epc' = LatchedEpc(mmu_exc)
          /\ compare_recover' = (compare_recover \/ Recovers(mmu_exc))
      BY <1>2, <2>4, Zenon DEF Exception
    <3>2. todo' = todo /\ eret_enable' = eret_enable /\ EXL' = EXL
      BY <1>2, <2>4 DEF History, IDecode, NextEret, Registers
    <3>3. ~interrupt_start /\ ~compare_recover
      BY <1>1, <1>4, <2>4 DEF Taken, Came
    <3>4. CASE mmu_exc \/ id_exc
      <4>1. old_state \in {"InsF", "InsD", "Mem1", "Mem2"}
        BY <3>4 DEF Allowed, id_exc
      <4>2. m_epc' = todo'
        BY <1>4, <3>1, <3>2, <3>4, <4>1 DEF LatchedEpc, Targets
      <4>3. ~eret_enable
        BY <1>4, <3>4, <4>1 DEF Decoded, has_mem1, id_exc, Allowed
      <4>4. m_cause' \in Sync
        BY <3>1, <3>4 DEF LatchedCause, Sync, id_exc
      <4> QED
        BY <2>1, <2>2, <3>1, <3>2, <3>3, <4>2, <4>3, <4>4, Zenon DEF Taken, Recovers, Sync
    <3>5. CASE ~mmu_exc /\ ~id_exc
      <4>1. old_state = "WriteB" /\ ~EXL
        BY <1>1, <2>4, <3>5 DEF Came
      <4>2. m_epc' = todo'
        BY <1>4, <3>1, <3>2, <3>3, <3>5, <4>1 DEF LatchedEpc, PCmmu, Targets
      <4>3. m_cause' \notin Sync
        BY <3>1, <3>5 DEF LatchedCause, Sync
      <4> QED
        BY <2>1, <2>2, <3>1, <3>2, <3>3, <4>1, <4>2, <4>3, Zenon DEF Taken, Recovers
    <3> QED
      BY <3>4, <3>5
  <2> QED
    BY <2>3, <2>4
<1>10. Counts'
  BY <1>1, <1>2, <1>3, <1>4 DEF Counts, Clock, Registers, NextCount, Came, Taken, TypeOK
<1>11. TypeOK'
  <2>1. /\ old_state' \in Stage /\ next_state' \in Stage /\ fresh' \in BOOLEAN
        /\ serial_int' \in BOOLEAN
    BY <1>1, <1>2, <1>3, <1>4 DEF Came, Successor, StageAfter, Stage, TypeOK
  <2>2. EBase \in Addr
    BY CpuAssumption
  <2>3. PCReg' \in Addr /\ PcSrc' \in Addr /\ todo' \in Addr
    <3>1. instr.next \in Addr
      BY <1>4 DEF TypeOK, Instr
    <3> QED
      BY <1>2, <1>4, <2>2, <3>1 DEF IFetch, PCmmu, WB, History, TypeOK
  <2>4. eret_enable' \in BOOLEAN /\ faulted' \in BOOLEAN
    BY <1>2, <1>4, Zenon DEF IDecode, NextEret, History, TypeOK, id_exc
  <2>5. /\ interrupt_start' \in BOOLEAN /\ compare_recover' \in BOOLEAN
        /\ m_cause' \in Causes /\ m_epc' \in Addr
    BY <1>2, <1>4, <2>2, Zenon DEF Exception, LatchedCause, LatchedEpc, Recovers, PCmmu, id_exc,
                            TypeOK, Causes, Sync
  <2>6. /\ instr.op = "mtc0_status" => instr.ie \in BOOLEAN /\ instr.exl \in BOOLEAN
        /\ instr.op = "mtc0_epc" => instr.epc \in Addr
        /\ instr.op = "mtc0_compare" => instr.compare \in 1 .. MaxCompare
    BY <1>4 DEF TypeOK, Instr
  <2>7. IE' \in BOOLEAN /\ EXL' \in BOOLEAN
    BY <1>2, <1>4, <2>6, Zenon DEF Registers, TypeOK
  <2>a. EPC' \in Addr /\ Cause' \in Causes /\ Compare' \in 1 .. MaxCompare
    BY <1>2, <1>4, <2>6, Zenon DEF Registers, TypeOK
  <2>8. Count' \in 0 .. MaxCompare + 1
    BY <1>2, <1>4, CpuAssumption DEF Registers, NextCount, TypeOK, Counts
  <2>9. old_compare' \in 0 .. MaxCompare /\ compare_interrupt' \in BOOLEAN
    <3>1. old_compare' = Compare /\ Compare \in 0 .. MaxCompare
      BY <1>2, <1>4 DEF Clock, TypeOK
    <3>2. compare_interrupt' \in BOOLEAN
      BY <1>2, <1>4, Zenon DEF Clock, TypeOK
    <3> QED
      BY <3>1, <3>2
  <2> QED
    BY <1>5, <2>1, <2>3, <2>4, <2>5, <2>7, <2>8, <2>9, <2>a DEF TypeOK
<1> QED
  BY <1>6, <1>7, <1>8, <1>9, <1>10, <1>11 DEF IInv

\* Every step preserves the invariant: edges by EdgeIInv, Receive directly.
LEMMA StepIInv == IInv /\ [Next]_vars => IInv'
<1> SUFFICES ASSUME IInv, [Next]_vars PROVE IInv'
  OBVIOUS
<1>1. CASE Run
  BY <1>1, EdgeIInv, Zenon DEF Run, Allowed
<1>2. CASE Stall
  BY <1>2, EdgeIInv, Zenon DEF Stall, Allowed
<1>3. CASE MmuFault
  BY <1>3, EdgeIInv, Zenon DEF MmuFault, Allowed
<1>4. CASE Receive \/ UNCHANGED vars
  <2>1. /\ UNCHANGED <<old_state, next_state, fresh>>
        /\ UNCHANGED <<PCReg, instr, eret_enable, PcSrc, todo, faulted>>
        /\ UNCHANGED <<interrupt_start, m_cause, m_epc, compare_recover>>
        /\ UNCHANGED <<IE, EXL, EPC, Cause, Count, Compare, old_compare, compare_interrupt>>
        /\ serial_int' = serial_int \/ serial_int' = TRUE
    BY <1>4 DEF Receive, vars, pipeline, exception, cp0
  <2>2. TypeOK'
    BY <2>1, Zenon DEF IInv, TypeOK
  <2>3. Flow'
    BY <2>1, Zenon DEF IInv, Flow, Successor, StageAfter, has_mem1, has_mem2
  <2>4. Targets' /\ Decoded' /\ Taken' /\ Counts'
    BY <2>1 DEF IInv, Targets, Decoded, Taken, Counts, has_mem1
  <2> QED
    BY <2>2, <2>3, <2>4 DEF IInv
<1> QED
  BY <1>1, <1>2, <1>3, <1>4 DEF Next

\* IInv holds in every reachable state of the core, whatever the program, the
\* MMU's answers and the times at which interrupts are requested.
THEOREM IInvInvariant == Spec => []IInv
BY InitIInv, StepIInv, PTL DEF Spec

\* The type invariant, with the bound on Count: the timer counts instructions
\* no further than one beyond Compare while its request waits.
THEOREM TypeCorrect == Spec => []TypeOK
<1>1. IInv => TypeOK
  BY DEF IInv
<1> QED
  BY <1>1, IInvInvariant, PTL

\* Exceptions are precise: the EPC latched at Exc is the address of the first
\* instruction that has not completed.
THEOREM ExceptionsArePrecise == Spec => []EpcIsPrecise
<1>1. IInv => EpcIsPrecise
  BY DEF IInv, Taken, EpcIsPrecise
<1> QED
  BY <1>1, IInvInvariant, PTL

\* An instruction that faults never reaches Exe or WriteB afterwards.
THEOREM FaultsHaveNoEffect == Spec => []FaultsDoNotCommit
<1>1. IInv => FaultsDoNotCommit
  BY DEF IInv, Taken, FaultsDoNotCommit
<1> QED
  BY <1>1, IInvInvariant, PTL

-----------------------------------------------------------------------------
\* Every step other than Receive is an edge.
LEMMA StepIsEdge ==
  ASSUME IInv, [Next]_vars
  PROVE  \/ \E ready, mmu_exc \in BOOLEAN : Allowed(ready, mmu_exc) /\ Edge(ready, mmu_exc)
         \/ UNCHANGED <<pipeline, PCReg, instr, exception, cp0>>
<1>1. CASE Run
  BY <1>1, Zenon DEF Run, Allowed
<1>2. CASE Stall
  BY <1>2, Zenon DEF Stall, Allowed
<1>3. CASE MmuFault
  BY <1>3, Zenon DEF MmuFault, Allowed
<1>4. CASE Receive \/ UNCHANGED vars
  BY <1>4 DEF Receive, vars
<1> QED
  BY <1>1, <1>2, <1>3, <1>4 DEF Next

\* Every synchronous exception continues at EBase with EXL set: eret_enable, which
\* IFetch's multiplexer prefers, is never left over from an earlier ERET.
THEOREM ExceptionsEnterHandler == Spec => ExcEntersHandler
<1> DEFINE A == old_state = "Exc" /\ old_state' = "InsF" /\ m_cause \in Sync =>
                  EXL' /\ PCReg' = EBase
<1>1. ASSUME IInv, [Next]_vars PROVE A
  <2>1. CASE UNCHANGED <<pipeline, PCReg, instr, exception, cp0>>
    BY <2>1 DEF pipeline
  <2>2. ASSUME NEW ready \in BOOLEAN, NEW mmu_exc \in BOOLEAN,
               Allowed(ready, mmu_exc), Edge(ready, mmu_exc)
        PROVE  A
    <3> DEFINE s == state(ready, mmu_exc)
    <3>1. Came(s, ready, mmu_exc)
      BY <1>1, <2>2, StageFlow
    <3>2. old_state' = s /\ IFetch(s, ready) /\ Registers(s)
      BY <2>2 DEF Edge, Pipeline
    <3> HIDE DEF s
    <3>3. interrupt_start <=> old_state = "Exc"
      BY <1>1 DEF IInv, Taken
    <3>4. m_cause \in Sync /\ interrupt_start => ~eret_enable
      BY <1>1 DEF IInv, Taken
    <3> QED
      BY <3>1, <3>2, <3>3, <3>4 DEF Came, IFetch, PCmmu, Registers
  <2> QED
    BY <1>1, <2>1, <2>2, StepIsEdge
<1> QED
  BY <1>1, IInvInvariant, PTL DEF Spec, ExcEntersHandler

\* While EXL is set no interrupt overwrites EPC.
THEOREM EpcIsProtected == Spec => EpcProtected
<1> DEFINE A == EXL /\ EPC' # EPC => instr.op = "mtc0_epc" \/ Cause' \in Sync
<1>1. ASSUME IInv, [Next]_vars PROVE A
  <2>1. CASE UNCHANGED <<pipeline, PCReg, instr, exception, cp0>>
    BY <2>1 DEF cp0
  <2>2. ASSUME NEW ready \in BOOLEAN, NEW mmu_exc \in BOOLEAN, Edge(ready, mmu_exc)
        PROVE  A
    <3> DEFINE s == state(ready, mmu_exc)
    <3>1. Registers(s)
      BY <2>2 DEF Edge
    <3> HIDE DEF s
    <3>2. interrupt_start /\ EXL => m_cause \in Sync
      BY <1>1 DEF IInv, Taken
    <3> QED
      BY <3>1, <3>2 DEF Registers, Sync
  <2> QED
    BY <1>1, <2>1, <2>2, StepIsEdge
<1> QED
  BY <1>1, IInvInvariant, PTL DEF Spec, EpcProtected

\* A tick is withdrawn only when it is recorded in Cause or Compare changes.
THEOREM TicksAreKept == Spec => TickKept
<1> DEFINE A == compare_interrupt /\ ~compare_interrupt' => Compare # old_compare \/ Cause' = "clock"
<1>1. ASSUME IInv, [Next]_vars PROVE A
  <2>1. CASE UNCHANGED <<pipeline, PCReg, instr, exception, cp0>>
    BY <2>1 DEF cp0
  <2>2. ASSUME NEW ready \in BOOLEAN, NEW mmu_exc \in BOOLEAN,
               Allowed(ready, mmu_exc), Edge(ready, mmu_exc)
        PROVE  A
    <3> DEFINE s == state(ready, mmu_exc)
    <3>1. Came(s, ready, mmu_exc)
      BY <1>1, <2>2, StageFlow
    <3>2. Registers(s) /\ Clock
      BY <2>2 DEF Edge
    <3> HIDE DEF s
    <3>3. compare_recover => interrupt_start /\ m_cause = "clock" /\ old_state = "Exc"
      BY <1>1 DEF IInv, Taken
    <3>4. compare_recover => Cause' = "clock"
      BY <3>1, <3>2, <3>3 DEF Came, Registers
    <3> QED
      BY <3>2, <3>4 DEF Clock
  <2> QED
    BY <1>1, <2>1, <2>2, StepIsEdge
<1> QED
  BY <1>1, IInvInvariant, PTL DEF Spec, TickKept
=============================================================================
