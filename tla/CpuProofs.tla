------------------------------ MODULE CpuProofs ------------------------------
(***************************************************************************)
(* Proofs about the core, for every program, every answer of the bus and   *)
(* every build: the types, the schedule of the bus, the zero register, and  *)
(* that the core implements Machine.                                       *)
(***************************************************************************)
EXTENDS Cpu, DatapathProofs

\* A fetch delivers a word, inside the ROM contents or outside.
LEMMA RomAtType ==
  ASSUME NEW rom, IsRom(rom), NEW a
  PROVE  RomAt(rom, a) \in Word
BY UnmappedIsWord DEF RomAt, IsRom

\* Power-on has the types.
LEMMA InitType == Init => TypeOK
<1> SUFFICES ASSUME Init PROVE TypeOK
  OBVIOUS
<1>1. PICK w \in PowerOn :
        /\ alu = [result |-> ZERO, hi |-> w, lo |-> w]
        /\ dec = MainDec(ZERO, [ctrl |-> Row({}, {}), aluop |-> "ADD",
                                memwidth |-> WIDTH_NONE])
  BY DEF Init
<1>2. alu \in AluState
  BY <1>1, WordConstants, PowerOnAreWords DEF AluState
<1>3. [ctrl |-> Row({}, {}), aluop |-> "ADD", memwidth |-> WIDTH_NONE] \in DecLatch
  BY DontCareIsBits DEF DecLatch, Row, Bit, AluOp, MemWidth, WIDTH_NONE
<1>4. dec \in DecLatch
  BY <1>1, <1>3, MainDecType
<1>5. QED
  BY <1>2, <1>4, WordConstants, ClearedIdType, PowerOnAreWords
  DEF Init, TypeOK, Stage, Bit, BOOT_ADDR, RegFile

\* An edge keeps the types, if what the bus answers at it is a word.
LEMMA EdgeType ==
  ASSUME NEW dout \in Word, Edge(dout), TypeOK
  PROVE  TypeOK'
<1> USE DEF TypeOK
<1>1. IsRom(prog)
  BY ProgramsAreRoms
<1>2. ticks' \in 1 .. 11 /\ en' \in Stage
  BY DEF Edge, Pipeliner, Raised, Stage
<1>3. read_addr' \in Word /\ instr_pre' \in Word /\ top_addr_if' \in Word
  BY <1>1, RomAtType DEF Edge, InstructionFetch
<1>4. pc_plus_4' \in Word /\ instr' \in Word /\ dec' \in DecLatch
  <2>1. PcPlus4(read_addr) \in Word
    BY WordConstants, WordOperators DEF PcPlus4
  <2>2. QED
    BY <2>1, MainDecType DEF Edge, IFRegisters
<1>5. id' \in IdReg
  BY InstructionDecodeType DEF Edge, IDRegisters
<1>6. TakeBranch(id, alu) \in Bit /\ MemReadData(id, dout) \in Word
  <2>1. ZERO \in Word
    BY WordConstants
  <2>2. QED
    BY <2>1, DatapathTypes
<1>7. aluResult' \in Word /\ takeBranch' \in Bit
  BY <1>6 DEF Edge, EXRegisters, AluState
<1>8. selMEM' \in Bit
  BY DEF Edge, SelectBus, Bit
<1>9. memReadData' \in Word
  BY <1>6 DEF Edge, MemRegister
<1>10. NewPc(id, reg, pc_plus_4, takeBranch) \in Word
  BY DatapathTypes
<1>11. RegWriteData(id, pc_plus_4, aluResult, memReadData) \in Word
  BY DatapathTypes
<1>12. new_pc' \in Word /\ regwritedata' \in Word
  BY <1>10, <1>11 DEF Edge, WBRegisters
<1>13. reg' \in RegFile
  <2>1. id.writereg \in Reg
    BY DEF IdReg
  <2>2. QED
    BY <2>1, WriteRegFileType DEF Edge, WBRegisters
<1>14. alu' \in AluState
  BY <1>5, <1>13, ExecuteType DEF Edge, AluSettles
<1>15. prog' \in Programs /\ resets' \in Nat
  BY DEF Edge
<1>16. QED
  BY <1>2, <1>3, <1>4, <1>5, <1>7, <1>8, <1>9, <1>12, <1>13, <1>14, <1>15

\* A reset pulse keeps the types.
LEMMA ResetType ==
  ASSUME Reset, TypeOK
  PROVE  TypeOK'
<1> USE DEF TypeOK
<1>1. id' \in IdReg /\ reg' \in RegFile
  BY ClearedIdType, WordConstants DEF Reset, RegFile
<1>2. alu' \in AluState
  BY <1>1, ExecuteType DEF Reset, AluSettles
<1>3. dec' \in DecLatch
  BY MainDecType DEF Reset
<1>4. QED
  BY <1>1, <1>2, <1>3, WordConstants DEF Reset, BOOT_ADDR, Bit

\* The values of the variables keep their types.
THEOREM TypeCorrect == Spec => []TypeOK
<1>1. Init => TypeOK
  BY InitType
<1>2. TypeOK /\ [Next]_vars => TypeOK'
  <2> SUFFICES ASSUME TypeOK, [Next]_vars PROVE TypeOK'
    OBVIOUS
  <2>1. ASSUME NEW dout \in Answers, Edge(dout) PROVE TypeOK'
    <3>1. IsRom(prog)
      BY ProgramsAreRoms DEF TypeOK
    <3>2. dout \in Word
      BY <2>1, <3>1, RomAtType, BusDataAreWords DEF Answers
    <3>3. QED
      BY <2>1, <3>2, EdgeType
  <2>2. ASSUME Reset PROVE TypeOK'
    BY <2>2, ResetType
  <2>3. ASSUME UNCHANGED vars PROVE TypeOK'
    BY <2>3 DEF TypeOK, vars, fetchVars, pipeVars
  <2>4. QED
    BY <2>1, <2>2, <2>3 DEF Next, Clock
<1>3. QED
  BY <1>1, <1>2, PTL DEF Spec

-----------------------------------------------------------------------------

\* The schedule of the enables: each follows from the position alone, except
\* right after a reset, where the last one raised is still up.
Schedule == IF ticks = 1 THEN en \in {"none", "done", "IF", "ID", "WB"}
            ELSE en = Raised(ticks - 1)

\* An edge keeps the schedule and the phase, whatever the bus answers at it.
LEMMA EdgePhase ==
  ASSUME NEW dout, Edge(dout), TypeOK, Schedule, BusPhase
  PROVE  Schedule' /\ BusPhase'
<1>1. ticks \in 1 .. 11 /\ selMEM \in {0, 1}
  BY DEF TypeOK, Bit
<1>2. /\ en' = Raised(ticks) /\ ticks' = IF ticks = 11 THEN 1 ELSE ticks + 1
      /\ selMEM' = IF en \in {"EX", "WB"} THEN 1 - selMEM ELSE selMEM
  BY DEF Edge, Pipeliner, SelectBus
<1>3. Schedule'
  BY <1>1, <1>2 DEF Schedule, Raised
<1>4. BusPhase'
  BY <1>1, <1>2 DEF Schedule, BusPhase, Raised
<1>5. QED
  BY <1>3, <1>4

\* So does a reset where the memory side does not have the bus, or is about to
\* give it back.
LEMMA ResetPhase ==
  ASSUME SafeResets, Reset, TypeOK, Schedule, BusPhase
  PROVE  Schedule' /\ BusPhase'
<1>1. ticks \in 1 .. 11 /\ selMEM \in {0, 1}
  BY DEF TypeOK, Bit
<1>2. QED
  BY <1>1 DEF Reset, Schedule, BusPhase, Raised, SafeResets

\* The enable that is up and the side that has the bus (cpu.vhdl:399-404) are
\* determined by ticks, resets included.
LEMMA SchedulePhase ==
  ASSUME SafeResets
  PROVE  Spec => [](Schedule /\ BusPhase)
<1>1. Init => Schedule /\ BusPhase
  BY DEF Init, Schedule, BusPhase
<1>2. TypeOK /\ Schedule /\ BusPhase /\ [Next]_vars => Schedule' /\ BusPhase'
  <2> SUFFICES ASSUME TypeOK, Schedule, BusPhase, [Next]_vars
               PROVE  Schedule' /\ BusPhase'
    OBVIOUS
  <2>1. CASE Clock
    BY <2>1, EdgePhase DEF Clock
  <2>2. CASE Reset
    BY <2>2, ResetPhase
  <2>3. CASE UNCHANGED vars
    BY <2>3 DEF vars, Schedule, BusPhase
  <2>4. QED
    BY <2>1, <2>2, <2>3 DEF Next
<1>3. QED
  BY <1>1, <1>2, TypeCorrect, PTL DEF Spec

\* If resets only fall where SafeResets says, the bus is never handed to the
\* wrong side (cpu.vhdl:399-404 against Pipeliner.vhdl:31-49).
THEOREM BusPhaseHolds ==
  ASSUME SafeResets
  PROVE  Spec => []BusPhase
BY SchedulePhase, PTL

\* Register 0 reads as zero, whatever the program.
THEOREM ZeroRegisterHolds == Spec => []ZeroRegister
<1>1. Init => ZeroRegister
  BY DEF Init, ZeroRegister, Reg
<1>2. TypeOK /\ ZeroRegister /\ [Next]_vars => ZeroRegister'
  <2> SUFFICES ASSUME TypeOK, ZeroRegister, [Next]_vars PROVE ZeroRegister'
    OBVIOUS
  <2>1. ASSUME NEW dout \in Answers, Edge(dout) PROVE ZeroRegister'
    BY <2>1, WriteRegFileType DEF Edge, WBRegisters, TypeOK, IdReg, ZeroRegister
  <2>2. ASSUME Reset PROVE ZeroRegister'
    BY <2>2 DEF Reset, ZeroRegister, Reg
  <2>3. ASSUME UNCHANGED vars PROVE ZeroRegister'
    BY <2>3 DEF vars, ZeroRegister
  <2>4. QED
    BY <2>1, <2>2, <2>3 DEF Next, Clock
<1>3. QED
  BY <1>1, <1>2, TypeCorrect, PTL DEF Spec

-----------------------------------------------------------------------------
(* The core implements Machine: the inductive invariant that says which     *)
(* pipeline register is valid at which position of the cycle, and the step  *)
(* simulation on top of it.                                                 *)

ClearRegs == [r \in Reg |-> ZERO]

\* The registers before the first instruction: what a reset left, and what the
\* enables that survived it may still load.
JustReset ==
  /\ new_pc = ZERO /\ read_addr = ZERO /\ pc_plus_4 = ZERO /\ instr = ZERO
  /\ id = ClearedId /\ takeBranch = 0 /\ reg = ClearRegs
  /\ alu.result = ZERO
  /\ dec.ctrl = Row({"regwrite", "regdst", "shift"}, {}) /\ dec.aluop = "SLL"

\* What the pipeline registers hold, position by position.
Loaded ==
  /\ ticks = 1 /\ en # "done" => JustReset
  /\ ticks >= 2 => read_addr = new_pc
  /\ ticks >= 4 => pc_plus_4 = PcPlus4(new_pc)
  /\ ticks >= 5 => id = InstructionDecode(instr, pc_plus_4, dec)
  /\ ticks >= 6 => aluResult = alu.result /\ takeBranch = TakeBranch(id, alu)
  /\ ticks >= 7 => \E d \in BusData : memReadData = MemReadData(id, d)
  /\ ticks = 11 => regwritedata = RegWriteData(id, pc_plus_4, aluResult, memReadData)

\* The ALU has settled on the registers as they are.
Settled == Execute(id, reg, alu) = alu

PipelineInv == TypeOK /\ Schedule /\ BusPhase /\ Settled /\ Loaded

-----------------------------------------------------------------------------
(* The facts about a cleared core. *)

\* The word 0 has zeroes in the fields the decoder looks at.
LEMMA ZeroFields == Field5(ZERO, 6) = 0 /\ Field6(ZERO, 0) = 0 /\ Field6(ZERO, 26) = 0
BY DEF Field5, Field6, ZERO

\* The cleared instruction register decodes to sll, whatever the latches held.
LEMMA DecodeZero ==
  ASSUME NEW old
  PROVE  /\ MainDec(ZERO, old).ctrl = Row({"regwrite", "regdst", "shift"}, {})
         /\ MainDec(ZERO, old).aluop = "SLL"
BY ZeroFields DEF MainDec, Ctrl, CtrlR, AluOpOf, AluOpR, op, func

\* The two evaluations a cleared core can make: AND and SLL of zeroes.
LEMMA ExecuteCleared ==
  ASSUME NEW st \in AluState
  PROVE  /\ Execute(ClearedId, ClearRegs, st) = [st EXCEPT !.result = ZERO]
         /\ \A d : /\ d.ctrl = Row({"regwrite", "regdst", "shift"}, {})
                   /\ d.aluop = "SLL"
                   => Execute(InstructionDecode(ZERO, ZERO, d), ClearRegs, st)
                        = [st EXCEPT !.result = ZERO]
<1>1. And(ZERO, ZERO) = ZERO /\ ShiftLeft(ZERO, 0) = ZERO
  BY DEF And, ShiftLeft, ZERO, high_if
<1>2. \A a, b, imm, o : o \in {"AND", "SLL"} =>
        Alu(o, a, b, imm, st) =
          [st EXCEPT !.result = AluResult(o, a, b, imm, st)]
  BY DEF Alu, AluState
<1>3. Execute(ClearedId, ClearRegs, st) = Alu("AND", ZERO, ZERO, 0, st)
  <2>1. ClearRegs[0] = ZERO
    BY DEF ClearRegs, Reg
  <2>2. QED
    BY <2>1 DEF Execute, Src1, Src2, ClearedId
<1>4. AluResult("AND", ZERO, ZERO, 0, st) = ZERO
  BY <1>1 DEF AluResult, immediately_correct
<1>5. ASSUME NEW d, d.ctrl = Row({"regwrite", "regdst", "shift"}, {}), d.aluop = "SLL"
      PROVE  Execute(InstructionDecode(ZERO, ZERO, d), ClearRegs, st)
               = Alu("SLL", ZERO, ZERO, 0, st)
  <2> DEFINE i == InstructionDecode(ZERO, ZERO, d)
  <2>1. d.ctrl["shift"] = 1 /\ d.ctrl["alusrc"] = 0
    BY <1>5 DEF Row, CtrlSignal
  <2>2. /\ i.shift = d.ctrl["shift"] /\ i.alusrc = d.ctrl["alusrc"]
        /\ i.aluop = d.aluop /\ i.zeroxed = zeroxed(ZERO)
        /\ i.readreg2 = rt(ZERO)
    BY DEF InstructionDecode
  <2>3. zeroxed(ZERO) = ZERO
    BY DEF zeroxed, ZERO
  <2>4. rt(ZERO) \in Reg /\ ClearRegs[rt(ZERO)] = ZERO
    BY WordConstants, Fields DEF rt, ClearRegs
  <2> HIDE DEF i
  <2>5. Execute(i, ClearRegs, st) = Alu("SLL", ZERO, ZERO, 0, st)
    BY <1>5, <2>1, <2>2, <2>3, <2>4 DEF Execute, Src1, Src2
  <2>6. QED
    BY <2>5 DEF i
<1>6. AluResult("SLL", ZERO, ZERO, 0, st) = ZERO
  BY <1>1, ZeroFields DEF AluResult
<1>7. QED
  BY <1>2, <1>3, <1>4, <1>5, <1>6

-----------------------------------------------------------------------------
(* The invariant is inductive. *)

\* Power-on establishes the invariant.
LEMMA InitPipelineInv == Init => Settled /\ Loaded
<1> SUFFICES ASSUME Init PROVE Settled /\ Loaded
  OBVIOUS
<1>1. PICK w \in PowerOn :
        /\ alu = [result |-> ZERO, hi |-> w, lo |-> w]
        /\ dec = MainDec(ZERO, [ctrl |-> Row({}, {}), aluop |-> "ADD",
                                memwidth |-> WIDTH_NONE])
  BY DEF Init
<1>2. alu \in AluState /\ alu.result = ZERO
  BY <1>1, WordConstants, PowerOnAreWords DEF AluState
<1>3. id = ClearedId /\ reg = ClearRegs
  BY DEF Init, ClearRegs
<1>4. Settled
  BY <1>2, <1>3, ExecuteCleared DEF Settled, AluState
<1>5. dec.ctrl = Row({"regwrite", "regdst", "shift"}, {}) /\ dec.aluop = "SLL"
  BY <1>1, DecodeZero
<1>6. QED
  BY <1>2, <1>3, <1>4, <1>5 DEF Init, Loaded, JustReset, BOOT_ADDR

\* After any edge the ALU has settled, and if the edge changed neither id nor
\* reg it had nothing to do.
LEMMA EdgeSettles ==
  ASSUME NEW dout, Edge(dout)
  PROVE  /\ Settled'
         /\ Settled /\ id' = id /\ reg' = reg => alu' = alu
BY ExecuteSettled DEF Edge, AluSettles, Settled

\* The edges at which the core is still as a reset left it.
LEMMA FirstEdge ==
  ASSUME NEW dout, Edge(dout), TypeOK, Schedule, Settled, JustReset,
         ticks = 1, en # "done"
  PROVE  /\ new_pc' = ZERO /\ reg' = reg /\ alu' = alu
<1>1. en \in {"none", "IF", "ID", "WB"}
  BY DEF Schedule
<1>2. new_pc' = ZERO
  BY DEF Edge, WBRegisters, JustReset, NewPc, ClearedId
<1>3. reg' = reg
  BY DEF Edge, WBRegisters, JustReset, WriteRegFile, ClearedId
<1>4. alu \in AluState /\ alu.result = ZERO /\ reg = ClearRegs
  BY DEF TypeOK, JustReset
<1>5. id' = id \/ id' = InstructionDecode(ZERO, ZERO, dec)
  BY DEF Edge, IDRegisters, JustReset
<1>6. alu' = [alu EXCEPT !.result = ZERO]
  BY <1>3, <1>4, <1>5, ExecuteCleared DEF Edge, AluSettles, JustReset
<1>7. QED
  BY <1>2, <1>3, <1>4, <1>6 DEF AluState

\* A clock edge keeps the pipeline registers loaded with what the current
\* instruction makes of the registers before them.
LEMMA EdgeLoaded ==
  ASSUME NEW dout \in Answers, Edge(dout), PipelineInv
  PROVE  Loaded'
<1>1. /\ ticks \in 1 .. 11 /\ en' = Raised(ticks)
      /\ ticks' = IF ticks = 11 THEN 1 ELSE ticks + 1
  BY DEF Edge, Pipeliner, PipelineInv, TypeOK
<1>2. ticks > 1 => en = Raised(ticks - 1)
  BY <1>1 DEF PipelineInv, Schedule
<1>3. read_addr' = new_pc
  BY DEF Edge, InstructionFetch
<1>4. ticks' >= 2 => new_pc' = new_pc
  <2>1. CASE ticks = 1 /\ en # "done"
    <3>1. new_pc = ZERO
      BY <2>1 DEF PipelineInv, Loaded, JustReset
    <3>2. new_pc' = ZERO
      BY <2>1, FirstEdge DEF PipelineInv, Loaded
    <3>3. QED
      BY <3>1, <3>2
  <2>2. CASE ticks = 1 /\ en = "done"
    BY <2>2 DEF Edge, WBRegisters
  <2>3. CASE ticks \in 2 .. 10
    BY <1>2, <2>3 DEF Edge, WBRegisters, Raised
  <2>4. CASE ticks = 11
    BY <1>1, <2>4
  <2>5. QED
    BY <1>1, <2>1, <2>2, <2>3, <2>4
<1>5. ticks' >= 4 => pc_plus_4' = PcPlus4(new_pc')
  <2>1. CASE ticks = 3
    BY <1>1, <1>2, <1>4, <2>1 DEF Edge, IFRegisters, Raised, PipelineInv, Loaded
  <2>2. CASE ticks \in 4 .. 10
    BY <1>1, <1>2, <1>4, <2>2 DEF Edge, IFRegisters, Raised, PipelineInv, Loaded
  <2>3. QED
    BY <1>1, <2>1, <2>2
<1>6. ticks \in 4 .. 10 => /\ instr' = instr /\ dec' = dec /\ pc_plus_4' = pc_plus_4
                          /\ reg' = reg
  BY <1>2 DEF Edge, IFRegisters, WBRegisters, WriteRegFile, Raised
<1>7. ticks \in 5 .. 10 => id' = id /\ alu' = alu
  BY <1>2, <1>6, EdgeSettles DEF Edge, IDRegisters, Raised, PipelineInv
<1>8. ticks' >= 5 => id' = InstructionDecode(instr', pc_plus_4', dec')
  BY <1>1, <1>2, <1>6, <1>7 DEF Edge, IDRegisters, Raised, PipelineInv, Loaded
<1>9. ticks' >= 6 => aluResult' = alu'.result /\ takeBranch' = TakeBranch(id', alu')
  BY <1>1, <1>2, <1>7 DEF Edge, EXRegisters, Raised, PipelineInv, Loaded
<1>10. ticks' >= 7 => \E d \in BusData : memReadData' = MemReadData(id', d)
  <2>1. CASE ticks = 6
    <3>1. dout \in BusData
      BY <2>1 DEF PipelineInv, BusPhase, Answers
    <3>2. memReadData' = MemReadData(id', dout)
      BY <1>2, <1>7, <2>1 DEF Edge, MemRegister, Raised
    <3>3. QED
      BY <3>1, <3>2
  <2>2. CASE ticks \in 7 .. 10
    BY <1>2, <1>7, <2>2 DEF Edge, MemRegister, Raised, PipelineInv, Loaded
  <2>3. QED
    BY <1>1, <2>1, <2>2
<1>11. ticks' = 11 => regwritedata' = RegWriteData(id', pc_plus_4', aluResult', memReadData')
  <2> SUFFICES ASSUME ticks = 10
               PROVE  regwritedata' = RegWriteData(id', pc_plus_4', aluResult', memReadData')
    BY <1>1
  <2>1. aluResult' = aluResult /\ memReadData' = memReadData
    BY <1>2 DEF Edge, EXRegisters, MemRegister, Raised
  <2>2. QED
    BY <1>6, <1>7, <2>1 DEF Edge, WBRegisters
<1>12. ticks' = 1 => en' = "done"
  BY <1>1 DEF Raised
<1>13. QED
  BY <1>3, <1>4, <1>5, <1>8, <1>9, <1>10, <1>11, <1>12 DEF Loaded

\* A reset pulse re-establishes the invariant, wherever SafeResets lets it fall.
LEMMA ResetPipelineInv ==
  ASSUME Reset, TypeOK
  PROVE  Settled' /\ Loaded'
<1>1. id' = ClearedId /\ reg' = ClearRegs /\ alu' = Execute(id', reg', alu)
  BY DEF Reset, AluSettles, ClearRegs
<1>2. Settled'
  BY <1>1, ExecuteSettled DEF Settled
<1>3. alu'.result = ZERO
  BY <1>1, ExecuteCleared DEF TypeOK, AluState
<1>4. /\ dec'.ctrl = Row({"regwrite", "regdst", "shift"}, {})
      /\ dec'.aluop = "SLL"
  BY DecodeZero DEF Reset
<1>5. ticks' = 1 /\ JustReset'
  BY <1>1, <1>3, <1>4 DEF Reset, JustReset, BOOT_ADDR
<1>6. QED
  BY <1>2, <1>5 DEF Loaded

\* PipelineInv holds of every state.
THEOREM PipelineInvariant ==
  ASSUME SafeResets
  PROVE  Spec => []PipelineInv
<1>1. Init => Settled /\ Loaded
  BY InitPipelineInv
<1>2. Init => Schedule
  BY DEF Init, Schedule
<1>3. PipelineInv /\ [Next]_vars => Settled' /\ Loaded'
  <2> SUFFICES ASSUME PipelineInv, [Next]_vars PROVE Settled' /\ Loaded'
    OBVIOUS
  <2>1. ASSUME NEW dout \in Answers, Edge(dout) PROVE Settled' /\ Loaded'
    BY <2>1, EdgeSettles, EdgeLoaded
  <2>2. ASSUME Reset PROVE Settled' /\ Loaded'
    BY <2>2, ResetPipelineInv DEF PipelineInv
  <2>3. ASSUME UNCHANGED vars PROVE Settled' /\ Loaded'
    BY <2>3 DEF vars, fetchVars, pipeVars, PipelineInv, Settled, Loaded, JustReset
  <2>4. QED
    BY <2>1, <2>2, <2>3 DEF Next, Clock
<1>4. QED
  BY <1>1, <1>3, SchedulePhase, TypeCorrect, SafeResets, PTL DEF Spec, PipelineInv

-----------------------------------------------------------------------------
(* The step simulation. *)

\* Power-on is an initial state of Machine.
LEMMA InitRefines == Init /\ PipelineInv => M!Init
<1> SUFFICES ASSUME Init, PipelineInv PROVE M!Init
  OBVIOUS
<1>1. phase = "fetch" /\ ir = RomAt(prog, BOOT_ADDR) /\ req = Idle /\ decMapped = dec
  BY DEF Init, phase, ir, req, decMapped, BOOT_ADDR
<1>2. dec \in DecLatch /\ alu \in AluState
  BY DEF PipelineInv, TypeOK
<1>3. QED
  BY <1>1, <1>2 DEF Init, M!Init, BOOT_ADDR

\* What every edge but the last of an instruction leaves alone.
LEMMA QuietEdge ==
  ASSUME NEW dout, Edge(dout), PipelineInv, ticks # 11
  PROVE  /\ ticks' = ticks + 1 /\ en' = Raised(ticks) /\ prog' = prog
         /\ new_pc' = new_pc /\ reg' = reg
         /\ ticks > 1 => en = Raised(ticks - 1)
<1>1. ticks \in 1 .. 10
  BY DEF PipelineInv, TypeOK
<1>2. ticks' = ticks + 1 /\ en' = Raised(ticks) /\ prog' = prog
  BY DEF Edge, Pipeliner
<1>3. ticks > 1 => en = Raised(ticks - 1)
  BY <1>1 DEF PipelineInv, Schedule
<1>4. CASE ticks = 1 /\ en # "done"
  BY <1>2, <1>3, <1>4, FirstEdge DEF PipelineInv, Loaded, JustReset
<1>5. CASE ticks > 1 \/ en = "done"
  BY <1>1, <1>2, <1>3, <1>5 DEF Raised, Edge, WBRegisters, WriteRegFile
<1>6. QED
  BY <1>1, <1>4, <1>5

\* The bus request seen by the device changes only where Machine says so.
RequestIsSeen == req = IF ticks >= 6 THEN BusRequest(id, reg, alu) ELSE Idle

\* The request on the bus muxes is the current instruction's, from the edge that
\* loads aluResult on.
LEMMA RequestSeen == PipelineInv => RequestIsSeen
<1> SUFFICES ASSUME PipelineInv PROVE RequestIsSeen
  OBVIOUS
<1> USE DEF RequestIsSeen
<1>1. ticks \in 1 .. 11 /\ selMEM \in {0, 1}
  BY DEF PipelineInv, TypeOK, Bit
<1>2. CASE ticks >= 6
  <2>1. selMEM = 1 /\ aluResult = alu.result
    BY <1>2 DEF PipelineInv, BusPhase, Loaded
  <2>2. QED
    BY <1>2, <2>1 DEF req, BusRequest, top_addr, top_din, top_size, top_wr
<1>3. CASE ticks < 6 /\ selMEM = 0
  BY <1>1, <1>3 DEF req
<1>4. CASE ticks < 6 /\ selMEM = 1
  <2>1. ticks = 1 /\ en = "WB"
    BY <1>1, <1>4 DEF PipelineInv, BusPhase
  <2>2. id = ClearedId
    BY <2>1 DEF PipelineInv, Loaded, JustReset
  <2>3. top_size = WIDTH_NONE
    BY <1>4, <2>2 DEF top_size, AccessSize, WidthOr, ClearedId
  <2>4. QED
    BY <1>1, <1>4, <2>3 DEF req
<1>5. QED
  BY <1>1, <1>2, <1>3, <1>4

\* The same after a step.
LEMMA RequestSeenNext == PipelineInv' => RequestIsSeen'
BY RequestSeen, PTL

\* A clock edge is a step of Machine or changes nothing Machine can see.
LEMMA EdgeRefines ==
  ASSUME NEW dout \in Answers, Edge(dout), PipelineInv, PipelineInv'
  PROVE  M!Next \/ UNCHANGED M!vars
<1>1. ticks \in 1 .. 11
  BY DEF PipelineInv, TypeOK
<1>2. /\ req  = IF ticks  >= 6 THEN BusRequest(id, reg, alu) ELSE Idle
      /\ req' = IF ticks' >= 6 THEN BusRequest(id', reg', alu') ELSE Idle
  BY RequestSeen, RequestSeenNext DEF RequestIsSeen
<1>3. CASE ticks \in 1 .. 2
  <2>1. ticks' = ticks + 1 /\ prog' = prog /\ new_pc' = new_pc /\ reg' = reg
    BY <1>3, QuietEdge
  <2>2. phase' = phase /\ req' = req
    BY <1>2, <1>3, <2>1 DEF phase
  <2>3. alu' = alu
    <3>1. CASE ticks = 1 /\ en # "done"
      BY <3>1, FirstEdge DEF PipelineInv, Loaded
    <3>2. CASE ticks = 2 \/ en = "done"
      <4>1. en # "ID"
        BY <3>2, QuietEdge DEF Raised
      <4>2. QED
        BY <2>1, <4>1, EdgeSettles DEF Edge, IDRegisters, PipelineInv
    <3>3. QED
      BY <1>3, <3>1, <3>2
  <2>4. decMapped' = decMapped
    <3>1. ticks = 2 => en # "IF"
      BY QuietEdge DEF Raised
    <3>2. QED
      BY <1>3, <2>1, <3>1 DEF decMapped, Edge, IFRegisters
  <2>5. ir' = ir
    <3>1. CASE ticks = 1
      BY <2>1, <3>1 DEF ir, Edge, InstructionFetch
    <3>2. CASE ticks = 2
      <4>1. selMEM = 0
        BY <3>2 DEF PipelineInv, BusPhase, TypeOK, Bit
      <4>2. SINGLE_ADDRESS_SPACE => dout = RomAt(prog, top_addr_if)
        BY <3>2, <4>1 DEF Answers, top_addr
      <4>3. QED
        BY <2>1, <3>2, <4>2 DEF ir, Edge, InstructionFetch
    <3>3. QED
      BY <1>3, <3>1, <3>2
  <2>6. QED
    BY <2>1, <2>2, <2>3, <2>4, <2>5 DEF M!vars
<1>4. ticks \in 3 .. 10 => /\ ticks' = ticks + 1 /\ prog' = prog /\ new_pc' = new_pc
                          /\ reg' = reg /\ en = Raised(ticks - 1)
                          /\ decMapped = dec /\ decMapped' = dec'
  BY <1>1, QuietEdge DEF decMapped
<1>5. CASE ticks = 3
  <2>1. en = "IF"
    BY <1>4, <1>5 DEF Raised
  <2>2. /\ instr' = instr_pre /\ dec' = MainDec(instr_pre, dec) /\ id' = id
    BY <2>1 DEF Edge, IFRegisters, IDRegisters
  <2>3. alu' = alu
    BY <1>4, <1>5, <2>2, EdgeSettles DEF PipelineInv
  <2>4. ir = instr_pre /\ ir' = instr_pre
    BY <1>4, <1>5, <2>2 DEF ir
  <2>5. phase = "fetch" /\ phase' = "decode"
    BY <1>4, <1>5 DEF phase
  <2>6. M!Fetch
    BY <1>2, <1>4, <1>5, <2>2, <2>3, <2>4, <2>5 DEF M!Fetch
  <2>7. QED
    BY <2>6 DEF M!Next
<1>6. ticks \in 4 .. 10 => /\ instr' = instr /\ dec' = dec
                          /\ ir = instr /\ ir' = instr
  <2>1. ticks \in 4 .. 10 => en # "IF"
    BY <1>4 DEF Raised
  <2>2. QED
    BY <1>4, <2>1 DEF Edge, IFRegisters, ir
<1>7. CASE ticks = 4
  <2>1. en = "ID"
    BY <1>4, <1>7 DEF Raised
  <2>2. id' = InstructionDecode(instr, PcPlus4(new_pc), dec)
    BY <1>7, <2>1 DEF Edge, IDRegisters, PipelineInv, Loaded
  <2>3. alu' = Execute(id', reg, alu)
    BY <1>4, <1>7 DEF Edge, AluSettles
  <2>4. phase = "decode" /\ phase' = "execute"
    BY <1>4, <1>7 DEF phase
  <2>5. M!Decode
    BY <1>2, <1>4, <1>6, <1>7, <2>2, <2>3, <2>4 DEF M!Decode, M!Op
  <2>6. QED
    BY <2>5 DEF M!Next
<1>8. ticks \in 5 .. 10 => /\ id' = id /\ alu' = alu
                          /\ id = InstructionDecode(instr, PcPlus4(new_pc), dec)
  <2>1. ticks \in 5 .. 10 => en # "ID"
    BY <1>4 DEF Raised
  <2>2. ticks \in 5 .. 10 => id' = id
    BY <2>1 DEF Edge, IDRegisters
  <2>3. QED
    BY <1>4, <2>2, EdgeSettles DEF PipelineInv, Loaded
<1>9. CASE ticks = 5
  <2>1. phase = "execute" /\ phase' = "access"
    BY <1>4, <1>9 DEF phase
  <2>2. req = Idle /\ req' = BusRequest(id, reg, alu)
    BY <1>2, <1>4, <1>8, <1>9
  <2>3. M!Request
    BY <1>4, <1>6, <1>8, <1>9, <2>1, <2>2 DEF M!Request, M!Op
  <2>4. QED
    BY <2>3 DEF M!Next
<1>10. CASE ticks \in 6 .. 10
  <2>1. phase' = phase
    BY <1>4, <1>10 DEF phase
  <2>2. req' = req
    BY <1>2, <1>4, <1>8, <1>10
  <2>3. QED
    BY <1>4, <1>6, <1>8, <1>10, <2>1, <2>2 DEF M!vars
<1>11. CASE ticks = 11
  <2>1. en = "WB" /\ ticks' = 1 /\ en' = "done" /\ prog' = prog
    BY <1>11 DEF Edge, Pipeliner, PipelineInv, Schedule, Raised
  <2>2. /\ instr' = instr /\ dec' = dec /\ id' = id
        /\ decMapped = dec /\ decMapped' = dec
    BY <1>11, <2>1 DEF Edge, IFRegisters, IDRegisters, decMapped
  <2>3. phase = "access" /\ phase' = "fetch"
    BY <1>11, <2>1 DEF phase
  <2>4. /\ pc_plus_4 = PcPlus4(new_pc)
        /\ id = InstructionDecode(instr, PcPlus4(new_pc), dec)
        /\ aluResult = alu.result /\ takeBranch = TakeBranch(id, alu)
        /\ regwritedata = RegWriteData(id, pc_plus_4, aluResult, memReadData)
        /\ read_addr = new_pc
    BY <1>11 DEF PipelineInv, Loaded
  <2>5. PICK d \in BusData : memReadData = MemReadData(id, d)
    BY <1>11 DEF PipelineInv, Loaded
  <2>6. /\ new_pc' = NextPc(id, reg, alu, PcPlus4(new_pc))
        /\ reg' = Commit(id, reg, alu, PcPlus4(new_pc), d)
    BY <2>1, <2>4, <2>5 DEF Edge, WBRegisters, NextPc, Commit
  <2>7. alu' = Execute(id, reg', alu)
    BY <2>2 DEF Edge, AluSettles
  <2>8. ir = instr
    BY <1>11 DEF ir
  <2>9. ir' = RomAt(prog, IF SINGLE_ADDRESS_SPACE THEN new_pc ELSE new_pc')
    BY <2>1 DEF ir, Edge, InstructionFetch
  <2>10. req' = Idle
    BY <1>2, <2>1
  <2>11. M!Complete(d)
    BY <2>1, <2>2, <2>3, <2>4, <2>6, <2>7, <2>8, <2>9, <2>10 DEF M!Complete, M!Op
  <2>12. QED
    BY <2>11 DEF M!Next
<1>12. QED
  BY <1>1, <1>3, <1>5, <1>7, <1>9, <1>10, <1>11

\* A reset pulse is Machine's Reset.
LEMMA ResetRefines ==
  ASSUME Reset, PipelineInv, PipelineInv'
  PROVE  M!Reset
<1>1. req' = Idle
  BY RequestSeenNext DEF RequestIsSeen, Reset
<1>2. decMapped' \in DecLatch
  BY MainDecType DEF decMapped, PipelineInv, TypeOK
<1>3. alu' \in AluState
  BY DEF PipelineInv, TypeOK
<1>4. phase' = "fetch" /\ ir' = RomAt(prog, BOOT_ADDR)
  BY DEF Reset, phase, ir, BOOT_ADDR
<1>5. QED
  BY <1>1, <1>2, <1>3, <1>4 DEF Reset, M!Reset, BOOT_ADDR

\* The core implements Machine (what the run checks of the sample programs, for
\* every program, every answer and every number of resets).
THEOREM CpuImplementsMachine ==
  ASSUME SafeResets
  PROVE  Spec => ImplementsMachine
<1>1. Init /\ PipelineInv => M!Init
  BY InitRefines
<1>2. PipelineInv /\ PipelineInv' /\ [Next]_vars => [M!Next]_(M!vars)
  <2> SUFFICES ASSUME PipelineInv, PipelineInv', [Next]_vars
               PROVE  M!Next \/ UNCHANGED M!vars
    OBVIOUS
  <2>1. ASSUME NEW dout \in Answers, Edge(dout) PROVE M!Next \/ UNCHANGED M!vars
    BY <2>1, EdgeRefines
  <2>2. ASSUME Reset PROVE M!Next
    BY <2>2, ResetRefines DEF M!Next
  <2>3. ASSUME UNCHANGED vars PROVE UNCHANGED M!vars
    BY <2>3 DEF vars, fetchVars, pipeVars, M!vars, phase, ir, req, decMapped,
                top_addr, top_din, top_size, top_wr
  <2>4. QED
    BY <2>1, <2>2, <2>3 DEF Next, Clock
<1>3. Spec => []PipelineInv
  BY PipelineInvariant
<1>4. QED
  BY <1>1, <1>2, <1>3, PTL DEF Spec, ImplementsMachine, M!Spec

-----------------------------------------------------------------------------

\* A store in progress is held until its instruction ends.
THEOREM StoreHeldHolds ==
  ASSUME SafeResets
  PROVE  Spec => StoreHeld
<1>1. PipelineInv /\ [Next]_vars =>
        [top_wr = 1 /\ resets' = resets =>
           IF ticks = 11 THEN top_wr' = 0
           ELSE /\ top_wr' = 1
                /\ UNCHANGED <<top_addr, top_din, top_size>>]_vars
  <2> SUFFICES ASSUME PipelineInv, Next, top_wr = 1, resets' = resets
               PROVE  IF ticks = 11 THEN top_wr' = 0
                      ELSE /\ top_wr' = 1
                           /\ UNCHANGED <<top_addr, top_din, top_size>>
    OBVIOUS
  <2>1. PICK dout \in Answers : Edge(dout)
    BY DEF Next, Clock, Reset, PipelineInv, TypeOK
  <2>2. selMEM = 1 /\ id.memwrite # WIDTH_NONE
    BY DEF top_wr, high_if
  <2>3. ticks \in 6 .. 11
    <3>1. ~(ticks = 1 /\ en = "WB")
      BY <2>2 DEF PipelineInv, Loaded, JustReset, ClearedId
    <3>2. QED
      BY <2>2, <3>1 DEF PipelineInv, BusPhase, TypeOK
  <2>4. CASE ticks = 11
    <3>1. selMEM' = 0
      BY <2>1, <2>2, <2>4 DEF Edge, SelectBus, PipelineInv, Schedule, Raised
    <3>2. QED
      BY <2>4, <3>1 DEF top_wr
  <2>5. CASE ticks \in 6 .. 10
    <3>1. en = Raised(ticks - 1) /\ reg' = reg
      BY <2>1, <2>5, QuietEdge
    <3>2. id' = id /\ aluResult' = aluResult /\ selMEM' = selMEM
      BY <2>1, <2>5, <3>1 DEF Edge, IDRegisters, EXRegisters, SelectBus, Raised
    <3>3. QED
      BY <2>2, <2>5, <3>1, <3>2 DEF top_wr, top_addr, top_din, top_size
  <2>6. QED
    BY <2>3, <2>4, <2>5
<1>2. Spec => []PipelineInv
  BY PipelineInvariant
<1>3. QED
  BY <1>1, <1>2, PTL DEF Spec, StoreHeld

=============================================================================
