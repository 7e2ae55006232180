--------------------------- MODULE DatapathProofs ---------------------------
(***************************************************************************)
(* What the proofs about the core need to know of the operators it is      *)
(* built from: the type of each result, and that the two latching          *)
(* processes (decoder and ALU) settle, so that looking at the same inputs  *)
(* again changes nothing.                                                  *)
(***************************************************************************)
EXTENDS Datapath, TLAPS

\* Every operator of Words that builds a word does build one.
LEMMA WordConstants == ZERO \in Word /\ NEG_ONE \in Word /\ FOUR \in Word
BY DEF ZERO, NEG_ONE, FOUR, Word, Bit, high_if

\* Bitwise logic and the adder (numeric_std's operators in alu.vhdl) yield words.
LEMMA WordOperators ==
  ASSUME NEW a \in Word, NEW b \in Word
  PROVE  /\ And(a, b) \in Word /\ Or(a, b) \in Word /\ Xor(a, b) \in Word
         /\ Not(a) \in Word /\ Nor(a, b) \in Word
         /\ Add(a, b) \in Word /\ Sub(a, b) \in Word
<1>1. \A x, y \in Word : And(x, y) \in Word /\ Or(x, y) \in Word /\ Xor(x, y) \in Word
  BY DEF And, Or, Xor, Word, Bit, high_if
<1>2. \A x \in Word : Not(x) \in Word
  BY DEF Not, Word, Bit
<1>3. Nor(a, b) \in Word
  BY <1>1, <1>2 DEF Nor
<1>4. Add(a, b) \in Word /\ Sub(a, b) \in Word
  BY DEF Add, Sub, AddC, Word, Bit, high_if
<1>5. QED
  BY <1>1, <1>2, <1>3, <1>4

\* The extensions of a half or a byte (arch_defs.vhdl, RegCaster.vhdl) yield words.
LEMMA WordExtensions ==
  ASSUME NEW w \in Word
  PROVE  /\ ZeroHalf(w) \in Word /\ SignHalf(w) \in Word
         /\ ZeroByte(w) \in Word /\ SignByte(w) \in Word /\ UpperHalf(w) \in Word
BY DEF ZeroHalf, SignHalf, ZeroByte, SignByte, UpperHalf, Word, Bit

\* The shifts of overloads.vhdl yield words at every distance.
LEMMA WordShifts ==
  ASSUME NEW w \in Word, NEW n \in Nat
  PROVE  /\ ShiftLeft(w, n) \in Word
         /\ ShiftRight(w, n) \in Word
         /\ ShiftRightA(w, n) \in Word
BY DEF ShiftLeft, ShiftRight, ShiftRightA, Word, Bit

\* The fields maindec.vhdl and ID.vhdl cut out of an instruction are numbers of
\* their width.
LEMMA Fields ==
  ASSUME NEW w \in Word
  PROVE  /\ \A lo \in 0 .. 27 : Field5(w, lo) \in Reg
         /\ Field6(w, 0) \in Nat
<1>1. ASSUME NEW lo \in 0 .. 27 PROVE Field5(w, lo) \in Reg
  <2>1. /\ w[lo] \in 0 .. 1 /\ w[lo + 1] \in 0 .. 1 /\ w[lo + 2] \in 0 .. 1
        /\ w[lo + 3] \in 0 .. 1 /\ w[lo + 4] \in 0 .. 1
    BY DEF Word, Bit
  <2>2. QED
    BY <2>1 DEF Field5, Reg
<1>2. w[5] \in 0 .. 1
  BY DEF Word, Bit
<1>3. QED
  BY <1>1, <1>2 DEF Field6, Reg

-----------------------------------------------------------------------------

\* The ALU keeps its state in its type.
LEMMA AluType ==
  ASSUME NEW o \in AluOp, NEW a \in Word, NEW b \in Word, NEW imm \in Bit,
         NEW st \in AluState
  PROVE  Alu(o, a, b, imm, st) \in AluState
<1> DEFINE bi == immediately_correct(b, imm)
<1>1. bi \in Word
  BY WordExtensions DEF immediately_correct
<1>2. st.result \in Word /\ st.hi \in Word /\ st.lo \in Word
  BY DEF AluState
<1>3. Field6(b, 0) \in Nat
  BY Fields
<1>4. \A x : FromBit(high_if(x)) \in Word /\ FromBit(low_if(x)) \in Word
  BY DEF FromBit, high_if, low_if, Word, Bit
<1>5. /\ Add(a, b) \in Word /\ Sub(a, b) \in Word
      /\ And(a, bi) \in Word /\ Or(a, bi) \in Word
      /\ Nor(a, bi) \in Word /\ Xor(a, bi) \in Word
      /\ UpperHalf(b) \in Word
      /\ ShiftLeft(a, Field6(b, 0)) \in Word
      /\ ShiftRight(a, Field6(b, 0)) \in Word
      /\ ShiftRightA(a, Field6(b, 0)) \in Word
  <2> HIDE DEF bi
  <2> QED
    BY <1>1, <1>3, WordOperators, WordExtensions, WordShifts
<1>6. AluResult(o, a, b, imm, st) \in Word
  BY <1>2, <1>4, <1>5 DEF AluResult
<1>7. QED
  BY <1>2, <1>6 DEF Alu, AluState

\* The ALU process settles: evaluating it once more on the same inputs leaves
\* its latches as they are.
LEMMA AluSettled ==
  ASSUME NEW o, NEW a, NEW b, NEW imm, NEW st
  PROVE  Alu(o, a, b, imm, Alu(o, a, b, imm, st)) = Alu(o, a, b, imm, st)
<1> DEFINE once == Alu(o, a, b, imm, st)
<1>1. /\ once.result = AluResult(o, a, b, imm, st)
      /\ once.hi = IF o = "MTHI" THEN a ELSE st.hi
      /\ once.lo = IF o = "MTLO" THEN b ELSE st.lo
  BY DEF Alu
<1>2. AluResult(o, a, b, imm, once) = once.result
  <2>1. o \notin {"MTHI", "MTLO"} => once.hi = st.hi /\ once.lo = st.lo
    BY <1>1
  <2> HIDE DEF once
  <2>2. QED
    BY <1>1, <2>1 DEF AluResult
<1>3. /\ once.hi = IF o = "MTHI" THEN a ELSE once.hi
      /\ once.lo = IF o = "MTLO" THEN b ELSE once.lo
  BY <1>1
<1>4. QED
  BY <1>1, <1>2, <1>3 DEF Alu

-----------------------------------------------------------------------------

\* The decoder keeps its latches in their types, whatever it is given.
LEMMA MainDecType ==
  ASSUME NEW instr, NEW old \in DecLatch
  PROVE  MainDec(instr, old) \in DecLatch
<1>1. old.ctrl \in [CtrlSignal -> Bit] /\ old.aluop \in AluOp /\ old.memwidth \in MemWidth
  BY DEF DecLatch
<1>2. \A ones, open : Row(ones, open) \in [CtrlSignal -> Bit]
  BY DontCareIsBits DEF Row, Bit
<1>3. CtrlR(func(instr)) \in [CtrlSignal -> Bit]
  BY <1>2 DEF CtrlR
<1>4. CtrlRegImm(rt(instr), old.ctrl) \in [CtrlSignal -> Bit]
  BY <1>1, <1>2 DEF CtrlRegImm
<1>5. Ctrl(instr, old.ctrl) \in [CtrlSignal -> Bit]
  BY <1>2, <1>3, <1>4 DEF Ctrl
<1>6. AluOpR(func(instr), old.aluop) \in AluOp
  BY <1>1 DEF AluOpR, AluOp
<1>7. AluOpOf(instr, old.aluop) \in AluOp
  BY <1>1, <1>6 DEF AluOpOf, AluOp
<1>8. MemWidthOf(instr, old.memwidth) \in MemWidth
  BY <1>1 DEF MemWidthOf, MemWidth
<1>9. QED
  BY <1>5, <1>7, <1>8 DEF MainDec, DecLatch

\* The decoder settles.
LEMMA MainDecSettled ==
  ASSUME NEW instr, NEW old
  PROVE  MainDec(instr, MainDec(instr, old)) = MainDec(instr, old)
<1> DEFINE once == MainDec(instr, old)
<1>1. /\ once.ctrl = Ctrl(instr, old.ctrl)
      /\ once.aluop = AluOpOf(instr, old.aluop)
      /\ once.memwidth = MemWidthOf(instr, old.memwidth)
  BY DEF MainDec
<1> HIDE DEF once
<1>2. Ctrl(instr, once.ctrl) = once.ctrl
  BY <1>1 DEF Ctrl, CtrlRegImm
<1>3. AluOpOf(instr, once.aluop) = once.aluop
  BY <1>1 DEF AluOpOf, AluOpR
<1>4. MemWidthOf(instr, once.memwidth) = once.memwidth
  BY <1>1 DEF MemWidthOf
<1>5. MainDec(instr, once) = MainDec(instr, old)
  BY <1>1, <1>2, <1>3, <1>4 DEF MainDec
<1>6. QED
  BY <1>5 DEF once

\* What ID.vhdl loads into the ID registers has their types.
LEMMA InstructionDecodeType ==
  ASSUME NEW instr \in Word, NEW next \in Word, NEW dec \in DecLatch
  PROVE  InstructionDecode(instr, next, dec) \in IdReg
<1>1. /\ dec.ctrl \in [CtrlSignal -> Bit]
      /\ dec.aluop \in AluOp /\ dec.memwidth \in MemWidth
  BY DEF DecLatch
<1>2. \A s \in CtrlSignal : dec.ctrl[s] \in Bit
  BY <1>1
<1>3. /\ rs(instr) \in Reg /\ rt(instr) \in Reg /\ rd(instr) \in Reg
  BY Fields DEF rs, rt, rd
<1>4. WriteReg(instr, dec.ctrl) \in Reg
  BY <1>3 DEF WriteReg, Reg
<1>5. JumpAddr(next, instr) \in Word
  BY DEF JumpAddr, Word, Bit
<1>6. zeroxed(instr) \in Word
  BY DEF zeroxed, Word, Bit
<1>7. sexed(instr) \in Word
  BY WordExtensions DEF sexed
<1>8. \A s : (IF dec.ctrl[s] = 1 THEN dec.memwidth ELSE WIDTH_NONE) \in MemWidth
  BY <1>1 DEF MemWidth, WIDTH_NONE
<1>9. /\ dec.ctrl["regwrite"] \in Bit /\ dec.ctrl["link"] \in Bit
      /\ dec.ctrl["jumpreg"] \in Bit /\ dec.ctrl["jumpdirect"] \in Bit
      /\ dec.ctrl["branch"] \in Bit /\ dec.ctrl["memtoreg"] \in Bit
      /\ dec.ctrl["memsex"] \in Bit /\ dec.ctrl["shift"] \in Bit
      /\ dec.ctrl["alusrc"] \in Bit
  BY <1>2 DEF CtrlSignal
<1>10. QED
  BY <1>1, <1>3, <1>4, <1>5, <1>6, <1>7, <1>8, <1>9 DEF InstructionDecode, IdReg

\* What a reset leaves in the ID registers has their types.
LEMMA ClearedIdType == ClearedId \in IdReg
BY WordConstants DEF ClearedId, IdReg, Bit, MemWidth, WIDTH_NONE, AluOp, Reg

\* The ALU behind the operand muxes of EX.vhdl keeps its latches in their types.
LEMMA ExecuteType ==
  ASSUME NEW id \in IdReg, NEW reg \in RegFile, NEW alu \in AluState
  PROVE  Execute(id, reg, alu) \in AluState
<1>1. Src1(id, reg) \in Word /\ Src2(id, reg) \in Word
  BY DEF Src1, Src2, IdReg, RegFile
<1>2. id.aluop \in AluOp /\ id.alusrc \in Bit
  BY DEF IdReg
<1>3. QED
  BY <1>1, <1>2, AluType DEF Execute

\* The same ALU settles: nothing changes while id and reg do not.
LEMMA ExecuteSettled ==
  ASSUME NEW id, NEW reg, NEW alu
  PROVE  Execute(id, reg, Execute(id, reg, alu)) = Execute(id, reg, alu)
BY AluSettled DEF Execute

\* The muxes of EX.vhdl, MEM.vhdl and WB.vhdl yield values of their types.
LEMMA DatapathTypes ==
  ASSUME NEW id \in IdReg, NEW reg \in RegFile, NEW alu \in AluState,
         NEW next \in Word, NEW taken \in Bit, NEW result \in Word,
         NEW loaded \in Word, NEW dout \in Word
  PROVE  /\ TakeBranch(id, alu) \in Bit
         /\ MemReadData(id, dout) \in Word
         /\ NewPc(id, reg, next, taken) \in Word
         /\ RegWriteData(id, next, result, loaded) \in Word
         /\ PcPlus4(next) \in Word
         /\ AccessSize(id) \in MemWidth
<1>1. TakeBranch(id, alu) \in Bit
  BY DEF TakeBranch, high_if, Bit
<1>2. MemReadData(id, dout) \in Word
  BY WordExtensions DEF MemReadData, RegCaster
<1>3. id.sexed \in Word /\ id.jump_addr \in Word /\ id.readreg1 \in Reg
  BY DEF IdReg
<1>4. BranchAddr(next, id) \in Word
  BY <1>3, WordShifts, WordOperators DEF BranchAddr
<1>5. NewPc(id, reg, next, taken) \in Word
  BY <1>3, <1>4 DEF NewPc, RegFile
<1>6. RegWriteData(id, next, result, loaded) \in Word
  BY DEF RegWriteData
<1>7. PcPlus4(next) \in Word
  BY WordConstants, WordOperators DEF PcPlus4
<1>8. AccessSize(id) \in MemWidth
  BY DEF AccessSize, WidthOr, IdReg
<1>9. QED
  BY <1>1, <1>2, <1>5, <1>6, <1>7, <1>8

\* A write, wherever it goes, leaves a register file (regFile.vhdl).
LEMMA WriteRegFileType ==
  ASSUME NEW reg \in RegFile, NEW wr, NEW r \in Reg, NEW data \in Word
  PROVE  /\ WriteRegFile(reg, wr, r, data) \in RegFile
         /\ WriteRegFile(reg, wr, r, data)[0] = reg[0]
BY DEF WriteRegFile, RegFile, Reg

=============================================================================
