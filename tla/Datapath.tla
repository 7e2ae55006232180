------------------------------ MODULE Datapath ------------------------------
(***************************************************************************)
(* The combinational half of the datapath behind the decoder: the operand  *)
(* multiplexers and branch adder of vhdl/arch/EX.vhdl, the cast of a value *)
(* loaded from memory (MEM.vhdl, RegCaster.vhdl) and the write-back        *)
(* multiplexers (WB.vhdl).  "id" is the record of the ID pipeline          *)
(* registers, "reg" the register file.                                     *)
(***************************************************************************)
EXTENDS MainDec

RegFile == [Reg -> Word]

\* shiftMux and ALUSrcMux
Src1(id, reg) == IF id.shift = 1 THEN id.zeroxed ELSE reg[id.readreg1]
Src2(id, reg) == IF id.alusrc = 1 THEN id.sexed ELSE reg[id.readreg2]

\* The ALU process after its inputs settled to what id and reg select
Execute(id, reg, alu) ==
  Alu(id.aluop, Src1(id, reg), Src2(id, reg), id.alusrc, alu)

\* takebranch <= Branch_in and isZero
TakeBranch(id, alu) == high_if(id.branch = 1 /\ isZero(alu) = 1)

\* ShiftLeftImm and the branch adder
BranchAddr(pc_plus_4, id) == Add(pc_plus_4, ShiftLeft(id.sexed, 2))

\* Variant for mutation testing: the unsigned loads extend the sign.
RegCasterSigned(input, signExtend, size) ==
  CASE size = "BYTE" -> SignByte(input)
    [] size = "HALF" -> SignHalf(input)
    [] OTHER         -> input

\* RegCaster
RegCaster(input, signExtend, size) ==
  CASE size = "BYTE" -> IF signExtend = 1 THEN SignByte(input) ELSE ZeroByte(input)
    [] size = "HALF" -> IF signExtend = 1 THEN SignHalf(input) ELSE ZeroHalf(input)
    [] OTHER         -> input

AccessSize(id) == WidthOr(id.memread, id.memwrite)
MemReadData(id, dout) == RegCaster(dout, id.memsex, AccessSize(id))

\* BranchMux, JumpDirMux, JumpRegMux
NewPc(id, reg, pc_plus_4, takeBranch) ==
  IF id.jumpreg = 1 THEN reg[id.readreg1]
  ELSE IF id.jumpdir = 1 THEN id.jump_addr
  ELSE IF takeBranch = 1 THEN BranchAddr(pc_plus_4, id)
  ELSE pc_plus_4

\* memToRegMux, linkMux
RegWriteData(id, pc_plus_4, aluResult, memReadData) ==
  IF id.link = 1 THEN pc_plus_4
  ELSE IF id.memtoreg = 1 THEN memReadData
  ELSE aluResult

\* Variant for mutation testing: R0 is written.
WriteRegFileAny(reg, regwrite, writereg, data) ==
  IF regwrite = 1 THEN [reg EXCEPT ![writereg] = data] ELSE reg

\* regFile: a write to R0 is dropped.
WriteRegFile(reg, regwrite, writereg, data) ==
  IF regwrite = 1 /\ writereg # 0 THEN [reg EXCEPT ![writereg] = data] ELSE reg

-----------------------------------------------------------------------------
(* The architectural effect of an instruction whose ALU evaluation is      *)
(* "alu", as the pipeline registers collect it: the bus access it asks     *)
(* for, the address it continues at and the register file it leaves,       *)
(* "dout" being the bus's answer.                                          *)

Idle == [size |-> WIDTH_NONE]

BusRequest(id, reg, alu) ==
  IF AccessSize(id) = WIDTH_NONE THEN Idle
  ELSE [size |-> AccessSize(id), wr |-> high_if(id.memwrite # WIDTH_NONE),
        addr |-> alu.result, din |-> reg[id.readreg2]]

NextPc(id, reg, alu, pc_plus_4) == NewPc(id, reg, pc_plus_4, TakeBranch(id, alu))

Commit(id, reg, alu, pc_plus_4, dout) ==
  WriteRegFile(reg, id.regwrite, id.writereg,
               RegWriteData(id, pc_plus_4, alu.result, MemReadData(id, dout)))

=============================================================================
