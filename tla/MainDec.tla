------------------------------ MODULE MainDec ------------------------------
(***************************************************************************)
(* The instruction decoder, vhdl/arch/maindec.vhdl, and the multiplexers   *)
(* of vhdl/arch/ID.vhdl around it.                                         *)
(*                                                                         *)
(* maindec is a combinational process over three signals it does not       *)
(* assign on every path: the control vector ctrl, aluop and memwidth.  On  *)
(* the other paths they keep their value, so the decoder has a state       *)
(* (DecLatch), which an encoding the table does not list exposes.          *)
(*                                                                         *)
(* The table leaves control bits open ('X', and '-' for every bit of an    *)
(* unlisted opcode).  DontCare says how the build resolved them, one bit   *)
(* for each control signal.                                                *)
(***************************************************************************)
EXTENDS Alu

CtrlSignal == {"regwrite", "regdst", "link", "jumpreg", "jumpdirect", "branch",
               "memread", "memtoreg", "memsex", "memwrite", "shift", "alusrc"}

CONSTANT DontCare

ASSUME DontCareIsBits == DontCare \in [CtrlSignal -> Bit]

DecLatch == [ctrl : [CtrlSignal -> Bit], aluop : AluOp, memwidth : MemWidth]

\* The fields of an instruction
op(instr)     == Field6(instr, 26)
rs(instr)     == Field5(instr, 21)
rt(instr)     == Field5(instr, 16)
rd(instr)     == Field5(instr, 11)
func(instr)   == Field6(instr, 0)

-----------------------------------------------------------------------------
(* The table of control vectors: the signals a row asserts and those it    *)
(* leaves open.                                                            *)

Row(ones, open) == [s \in CtrlSignal |-> IF s \in ones THEN 1
                                         ELSE IF s \in open THEN DontCare[s]
                                         ELSE 0]

JumpOpen == {"regdst", "branch", "memsex", "alusrc"}

\* R-type rows, by the func field
CtrlR(f) ==
  CASE f \in {0, 2, 3} -> Row({"regwrite", "regdst", "shift"}, {})
    [] f \in {17, 19}  -> Row({}, {"regdst", "alusrc"})                \* mthi mtlo
    [] f = 8 -> Row({"jumpreg"},                                       \* jr
                    {"regdst", "link", "jumpdirect", "branch", "memtoreg",
                     "memsex", "alusrc"})
    [] f = 9 -> Row({"regwrite", "regdst", "link", "jumpreg"},         \* jalr
                    {"memtoreg", "memsex", "alusrc"})
    [] OTHER -> Row({"regwrite", "regdst"}, {})

\* Rows of opcode 1, by the rt field; the control vector of an unlisted one
\* is the previous instruction's.
CtrlRegImm(t, old) ==
  CASE t \in {0, 1}   -> Row({"branch"}, {})                           \* bltz bgez
    [] t \in {16, 17} -> Row({"regdst", "link", "branch"}, {})         \* bltzal bgezal
    [] OTHER          -> old

\* The control vector
Ctrl(instr, old) ==
  LET o == op(instr)
  IN  CASE o = 0 -> CtrlR(func(instr))
        [] o = 1 -> CtrlRegImm(rt(instr), old)
        [] o = 2 -> Row({"jumpdirect"}, JumpOpen \cup {"link"})        \* j
        [] o = 3 -> Row({"regwrite", "link", "jumpdirect"}, JumpOpen)  \* jal
        [] o \in {4, 5} -> Row({"branch"}, {"regdst"})                 \* beq bne
        [] o \in {6, 7} -> Row({"branch"}, {})                         \* blez bgtz
        [] o \in {32, 33} -> Row({"regwrite", "memread", "memtoreg",   \* lb lh
                                  "memsex", "alusrc"}, {})
        [] o \in {36, 37} -> Row({"regwrite", "memread", "memtoreg",   \* lbu lhu
                                  "alusrc"}, {})
        [] o = 35 -> Row({"memread", "memtoreg", "alusrc"}, {"memsex"}) \* lw
        [] o \in {40, 41, 43} -> Row({"memwrite", "alusrc"}, {"memsex"}) \* sb sh sw
        [] o \in 8 .. 15 -> Row({"regwrite", "alusrc"}, {})            \* I-type
        [] OTHER -> Row({}, CtrlSignal)

AluOpR(f, old) ==
  CASE f = 32 -> "ADD"  [] f = 33 -> "ADDU"  [] f = 34 -> "SUB"  [] f = 35 -> "SUBU"
    [] f = 36 -> "AND"  [] f = 37 -> "OR"    [] f = 38 -> "XOR"  [] f = 39 -> "NOR"
    [] f = 42 -> "SLT"  [] f = 43 -> "SLTU"
    [] f \in {0, 4} -> "SLL"  [] f \in {2, 6} -> "SRL"  [] f \in {3, 7} -> "SRA"
    [] f = 24 -> "MULT" [] f = 25 -> "MULTU" [] f = 26 -> "DIV"  [] f = 27 -> "DIVU"
    [] f = 16 -> "MFHI" [] f = 17 -> "MTHI"  [] f = 18 -> "MFLO" [] f = 19 -> "MTLO"
    [] OTHER -> old

\* The ALU operation; jumps and unlisted encodings leave the previous one.
AluOpOf(instr, old) ==
  LET o == op(instr)
      t == rt(instr)
  IN  CASE o = 0 -> AluOpR(func(instr), old)
        [] o = 1 -> IF t \in {0, 16} THEN "LTZ"
                    ELSE IF t \in {1, 17} THEN "GEZ" ELSE old
        [] o = 4 -> "EQ"  [] o = 5 -> "NE"  [] o = 6 -> "LEZ"  [] o = 7 -> "GTZ"
        [] o \in {32, 33, 35, 36, 37, 40, 41, 43} -> "ADD"
        [] o = 8  -> "ADD" [] o = 9  -> "ADDU" [] o = 10 -> "SLT" [] o = 11 -> "SLTU"
        [] o = 12 -> "AND" [] o = 13 -> "OR"   [] o = 14 -> "XOR" [] o = 15 -> "LU"
        [] OTHER -> old

\* The access width; only loads and stores assign it.
MemWidthOf(instr, old) ==
  CASE op(instr) \in {32, 36, 40} -> "BYTE"
    [] op(instr) \in {33, 37, 41} -> "HALF"
    [] op(instr) \in {35, 43}     -> "WORD"
    [] OTHER                      -> old

\* One evaluation of the process for a new instruction
MainDec(instr, old) == [ctrl     |-> Ctrl(instr, old.ctrl),
                        aluop    |-> AluOpOf(instr, old.aluop),
                        memwidth |-> MemWidthOf(instr, old.memwidth)]

-----------------------------------------------------------------------------
(* InstructionDecode: what the ID pipeline registers are loaded with.      *)

IdReg == [regwrite : Bit, link : Bit, jumpreg : Bit, jumpdir : Bit, branch : Bit,
          memread : MemWidth, memtoreg : Bit, memsex : Bit, memwrite : MemWidth,
          shift : Bit, alusrc : Bit, aluop : AluOp,
          readreg1 : Reg, readreg2 : Reg, writereg : Reg,
          jump_addr : Word, zeroxed : Word, sexed : Word]

\* Variant for mutation testing: the target is not shifted.
JumpAddrUnshifted(pc_plus_4, instr) ==
  [i \in 0 .. 31 |-> IF i >= 26 THEN pc_plus_4[i] ELSE instr[i]]

\* Variant for mutation testing: the target is one instruction further, as a
\* branch's is in the single address space.
JumpAddrBehind(pc_plus_4, instr) ==
  PcPlus4([i \in 0 .. 31 |-> IF i >= 28 THEN pc_plus_4[i]
                             ELSE IF i >= 2 THEN instr[i - 2] ELSE 0])

\* jump_addr: the region of the following instruction, the 26-bit target, "00"
JumpAddr(pc_plus_4, instr) ==
  [i \in 0 .. 31 |-> IF i >= 28 THEN pc_plus_4[i]
                     ELSE IF i >= 2 THEN instr[i - 2] ELSE 0]
\* zeroxed: the shamt field, sexed: the immediate
zeroxed(instr) == [i \in 0 .. 31 |-> IF i <= 4 THEN instr[i + 6] ELSE 0]
sexed(instr)   == SignHalf(instr)

\* regDstMux, then returnAddrMux: a linking branch or direct jump writes R31.
WriteReg(instr, ctrl) ==
  IF (ctrl["branch"] = 1 \/ ctrl["jumpdirect"] = 1) /\ ctrl["link"] = 1 THEN 31
  ELSE IF ctrl["regdst"] = 1 THEN rd(instr) ELSE rt(instr)

InstructionDecode(instr, pc_plus_4, dec) ==
  LET c == dec.ctrl
      Width(s) == IF c[s] = 1 THEN dec.memwidth ELSE WIDTH_NONE
  IN  [regwrite |-> c["regwrite"], link |-> c["link"], jumpreg |-> c["jumpreg"],
       jumpdir |-> c["jumpdirect"], branch |-> c["branch"],
       memread |-> Width("memread"), memtoreg |-> c["memtoreg"],
       memsex |-> c["memsex"], memwrite |-> Width("memwrite"),
       shift |-> c["shift"], alusrc |-> c["alusrc"], aluop |-> dec.aluop,
       readreg1 |-> rs(instr), readreg2 |-> rt(instr),
       writereg |-> WriteReg(instr, c),
       jump_addr |-> JumpAddr(pc_plus_4, instr),
       zeroxed |-> zeroxed(instr), sexed |-> sexed(instr)]

\* The ID registers after an asynchronous clear
ClearedId ==
  [regwrite |-> 0, link |-> 0, jumpreg |-> 0, jumpdir |-> 0, branch |-> 0,
   memread |-> WIDTH_NONE, memtoreg |-> 0, memsex |-> 0, memwrite |-> WIDTH_NONE,
   shift |-> 0, alusrc |-> 0, aluop |-> "AND", readreg1 |-> 0, readreg2 |-> 0,
   writereg |-> 0, jump_addr |-> ZERO, zeroxed |-> ZERO, sexed |-> ZERO]

=============================================================================
