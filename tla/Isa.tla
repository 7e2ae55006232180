-------------------------------- MODULE Isa --------------------------------
(***************************************************************************)
(* The reference the datapath is compared with: what one instruction of    *)
(* the MIPS I set means, by its mnemonic, stated on pairs of 16-bit        *)
(* numbers and not on the bits, muxes and control vectors of the design.   *)
(*                                                                         *)
(* An instruction is a record [m, s, t, d, sh, imm]: a mnemonic, its three *)
(* register fields, its shift distance and its immediate (or jump target). *)
(***************************************************************************)
EXTENDS Asm

-----------------------------------------------------------------------------
(* The encoding. *)

FuncOf == [sll |-> 0, srl |-> 2, sra |-> 3, sllv |-> 4, srlv |-> 6, srav |-> 7,
           jr |-> 8, jalr |-> 9, mfhi |-> 16, mthi |-> 17, mflo |-> 18, mtlo |-> 19,
           add |-> 32, addu |-> 33, sub |-> 34, subu |-> 35, and |-> 36, or |-> 37,
           xor |-> 38, nor |-> 39, slt |-> 42, sltu |-> 43]
OpcodeOf == [beq |-> 4, bne |-> 5, blez |-> 6, bgtz |-> 7, addi |-> 8, addiu |-> 9,
             slti |-> 10, sltiu |-> 11, andi |-> 12, ori |-> 13, xori |-> 14,
             lui |-> 15, lb |-> 32, lh |-> 33, lw |-> 35, lbu |-> 36, lhu |-> 37,
             sb |-> 40, sh |-> 41, sw |-> 43]
RegImmOf == [bltz |-> 0, bgez |-> 1, bltzal |-> 16, bgezal |-> 17]
TargetOf == [j |-> 2, jal |-> 3]

Mnemonics == DOMAIN FuncOf \cup DOMAIN OpcodeOf \cup DOMAIN RegImmOf
               \cup DOMAIN TargetOf

Encode(i) ==
  CASE i.m \in DOMAIN FuncOf   -> RType(i.s, i.t, i.d, i.sh, FuncOf[i.m])
    [] i.m \in DOMAIN OpcodeOf -> IType(OpcodeOf[i.m], i.s, i.t, i.imm)
    [] i.m \in DOMAIN RegImmOf -> IType(1, i.s, RegImmOf[i.m], i.imm)
    [] i.m \in DOMAIN TargetOf -> JType(TargetOf[i.m], i.imm)

\* The instructions: fields of five bits, an immediate of sixteen, a jump
\* target of twenty-six
Instruction ==
  {i \in [m : Mnemonics, s : Reg, t : Reg, d : Reg, sh : Reg, imm : Nat] :
     i.imm \div 65536 < IF i.m \in DOMAIN TargetOf THEN 1024 ELSE 1}

-----------------------------------------------------------------------------
(* Arithmetic on the halves of a word. *)

Number(w, lo) == Field5(w, lo) + 32 * Field5(w, lo + 5) + 1024 * Field6(w, lo + 10)
Hi(w) == Number(w, 16)
Lo(w) == Number(w, 0)

\* The words an immediate stands for
Signed(imm)   == W(IF imm >= 32768 THEN 65535 ELSE 0, imm)
Unsigned(imm) == W(0, imm)

Plus(a, b)  == LET lo == Lo(a) + Lo(b)
               IN  W((Hi(a) + Hi(b) + lo \div 65536) % 65536, lo % 65536)
Minus(a, b) == LET lo == Lo(a) - Lo(b)
               IN  W((Hi(a) - Hi(b) - (IF lo < 0 THEN 1 ELSE 0)) % 65536, lo % 65536)
Below(a, b) == Hi(a) < Hi(b) \/ (Hi(a) = Hi(b) /\ Lo(a) < Lo(b))
Negative(a) == Hi(a) >= 32768
Less(a, b)  == IF Negative(a) # Negative(b) THEN Negative(a) ELSE Below(a, b)
Flag(p)     == W(0, IF p THEN 1 ELSE 0)

Bits(a, b, F(_, _)) == [i \in 0 .. 31 |-> F(a[i], b[i])]
BitAnd(p, q) == p * q
BitOr(p, q)  == p + q - p * q
BitXor(p, q) == (p + q) % 2
BitNor(p, q) == 1 - BitOr(p, q)

\* A word shifted by n places, s shifted in from the left
LeftBy(a, n)     == [i \in 0 .. 31 |-> IF i < n THEN 0 ELSE a[i - n]]
RightBy(a, n, s) == [i \in 0 .. 31 |-> IF i + n > 31 THEN s ELSE a[i + n]]
Distance(a)      == Lo(a) % 32

-----------------------------------------------------------------------------
(* What an instruction computes, x and y being the registers it names.     *)

ThreeRegisters == {"add", "addu", "sub", "subu", "and", "or", "xor", "nor", "slt", "sltu"}
Immediates     == {"addi", "addiu", "slti", "sltiu", "andi", "ori", "xori", "lui"}
Shifts         == {"sll", "srl", "sra", "sllv", "srlv", "srav"}
Loads          == {"lb", "lbu", "lh", "lhu", "lw"}
Stores         == {"sb", "sh", "sw"}
Branches       == {"beq", "bne", "blez", "bgtz"} \cup DOMAIN RegImmOf
Linking        == {"jal", "jalr", "bltzal", "bgezal"}
FromHiLo       == {"mfhi", "mflo"}

Computed(i, x, y, hi, lo) ==
  CASE i.m \in {"add", "addu"} -> Plus(x, y)
    [] i.m \in {"sub", "subu"} -> Minus(x, y)
    [] i.m = "and"  -> Bits(x, y, BitAnd)
    [] i.m = "or"   -> Bits(x, y, BitOr)
    [] i.m = "xor"  -> Bits(x, y, BitXor)
    [] i.m = "nor"  -> Bits(x, y, BitNor)
    [] i.m = "slt"  -> Flag(Less(x, y))
    [] i.m = "sltu" -> Flag(Below(x, y))
    [] i.m \in {"addi", "addiu"} -> Plus(x, Signed(i.imm))
    [] i.m = "slti"  -> Flag(Less(x, Signed(i.imm)))
    [] i.m = "sltiu" -> Flag(Below(x, Signed(i.imm)))
    [] i.m = "andi"  -> Bits(x, Unsigned(i.imm), BitAnd)
    [] i.m = "ori"   -> Bits(x, Unsigned(i.imm), BitOr)
    [] i.m = "xori"  -> Bits(x, Unsigned(i.imm), BitXor)
    [] i.m = "lui"   -> W(i.imm, 0)
    [] i.m = "sll"   -> LeftBy(y, i.sh)
    [] i.m = "srl"   -> RightBy(y, i.sh, 0)
    [] i.m = "sra"   -> RightBy(y, i.sh, y[31])
    [] i.m = "sllv"  -> LeftBy(y, Distance(x))
    [] i.m = "srlv"  -> RightBy(y, Distance(x), 0)
    [] i.m = "srav"  -> RightBy(y, Distance(x), y[31])
    [] i.m = "mfhi"  -> hi
    [] i.m = "mflo"  -> lo

\* What a load makes of the bus's answer
Loaded(m, answer) ==
  LET byte == Lo(answer) % 256
      half == Lo(answer)
  IN  CASE m = "lb"  -> IF byte >= 128 THEN W(65535, 65280 + byte) ELSE W(0, byte)
        [] m = "lbu" -> W(0, byte)
        [] m = "lh"  -> Signed(half)
        [] m = "lhu" -> Unsigned(half)
        [] m = "lw"  -> answer

WidthOf(m) == CASE m \in {"lb", "lbu", "sb"} -> "BYTE"
                [] m \in {"lh", "lhu", "sh"} -> "HALF"
                [] m \in {"lw", "sw"}        -> "WORD"

Taken(m, x, y) ==
  CASE m = "beq" -> x = y
    [] m = "bne" -> x # y
    [] m = "blez" -> Negative(x) \/ x = ZERO
    [] m = "bgtz" -> ~Negative(x) /\ x # ZERO
    [] m \in {"bltz", "bltzal"} -> Negative(x)
    [] m \in {"bgez", "bgezal"} -> ~Negative(x)

-----------------------------------------------------------------------------
(* The meaning of instruction i at address pc, the registers being reg, hi *)
(* and lo: the registers after it, the address of the next instruction     *)
(* (there is no delay slot) and its bus access.  "answer" is the bus's.    *)

Set(reg, r, w) == [n \in DOMAIN reg |-> IF n = r /\ r # 0 THEN w ELSE reg[n]]

RegAfter(i, pc, reg, hi, lo, answer) ==
  LET v    == Computed(i, reg[i.s], reg[i.t], hi, lo)
      next == Plus(pc, W(0, 4))
  IN  CASE i.m \in ThreeRegisters \cup Shifts \cup FromHiLo -> Set(reg, i.d, v)
        [] i.m \in Immediates           -> Set(reg, i.t, v)
        [] i.m \in Loads                -> Set(reg, i.t, Loaded(i.m, answer))
        [] i.m = "jalr"                 -> Set(reg, i.d, next)
        [] i.m \in Linking \ {"jalr"}   -> Set(reg, 31, next)
        [] OTHER                        -> reg

\* The target of a jump from the region of the next instruction
TargetWord(next, target) ==
  W((Hi(next) \div 4096) * 4096 + target \div 16384, (target % 16384) * 4)

PcAfter(i, pc, reg) ==
  LET next == Plus(pc, W(0, 4))
  IN  CASE i.m \in {"jr", "jalr"} -> reg[i.s]
        [] i.m \in {"j", "jal"}   -> TargetWord(next, i.imm)
        [] i.m \in Branches /\ Taken(i.m, reg[i.s], reg[i.t]) ->
             Plus(next, LeftBy(Signed(i.imm), 2))
        [] OTHER -> next

Access(i, reg) ==
  LET there == Plus(reg[i.s], Signed(i.imm))
  IN  CASE i.m \in Loads  -> [size |-> WidthOf(i.m), wr |-> 0, addr |-> there]
        [] i.m \in Stores -> [size |-> WidthOf(i.m), wr |-> 1, addr |-> there,
                              din |-> reg[i.t]]
        [] OTHER          -> [size |-> "NONE"]

Meaning(i, pc, reg, hi, lo, answer) ==
  [reg |-> RegAfter(i, pc, reg, hi, lo, answer),
   hi  |-> IF i.m = "mthi" THEN reg[i.s] ELSE hi,
   lo  |-> IF i.m = "mtlo" THEN reg[i.s] ELSE lo,
   pc  |-> PcAfter(i, pc, reg),
   req |-> Access(i, reg)]

=============================================================================
