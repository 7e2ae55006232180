--------------------------- MODULE MCConformance ---------------------------
(***************************************************************************)
(* Conformance with the operands, immediates and targets at the borders of *)
(* their ranges.                                                           *)
(***************************************************************************)
EXTENDS Conformance

OpenAs1 == [s \in CtrlSignal |-> 1]

\* Immediates where they matter
ImmOf(m) == IF m \in DOMAIN OpcodeOf THEN {0, 1, 32767, 32768, 65532}
            ELSE IF m \in DOMAIN RegImmOf THEN {2, 65532}
            ELSE IF m \in DOMAIN TargetOf THEN {0, 5, 20000, 67108863} ELSE {0}
ShiftOf(m) == IF m \in {"sll", "srl", "sra"} THEN {0, 1, 16, 31} ELSE {0}
\* The rt field: a register, the first operand's, or R0
TargetReg(m) == IF m \in {"mtlo", "mthi", "mfhi", "mflo", "jr", "jalr"} \cup DOMAIN TargetOf
                THEN {0} ELSE {0, 1, 2}
TargetD(m) == IF m \in DOMAIN FuncOf THEN {0, 3} ELSE {0}

InstructionsOf(ms) ==
  UNION {[m : {m}, s : {1}, t : TargetReg(m), d : TargetD(m), sh : ShiftOf(m),
          imm : ImmOf(m)] : m \in ms}

InstructionsConforming == InstructionsOf(Conforming)
InstructionsSurveyed   == InstructionsOf(Deviating \cup Jumps)

\* Operands at the borders of the two number ranges, and shift distances
Operand == {ZERO, W(0, 1), W(0, 35), W(\h7fff, \hffff), W(\h8000, 0), W(\h1234, \h89ab),
            NEG_ONE}
Regs(x, y) == [r \in Reg |-> CASE r = 1 -> x [] r = 2 -> y [] OTHER -> ZERO]

\* The address of the instruction: where the half words of the address carry,
\* and the last of a jump's region
Address == {W(0, \hfffc), W(\h1fff, \hfffc)}

\* What the instruction before left behind: a load of a half, a branch, mthi
Before == {IType(33, 1, 2, 4), IType(1, 1, 16, 3), RType(1, 0, 0, 0, 17)}
OldDec == [ctrl |-> Row({}, {}), aluop |-> "ADD", memwidth |-> WIDTH_NONE]

SituationsAtBorders ==
  {[pc |-> a, reg |-> Regs(x, y), hi |-> y, lo |-> x, answer |-> y,
    latch |-> MainDec(b, OldDec)] : x \in Operand, y \in Operand, a \in Address, b \in Before}

=============================================================================
