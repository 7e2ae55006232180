-------------------------------- MODULE Alu --------------------------------
(***************************************************************************)
(* The ALU, vhdl/arch/alu.vhdl: a combinational process whose variable     *)
(* "result" and signals HI and LO keep their value in the branches that do *)
(* not assign them.  The state of the process is therefore the record      *)
(* [result, hi, lo], and Alu gives the next one for the inputs it settles  *)
(* on.                                                                     *)
(***************************************************************************)
EXTENDS Words

AluOp == {"ADD", "ADDU", "SUB", "SUBU", "AND", "OR", "NOR", "XOR", "LU",
          "SLL", "SRL", "SRA", "MULT", "MULTU", "DIV", "DIVU",
          "MFHI", "MFLO", "MTHI", "MTLO", "SLT", "SLTU",
          "EQ", "NE", "LEZ", "LTZ", "GTZ", "GEZ"}

AluState == [result : Word, hi : Word, lo : Word]

\* Variant for mutation testing: the immediate stays sign-extended.
always_correct(src2, immediate) == src2

\* A logical operation zero-extends an immediate again: the operand mux
\* delivered it sign-extended.
immediately_correct(src2, immediate) ==
  IF immediate = 0 THEN src2 ELSE ZeroHalf(src2)

\* A one-bit answer in bit 0 of the result
FromBit(b) == [i \in 0 .. 31 |-> IF i = 0 THEN b ELSE 0]

\* The result; "old" is what the variable holds when no branch assigns it.
AluResult(op, src1, src2, immediate, st) ==
  LET src2i == immediately_correct(src2, immediate)
      shamt == Field6(src2, 0)
  IN  CASE op \in {"ADD", "ADDU"} -> Add(src1, src2)
        [] op \in {"SUB", "SUBU"} -> Sub(src1, src2)
        [] op = "AND"  -> And(src1, src2i)
        [] op = "OR"   -> Or(src1, src2i)
        [] op = "NOR"  -> Nor(src1, src2i)
        [] op = "XOR"  -> Xor(src1, src2i)
        [] op = "LU"   -> UpperHalf(src2)
        [] op = "SLL"  -> ShiftLeft(src1, shamt)
        [] op = "SRL"  -> ShiftRight(src1, shamt)
        [] op = "SRA"  -> ShiftRightA(src1, shamt)
        [] op = "MFHI" -> st.hi
        [] op = "MFLO" -> st.lo
        [] op = "SLT"  -> FromBit(high_if(SLess(src1, src2)))
        [] op = "SLTU" -> FromBit(high_if(ULess(src1, src2)))
        [] op = "EQ"   -> FromBit(low_if(src1 = src2))
        [] op = "NE"   -> FromBit(low_if(src1 # src2))
        [] op = "LEZ"  -> FromBit(low_if(SNegative(src1) \/ src1 = ZERO))
        [] op = "LTZ"  -> FromBit(low_if(SNegative(src1)))
        [] op = "GTZ"  -> FromBit(low_if(~SNegative(src1) /\ src1 # ZERO))
        [] op = "GEZ"  -> FromBit(low_if(~SNegative(src1)))
        [] OTHER       -> st.result

Alu(op, src1, src2, immediate, st) ==
  [result |-> AluResult(op, src1, src2, immediate, st),
   hi     |-> IF op = "MTHI" THEN src1 ELSE st.hi,
   lo     |-> IF op = "MTLO" THEN src2 ELSE st.lo]

isZero(st) == high_if(st.result = ZERO)

=============================================================================
