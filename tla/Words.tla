------------------------------- MODULE Words -------------------------------
(***************************************************************************)
(* The bit vectors of the design: vhdl/arch_defs.vhdl (word_t, half_t,     *)
(* byte_t, ctrl_memwidth_t), the arithmetic of numeric_std the datapath    *)
(* uses, and the shift operators of vhdl/overloads.vhdl.  A word is a      *)
(* function from bit positions to bits; bit 31 is the most significant, as *)
(* in std_logic_vector(31 downto 0).  The metavalues of std_logic ('U',    *)
(* 'X', 'Z', '-') are not values here: what a build makes of them is a     *)
(* constant or a choice where they occur.                                  *)
(***************************************************************************)
EXTENDS Integers

Bit  == {0, 1}
Word == [0 .. 31 -> Bit]
Reg  == 0 .. 31

\* high_if / low_if: a condition as a bit, and as its complement
high_if(p) == IF p THEN 1 ELSE 0
low_if(p)  == IF p THEN 0 ELSE 1

ZERO    == [i \in 0 .. 31 |-> 0]
NEG_ONE == [i \in 0 .. 31 |-> 1]

\* The access widths; the two bits are "or"ed by MEM.vhdl, and whenever both
\* operands are not WIDTH_NONE they are the same width (maindec has one
\* memwidth signal).
WIDTH_NONE == "NONE"
MemWidth   == {"NONE", "BYTE", "HALF", "WORD"}
WidthOr(v, w) == IF v = WIDTH_NONE THEN w ELSE v

-----------------------------------------------------------------------------
(* Fields of a word as numbers. *)

Field5(w, lo) == w[lo] + 2 * w[lo + 1] + 4 * w[lo + 2] + 8 * w[lo + 3]
                   + 16 * w[lo + 4]
Field6(w, lo) == Field5(w, lo) + 32 * w[lo + 5]

-----------------------------------------------------------------------------
(* Bitwise operators. *)

Not(a)    == [i \in 0 .. 31 |-> 1 - a[i]]
And(a, b) == [i \in 0 .. 31 |-> high_if(a[i] = 1 /\ b[i] = 1)]
Or(a, b)  == [i \in 0 .. 31 |-> high_if(a[i] = 1 \/ b[i] = 1)]
Xor(a, b) == [i \in 0 .. 31 |-> high_if(a[i] # b[i])]
Nor(a, b) == Not(Or(a, b))

-----------------------------------------------------------------------------
(* Addition and subtraction modulo 2^32: the ripple of the carry out of    *)
(* each position, and the sum bit it leaves behind.                        *)

Carry(a, b, cin) ==
  LET c[i \in 0 .. 32] ==
        IF i = 0 THEN cin ELSE high_if(a[i - 1] + b[i - 1] + c[i - 1] >= 2)
  IN  c
AddC(a, b, cin) ==
  LET c == Carry(a, b, cin)
  IN  [i \in 0 .. 31 |-> high_if((a[i] = b[i]) <=> (c[i] = 1))]
Add(a, b) == AddC(a, b, 0)
Sub(a, b) == AddC(a, Not(b), 1)

\* Unsigned and two's complement order: decided at the highest bit where the
\* operands differ.
ULess(a, b) == \E i \in 0 .. 31 : /\ a[i] < b[i]
                                  /\ \A j \in i + 1 .. 31 : a[j] = b[j]
SLess(a, b) == IF a[31] # b[31] THEN a[31] = 1 ELSE ULess(a, b)
SNegative(a) == a[31] = 1

-----------------------------------------------------------------------------
(* The shift operators of overloads.vhdl; a distance of 32 or more leaves  *)
(* nothing of the operand but, for sra, its sign.                          *)

ShiftLeft(a, n)    == [i \in 0 .. 31 |-> IF i >= n THEN a[i - n] ELSE 0]
ShiftRight(a, n)   == [i \in 0 .. 31 |-> IF i + n <= 31 THEN a[i + n] ELSE 0]
ShiftRightA(a, n)  == [i \in 0 .. 31 |-> IF i + n <= 31 THEN a[i + n] ELSE a[31]]

-----------------------------------------------------------------------------
(* half(w), byte(w) and their extensions to a word. *)

ZeroHalf(w) == [i \in 0 .. 31 |-> IF i <= 15 THEN w[i] ELSE 0]
SignHalf(w) == [i \in 0 .. 31 |-> IF i <= 15 THEN w[i] ELSE w[15]]
ZeroByte(w) == [i \in 0 .. 31 |-> IF i <= 7 THEN w[i] ELSE 0]
SignByte(w) == [i \in 0 .. 31 |-> IF i <= 7 THEN w[i] ELSE w[7]]
\* half(w) & X"0000"
UpperHalf(w) == [i \in 0 .. 31 |-> IF i >= 16 THEN w[i - 16] ELSE 0]

\* itow(PC_ADD) with PC_ADD => 4
FOUR == [i \in 0 .. 31 |-> high_if(i = 2)]
PcPlus4(a) == Add(a, FOUR)

=============================================================================
