-------------------------------- MODULE Asm --------------------------------
(***************************************************************************)
(* Machine code for the models: words from their two halves, instructions  *)
(* from their fields, and programs from lists of instructions.             *)
(***************************************************************************)
EXTENDS Words, Sequences

\* The values of the positions of a half word
Weight == <<1, 2, 4, 8, 16, 32, 64, 128, 256, 512, 1024, 2048, 4096, 8192, 16384, 32768>>

BitOf(n, i) == high_if((n \div Weight[i + 1]) % 2 = 1)

\* The word with these upper and lower halves
W(hi, lo) == [i \in 0 .. 31 |-> IF i >= 16 THEN BitOf(hi, i - 16) ELSE BitOf(lo, i)]

RType(s, t, d, sh, f) == W(s * 32 + t, d * 2048 + sh * 64 + f)
IType(o, s, t, imm)   == W(o * 1024 + s * 32 + t, imm)
JType(o, target)      == W(o * 1024 + target \div 65536, target % 65536)

NOP == ZERO

\* A program that starts at address 0
Rom(code) == [a \in {W(0, 4 * (i - 1)) : i \in 1 .. Len(code)} |->
                code[CHOOSE i \in 1 .. Len(code) : W(0, 4 * (i - 1)) = a]]

=============================================================================
