------------------------------- MODULE MCCpu -------------------------------
(***************************************************************************)
(* Instances of Cpu for TLC.  The programs are those of Programs and short *)
(* loops that exercise what these do not.                                  *)
(***************************************************************************)
EXTENDS Cpu, Programs

OpenAs1 == [s \in CtrlSignal |-> 1]

\* A call and its return: nop; jal f; sb ra,0(zero); j 0; nop;
\* f: slti v0,v0,1; jr ra
CallLoop == Rom(<<
  NOP, JType(3, 5), IType(40, 0, 31, 0), JType(2, 0), NOP,
  IType(10, 2, 2, 1), RType(31, 0, 0, 0, 8), NOP>>)

\* Branches, taken and not, on a loaded value, and a store of R0 after an
\* attempt to write it: lb v0; bltz v0,+2; addiu zero,zero,5; sh zero,2(v0); j 0
BranchLoop == Rom(<<
  IType(32, 0, 2, 0), IType(1, 2, 0, 2), IType(9, 0, 0, 5), NOP,
  IType(41, 2, 0, 2), IType(4, 2, 0, 1), RType(2, 2, 3, 0, 33), JType(2, 0), NOP, NOP>>)

\* Encodings the table does not list, HI/LO and a multiplication
OddLoop == Rom(<<
  IType(8, 0, 3, 7), RType(3, 0, 0, 0, 17), RType(0, 0, 4, 0, 16),
  RType(3, 4, 0, 0, 24), RType(0, 0, 5, 0, 1), IType(1, 0, 2, 1), IType(16, 3, 2, 1),
  JType(2, 0), NOP, NOP>>)

LoopingPrograms == {ExampleCode, DefaultRom, CallLoop, BranchLoop}
AllPrograms     == LoopingPrograms \cup {OddLoop}

\* Answers of the bus: a positive byte, a negative one, and a word
Answer == {W(0, 5), W(\habcd, \hef80)}

\* The programs made of listed encodings end in a jump to their start, and the
\* core keeps coming back to it: every enable is raised again, every toggle of
\* the bus undone, every call returned from and every jump taken (the program of
\* mips_tb.vhdl included, whose line 2 says that it does not).
LoopsForever == prog \in LoopingPrograms => []<>(new_pc = BOOT_ADDR)

-----------------------------------------------------------------------------
(* What a comment says and the core does not do.                           *)

\* addiu v0,v0,1; nop; x: j x; nop
CountOnce == {Rom(<<IType(9, 2, 2, 1), NOP, JType(2, 2), NOP>>)}

\* IF.vhdl:9-12: "too high a CPI may lead to the same instruction executed
\* multiple times. [...] The pipeliner should fix this" - an instruction the
\* program reaches once is executed once (the fetch of InstructionMem.vhdl,
\* one instruction behind the program counter, against new_pc's reset).
ExecutedOnce == reg[2] \in {ZERO, W(0, 1)}

=============================================================================
