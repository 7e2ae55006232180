------------------------------ MODULE Programs ------------------------------
(***************************************************************************)
(* The programs of the repository and the values of the constants of Cpu   *)
(* that its instances for TLC share.                                       *)
(***************************************************************************)
EXTENDS MainDec, Asm

\* InstructionMem.vhdl, example_code
ExampleCode == Rom(<<
  W(0, 0), W(\h3c1c, \h1000),
  W(\h2402, \h001f), W(\ha382, \h0000), W(\h2402, \h0003), W(\ha382, \h0013),
  W(\h2402, \h00ff), W(\ha382, \h0096), W(\h2402, \h001c), W(\ha382, \h0118),
  W(\h2402, \h00e0), W(\ha382, \h012b), W(0, 0),
  W(\h3c01, \h1400), W(\h3c1a, \h1400), W(\h375a, \h0002),
  W(\h8342, \h0000), W(\ha022, \h0000),
  W(\h0800, \h0000), W(0, 0)>>)

\* roms/default.vhdl
DefaultRom == Rom(<<
  W(0, 0), W(\h3421, \hf000), W(0, 0), W(\h3422, \h0bad), W(0, 0),
  W(\h3c03, \ha000), W(0, 0), W(\ha062, \h0000), W(0, 0), W(0, 0),
  W(\h8064, \h0000), W(\h0800, \h0000), W(0, 0)>>)

\* roms/vga.vhdl, the ROM on the bus of that build
VgaRom == Rom(<<
  W(0, 0), W(\h3c1c, \h1000), W(0, \h1025), W(\h3442, \h001c), W(\ha382, 0),
  W(\h8382, 0), W(\h0800, 0)>>)

\* Outside its contents a ROM delivers what it happens to hold; here a jump
\* home, so that a program that has run off its code comes back.
JumpHome == JType(2, 0)

OpenAs0 == [s \in CtrlSignal |-> 0]
Power   == {ZERO, NEG_ONE}

\* When the core may be reset: at the ticks at which selMEM is 0 and stays 0,
\* or falls back to it, at every tick, never
SafeTicks == {1, 2, 3, 4, 11}
AnyTick   == 1 .. 11
NoTick    == {}

=============================================================================
