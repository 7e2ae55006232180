------------------------------- MODULE MCMips -------------------------------
(***************************************************************************)
(* Instances of Mips for TLC, with the programs of Programs.               *)
(***************************************************************************)
EXTENDS Mips, Programs, TLC

Undefined == {NEG_ONE}
TiedToZero == {ZERO}

\* addiu v0,v0,1; addiu v1,v1,1; x: j x; nop
CountBoth == Rom(<<IType(9, 2, 2, 1), IType(9, 3, 3, 1), JType(2, 2), NOP>>)

\* lui v1,0x1000; sb v1,4(v1); lui v1,0x1400; sb v1,16(v1); j 0; nop: a pixel, and
\* the video's configuration
Configure == Rom(<<IType(15, 0, 3, \h1000), IType(40, 3, 3, 4), IType(15, 0, 3, \h1400),
                   IType(40, 3, 3, 16), JType(2, 0), NOP>>)

\* The program of the synthesised build; the programs of the bus's ROM, and the
\* ways that ROM is run
ExampleOnly == {ExampleCode}
BusRoms     == {DefaultRom, CountBoth, Configure}
Synthesised == {FALSE}
BothWays    == {FALSE, TRUE}

\* Two settings of the buttons; the DIP switch of the test benches
TwoPushes == {W(0, 5), W(0, 8)}
OnePush   == {ZERO}
BenchDip  == {W(0, \haa)}

\* What dout may carry: what floats or was never written, and the words of the
\* ROM and the RAM.
BusWords == {NEG_ONE, ZERO, W(0, \had)}
              \cup UNION {{r[a] : a \in DOMAIN r} : r \in BusRoms}

-----------------------------------------------------------------------------
(* The build of mips.vhdl runs InstructionMem's example_code.              *)

\* README.md:24-28: "while (1) *leds = *pushbuttons;" - once nobody moves the
\* buttons any more, the LEDs come to show them and go on showing them, in
\* spite of what the registers of the devices held (example_code's last loop
\* against mmio_buttons and mmio_leds).
LedsFollowButtons == <>[](leds = buttons)

\* The pixels the program stores reach the cells of the VRAM it names, for
\* good and no others, although the VGA registers the access to VRAM one edge
\* late and the VRAM takes address and data from the bus (vga_controller.vhdl's
\* latch).
Drawing == (0 :> W(0, 31)) @@ (19 :> W(0, 3)) @@ (150 :> W(0, 255)) @@ (280 :> W(0, 28))
             @@ (299 :> W(0, 224))
PixelsDrawn == <>[](vram = Drawing)

-----------------------------------------------------------------------------
(* The build of mips_tb.vhdl fetches roms/default.vhdl over the bus.       *)

\* The four registers mips_tb.vhdl asserts on, for good: the byte stored to
\* the RAM comes back sign-extended, between fetches of the ROM that share the
\* bus with it, in the synthesised build whenever the program is reset and in
\* the simulation that the test bench is, which pulses no rst later on.
TestbenchPasses ==
  prog = DefaultRom =>
    <>[]((simulated => resets = 0) =>
           /\ reg[1] = W(0, \hf000) /\ reg[2] = W(0, \hfbad) /\ reg[3] = W(\ha000, 0)
           /\ reg[4] = W(\hffff, \hffad))

\* mips_tb.vhdl:2 says "FIXME Looping doesn't work", of a program that ends in a
\* jump to its start.  It does: fetched over the bus, behind loads and stores
\* that share it, across a reset, simulated and synthesised, the program comes
\* back to its start again and again (default.vhdl's j 0, the ROM's process, and
\* the fetch of InstructionMem.vhdl).
LoopingWorks == prog = DefaultRom => []<>(new_pc = BOOT_ADDR)

\* roms/default.vhdl:30: "the first instruction won't be executed.  No idea
\* why" - in a simulation, where the process of the ROM runs before the
\* selection has followed the first address, the core has passed address 0 by
\* the time the ROM shows its first word; every other instruction is executed.
OnlyFirstInstructionLost ==
  prog = CountBoth /\ simulated => /\ [](resets = 0 => reg[2] = ZERO)
                                  /\ <>[](resets = 0 => reg[3] = W(0, 1))

-----------------------------------------------------------------------------
(* What a comment says and the system does not do.                         *)

\* x: lui v1,0xa000; addiu v0,zero,5; sb v0,1(v1); lb a0,1(v1); j x; nop
StoreLoad == {Rom(<<IType(15, 0, 3, \ha000), IType(9, 0, 2, 5), IType(40, 3, 2, 1),
                    IType(32, 3, 4, 1), JType(2, 0), NOP>>)}

\* memory_map.vhdl:18: the block at A0000000 is RAM - a byte stored to it is
\* loaded back (async_ram.vhdl's memread).
RamReadsBack == <>[](reg[4] = W(0, 5))

=============================================================================
