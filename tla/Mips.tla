-------------------------------- MODULE Mips --------------------------------
(***************************************************************************)
(* The top level, vhdl/arch/mips.vhdl: the core and its register file      *)
(* (Cpu) on the memory bus (SysBus), with the board's inputs.  A clock     *)
(* edge is one of both: the core takes what the bus drives before it, the  *)
(* registered devices take the core's signals before it, and the           *)
(* combinational parts of the bus follow the core's signals behind it.     *)
(***************************************************************************)
EXTENDS Cpu

CONSTANTS RomOnBus,      \* the ROM on the bus, in the build that does not fetch from it
          RamSize, VramSize, TscModulus, Floating, Blank,
          Simulations,   \* whether the ROM is simulated or synthesised
          Pushed,        \* the words the push buttons may form
          Switched,      \* the words the DIP switch may form
          MaxPresses     \* a bound on the changes of the buttons

ASSUME RomOnBusIsRom   == IsRom(RomOnBus)
ASSUME InputsAreWords  == Pushed \cup Switched \subseteq Word
ASSUME SizesArePositive == {RamSize, VramSize, TscModulus} \subseteq Nat \ {0}
ASSUME SimulationsAssumption == Simulations \subseteq BOOLEAN
ASSUME FloatingIsWord  == Floating \in Word
ASSUME MaxPressesIsNat == MaxPresses \in Nat
ASSUME BlankIsByte     == Blank \in Word /\ \A i \in 8 .. 31 : Blank[i] = 0

VARIABLES simulated,   \* which of both (never changes)
          buttons, switch, cs, ram, ram_out, rom_out, leds, leds_out, push_out, dip_out,
          tstamp, tsc_out, bus_access_vram, mode_idx, vga_out, bus_vram_addr, vram, vram_out,
          presses

BusRom == IF SINGLE_ADDRESS_SPACE THEN prog ELSE RomOnBus

Bus == INSTANCE SysBus WITH addr <- top_addr, din <- top_din, size <- top_size,
                            wr <- top_wr, rom <- BusRom

busVars   == <<cs, ram, ram_out, rom_out, leds, leds_out, push_out, dip_out, tstamp,
               tsc_out, bus_access_vram, mode_idx, vga_out, bus_vram_addr, vram, vram_out>>
boardVars == <<simulated, buttons, switch, presses>>
mipsVars  == <<vars, busVars, boardVars>>

MipsInit ==
  /\ Init
  /\ simulated \in Simulations
  /\ buttons \in Pushed /\ switch \in Switched /\ presses = 0
  /\ \E w \in PowerOn : Bus!BusInit(w)

MipsClock == /\ Edge(Bus!dout)
             /\ Bus!BusEdge
             /\ UNCHANGED boardVars

\* rst reaches neither the decoder nor the devices.
MipsReset == /\ Reset
             /\ Bus!BusSettle
             /\ UNCHANGED boardVars

\* Somebody moves a push button.
Press == /\ presses < MaxPresses
         /\ presses' = presses + 1
         /\ buttons' \in Pushed \ {buttons}
         /\ UNCHANGED <<vars, busVars, simulated, switch>>

MipsNext == MipsClock \/ MipsReset \/ Press

\* The clock keeps running, as in Cpu's FairSpec.
MipsSpec == MipsInit /\ [][MipsNext]_mipsVars /\ WF_ticks(Pipeliner)

-----------------------------------------------------------------------------

\* The types of the variables this module adds
MipsTypeOK == /\ TypeOK
              /\ Bus!BusTypeOK
              /\ simulated \in BOOLEAN
              /\ buttons \in Pushed /\ switch \in Switched /\ presses \in 0 .. MaxPresses

\* What Cpu assumes of the bus: a fetch is answered by the ROM with the
\* instruction at the fetched address.  Everything shown of Cpu then holds in
\* the composed system.
BusAnswers == Bus!dout \in Answers

\* The synthesised build keeps to it, whatever device the access before the
\* fetch selected (addrdec.vhdl and the ROM's latch against the bus muxes of
\* cpu.vhdl).
FetchesAnswered == ~simulated => BusAnswers

\* In the build that fetches over the bus a store changes a device at an address
\* of the device's own block and nothing at an address of none, although the
\* decoder keeps its selection there and the latch in front of the VRAM follows
\* every address; the mode of the video, whose block the decoder has no line for,
\* stays as it is (addrdec.vhdl:17-24, memory_map.vhdl:18-26, vga_controller.vhdl).
StoresInTheirBlock ==
  [][/\ ram' # ram   => Bus!inside(top_addr', Bus!mmap.ram)
     /\ leds' # leds => Bus!inside(top_addr, Bus!mmap.led)
     /\ vram' # vram => Bus!inside(top_addr, Bus!mmap.vram) /\ bus_vram_addr = top_addr
     /\ mode_idx' = mode_idx]_mipsVars

=============================================================================
