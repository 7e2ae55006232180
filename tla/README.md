# Verification of r3k.vhdl

TLA+ models of the MIPS softcore of this repository, the TLC runs that check
them and the TLAPS proofs about them. `PROJECT.json` maps every definition to
the lines it models.

    tlasany M.tla                       parse a module
    tlc -workers 2 -config X.cfg M      run a configuration
    tlapm M.tla                         check the proofs of a module

## 1. The system

The design is a non-pipelined MIPS core with a memory bus (`vhdl/`), a BIOS
for it and for an emulated board (`bios/`), and Perl tools that make ROM images
(`tools/`). Everything in `vhdl/` runs on one clock divided from the board's,
apart from the video timing on the pixel clock; the hard part is the mixture it
is made of: clocked registers with different enables, an ungated fetch,
asynchronous resets on some of the registers, combinational latches, an
unclocked RAM, a bus that two sides of the core share through a toggle, and a
video memory between two clocks. The BIOS is one flow of control that polls its
devices; its hard part is pointer arithmetic, and a UART that goes its own way.

| Component | State | Operations | What makes it correct |
| --- | --- | --- | --- |
| Pipeliner (`arch/Pipeliner.vhdl`) | `ticks`, the enables | one per edge, asynchronous reset | enables come in the order the datapath needs |
| Core (`arch/cpu.vhdl`) | pipeline registers, `selMEM` | load under an enable, toggle, clear | instructions take effect one at a time; the bus is with the right side |
| Fetch (`arch/IF.vhdl`, `PC.vhdl`, `InstructionMem.vhdl`) | `read_addr`, the ROM's registered outputs | one per edge, not enabled by the Pipeliner | the instruction decoded is the one at the program counter |
| Decoder (`arch/maindec.vhdl`, `ID.vhdl`) | latches `ctrl`, `aluop`, `memwidth` | evaluate a new instruction | each encoding gets its control vector, whatever came before |
| ALU, muxes (`arch/alu.vhdl`, `EX`, `MEM`, `WB`, `RegCaster`) | latches `result`, `HI`, `LO` | evaluate | the instruction set |
| Register file (`arch/regFile.vhdl`) | 32 words | write, clear | R0 is zero |
| Memory bus (`io/mem.vhdl`, `io/addrdec.vhdl`, `memory_map.vhdl`) | the latched chip selection | select, route `dout` | the addressed device answers |
| RAM, ROMs (`io/async_ram.vhdl`, `roms/`) | cells, latched outputs | unclocked write and read | what was stored is read |
| LEDs, buttons, DIP switch, counter (`io/`) | their register, a registered answer | read, write, count | the answer is fresh when the core takes it |
| VGA, bus side (`io/vga_controller.vhdl`, `io/vga/vram.vhdl`) | `bus_access_vram`, mode, address latch, cells | store, load | the named cell and no other is written |
| VGA, pixel side (`io/vga/sync.vhdl`, `io/vga/vram.vhdl`) | line and column counters, pulses, colour | one per pixel clock, a lookup | every pixel once a frame, in order; pulses of their width; the cell under the beam, fresh |
| Clock divider (`arch/clkdivider.vhdl`) | counter, level | count, clear | whole phases but for the one a reset cuts, no edge during a reset, a clock again after it |
| UART (`io/uart16550.vhdl`, `io/uart/`) | receiver and transmitter states | one per edge and baud tick | a byte sent is the byte received |
| BIOS startup (`bios/head.S`, `mmap.x.inc`) | RAM, loop registers | clear, copy, jump to main | static variables are in place |
| BIOS library (`bios/string.c`, `tty.c`) | memory, pointers, format position | `memcpy` .. `memchr`, `printf`, `hexdump` | blocks as the C library promises; arguments match directives |
| BIOS terminal (`bios/init.c`, `tty.c`, `uart16550.c`) | line buffer, UART registers | `gets`, `putc`, `getc`, set up | screen and buffer agree; how far is stored; what arrives |
| VGA demo (`bios/vga-demo.c`) | palette, picture | draw | a picture without a hole |

How they interact: the core and the bus exchange five signals (`top_addr`,
`top_din`, `top_size`, `top_wr` out, `top_dout` in), all of which the devices see
without arbitration; the core and the register file the two read and one write
port; the Pipeliner drives the enables of all other parts of the core; the
board drives the reset, the buttons and the switch at any time; software
reaches the devices by the memory map alone. The VRAM is written on the bus's
clock and read on the pixel clock, without a handshake. The UART and the
terminal behind it take and deliver characters at their own speed; the user
types at any time.

Which behaviours are hard to test is listed, line by line, under `hazards` in
`PROJECT.json`. In short: a toggle against a counter across resets; registers
read one edge too early or too late; latches that remember the previous
instruction; a chip selection that remembers the previous access; devices that
answer one edge late; a simulation that differs from the synthesised build; a
lookup on one clock of what is stored on another; a UART that is still busy; and
loops that are entered in the middle or compare behind the store.

## 2. The modules

| Module | Models | Used by |
| --- | --- | --- |
| `Words` | bit vectors, addition, order, shifts, extensions (`arch_defs`, `utils`, `overloads`) | all |
| `Alu` | `alu.vhdl` with its latched result, HI, LO | `MainDec` |
| `MainDec` | `maindec.vhdl`'s table and latches, `ID.vhdl` | `Datapath` |
| `Datapath` | `EX`, `MEM`, `WB`, `RegCaster`, `regFile` and the muxes, as functions | `Cpu`, `Conformance` |
| `Cpu` | the core edge by edge: Pipeliner, fetch, pipeline registers, bus muxes, reset | `Mips`, proofs |
| `Machine` | the abstract specification: one instruction at a time | `Cpu` (refinement) |
| `SysBus` | `mem.vhdl`: decoder and devices, without a master of its own | `Mips` |
| `Mips` | `mips.vhdl`: `Cpu` on `SysBus`, with the board's inputs | `MCMips` |
| `Asm` | machine words from fields, for the instances | the instances, `SysBus` |
| `Isa` | the MIPS I instruction set, stated on pairs of 16-bit numbers | `Conformance` |
| `Conformance` | one instruction through decoder, ALU and muxes, against `Isa`'s meaning of it | `MCConformance`, proofs |
| `Programs` | the repository's programs (`InstructionMem`, `roms/`), constants shared by the instances | `MCCpu`, `MCMips` |
| `Sync` | `sync.vhdl`, for any resolution | `Vga` |
| `Raster` | the abstract specification of a video signal | `Sync` (refinement) |
| `ClkDivider` | `clkdivider.vhdl` | `Vga` |
| `Vga` | the pixel side: `Sync`, the lookup of `vram.vhdl`, stores on the divided clock | `MCVga` |
| `Startup` | the loops of `head.S` over the sections of `mmap.x.inc` | `Firmware` |
| `Strings` | the memory functions of `string.c`, a byte a step | `Firmware` |
| `BlockOps` | the abstract specification of those: a call, its whole effect, a return | `Strings` (refinement) |
| `Format` | `vprintf`, `hexdump` (`tty.c`), `itopow2`, `itodec` (`string.c`) | `Firmware` |
| `Demo` | `vga-demo.c` | `Firmware` |
| `Firmware` | the BIOS from its entry: `Startup`, then one of the three above | `MCFirmware` |
| `Uart16550` | the accesses of `uart16550.c`, and the UART and terminal they go to | `Terminal` |
| `Terminal` | `main`'s dialogue: `gets_till`, `puts`, `putc`, `getc` | `MCTerminal` |
| `MCCpu`, `MCMips`, `MCConformance`, `MCVga`, `MCFirmware`, `MCTerminal` | instances for TLC | runs |
| `DatapathProofs`, `CpuProofs`, `MipsProofs`, `VgaProofs`, `FormatProofs`, `FirmwareProofs`, `TerminalProofs`, `ConformanceProofs` | lemmas, theorems and proofs | |

**State and steps.** A variable of `Cpu` is a register or a latch of the VHDL,
under its name there. `Edge(dout)` is one rising edge: each conjunct is a
clocked process or a group of them (`Pipeliner`, `InstructionFetch`,
`IFRegisters`, `IDRegisters`, `EXRegisters`, `SelectBus`, `MemRegister`,
`WBRegisters`), all read the values before the edge, and `AluSettles` lets the
one combinational process with a memory follow. The register file answers on
the falling edge after a write, which is before the next rising one, so it
reads as its current contents. `Reset` is the asynchronous clear with exactly
the registers that have one: the enables, `selMEM`, `instr_pre`, `top_addr_if`
and the decoder's latches survive it. `ticks` is the Pipeliner's variable; an
instruction takes eleven edges.

`Cpu` leaves the bus's answer to its environment (`Answers`), and `Mips` gives
it the one `SysBus` computes; `BusAnswers` says that this is one `Cpu`
allows, and the run `mips_single` checks that of the synthesised system
(`FetchesAnswered`). In `SysBus` a step has two halves, the registered devices before the
edge (`Clocked`) and the combinational ones behind it (`Settled`). The variable
`simulated`, chosen once, says whether the ROM's process runs as a simulator
runs it or as it is synthesised.

`Conformance` has one step. A case is an instruction and what it meets: its
address, the registers with HI and LO, what the decoder's latches hold from the
instructions before, and the bus's answer; the step takes it through the same
operators `Cpu` is built from. `Meaning` of `Isa` is what ought to come out:
the registers, where to continue, and the access to the bus. It is stated with
the arithmetic of numbers, and the datapath with vectors of bits.

`Vga` has three kinds of step: an edge of the pixel clock (`Sync`'s registers,
and the lookup that follows them), an edge of the board's clock (the divider,
and with a rising edge of its output perhaps a store), and a move of the reset.
Which store comes when is `SysBus`'s matter, and any may come here. The lookup
is not sensitive to the memory, so after a store the colour may be the old or
the new one until the next pixel, depending on the build.

In `Firmware` a step is a round of a loop: four words cleared, a word copied, a
byte moved or compared, a directive printed, a byte dumped, a pixel shaded. `head.S`
runs first; in `main` there is one flow of control, and one call is looked at.
Characters are strings, addresses count words (`Startup`) or bytes (`Strings`),
and an argument of `printf` is both the number and the string it can be taken
for. A memory function remembers the memory it was called on (`before`), which
the refinement of `BlockOps` shows until it returns.

In `Terminal` the program's steps are its polls and its accesses to the UART. The
UART is not part of the repository's hardware and is modelled after the
registers the driver names (`struct uart16550`): a holding register and a shift
register to send, one register received, which a new character overruns, and a
divisor behind the same addresses while `set_baud` is on. The terminal draws
characters, moves the cursor for a backspace and a carriage return, and begins
an empty line for a line feed. `erased`, `top`, `meant` and `lost` are histories.
The prompt and the dump that answers a line are one character each; what
`hexdump` prints is `Format`'s matter.

**Values the code leaves open.** Control bits the table leaves `'X'` are the
constant `DontCare`, one bit for each signal; the runs use all zeroes and all
ones, the proofs any. Registers nothing has initialised hold a member of
`PowerOn`. A bus no device drives reads as `Floating`, and a memory cell never
stored to as `Blank`. In the build with a ROM of its own the fetch side of the
bus is undriven; the model lets the address keep its power-on contents and the
width be "none".

**The abstract specification.** `Machine` fetches, decodes, requests and
commits, with the register file and the program counter changing in one step,
from the registers the instruction before left, and with at most one bus
request, up from its request to its commit. The meaning of an instruction is a
parameter of `Machine`, filled in by `Datapath`'s functions; what they compute
is the question of `conformance`. The refinement mapping (`phase`, `ir`, `req`
at the end of `Cpu`) reads the phase off `ticks` and finds the instruction where
the fetch has got to.

## 3. The runs

| Run | States | Shows |
| --- | --- | --- |
| `cpu_harvard` | 26672 | the core with a ROM of its own implements `Machine`; the bus toggle is in phase; stores are held; R0 is zero; programs loop |
| `cpu_single` | 23718 | the build that fetches over the bus implements `Machine`, holds stores, and its programs loop (the toggle and R0 are no different there) |
| `conformance` | 220500 | 38 of 48 mnemonics mean what the instruction set says, whatever came before (a jump behind `mthi` excepted) |
| `mips_harvard` | 15236 | the LEDs follow the buttons and the pixels arrive in the VRAM, in the build that is synthesised |
| `mips_single` | 14236 | the ROM answers every fetch over the shared bus; a store reaches the device of its address or none; the test bench's four registers settle and its program loops; a simulation loses the first instruction, and no other |
| `video` | 153340 | the pixels come in raster order with pulses of their width; what is shown is what is stored; the divided clock has whole phases but for the one a reset cuts, and outlives every reset |
| `firmware` | 31462 | static variables are in place; the memory functions (`memchr` for bytes), `printf` and `hexdump` do what they promise; the demo's picture |
| `terminal` | 105863 | prompt, echo and buffer agree; how far `gets` stores; only line feeds are lost; every key is taken |
| `all_implemented` | | the fourteen mnemonics that deviate, four of them only behind `mthi` (violation) |
| `executed_once` | | an instruction executed twice (violation) |
| `ram_reads_back` | | a byte that is not read back (violation) |
| `reset_any_tick` | | a reset after which loads go to the fetch side's address for good (violation) |

**Bounds, and why they are enough.**

- *Programs.* The two ROM images of the repository that run on the core, and
  three loops with what those lack: a call and a return, branches taken and
  not, loads of both signs, a write to R0, unlisted encodings, HI/LO and a
  multiplication. The refinement depends on a program only through its
  decoded instructions, and the proofs cover all of them.
- *Bus answers.* A small positive word and one whose byte and half are negative.
- *Resets.* One after power-on (`MaxResets`), at each tick the run allows. A
  reset leaves nothing behind but the enables, `selMEM`, the fetch's outputs and
  the latches, all of which the next instruction overwrites; the proofs have no
  bound. `SafeTicks` are the ticks at which the memory side does not have the
  bus, or is just giving it back; the other ones are `reset_any_tick`.
- *Conformance.* Two operands of seven border values each, immediates at
  the borders of their sign and targets at those of their field, three target
  registers with R0 and the operand itself, two addresses (one where the halves
  carry, one at the end of a jump's region), and three predecessors that
  leave different latches. The operators work bit by bit, or by a carry from
  bit to bit, so the borders are where they can differ; the theorems have
  neither bound.
- *Bus.* RAM of 32 bytes and VRAM of 300, as in the repository (`RAMSIZE`,
  `MEM_SIZE`); buttons with two settings and one change (`MaxPresses`); one
  setting of the switch. The counter is kept at a modulus of 1, as no program
  reads it and its value would multiply every state. `mips_single` runs the test
  bench's ROM, one that counts and one that stores to both of the video's blocks,
  the memory and the mode behind it, each synthesised and simulated.
- *Video.* 6 by 4 pixels with porches of one and two clocks and cells of 2 by 2,
  so that every comparison of the counters is met and has a neighbour on both
  sides; the properties do not mention the numbers and the theorems hold for
  all. Two stores (`MaxStores`) of two bytes: one that is seen and one that
  replaces it, in this frame or another. The divider counts to 2, the least with a
  count between its toggles.
- *Firmware.* Sections of none, one and two rounds. Memories of 11 bytes and
  lengths around 0 and 8, where the unrolled copy changes its way, at every pair
  of addresses, overlapping or not; a character that is a byte and, except
  for `memchr` (`Sought`), one that is not. Words of 16 bits, enough for a
  separator in binary and octal, and values at the borders of digits,
  sign and width; formats of up to three items. Dump lines of 4 bytes, dumps of
  none to four lines. A picture of 10 by 12 has squares of three levels and the
  scale.
- *Terminal.* A buffer of 3 and five keys: enough to fill the line, to erase and
  to type again, and to go on to the next line. The keys are two characters, and
  one of each kind `gets_till` and `getc` tell apart.

**Fairness.** Weak fairness of `Pipeliner`, a conjunct of every edge and of no
other step: the clock divider keeps producing edges, and an edge is always
possible. (Stated on the counter it means the same as on the whole edge, and
TLC need not compute an edge to see that one is possible.) In `Vga` both
oscillators keep running, the board's and the pixel clock's: weak fairness of
`Divide` and of `SyncEdge`, which are always possible. What `Cpu` assumes of its
clock is thereby derived: `ClockGoesOn` shows that the divider goes on after the
last reset. In `Terminal` the processor goes on (a poll that finds nothing changes
nothing, and is no step) and the UART does. Nothing is assumed of resets,
buttons, stores and keys, which may but need not happen. With boundedly
many of them "eventually for good" (`LedsFollowButtons`, `PixelsDrawn`,
`TestbenchPasses`) means: from some time after the last one.

**Deadlock** is checked in all runs but those where the system may stop: the two of
`MCConformance`, where a case ends after its one step, `firmware`, which looks
at one call, and `terminal`, where the user may stop typing.

**Divergences.** What the violation runs show, with the lines, is under
`findings`: the six shifts, `lw`, the linking branches and `mtlo` deviate from
their meaning although `README.md:5` lists no such exceptions; so do the jumps,
but only behind `mthi` or `mtlo`: `maindec.vhdl:88` gives them no ALU operation, so
the latched one is evaluated once more, on the jump's operands
(`alu.vhdl:65-66`), and HI is overwritten; in the single
address space the first instruction is executed twice (`IF.vhdl:9-12` expects the
Pipeliner to prevent it); the RAM's read side ignores the address; a reset during the
memory phase leaves the bus with the wrong side.

After such a reset (`reset_any_tick`) stores still reach their device, an
instruction late, when the memory side has the bus during the next fetch. Loads do
not: the answer is that to the fetch side's address, in the build with a ROM of its
own what `top_addr_if` held at power-on. In the run that is zero; it selects the
bus's ROM, whose first word is 0, so the program stores 0 to the LEDs whatever the
buttons are. With other contents it would be the answer of another device or of
none.

Two disagreements are not violation runs:

- `mips_tb.vhdl:2` says "FIXME Looping doesn't work." In the models it does:
  `LoopingWorks` (`mips_single`) says it of the test bench's program on the whole
  system, simulated as the test bench does and synthesised, and `LoopsForever`
  (`cpu_single`) of the core with any answers to loads. Why the author found
  otherwise the source does not say. It may have been an older version, as line 3
  there suspects; and the test bench itself can hardly tell, as it ends after some
  162 edges, with the second round just begun, and asserts on registers a round
  leaves as they are.
- `memchr` compares with its character as it is (`string.c:48`), where the function of
  the C library that `string.h:17` declares converts it to an unsigned char, and so does
  `memset` (`string.c:59`). Asked for 258 it does not find a 2. `BlockOps` states the
  library's function; the run and the theorems have `memchr` asked for bytes only
  (`SoughtAreBytes`), and with 258 in `Sought` the run fails. Nothing in the BIOS calls
  `memchr`.

Observed while modelling and not made into runs:

- An instruction takes 11 edges, where `README.md:11` says 12.
- In the single address space a branch executes when the program counter is
  already at its delay slot, and adds its offset to the address behind that: a
  taken one lands one instruction beyond its label. The programs of the
  repository only jump.
- The first load of a device register after power-on or a change of the
  buttons returns what the register held; the next one is right.
- The vertical sync pulse starts with the compare of the line before and lasts a
  line less one clock longer than `v_sync` lines, and the front porch is shorter
  by as much (`sync.vhdl:43`); the horizontal pulse has its width exactly.
- In a simulation a store to the cell under the beam is seen with the next pixel.
- `%%` takes an argument, so a conversion behind it prints the one after its own
  (`tty.c:64`); `PrintsWhatIsMeant` speaks of formats that have none behind it.
- An erased character stays in the buffer and what follows is stored behind it
  (`tty.c:33`); the terminator of a full line is stored one cell behind the
  buffer. `StoreBounded` says how far in all.
- A line feed may be overwritten by the carriage return behind it, if the
  transmitter is still busy (`uart16550.c:113-115`); the prompt is then written
  over the line before.
- `hexdump` puts the terminators of its numbers too, which a terminal drops.
- A program with variables to clear and none to initialise would get a word of
  the ROM in its first one (`head.S:55-60`); `SectionsAssumption` leaves it out.
- Once the VRAM was accessed, its address latch follows every address on the
  bus; nothing is written, but the index leaves the memory.
- The configuration block of the video is not decoded. Where fetches take the bus
  in between, no program can set the mode (`StoresInTheirBlock`); in the build with
  a ROM of its own a selection outlives its access, and a store to the block sets
  the mode if the access before it went to the VRAM, and else goes to the device
  that one went to.

## 4. The proofs

What is proved holds for every program, every set of bus answers, every
resolution of the open control bits and power-on contents, both builds, and any
number of resets. The assumptions are those on the constants in `Cpu`,
`MainDec`, `Mips` and the other modules that declare them (they are ROMs, words,
bits, positive sizes), and what the last column names.

| Theorem | States | Beyond the constants |
| --- | --- | --- |
| `TypeCorrect` | `Spec => []TypeOK` |  |
| `ZeroRegisterHolds` | `Spec => []ZeroRegister` |  |
| `BusPhaseHolds` | `Spec => []BusPhase` | `SafeResets` |
| `PipelineInvariant` | `Spec => []PipelineInv` | `SafeResets` |
| `CpuImplementsMachine` | `Spec => ImplementsMachine` | `SafeResets` |
| `StoreHeldHolds` | `Spec => StoreHeld` | `SafeResets` |
| `CoreOfMips` | `MipsSpec /\ []BusAnswers => Spec` | |
| `MipsImplementsMachine` | `MipsSpec /\ []BusAnswers => ImplementsMachine /\ StoreHeld /\ []ZeroRegister` | `SafeResets` |
| `MipsTypeCorrect` | `MipsSpec => []MipsTypeOK` | |
| `HarvardImplementsMachine` | `MipsSpec => ImplementsMachine` | `SafeResets`, the build with a ROM of its own, `BusData = Word` |
| `FetchesAnsweredHolds` | `MipsSpec /\ []StaysInRom => []FetchesAnswered` | `RomsInBlock`, `BusData = Word` |
| `StoresInTheirBlockHolds` | `MipsSpec /\ []StaysInRom => StoresInTheirBlock` | `SafeResets`, `RomsInBlock`, the build that fetches over the bus |
| `SynthesisedImplementsMachine` | `MipsSpec /\ []StaysInRom => ImplementsMachine /\ StoreHeld /\ []ZeroRegister` | `SafeResets`, `RomsInBlock`, `BusData = Word`, as synthesised |
| `ComputesRightHolds`, `AccessesRightHolds`, `ContinuesRightHolds` | `Spec => []ComputesRight`, ... (of `Conformance`) | |
| `SyncImplementsRaster` | `SyncSpec => ImplementsRaster` | `TimingAssumption`: porches that hold a line and a column |
| `PulsesAreDark` | `SyncSpec => []DarkDuringPulses` | the same |
| `VgaImplementsRaster`, `VgaTypeCorrect`, `ShownIsStoredHolds` | `VgaSpec => ImplementsRaster`, `[]VgaTypeOK`, `[]ShownIsStored` | and cells that divide the picture |
| `PulseWidthsHold`, `PhasesWholeHolds` | `MCSpec => PulseWidths` (the vertical pulse `v_sync + 1` lines less a clock), `PhasesWhole` (but for the phase a reset cuts) | the same, and a divider of at least one tick |
| `StaticsInPlaceHolds` | `StartupSpec => []StaticsInPlace` | `SectionsAssumption`: aligned sections that fit, no empty `.data` with a `.bss` |
| `LoopsCorrect` | `StringsSpec => []StringsInv` | `MemoryAssumption`: bytes, and lengths that are numbers |
| `StringsImplementBlockOps` | `StringsSpec => ImplementsBlockOps` | the same, and `SoughtAreBytes`: `memchr` is asked for bytes |
| `PrintsWhatIsMeantHolds` | `FormatSpec => []PrintsWhatIsMeant` | words of 16 to 32 bits; `TextsAssumption`: arguments that fit a word, text without `%` and terminator, a lone `%` last, listed conversions, one character for `%c` |
| `DumpShowsAllHolds` | `FormatSpec => []DumpShowsAll` | `BlocksAssumption`: bytes, at most 65536; `CharacterAssumption`: no graphic character is the terminator |
| `NumeralsFit` | with its terminator a numeral has room in the buffer it is written to | the same words and blocks |
| `PictureDrawnHolds` | `DemoSpec => []PictureDrawn` | `PictureAssumption`: indices that fit a word, and the scale's seven rows |
| `FirmwareStaticsInPlace`, `FirmwareImplementsBlockOps`, `FirmwarePrintsWhatIsMeant`, `FirmwareDumpShowsAll`, `FirmwareDrawsPicture` | `FirmwareSpec => []StaticsInPlace`, `ImplementsBlockOps`, `[]PrintsWhatIsMeant`, `[]DumpShowsAll`, `[]PictureDrawn` | these, `SoughtAreBytes` for the second |
| `StoreBoundedHolds` | `TerminalSpec => []StoreBounded` | a buffer of more than one cell |
| `OnlyLinefeedsLostHolds` | `TerminalSpec => []OnlyLinefeedsLost` | the same |
| `PromptIntactHolds`, `EchoedIsStoredHolds` | `TerminalSpec => []PromptIntact`, `[]EchoedIsStored` | the same, `"BS"` is not a key, a screen wider than the buffer |

*Why the hypotheses hold.* `SafeResets` is a condition on the board, and the run
`reset_any_tick` shows that the theorems need it. `BusData = Word` only says that
the bus may answer anything. `RomsInBlock` says that a program is in the block the
memory map gives the ROM, and `StaysInRom` that the program counter is: the
programs `mips_single` runs, the test bench's among them, satisfy both, and one
that leaves the ROM has nothing to fetch.
"As synthesised" is `Simulations = {FALSE}`: in a simulation the first
instruction is really lost (`OnlyFirstInstructionLost`). `SoughtAreBytes` is a condition
on callers of `memchr`, of which the BIOS has none; without it the theorem is false
(section 3). The erase key sends
0x7f (`tty.c:30`); a typed backspace would be
echoed and move the cursor over the prompt, so the hypothesis is needed. A
terminal has more columns than `Size + 1`; a narrower one would wrap the line.

*Argument.* `DatapathProofs` types every operator of the datapath and shows that
the combinational processes settle: evaluating the decoder or the ALU a second
time on the same inputs changes nothing (`MainDecSettled`, `AluSettled`), which
is what makes their latches harmless. `CpuProofs` shows the type invariant
and, with `Schedule` (which enable is up is determined by `ticks`, but for the
edge after a reset), the bus phase. `BusPhase` alone is not inductive: it is the
schedule that rules out a second toggle.

The refinement then needs to know what the pipeline registers hold. `Loaded`
says it position by position: from tick 4 `pc_plus_4` follows `new_pc`, from
tick 5 `id` is the decoded `instr`, from tick 6 `aluResult` is the ALU's result,
from tick 7 `memReadData` is some answer of the bus, at tick 11 `regwritedata` is
what is to be written. `JustReset` covers the edge after a reset, at which an
enable that survived still loads a register. `PipelineInv`, the conjunction with
the types, the schedule, the phase and the settled ALU, is inductive. On it
rests the step simulation: the edges that load `instr`, `id`, `aluResult` and
`new_pc` are `Machine`'s `Fetch`, `Decode`, `Request` and `Complete`, all other
edges change nothing `Machine` sees, and a reset pulse is `Machine`'s `Reset`.

`MipsProofs` carries this to the composed system. A step of `Mips` is one of
`Cpu` with the answer its bus gives (`CoreOfMips`), so all of the above holds of
the system wherever `BusAnswers` does. The types of core and bus are shown
together, since each needs the other's: the core's from `dout` being a word
(`DoutType`), the devices' from the core's signals being words
(`SignalTypes`); memories are treated as functions on the cells stored to,
and a store of any width stays inside (`RamWrittenType`). In the build with a
ROM of its own that is all `BusAnswers` asks. In the single address space it
also says that the selection and the ROM's latch are in time for every fetch.
Two invariants are behind that. `RomShows`: whenever the address on the bus is
one of the ROM's, the ROM is selected and shows the word there, whichever device
was selected before and whoever put the address there; every edge and every
reset lets the bus settle so (`SettledRomShows`). `FetchInRom`: the fetch address
on the bus, two edges behind the program counter, is one of the ROM's. With them
the invariant holds in every state, during loads and stores and behind resets.

`StoresInTheirBlockHolds` needs more than what is fetched: what the decoder has
selected when the address is in no block. `Chosen` says that the selection is the
device of the address, or else the ROM. It is inductive because an address that is
nobody's can only follow one of the ROM's (`AddressMoves`): the memory side gets
the bus from a fetch and gives it back to one, and holds its address still in
between, which takes the schedule and `BusPhase`. `SchedulePhaseOfMips` has these
for any answer of the bus, so the theorem holds of simulations too. That the
mode register is out of reach is then arithmetic on the block's borders
(`NoConfiguration`).

`ConformanceProofs` first relates the two ways to write a word. A number is
divided down position by position (`From`), which gives that the bits of its
half words add up to it (`BitsSum`); the carry into a position is the overflow of
what is below (`HalfSum`), shown with the least position where it is not, a
well-founded minimum over the positions instead of an induction; and the order of
two words is that of the numbers by the highest position where they differ.
Extensions, concatenations and the shift by two of an offset follow from these.
Then come the fields of an encoded instruction, what the decoder makes of
each, and from there one class of mnemonics after another through the ALU and
the muxes, with the latches and the open bits arbitrary: where the table leaves
a control bit open, another mux makes it irrelevant. The proof of `jr` is what
showed that jumps evaluate the latched ALU operation.

`VgaProofs` ties the registers of `Sync` to its counters, which are one clock
ahead: `LitInv` says which pixel is visible, `DarkInv` which line has ended while
none is, `PulseInv` where the counters are while a pulse is up. With them every
edge is a step of `Raster` or changes nothing it sees. The raster alone is not
inductive, since `col` and `row` do not tell how far a retrace has got. `PulseInv`
is also what keeps the early vertical pulse out of the picture, as long as the
front porch has a line. `ShownIsStored` needs the types only: whatever changes
the lookup's inputs makes it run.

The widths and phases are of `MCSpec`, the pixel side with counting
histories: how many clocks a pulse has lasted or been over, how long it has been
dark, how long the divided clock has kept its level. `HistoryInv` reads each off
the counters of `Sync` and the divider: the horizontal pulse off the column
(`LineCounts`), the darkness off it as well but in one of two lines
(`DarkCount`), the vertical pulse, which begins with the second column of a line,
off both (`FrameCounts`); the divider's counter never runs ahead of the time its
level has been kept (`PhaseCount`).

`FirmwareProofs` has an invariant for every loop: what is copied so far
(`Moving`), and the bytes that are left, which for the unrolled copy are in two
variables (`Left`). For `memmove` it is the order of the addresses that keeps
the unread part of an overlapping source as it was, in each direction for its own
case. The two loops of `head.S` are followed the same way; that the
first ends exactly at the section's end uses the alignment. For the demo,
`DemoInv` says which cells of `image` have their colour; two pixels never share
one (`CellsDiffer`). That the rounds of `sierpinski` compute what the digits of the
coordinates say (`SierpinskiIsCarpet`) is an induction in disguise: `Carpet`
satisfies the equation of `shade`, so some function does; and if that one
differed anywhere, then at some least coordinates, whose thirds are less. Every
step of the composed BIOS is one of a part or leaves the part alone.

`TerminalProofs` relates `s` and `i` across the polls and the echo (`Ahead` is
where the program goes on when everything is put), and shows that `putc`'s store
finds the holding register empty or with the line feed the carriage return
belongs to. The screen needs more: `PromptIntact` speaks of what has been
drawn, while the program is up to two characters ahead of it. `AfterAll` is the screen
once the shift and the holding register have been drawn, and `ScreenInv` says of
it, by where `putc` is and what is left to send, that the prompt and the first `i`
characters of `meant` stand on it and where the cursor is: an erasure is three
characters, and between them the cursor is one too far. Device steps keep
`AfterAll`, program steps change it by one character. `MeantInv` ties `meant` to the
buffer, which agree until the first erasure. The bound on the number of keys
(`KeysInv`) keeps `gets_till` inside the modelled cells.

`FormatProofs` is about what is put together piece by piece: the digits of a
numeral, the bytes of a line, the items of a format. The library's induction takes
an operator as its parameter; here a property is a set of numbers, and one that
contains 0 and with each number the next has them all, for its complement would
have a least element (`Induction`, from the well-founded order alone). With it the
fold of `FlattenSeq` is shown to exist, to be unique and to go over
concatenations (`FlattenConcat`). *Numerals:* a number has as many digits as the
least weight above it (`Places`), and those of its quotient are its own but for
the last one; so the recursion of `itodec` is `Numeral`, and that of `itopow2` is
`Numeral` cut in two by the counter (`Split`), a separator in front of the last
four. `NumeralsFit` bounds their length, the only thing that keeps the code
inside its buffers, as its own checks are commented out. *Dumps:* `DumpInv` says
what a terminal shows after i bytes: the whole lines before the last, and of that
the heading and the bytes so far (`Progress`, which never calls a line finished
before its text is put: that happens with the next byte, or at the end). Begun,
continued and ended line (`LineBegun`, `LineGoesOn`, `LineEnds`) are
its steps; the terminators that are put with the numbers drop out, since `Shown`
goes over a concatenation as well. *Formats:* `PrintInv` says that `vprintf` stands
behind some item j: at its end in the format, with as many arguments taken as
directives passed, and, as long as no `%%` has disturbed the count (`Aligned`),
with the meaning of the first j items put (`Behind`). A step takes it behind the
next directive: the texts in between are a run without a `%` (`Run`), and
what `vprintf` looks for is found where the run ends (`Scan`). Behind the last item
the format ends (`FormatEnds`), which is `PrintsWhatIsMeant`.

*Model-checked only.* The liveness properties (`LoopsForever`,
`LedsFollowButtons`, `PixelsDrawn`, `TestbenchPasses`, `LoopingWorks`, `OnlyFirstInstructionLost`,
`StoredIsSeen`, `ClockGoesOn`, `KeysAreTaken`), since liveness under fairness is
out of the prover's reach. One of them has a half that is safety: that a
simulation never executes the first instruction of the ROM that counts. It
speaks of the words of one program and stays with TLC. Every invariant and every
other action property and refinement the passing runs check is a theorem.

## 5. What is not modelled

- The metavalues of `std_logic` other than as the constants above; multiple
  drivers of `dout`.
- The delta cycles within an edge. A store to the unclocked RAM is taken for
  the settled signals; where the order of deltas decides (the ROM's process),
  `simulated` says which outcome is meant.
- A reset while the clock runs: the divider holds the clock low during a pulse,
  as `Vga` shows. What a simulation does
  after a later reset is not claimed (`TestbenchPasses`).
- The UART of `vhdl/`. `uart16550.vhdl` is a stub that drives all ones, the next-state
  process of `uart_tx.vhdl` starts with a wait that nothing ends, the second
  process of `uart_rx.vhdl` has neither a sensitivity list nor a wait, and
  `mem.vhdl` instantiates none of them: there is no behaviour to check.
- The console of the emulated board (`bios/qemu-vga`), third-party code, and
  with it what happens to the demo's palette and picture after they are drawn;
  `strlen`, `mempcpy` and `mempmove`, which nothing in the BIOS calls.
- A `printf` with a conversion whose argument is of another kind, and addresses
  outside of the memory: no caller in the repository does either.
- The traps, which are connected to nothing, `exception.vhdl`, the memories and
  buses nothing instantiates, the text utilities, the test benches (read as
  documentation), the tools, and what is vendored (`toolchain`).

By far the most lines of the repository are those last ones, the headers of a
compiler above all; of the design itself every entity that is instantiated has
its model.

## 6. The plan

Done: `Words` to `Datapath`, `Isa` and `conformance`; `Machine` and `Cpu` with
their proofs; `SysBus` and `Mips` with theirs; the video (`Sync` to `Vga`) and
the BIOS (`Startup` to `Terminal`) with theirs, its numerals, formats and dumps
included. All invariants of the passing runs are theorems, and so is everything
else they check but for liveness.

What would come next:

1. The safety half of `OnlyFirstInstructionLost`, for any program a simulation
   runs: which word the latch of the ROM shows until the selection follows.
2. The UART of `vhdl/`, once it has a behaviour and `mem.vhdl` an instance of it;
   then `Uart16550` becomes its abstract specification.
