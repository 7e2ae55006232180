------------------------------- MODULE SysBus -------------------------------
(***************************************************************************)
(* The memory bus, vhdl/io/mem.vhdl: the address decoder (addrdec.vhdl,    *)
(* memory_map.vhdl) and the devices it selects, RAM, ROM, LEDs, push       *)
(* buttons, DIP switch, time stamp counter and the bus side of the VGA     *)
(* (vga_controller.vhdl, vga/vram.vhdl).                                   *)
(*                                                                         *)
(* addr, din, size, wr are the signals of the master.  A step has two      *)
(* halves: Clocked is what the registered devices take from the signals    *)
(* before the edge, Settled what the combinational parts (decoder, RAM,    *)
(* ROM, the latch in front of the VRAM) make of the signals behind it.     *)
(* The traps of the devices are connected to nothing and left out.         *)
(***************************************************************************)
EXTENDS Asm

CONSTANTS
  RamSize,      \* mem's RAMSIZE, in bytes
  VramSize,     \* vram's MEM_SIZE, in bytes
  TscModulus,   \* 2^32 in the design; a bound of the model elsewhere
  Floating,     \* what the master reads when no device drives dout
  Blank         \* what a memory cell holds before the first store to it

VARIABLES
  addr, din, size, wr,  \* the master's signals
  rom,                  \* the ROM contents: address -> word
  simulated,            \* the ROM as a simulator runs it, or as synthesised
  buttons, switch,      \* the board's inputs, as the words they extend to
  cs,                   \* the selected device
  ram, ram_out,         \* async_ram: mem, data_out
  rom_out,              \* rom_*: my_z
  leds, leds_out,       \* mmio_leds: leds, data_out
  push_out, dip_out,    \* data_out of mmio_buttons and mmio_dipswitch
  tstamp, tsc_out,      \* mmio_tsc: tstamp, data_out
  bus_access_vram, mode_idx, vga_out, bus_vram_addr,  \* mmio_vga
  vram, vram_out        \* vram: mem, bus_dout

-----------------------------------------------------------------------------
(* The memory map. *)

Block(base, limit) == [base |-> base, limit |-> limit]
mmap == [ram |-> Block(W(\ha000, 0),     W(\ha800, 0)),
         rom |-> Block(W(0, 0),          W(2, 0)),
         led |-> Block(W(\h1400, 0),     W(\h1400, 1)),
         dip |-> Block(W(\h1400, 1),     W(\h1400, 2)),
         push |-> Block(W(\h1400, 2),    W(\h1400, 3)),
         tsc |-> Block(W(\h1400, 4),     W(\h1400, 8)),
         uart |-> Block(W(\h1400, \h03f8), W(\h1400, \h03ff)),
         vram |-> Block(W(\h1000, 0),    W(\h1100, 0))]
Device == DOMAIN mmap

inside(a, block) == ~ULess(a, block.base) /\ ULess(a, block.limit)

\* Variant for mutation testing: the VGA is selected for every other address.
SelectedElse(a, old) == IF \E d \in Device : inside(a, mmap[d])
                        THEN CHOOSE d \in Device : inside(a, mmap[d])
                        ELSE "vram"

\* addrdec: the blocks are disjoint; an address in none keeps the selection,
\* the conditional assignment having no final "else".  The video
\* configuration block is not among the decoded ones.
Selected(a, old) == IF \E d \in Device : inside(a, mmap[d])
                    THEN CHOOSE d \in Device : inside(a, mmap[d])
                    ELSE old

\* vtou(a and not base): the offset into a memory, capped where it leaves
\* every memory modelled.
OffsetCap == 65536
Offset(a, base) ==
  LET off == And(a, Not(base))
  IN  IF \E i \in 16 .. 31 : off[i] = 1 THEN OffsetCap
      ELSE Field6(off, 0) + 64 * Field5(off, 6) + 2048 * Field5(off, 11)

-----------------------------------------------------------------------------
(* Bytes, as words without upper bits. *)

ByteOf(w, k)    == [i \in 0 .. 31 |-> IF i <= 7 THEN w[i + 8 * k] ELSE 0]
FromBytes(b)    == [i \in 0 .. 31 |-> b[i \div 8][i % 8]]
NoCare          == ZERO

\* A memory is a function on the cells stored to since power-on.
At(m, c) == IF c \in DOMAIN m THEN m[c] ELSE Blank
Stored(m, new) == [c \in DOMAIN m \cup DOMAIN new |->
                     IF c \in DOMAIN new THEN new[c] ELSE m[c]]

\* A RAM cell; an index beyond the memory, fatal to a simulation, is cut to
\* the bits the memory has.
Cell(i) == i % RamSize

\* Variant for mutation testing: a store goes one byte too far.
RamWrittenBehind(m, off, w, sz) ==
  Stored(m, [c \in {Cell(off + 1)} |-> ByteOf(w, 0)])

\* memwrite: big-endian, at the offset of the address
RamWritten(m, off, w, sz) ==
  LET bytes   == CASE sz = "BYTE" -> 1 [] sz = "HALF" -> 2 [] sz = "WORD" -> 4 [] OTHER -> 0
      written == [c \in {Cell(off + k) : k \in 0 .. bytes - 1} |->
                    ByteOf(w, bytes - 1 - (CHOOSE k \in 0 .. bytes - 1 : Cell(off + k) = c))]
  IN  Stored(m, written)

\* memread: the first bytes of the memory, whatever the address; the bytes
\* it leaves open ('-') no width looks at.
RamRead(m, sz, old) ==
  LET b(k) == At(m, Cell(k))
  IN  CASE sz = "BYTE" -> FromBytes([k \in 0 .. 3 |-> IF k = 0 THEN b(0) ELSE NoCare])
        [] sz = "HALF" -> FromBytes([k \in 0 .. 3 |-> IF k <= 1 THEN b(1 - k) ELSE NoCare])
        [] sz = "WORD" -> FromBytes([k \in 0 .. 3 |-> b(3 - k)])
        [] OTHER       -> old

-----------------------------------------------------------------------------
(* The word on dout: the ROM drives it whenever it is selected, the other  *)
(* devices when they are read.                                             *)

dout == CASE cs = "rom" -> rom_out
          [] cs # "rom" /\ wr = 1 -> Floating
          [] cs = "ram"  /\ wr = 0 -> ram_out
          [] cs = "led"  /\ wr = 0 -> leds_out
          [] cs = "dip"  /\ wr = 0 -> dip_out
          [] cs = "push" /\ wr = 0 -> push_out
          [] cs = "tsc"  /\ wr = 0 -> tsc_out
          [] cs = "vram" /\ wr = 0 -> IF bus_access_vram = 1 THEN vram_out ELSE vga_out
          [] OTHER -> Floating

-----------------------------------------------------------------------------
(* The registered devices at a rising edge of clk. *)

Accessed(d) == cs = d /\ size # WIDTH_NONE
Reading(d)  == Accessed(d) /\ wr = 0
Writing(d)  == Accessed(d) /\ wr = 1

\* Variant for mutation testing: the LEDs take the whole word.
mmio_ledsWide ==
  /\ leds'     = IF Writing("led") THEN din ELSE leds
  /\ leds_out' = IF Reading("led") THEN NEG_ONE ELSE leds_out

mmio_leds ==
  /\ leds'     = IF Writing("led") THEN ByteOf(din, 0) ELSE leds
  /\ leds_out' = IF Reading("led") THEN NEG_ONE ELSE leds_out

\* Variant for mutation testing: the inputs are registered by a store.
mmio_buttonsOnStore == push_out' = IF Writing("push") THEN buttons ELSE push_out

mmio_buttons   == push_out' = IF Reading("push") THEN buttons ELSE push_out
mmio_dipswitch == dip_out' = IF Reading("dip") THEN switch ELSE dip_out
mmio_tsc ==
  /\ tsc_out' = IF Reading("tsc") THEN W(tstamp \div 65536, tstamp % 65536) ELSE tsc_out
  /\ tstamp'  = (tstamp + 1) % TscModulus

\* The upper byte of the address
InConfiguration(a) == \A i \in 24 .. 31 : a[i] = W(\h1400, 0)[i]
InVram(a)          == \A i \in 24 .. 31 : a[i] = W(\h1000, 0)[i]
VgaMode(a)         == \A i \in 0 .. 3 : a[i] = 0

mmio_vga ==
  /\ bus_access_vram' = IF Accessed("vram") /\ InConfiguration(addr) THEN 0
                        ELSE IF Accessed("vram") /\ InVram(addr) THEN 1
                        ELSE bus_access_vram
  /\ mode_idx' = IF Writing("vram") /\ InConfiguration(addr) /\ VgaMode(addr)
                 THEN [i \in 0 .. 31 |-> IF i <= 1 THEN din[i] ELSE 0] ELSE mode_idx
  /\ vga_out'  = IF Reading("vram") /\ InConfiguration(addr) /\ VgaMode(addr)
                 THEN mode_idx ELSE vga_out

\* An index beyond the memory, fatal to a simulation, reads and writes nothing.
vram_bus_side ==
  LET off == Offset(bus_vram_addr, mmap.vram.base)
  IN  /\ vram' = IF wr = 1 /\ bus_access_vram = 1 /\ cs = "vram" /\ off < VramSize
                 THEN Stored(vram, [c \in {off} |-> ByteOf(din, 0)]) ELSE vram
      /\ vram_out' = IF off < VramSize THEN At(vram, off) ELSE vram_out

Clocked == mmio_leds /\ mmio_buttons /\ mmio_dipswitch /\ mmio_tsc /\ mmio_vga
             /\ vram_bus_side

-----------------------------------------------------------------------------
(* The combinational parts, after the master's signals have changed. *)

addrdec == cs' = Selected(addr', cs)

async_ram ==
  /\ ram' = IF cs' = "ram" /\ wr' = 1
            THEN RamWritten(ram, Offset(addr', mmap.ram.base), din', size') ELSE ram
  /\ ram_out' = IF cs' = "ram" /\ wr' = 0 THEN RamRead(ram', size', ram_out) ELSE ram_out

\* Variant for mutation testing: the simulator's ROM in the synthesised build.
rom_processLate ==
  rom_out' = IF addr' # addr /\ cs = "rom" /\ addr' \in DOMAIN rom THEN rom[addr'] ELSE rom_out

\* Variant for mutation testing: a ROM sensitive to its selection as well.
rom_processEnabled ==
  rom_out' = IF cs' = "rom" /\ addr' \in DOMAIN rom THEN rom[addr'] ELSE rom_out

\* The process of the ROM is sensitive to the address alone.  Synthesis makes
\* of it a latch, open while the ROM is selected; a simulator runs it when the
\* address changes, one delta cycle before the selection follows.
rom_process ==
  LET runs == IF simulated THEN addr' # addr /\ cs = "rom" ELSE cs' = "rom"
  IN  rom_out' = IF runs /\ addr' \in DOMAIN rom THEN rom[addr'] ELSE rom_out

\* Variant for mutation testing: a latch open only as the access begins.
vram_latchOnce == bus_vram_addr' = IF bus_access_vram' # bus_access_vram THEN addr'
                                   ELSE bus_vram_addr

vram_latch == bus_vram_addr' = IF bus_access_vram' = 1 THEN addr' ELSE bus_vram_addr

Settled == addrdec /\ async_ram /\ rom_process /\ vram_latch

\* A clock edge, and a change of the master's signals without one
BusEdge   == Clocked /\ Settled
BusSettle == /\ UNCHANGED <<leds, leds_out, push_out, dip_out, tstamp, tsc_out,
                            bus_access_vram, mode_idx, vga_out, vram, vram_out>>
             /\ Settled

\* Power-on: a register holds anything; w is the word found in all of them.
BusInit(w) ==
  /\ cs = Selected(addr, "none")
  /\ ram = <<>> /\ ram_out = w
  /\ rom_out = IF ~simulated /\ cs = "rom" /\ addr \in DOMAIN rom THEN rom[addr] ELSE w
  /\ leds = ByteOf(w, 0) /\ leds_out = w /\ push_out = w /\ dip_out = w
  /\ tstamp = 0 /\ tsc_out = w
  /\ bus_access_vram = 0 /\ mode_idx = W(0, 1) /\ vga_out = w /\ bus_vram_addr = ZERO
  /\ vram = <<>> /\ vram_out = w

-----------------------------------------------------------------------------

IsByte(w) == w \in Word /\ \A i \in 8 .. 31 : w[i] = 0

\* The types of the bus's state
BusTypeOK ==
  /\ cs \in Device \cup {"none"}
  /\ DOMAIN ram \subseteq 0 .. RamSize - 1 /\ \A c \in DOMAIN ram : IsByte(ram[c])
  /\ DOMAIN vram \subseteq 0 .. VramSize - 1 /\ \A o \in DOMAIN vram : IsByte(vram[o])
  /\ IsByte(leds) /\ tstamp \in 0 .. TscModulus - 1 /\ bus_access_vram \in Bit
  /\ {ram_out, rom_out, leds_out, push_out, dip_out, tsc_out, vga_out, vram_out, mode_idx,
      bus_vram_addr} \subseteq Word

=============================================================================
