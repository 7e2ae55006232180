----------------------------- MODULE MipsProofs -----------------------------
(***************************************************************************)
(* The proofs about the composed system: what is proved of the core holds  *)
(* in it, as far as the bus answers the way Cpu assumes, and its devices   *)
(* keep their types.                                                       *)
(***************************************************************************)
EXTENDS Mips, CpuProofs

-----------------------------------------------------------------------------
(* The composition. *)

\* Seen from the core, the system on the bus is the core on an arbitrary bus,
\* if the bus answers every fetch with the instruction fetched (mips.vhdl's
\* instances of cpu and mem against the assumption Answers of Cpu).
THEOREM CoreOfMips == MipsSpec /\ []BusAnswers => Spec
<1>1. MipsInit => Init
  BY DEF MipsInit
<1>2. BusAnswers /\ [MipsNext]_mipsVars => [Next]_vars
  <2> SUFFICES ASSUME BusAnswers, [MipsNext]_mipsVars PROVE [Next]_vars
    OBVIOUS
  <2>1. CASE MipsClock
    BY <2>1 DEF MipsClock, BusAnswers, Next, Clock
  <2>2. CASE MipsReset
    BY <2>2 DEF MipsReset, Next
  <2>3. CASE Press
    BY <2>3 DEF Press
  <2>4. CASE UNCHANGED mipsVars
    BY <2>4 DEF mipsVars
  <2>5. QED
    BY <2>1, <2>2, <2>3, <2>4 DEF MipsNext
<1>3. QED
  BY <1>1, <1>2, PTL DEF MipsSpec, Spec

\* So the composed system runs instructions the way Machine says, and a store
\* reaches the devices of the bus unchanged.
THEOREM MipsImplementsMachine ==
  ASSUME SafeResets
  PROVE  MipsSpec /\ []BusAnswers => ImplementsMachine /\ StoreHeld /\ []ZeroRegister
BY CoreOfMips, CpuImplementsMachine, StoreHeldHolds, ZeroRegisterHolds, PTL

-----------------------------------------------------------------------------
(* The words, bytes and memories of the bus. *)

\* Bytes as the bus keeps them: words without upper bits.
Byte == {w \in Word : \A i \in 8 .. 31 : w[i] = 0}

\* They are what the bus calls a byte.
LEMMA BusByte ==
  ASSUME NEW w
  PROVE  Bus!IsByte(w) <=> w \in Byte
BY DEF Bus!IsByte, Bus!Word, Bus!Bit, Byte, Word, Bit

\* A word put together from two numbers is a word.
LEMMA WType ==
  ASSUME NEW hi, NEW lo
  PROVE  Bus!W(hi, lo) \in Word
BY DEF Bus!W, Bus!BitOf, Bus!high_if, Word, Bit

\* A byte cut out of a word is a byte.
LEMMA ByteOfType ==
  ASSUME NEW w \in Word, NEW k \in 0 .. 3
  PROVE  Bus!ByteOf(w, k) \in Byte
BY DEF Bus!ByteOf, Byte, Word, Bit

\* Four bytes put together are a word.
LEMMA FromBytesType ==
  ASSUME NEW b, \A k \in 0 .. 3 : b[k] \in Byte
  PROVE  Bus!FromBytes(b) \in Word
<1>1. \A i \in 0 .. 31 : i \div 8 \in 0 .. 3 /\ i % 8 \in 0 .. 31
  OBVIOUS
<1>2. \A k \in 0 .. 3, j \in 0 .. 31 : b[k][j] \in Bit
  BY DEF Byte, Word
<1>3. QED
  BY <1>1, <1>2 DEF Bus!FromBytes, Word

\* The constants of the bus: a cell never stored to, a byte no width looks at.
LEMMA BusConstants ==
  /\ Blank \in Byte /\ Bus!NoCare \in Byte /\ Bus!NEG_ONE \in Word /\ Bus!ZERO \in Word
BY BlankIsByte DEF Byte, Bus!NoCare, Bus!ZERO, Bus!NEG_ONE, Word, Bit

\* The offset into a memory (vtou(a and not base)) is a number.
LEMMA OffsetType ==
  ASSUME NEW a \in Word, NEW base \in Word
  PROVE  Bus!Offset(a, base) \in Nat
<1> DEFINE off == Bus!And(a, Bus!Not(base))
<1>1. \A i \in 0 .. 31 : off[i] \in 0 .. 1
  BY DEF Bus!And, Bus!high_if
<1>2. Bus!Field6(off, 0) \in Nat /\ Bus!Field5(off, 6) \in Nat /\ Bus!Field5(off, 11) \in Nat
  <2> HIDE DEF off
  <2>1. /\ off[0] \in Nat /\ off[1] \in Nat /\ off[2] \in Nat /\ off[3] \in Nat
        /\ off[4] \in Nat /\ off[5] \in Nat /\ off[6] \in Nat /\ off[7] \in Nat
        /\ off[8] \in Nat /\ off[9] \in Nat /\ off[10] \in Nat /\ off[11] \in Nat
        /\ off[12] \in Nat /\ off[13] \in Nat /\ off[14] \in Nat /\ off[15] \in Nat
    BY <1>1
  <2>2. QED
    BY <2>1 DEF Bus!Field6, Bus!Field5
<1> HIDE DEF off
<1>3. QED
  BY <1>2 DEF Bus!Offset, Bus!OffsetCap, off

\* addrdec selects a device or keeps what was selected.
LEMMA SelectedType ==
  ASSUME NEW a, NEW old \in Bus!Device \cup {"none"}
  PROVE  Bus!Selected(a, old) \in Bus!Device \cup {"none"}
BY DEF Bus!Selected

\* The base addresses memory_map.vhdl gives to the RAM and the VRAM are words.
LEMMA MapType == /\ Bus!mmap.ram.base \in Word /\ Bus!mmap.vram.base \in Word
BY WType DEF Bus!mmap, Bus!Block

\* Every cell of a memory holds a byte.
LEMMA AtType ==
  ASSUME NEW m, NEW c, \A x \in DOMAIN m : m[x] \in Byte
  PROVE  Bus!At(m, c) \in Byte
BY BusConstants DEF Bus!At

\* m is a memory of n cells.
Cells(m, n) == DOMAIN m \subseteq 0 .. n - 1 /\ \A c \in DOMAIN m : m[c] \in Byte

\* A store of bytes into cells of a memory leaves a memory.
LEMMA StoredType ==
  ASSUME NEW m, NEW new, NEW n, Cells(m, n), Cells(new, n)
  PROVE  Cells(Bus!Stored(m, new), n)
BY DEF Cells, Bus!Stored

\* async_ram's memwrite stays inside the memory, wherever the store begins.
LEMMA RamWrittenType ==
  ASSUME NEW m, Cells(m, RamSize), NEW off \in Nat, NEW w \in Word, NEW sz
  PROVE  Cells(Bus!RamWritten(m, off, w, sz), RamSize)
<1> DEFINE bytes == CASE sz = "BYTE" -> 1 [] sz = "HALF" -> 2 [] sz = "WORD" -> 4
                      [] OTHER -> 0
           k(c)  == CHOOSE j \in 0 .. bytes - 1 : Bus!Cell(off + j) = c
           new   == [c \in {Bus!Cell(off + j) : j \in 0 .. bytes - 1} |->
                       Bus!ByteOf(w, bytes - 1 - k(c))]
<1>1. bytes \in 0 .. 4
  OBVIOUS
<1> HIDE DEF bytes
<1>2. \A j \in 0 .. bytes - 1 : Bus!Cell(off + j) \in 0 .. RamSize - 1
  BY <1>1, SizesArePositive DEF Bus!Cell
<1>3. ASSUME NEW c \in DOMAIN new PROVE new[c] \in Byte
  <2>1. k(c) \in 0 .. bytes - 1
    BY <1>3
  <2>2. bytes - 1 - k(c) \in 0 .. 3
    BY <1>1, <2>1
  <2>3. QED
    BY <1>3, <2>2, ByteOfType
<1>4. Cells(new, RamSize)
  BY <1>2, <1>3 DEF Cells
<1>5. Bus!RamWritten(m, off, w, sz) = Bus!Stored(m, new)
  BY DEF Bus!RamWritten, bytes
<1>6. QED
  BY <1>4, <1>5, StoredType

\* async_ram's memread yields a word.
LEMMA RamReadType ==
  ASSUME NEW m, \A x \in DOMAIN m : m[x] \in Byte, NEW sz, NEW old \in Word
  PROVE  Bus!RamRead(m, sz, old) \in Word
<1> DEFINE b(k) == Bus!At(m, Bus!Cell(k))
           byte == [k \in 0 .. 3 |-> IF k = 0 THEN b(0) ELSE Bus!NoCare]
           half == [k \in 0 .. 3 |-> IF k <= 1 THEN b(1 - k) ELSE Bus!NoCare]
           word == [k \in 0 .. 3 |-> b(3 - k)]
<1>1. \A k : b(k) \in Byte
  BY AtType
<1> HIDE DEF b
<1>2. /\ \A k \in 0 .. 3 : byte[k] \in Byte
      /\ \A k \in 0 .. 3 : half[k] \in Byte
      /\ \A k \in 0 .. 3 : word[k] \in Byte
  BY <1>1, BusConstants
<1>3. Bus!FromBytes(byte) \in Word /\ Bus!FromBytes(half) \in Word /\ Bus!FromBytes(word) \in Word
  BY <1>2, FromBytesType
<1>4. \/ Bus!RamRead(m, sz, old) = Bus!FromBytes(byte)
      \/ Bus!RamRead(m, sz, old) = Bus!FromBytes(half)
      \/ Bus!RamRead(m, sz, old) = Bus!FromBytes(word)
      \/ Bus!RamRead(m, sz, old) = old
  BY DEF Bus!RamRead, b
<1>5. QED
  BY <1>3, <1>4

\* The muxes of cpu.vhdl put words on the bus.
LEMMA SignalTypes ==
  ASSUME TypeOK
  PROVE  top_addr \in Word /\ top_din \in Word /\ top_wr \in Bit
<1>1. id.readreg2 \in Reg
  BY DEF TypeOK, IdReg
<1>2. QED
  BY <1>1, WordConstants DEF TypeOK, top_addr, top_din, top_wr, RegFile, high_if, Bit

\* They still do after a step that keeps the types.
SignalsAreWords == top_addr \in Word /\ top_din \in Word
LEMMA SignalTypesNext == TypeOK' => SignalsAreWords'
<1>1. TypeOK => SignalsAreWords
  BY SignalTypes DEF SignalsAreWords
<1>2. QED
  BY <1>1, PTL

\* Whoever drives dout, it carries a word.
LEMMA DoutType ==
  ASSUME Bus!BusTypeOK
  PROVE  Bus!dout \in Word
BY FloatingIsWord DEF Bus!BusTypeOK, Bus!dout, Bus!Word, Bus!Bit, Word, Bit

\* BusTypeOK in the terms of this module
BusTypes ==
  /\ cs \in Bus!Device \cup {"none"}
  /\ Cells(ram, RamSize) /\ Cells(vram, VramSize)
  /\ leds \in Byte /\ tstamp \in 0 .. TscModulus - 1 /\ bus_access_vram \in Bit
  /\ ram_out \in Word /\ rom_out \in Word /\ leds_out \in Word /\ push_out \in Word
  /\ dip_out \in Word /\ tsc_out \in Word /\ vga_out \in Word /\ vram_out \in Word
  /\ mode_idx \in Word /\ bus_vram_addr \in Word

\* The two say the same.
LEMMA BusTypesMeaning == Bus!BusTypeOK <=> BusTypes
BY BusByte, SizesArePositive
DEF Bus!BusTypeOK, BusTypes, Cells, Bus!Word, Bus!Bit, Word, Bit

\* The ROM on the bus holds words, in both builds.
LEMMA BusRomType ==
  ASSUME TypeOK
  PROVE  IsRom(BusRom)
BY ProgramsAreRoms, RomOnBusIsRom DEF TypeOK, BusRom

\* A word taken from a ROM is a word.
LEMMA RomTaken ==
  ASSUME NEW rom, IsRom(rom), NEW a \in DOMAIN rom
  PROVE  rom[a] \in Word
BY DEF IsRom

\* The combinational parts keep their types when the core's signals change.
LEMMA SettledTypes ==
  ASSUME TypeOK, BusTypes, Bus!Settled, top_addr' \in Word, top_din' \in Word
  PROVE  /\ cs' \in Bus!Device \cup {"none"}
         /\ Cells(ram', RamSize) /\ ram_out' \in Word
         /\ rom_out' \in Word
         /\ bus_vram_addr' \in Word
<1>1. cs' \in Bus!Device \cup {"none"}
  BY SelectedType DEF Bus!Settled, Bus!addrdec, BusTypes
<1>2. Cells(ram', RamSize)
  <2>1. Bus!Offset(top_addr', Bus!mmap.ram.base) \in Nat
    BY MapType, OffsetType
  <2>2. Cells(Bus!RamWritten(ram, Bus!Offset(top_addr', Bus!mmap.ram.base), top_din',
                             top_size'), RamSize)
    BY <2>1, RamWrittenType DEF BusTypes
  <2>3. QED
    BY <2>2 DEF Bus!Settled, Bus!async_ram, BusTypes
<1>3. ram_out' \in Word
  <2>1. \A x \in DOMAIN ram' : ram'[x] \in Byte
    BY <1>2 DEF Cells
  <2>2. Bus!RamRead(ram', top_size', ram_out) \in Word
    BY <2>1, RamReadType DEF BusTypes
  <2>3. QED
    BY <2>2 DEF Bus!Settled, Bus!async_ram, BusTypes
<1>4. rom_out' \in Word
  BY BusRomType, RomTaken DEF Bus!Settled, Bus!rom_process, BusTypes
<1>5. bus_vram_addr' \in Word
  BY DEF Bus!Settled, Bus!vram_latch, BusTypes
<1>6. QED
  BY <1>1, <1>2, <1>3, <1>4, <1>5

\* The registered devices keep theirs at an edge.
LEMMA ClockedTypes ==
  ASSUME TypeOK, BusTypes, Bus!Clocked, buttons \in Word, switch \in Word
  PROVE  /\ leds' \in Byte /\ leds_out' \in Word /\ push_out' \in Word /\ dip_out' \in Word
         /\ tstamp' \in 0 .. TscModulus - 1 /\ tsc_out' \in Word
         /\ bus_access_vram' \in Bit /\ mode_idx' \in Word /\ vga_out' \in Word
         /\ Cells(vram', VramSize) /\ vram_out' \in Word
<1>1. leds' \in Byte /\ leds_out' \in Word
  BY SignalTypes, ByteOfType, BusConstants DEF Bus!Clocked, Bus!mmio_leds, BusTypes
<1>2. push_out' \in Word /\ dip_out' \in Word
  BY DEF Bus!Clocked, Bus!mmio_buttons, Bus!mmio_dipswitch, BusTypes
<1>3. tstamp' \in 0 .. TscModulus - 1 /\ tsc_out' \in Word
  <2>1. tstamp' = (tstamp + 1) % TscModulus
    BY DEF Bus!Clocked, Bus!mmio_tsc
  <2>2. QED
    BY <2>1, WType, SizesArePositive DEF Bus!Clocked, Bus!mmio_tsc, BusTypes
<1>4. bus_access_vram' \in Bit /\ mode_idx' \in Word /\ vga_out' \in Word
  <2>1. [i \in 0 .. 31 |-> IF i <= 1 THEN top_din[i] ELSE 0] \in Word
    BY SignalTypes DEF Word, Bit
  <2>2. QED
    BY <2>1 DEF Bus!Clocked, Bus!mmio_vga, BusTypes, Bit
<1>5. Cells(vram', VramSize) /\ vram_out' \in Word
  <2> DEFINE off == Bus!Offset(bus_vram_addr, Bus!mmap.vram.base)
             new == [c \in {off} |-> Bus!ByteOf(top_din, 0)]
  <2>1. off \in Nat
    BY MapType, OffsetType DEF BusTypes
  <2>2. /\ vram' = vram \/ (off < VramSize /\ vram' = Bus!Stored(vram, new))
        /\ vram_out' = vram_out \/ vram_out' = Bus!At(vram, off)
    BY DEF Bus!Clocked, Bus!vram_bus_side
  <2> HIDE DEF off
  <2>3. off < VramSize => Cells(new, VramSize)
    BY <2>1, SignalTypes, ByteOfType, SizesArePositive DEF Cells
  <2>4. Bus!At(vram, off) \in Byte
    BY AtType DEF BusTypes, Cells
  <2>5. QED
    BY <2>2, <2>3, <2>4, StoredType DEF BusTypes, Byte
<1>6. QED
  BY <1>1, <1>2, <1>3, <1>4, <1>5

\* Power-on gives the devices values of their types.
LEMMA BusInitTypes ==
  ASSUME TypeOK, NEW w \in Word, Bus!BusInit(w)
  PROVE  BusTypes
<1>1. cs \in Bus!Device \cup {"none"}
  BY SelectedType DEF Bus!BusInit
<1>2. rom_out \in Word
  BY BusRomType, RomTaken DEF Bus!BusInit
<1>3. leds \in Byte /\ mode_idx \in Word
  BY ByteOfType, WType DEF Bus!BusInit
<1>4. Cells(ram, RamSize) /\ Cells(vram, VramSize)
  BY DEF Bus!BusInit, Cells
<1>5. QED
  BY <1>1, <1>2, <1>3, <1>4, BusConstants, SizesArePositive
  DEF Bus!BusInit, BusTypes, Bit

-----------------------------------------------------------------------------
(* The types of the composed system. *)

\* Every variable of the system keeps its type, whatever program, buttons and
\* resets do and whatever the sizes of the memories: no store leaves the RAM or
\* the VRAM, the LEDs hold bytes, and dout always carries a word, so that the
\* core's types, shown of a core on any bus, hold on this one (mem.vhdl's
\* devices against the core's signals).
THEOREM MipsTypeCorrect == MipsSpec => []MipsTypeOK
<1> DEFINE Board == simulated \in BOOLEAN /\ buttons \in Pushed /\ switch \in Switched /\ presses \in 0 .. MaxPresses
           Inv   == TypeOK /\ BusTypes /\ Board
<1>1. Board => buttons \in Word /\ switch \in Word
  BY InputsAreWords
<1>2. MipsInit => Inv
  <2> SUFFICES ASSUME MipsInit PROVE Inv
    OBVIOUS
  <2>1. TypeOK
    BY InitType DEF MipsInit
  <2>2. PICK w \in PowerOn : Bus!BusInit(w)
    BY DEF MipsInit
  <2>3. BusTypes
    BY <2>1, <2>2, PowerOnAreWords, BusInitTypes
  <2>4. Board
    BY MaxPressesIsNat, SimulationsAssumption DEF MipsInit
  <2>5. QED
    BY <2>1, <2>3, <2>4
<1>3. Inv /\ [MipsNext]_mipsVars => Inv'
  <2> SUFFICES ASSUME Inv, [MipsNext]_mipsVars PROVE Inv'
    OBVIOUS
  <2>1. CASE MipsClock
    <3>1. Edge(Bus!dout) /\ Bus!Clocked /\ Bus!Settled /\ Board'
      BY <2>1 DEF MipsClock, Bus!BusEdge, boardVars
    <3>2. Bus!dout \in Word
      BY BusTypesMeaning, DoutType
    <3>3. TypeOK'
      BY <3>1, <3>2, EdgeType
    <3>4. top_addr' \in Word /\ top_din' \in Word
      BY <3>3, SignalTypesNext DEF SignalsAreWords
    <3>5. BusTypes'
      BY <1>1, <3>1, <3>4, SettledTypes, ClockedTypes DEF BusTypes
    <3>6. QED
      BY <3>1, <3>3, <3>5
  <2>2. CASE MipsReset
    <3>1. Reset /\ Bus!Settled /\ Board'
      BY <2>2 DEF MipsReset, Bus!BusSettle, boardVars
    <3>2. TypeOK'
      BY <3>1, ResetType
    <3>3. top_addr' \in Word /\ top_din' \in Word
      BY <3>2, SignalTypesNext DEF SignalsAreWords
    <3>4. UNCHANGED <<leds, leds_out, push_out, dip_out, tstamp, tsc_out, bus_access_vram,
                      mode_idx, vga_out, vram, vram_out>>
      BY <2>2 DEF MipsReset, Bus!BusSettle
    <3>5. BusTypes'
      BY <3>1, <3>3, <3>4, SettledTypes DEF BusTypes
    <3>6. QED
      BY <3>1, <3>2, <3>5
  <2>3. CASE Press
    <3>1. TypeOK'
      BY <2>3 DEF Press, TypeOK, vars, fetchVars, pipeVars
    <3>2. BusTypes'
      BY <2>3 DEF Press, BusTypes, busVars
    <3>3. Board'
      BY <2>3, MaxPressesIsNat DEF Press
    <3>4. QED
      BY <3>1, <3>2, <3>3
  <2>4. CASE UNCHANGED mipsVars
    BY <2>4 DEF mipsVars, vars, fetchVars, pipeVars, busVars, boardVars, TypeOK, BusTypes
  <2>5. QED
    BY <2>1, <2>2, <2>3, <2>4 DEF MipsNext
<1>4. Inv => MipsTypeOK
  BY BusTypesMeaning DEF MipsTypeOK
<1>5. QED
  BY <1>2, <1>3, <1>4, PTL DEF MipsSpec

\* In the build that fetches from a ROM of the core's own the bus answers data
\* accesses only, and any word will do: there the composed system implements
\* Machine without a condition.
THEOREM HarvardImplementsMachine ==
  ASSUME SafeResets, SINGLE_ADDRESS_SPACE = FALSE, BusData = Word
  PROVE  MipsSpec => ImplementsMachine
<1>1. MipsTypeOK => BusAnswers
  <2>1. MipsTypeOK => Bus!dout \in Word
    BY DoutType DEF MipsTypeOK
  <2>2. QED
    BY <2>1 DEF BusAnswers, Answers
<1>2. QED
  BY <1>1, MipsTypeCorrect, MipsImplementsMachine, PTL

-----------------------------------------------------------------------------
(* The build with one address space: fetches are answered.                 *)

\* What the bits of the block boundaries of memory_map.vhdl are from where the
\* ROM's block ends.
LEMMA BlockBases ==
  /\ Bus!W(2, 0)[17] = 1 /\ \A i \in 18 .. 31 : Bus!W(2, 0)[i] = 0
  /\ Bus!W(\ha000, 0)[31] = 1
  /\ \A lo : Bus!W(\h1400, lo)[28] = 1 /\ \A i \in 29 .. 31 : Bus!W(\h1400, lo)[i] = 0
  /\ Bus!W(\h1000, 0)[28] = 1 /\ \A i \in 29 .. 31 : Bus!W(\h1000, 0)[i] = 0
BY DEF Bus!W, Bus!BitOf, Bus!Weight, Bus!high_if

\* An address below the end of the ROM's block has no bit above it.
LEMMA RomIsLow ==
  ASSUME NEW a \in Word, Bus!ULess(a, Bus!W(2, 0))
  PROVE  \A j \in 18 .. 31 : a[j] = 0
<1>1. PICK i \in 0 .. 31 : /\ a[i] < Bus!W(2, 0)[i]
                           /\ \A j \in i + 1 .. 31 : a[j] = Bus!W(2, 0)[j]
  BY DEF Bus!ULess
<1>2. i <= 17
  BY <1>1, BlockBases DEF Word, Bit
<1>3. QED
  BY <1>1, <1>2, BlockBases

\* addrdec selects the ROM for every address of its block, whatever was
\* selected before: no other block overlaps it.
LEMMA RomSelected ==
  ASSUME NEW a \in Word, Bus!inside(a, Bus!mmap.rom), NEW old
  PROVE  Bus!Selected(a, old) = "rom"
<1>1. \A j \in 18 .. 31 : a[j] = 0
  BY RomIsLow DEF Bus!inside, Bus!mmap, Bus!Block
<1>2. /\ Bus!ULess(a, Bus!W(\ha000, 0)) /\ Bus!ULess(a, Bus!W(\h1000, 0))
      /\ \A lo : Bus!ULess(a, Bus!W(\h1400, lo))
  <2>1. Bus!ULess(a, Bus!W(\ha000, 0))
    BY <1>1, BlockBases DEF Bus!ULess
  <2>2. Bus!ULess(a, Bus!W(\h1000, 0))
    BY <1>1, BlockBases DEF Bus!ULess
  <2>3. \A lo : Bus!ULess(a, Bus!W(\h1400, lo))
    BY <1>1, BlockBases DEF Bus!ULess
  <2>4. QED
    BY <2>1, <2>2, <2>3
<1>3. /\ ~Bus!inside(a, Bus!mmap.ram) /\ ~Bus!inside(a, Bus!mmap.led)
      /\ ~Bus!inside(a, Bus!mmap.dip) /\ ~Bus!inside(a, Bus!mmap.push)
      /\ ~Bus!inside(a, Bus!mmap.tsc) /\ ~Bus!inside(a, Bus!mmap.uart)
      /\ ~Bus!inside(a, Bus!mmap.vram)
  BY <1>2 DEF Bus!inside, Bus!mmap, Bus!Block
<1>4. Bus!Device = {"ram", "rom", "led", "dip", "push", "tsc", "uart", "vram"}
  BY DEF Bus!Device, Bus!mmap
<1>5. \A d \in Bus!Device : Bus!inside(a, Bus!mmap[d]) => d = "rom"
  BY <1>3, <1>4
<1>6. QED
  BY <1>4, <1>5 DEF Bus!Selected

\* The programs fit into the ROM's block of the memory map.
RomsInBlock == \A p \in Programs : \A a \in DOMAIN p : Bus!inside(a, Bus!mmap.rom)

\* The synthesised ROM shows the word at the address on the bus, whoever put
\* the address there.
RomShows == SINGLE_ADDRESS_SPACE /\ ~simulated /\ top_addr \in DOMAIN prog
              => cs = "rom" /\ rom_out = prog[top_addr]

\* Once the combinational parts have settled it does, whatever device the
\* address before had selected (addrdec.vhdl, the latch of rom_*.vhdl).
LEMMA SettledRomShows ==
  ASSUME TypeOK, RomsInBlock, Bus!Settled, UNCHANGED <<prog, simulated>>
  PROVE  RomShows'
<1> SUFFICES ASSUME SINGLE_ADDRESS_SPACE, ~simulated, top_addr' \in DOMAIN prog
             PROVE  cs' = "rom" /\ rom_out' = prog[top_addr']
  BY DEF RomShows
<1>1. top_addr' \in Word /\ Bus!inside(top_addr', Bus!mmap.rom)
  BY ProgramsAreRoms DEF TypeOK, RomsInBlock, IsRom
<1>2. cs' = "rom"
  BY <1>1, RomSelected DEF Bus!Settled, Bus!addrdec
<1>3. QED
  BY <1>2 DEF Bus!Settled, Bus!rom_process, BusRom

\* So it does from power-on, at every moment of every run, during loads,
\* stores and resets too (mem.vhdl under the muxes of cpu.vhdl).
LEMMA RomShowsAlways ==
  ASSUME RomsInBlock
  PROVE  MipsSpec => []RomShows
<1>1. MipsInit => RomShows
  <2> SUFFICES ASSUME MipsInit, SINGLE_ADDRESS_SPACE, ~simulated, top_addr \in DOMAIN prog
               PROVE  cs = "rom" /\ rom_out = prog[top_addr]
    BY DEF RomShows
  <2>1. PICK w \in PowerOn : Bus!BusInit(w)
    BY DEF MipsInit
  <2>2. top_addr \in Word /\ Bus!inside(top_addr, Bus!mmap.rom)
    BY InitType, ProgramsAreRoms DEF MipsInit, TypeOK, RomsInBlock, IsRom
  <2>3. cs = "rom"
    BY <2>1, <2>2, RomSelected DEF Bus!BusInit
  <2>4. QED
    BY <2>1, <2>3 DEF Bus!BusInit, BusRom
<1>2. TypeOK /\ RomShows /\ [MipsNext]_mipsVars => RomShows'
  <2> SUFFICES ASSUME TypeOK, RomShows, [MipsNext]_mipsVars PROVE RomShows'
    OBVIOUS
  <2>1. CASE MipsClock
    BY <2>1, SettledRomShows DEF MipsClock, Bus!BusEdge, Edge, boardVars
  <2>2. CASE MipsReset
    BY <2>2, SettledRomShows DEF MipsReset, Bus!BusSettle, Reset, boardVars
  <2>3. CASE Press \/ UNCHANGED mipsVars
    <3>1. UNCHANGED <<vars, busVars, simulated>>
      BY <2>3 DEF Press, mipsVars, boardVars
    <3>2. UNCHANGED <<top_addr, cs, rom_out, prog, simulated>>
      BY <3>1 DEF vars, fetchVars, busVars, pipeVars, top_addr
    <3>3. QED
      BY <3>2 DEF RomShows
  <2>4. QED
    BY <2>1, <2>2, <2>3 DEF MipsNext
<1>3. MipsTypeOK => TypeOK
  BY DEF MipsTypeOK
<1>4. QED
  BY <1>1, <1>2, <1>3, MipsTypeCorrect, PTL DEF MipsSpec

\* The program stays in its ROM: it never continues at an address the ROM has
\* no word for.
StaysInRom == new_pc \in DOMAIN prog

\* Then the fetch is in the ROM too, from the edge after power-on or reset on.
FetchInRom == read_addr \in DOMAIN prog /\ (ticks # 1 => top_addr_if \in DOMAIN prog)

\* The fetch address on the bus is two edges behind the program counter, at a
\* reset too, which leaves it where it was for one edge (PC.vhdl,
\* InstructionMem.vhdl).
LEMMA FetchStaysInRom ==
  ASSUME SINGLE_ADDRESS_SPACE
  PROVE  MipsSpec /\ []StaysInRom => []FetchInRom
<1>1. MipsInit /\ StaysInRom => FetchInRom
  BY DEF MipsInit, Init, StaysInRom, FetchInRom, BOOT_ADDR
<1>2. StaysInRom /\ StaysInRom' /\ FetchInRom /\ [MipsNext]_mipsVars => FetchInRom'
  <2> SUFFICES ASSUME StaysInRom, StaysInRom', FetchInRom, [MipsNext]_mipsVars
               PROVE  FetchInRom'
    OBVIOUS
  <2>1. CASE MipsClock
    BY <2>1 DEF MipsClock, Edge, InstructionFetch, StaysInRom, FetchInRom
  <2>2. CASE MipsReset
    BY <2>2 DEF MipsReset, Reset, StaysInRom, FetchInRom, BOOT_ADDR
  <2>3. CASE Press \/ UNCHANGED mipsVars
    BY <2>3 DEF Press, mipsVars, vars, fetchVars, FetchInRom
  <2>4. QED
    BY <2>1, <2>2, <2>3 DEF MipsNext
<1>3. QED
  BY <1>1, <1>2, PTL DEF MipsSpec

\* In the synthesised design every fetch is answered with the instruction at
\* the fetched address, in both builds, whatever the program, the data accesses
\* between its fetches, the buttons and the moments of the resets, as long as
\* the program lies and stays in the ROM (addrdec.vhdl and the ROM's latch
\* against the bus muxes of cpu.vhdl).
THEOREM FetchesAnsweredHolds ==
  ASSUME RomsInBlock, BusData = Word
  PROVE  MipsSpec /\ []StaysInRom => []FetchesAnswered
<1>1. MipsTypeOK /\ RomShows /\ (SINGLE_ADDRESS_SPACE => FetchInRom) => FetchesAnswered
  <2> SUFFICES ASSUME MipsTypeOK, RomShows, SINGLE_ADDRESS_SPACE => FetchInRom, ~simulated
               PROVE  Bus!dout \in Answers
    BY DEF FetchesAnswered, BusAnswers
  <2>1. Bus!dout \in Word
    BY DoutType DEF MipsTypeOK
  <2>2. CASE SINGLE_ADDRESS_SPACE /\ selMEM = 0 /\ ticks # 1
    <3>1. top_addr \in DOMAIN prog
      BY <2>2 DEF FetchInRom, top_addr
    <3>2. Bus!dout = prog[top_addr]
      BY <2>2, <3>1 DEF RomShows, Bus!dout
    <3>3. RomAt(prog, top_addr) = prog[top_addr]
      BY <2>2, <3>1 DEF RomAt
    <3>4. QED
      BY <2>2, <3>2, <3>3 DEF Answers
  <2>3. CASE ~(SINGLE_ADDRESS_SPACE /\ selMEM = 0 /\ ticks # 1)
    BY <2>1, <2>3 DEF Answers
  <2>4. QED
    BY <2>2, <2>3
<1>2. CASE SINGLE_ADDRESS_SPACE
  BY <1>1, <1>2, MipsTypeCorrect, RomShowsAlways, FetchStaysInRom, PTL
<1>3. CASE ~SINGLE_ADDRESS_SPACE
  BY <1>1, <1>3, MipsTypeCorrect, RomShowsAlways, PTL
<1>4. QED
  BY <1>2, <1>3

\* So the synthesised system, its processor and its bus together, runs
\* instructions the way Machine says, fetches over the same bus as data, and
\* keeps a store in progress and the zero register as they are.
THEOREM SynthesisedImplementsMachine ==
  ASSUME SafeResets, RomsInBlock, BusData = Word, Simulations = {FALSE}
  PROVE  MipsSpec /\ []StaysInRom => ImplementsMachine /\ StoreHeld /\ []ZeroRegister
<1>1. MipsSpec => []~simulated
  <2>1. MipsInit => ~simulated
    BY DEF MipsInit
  <2>2. ~simulated /\ [MipsNext]_mipsVars => ~simulated'
    BY DEF MipsNext, MipsClock, MipsReset, Press, mipsVars, boardVars
  <2>3. QED
    BY <2>1, <2>2, PTL DEF MipsSpec
<1>2. ~simulated /\ FetchesAnswered => BusAnswers
  BY DEF FetchesAnswered
<1>3. QED
  BY <1>1, <1>2, FetchesAnsweredHolds, MipsImplementsMachine, PTL

-----------------------------------------------------------------------------
(* The build with one address space: stores reach the device addressed.    *)

\* The side that has the bus is determined by ticks on this bus too, whether it
\* answers the fetches or not.
LEMMA SchedulePhaseOfMips ==
  ASSUME SafeResets
  PROVE  MipsSpec => [](Schedule /\ BusPhase)
<1>1. MipsInit => Schedule /\ BusPhase
  BY DEF MipsInit, Init, Schedule, BusPhase
<1>2. TypeOK /\ Schedule /\ BusPhase /\ [MipsNext]_mipsVars => Schedule' /\ BusPhase'
  <2> SUFFICES ASSUME TypeOK, Schedule, BusPhase, [MipsNext]_mipsVars
               PROVE  Schedule' /\ BusPhase'
    OBVIOUS
  <2>1. CASE MipsClock
    <3>1. PICK dout : Edge(dout)
      BY <2>1 DEF MipsClock
    <3>2. QED
      BY <3>1, EdgePhase
  <2>2. CASE MipsReset
    BY <2>2, ResetPhase DEF MipsReset
  <2>3. CASE Press \/ UNCHANGED mipsVars
    BY <2>3 DEF Press, mipsVars, vars, Schedule, BusPhase
  <2>4. QED
    BY <2>1, <2>2, <2>3 DEF MipsNext
<1>3. MipsTypeOK => TypeOK
  BY DEF MipsTypeOK
<1>4. QED
  BY <1>1, <1>2, <1>3, MipsTypeCorrect, PTL DEF MipsSpec

\* The decoder has settled, and what it has selected is the device of the
\* address, or the ROM, or nothing yet; the latch in front of the VRAM is open
\* or not in use.
Chosen == /\ cs = Bus!Selected(top_addr, cs)
          /\ cs \in {"rom", "none"} \/ Bus!inside(top_addr, Bus!mmap[cs])
          /\ bus_access_vram = 1 => bus_vram_addr = top_addr

\* addrdec selects a device of the address, or keeps what it had where the
\* address is no device's.
LEMMA SelectedIs ==
  ASSUME NEW a, NEW old
  PROVE  \/ Bus!inside(a, Bus!mmap[Bus!Selected(a, old)])
         \/ Bus!Selected(a, old) = old /\ \A d \in Bus!Device : ~Bus!inside(a, Bus!mmap[d])
BY DEF Bus!Selected

\* Selecting again changes nothing.
LEMMA SelectedAgain ==
  ASSUME NEW a, NEW old
  PROVE  Bus!Selected(a, Bus!Selected(a, old)) = Bus!Selected(a, old)
BY DEF Bus!Selected

\* The address stays, or is one of the ROM, or follows one of the ROM: only then
\* may the decoder keep its selection.
AddressMoves == \/ top_addr' = top_addr
                \/ top_addr \in DOMAIN prog
                \/ top_addr' \in DOMAIN prog

\* Between two accesses of the memory side the bus is with the fetch, whose
\* address is in the ROM; during one the address register holds still, and a
\* reset in its last edge leaves the reset vector in it (cpu.vhdl:399-404).
LEMMA EdgeMovesAddress ==
  ASSUME NEW dout, Edge(dout), TypeOK, Schedule, BusPhase, SINGLE_ADDRESS_SPACE, FetchInRom
  PROVE  AddressMoves
<1>1. /\ selMEM' = IF en \in {"EX", "WB"} THEN 1 - selMEM ELSE selMEM
      /\ aluResult' = IF en = "EX" THEN alu.result ELSE aluResult
      /\ top_addr_if' = read_addr /\ prog' = prog
  BY DEF Edge, SelectBus, EXRegisters, InstructionFetch
<1>2. ticks \in 1 .. 11 /\ selMEM \in {0, 1}
  BY DEF TypeOK, Bit
<1>3. CASE selMEM' = 0
  <2>1. top_addr' = read_addr
    BY <1>1, <1>3 DEF top_addr
  <2>2. QED
    BY <2>1 DEF FetchInRom, AddressMoves
<1>4. CASE selMEM' # 0 /\ selMEM = 0
  <2>1. en = "EX" /\ ticks # 1
    BY <1>1, <1>2, <1>4 DEF Schedule, BusPhase, Raised
  <2>2. top_addr = top_addr_if
    BY <1>4 DEF top_addr
  <2>3. QED
    BY <2>1, <2>2 DEF FetchInRom, AddressMoves
<1>5. CASE selMEM' # 0 /\ selMEM = 1
  <2>1. selMEM' = 1 /\ aluResult' = aluResult
    BY <1>1, <1>5
  <2>2. QED
    BY <1>5, <2>1 DEF top_addr, AddressMoves
<1>6. QED
  BY <1>2, <1>3, <1>4, <1>5

LEMMA ResetMovesAddress ==
  ASSUME Reset, TypeOK, StaysInRom'
  PROVE  AddressMoves
<1>1. /\ selMEM' = selMEM /\ top_addr_if' = top_addr_if /\ prog' = prog
      /\ aluResult' = ZERO /\ new_pc' = ZERO
  BY DEF Reset
<1>2. CASE selMEM = 1
  BY <1>1, <1>2 DEF top_addr, StaysInRom, AddressMoves
<1>3. CASE selMEM # 1
  BY <1>1, <1>3 DEF top_addr, AddressMoves
<1>4. QED
  BY <1>2, <1>3

\* After such a move the selection is right again.
LEMMA SettledChosen ==
  ASSUME TypeOK, TypeOK', RomsInBlock, Chosen, Bus!Settled, prog' = prog, AddressMoves
  PROVE  Chosen'
<1>1. \A x \in DOMAIN prog : x \in Word /\ Bus!inside(x, Bus!mmap.rom)
  BY ProgramsAreRoms DEF TypeOK, RomsInBlock, IsRom
<1>2. cs' = Bus!Selected(top_addr', cs)
  BY DEF Bus!Settled, Bus!addrdec
<1>3. cs' = Bus!Selected(top_addr', cs')
  BY <1>2, SelectedAgain
<1>4. cs' \in {"rom", "none"} \/ Bus!inside(top_addr', Bus!mmap[cs'])
  <2>1. CASE top_addr' = top_addr
    BY <1>2, <2>1 DEF Chosen
  <2>2. CASE top_addr \in DOMAIN prog
    <3>1. cs = "rom"
      BY <1>1, <2>2, RomSelected DEF Chosen
    <3>2. QED
      BY <1>2, <3>1, SelectedIs
  <2>3. CASE top_addr' \in DOMAIN prog
    BY <1>1, <1>2, <2>3, RomSelected
  <2>4. QED
    BY <2>1, <2>2, <2>3 DEF AddressMoves
<1>5. bus_access_vram' = 1 => bus_vram_addr' = top_addr'
  BY DEF Bus!Settled, Bus!vram_latch
<1>6. QED
  BY <1>3, <1>4, <1>5 DEF Chosen

\* So it is from power-on.
LEMMA ChosenAlways ==
  ASSUME SafeResets, RomsInBlock, SINGLE_ADDRESS_SPACE
  PROVE  MipsSpec /\ []StaysInRom => []Chosen
<1>1. MipsInit => Chosen
  <2> SUFFICES ASSUME MipsInit PROVE Chosen
    OBVIOUS
  <2>1. PICK w \in PowerOn : Bus!BusInit(w)
    BY DEF MipsInit
  <2>2. cs = Bus!Selected(top_addr, "none") /\ bus_access_vram = 0
    BY <2>1 DEF Bus!BusInit
  <2>3. QED
    BY <2>2, SelectedIs, SelectedAgain DEF Chosen
<1>2. /\ TypeOK /\ TypeOK' /\ Schedule /\ BusPhase /\ FetchInRom /\ StaysInRom' /\ Chosen
      /\ [MipsNext]_mipsVars
      => Chosen'
  <2> SUFFICES ASSUME TypeOK, TypeOK', Schedule, BusPhase, FetchInRom, StaysInRom', Chosen,
                      [MipsNext]_mipsVars
               PROVE  Chosen'
    OBVIOUS
  <2>1. CASE MipsClock
    <3>1. PICK dout : Edge(dout)
      BY <2>1 DEF MipsClock
    <3>2. Bus!Settled /\ prog' = prog
      BY <2>1, <3>1 DEF MipsClock, Bus!BusEdge, Edge
    <3>3. QED
      BY <3>1, <3>2, EdgeMovesAddress, SettledChosen
  <2>2. CASE MipsReset
    <3>1. Reset /\ Bus!Settled /\ prog' = prog
      BY <2>2 DEF MipsReset, Bus!BusSettle, Reset
    <3>2. QED
      BY <3>1, ResetMovesAddress, SettledChosen
  <2>3. CASE Press \/ UNCHANGED mipsVars
    <3>1. UNCHANGED <<top_addr, cs, bus_access_vram, bus_vram_addr>>
      BY <2>3 DEF Press, mipsVars, vars, fetchVars, busVars, pipeVars, top_addr
    <3>2. QED
      BY <3>1 DEF Chosen
  <2>4. QED
    BY <2>1, <2>2, <2>3 DEF MipsNext
<1>3. MipsTypeOK => TypeOK
  BY DEF MipsTypeOK
<1>4. QED
  BY <1>1, <1>2, <1>3, MipsTypeCorrect, SchedulePhaseOfMips, FetchStaysInRom, PTL DEF MipsSpec

\* The block of the video's mode register lies outside of the VRAM's, which is
\* the one the decoder has a line for (memory_map.vhdl:25-26).
LEMMA NoConfiguration ==
  ASSUME NEW a \in Word, Bus!inside(a, Bus!mmap.vram)
  PROVE  ~Bus!InConfiguration(a)
<1> SUFFICES ASSUME Bus!InConfiguration(a) PROVE FALSE
  OBVIOUS
<1>1. \A lo : /\ Bus!W(\h1400, lo)[26] = 1 /\ Bus!W(\h1400, lo)[28] = 1
              /\ Bus!W(\h1400, lo)[24] = 0
  BY DEF Bus!W, Bus!BitOf, Bus!Weight, Bus!high_if
<1>2. /\ Bus!W(\h1100, 0)[24] = 1 /\ Bus!W(\h1100, 0)[28] = 1
      /\ \A i \in 0 .. 31 : i \notin {24, 28} => Bus!W(\h1100, 0)[i] = 0
  BY DEF Bus!W, Bus!BitOf, Bus!Weight, Bus!high_if
<1>3. a[26] = 1 /\ a[28] = 1
  BY <1>1 DEF Bus!InConfiguration
<1>4. Bus!ULess(a, Bus!W(\h1100, 0))
  BY DEF Bus!inside, Bus!mmap, Bus!Block
<1>5. PICK i \in 0 .. 31 : /\ a[i] < Bus!W(\h1100, 0)[i]
                           /\ \A j \in i + 1 .. 31 : a[j] = Bus!W(\h1100, 0)[j]
  BY <1>4 DEF Bus!ULess
<1>6. \A k \in 0 .. 31 : a[k] \in {0, 1}
  BY DEF Word, Bit
<1>7. i \in {24, 28}
  BY <1>2, <1>5, <1>6
<1>8. i # 28
  BY <1>2, <1>3, <1>5
<1>9. i # 24
  <2>1. i = 24 => a[26] = Bus!W(\h1100, 0)[26]
    BY <1>5
  <2>2. QED
    BY <1>2, <1>3, <2>1
<1>10. QED
  BY <1>7, <1>8, <1>9

\* In the build that fetches over the bus a store changes a device at an address
\* of the device's own block and nothing at an address of none, simulated or
\* synthesised: the fetch before it has selected the ROM, which the decoder
\* keeps.  The mode of the video cannot be changed (addrdec.vhdl:17-24 under the
\* bus muxes of cpu.vhdl, vga_controller.vhdl).
THEOREM StoresInTheirBlockHolds ==
  ASSUME SafeResets, RomsInBlock, SINGLE_ADDRESS_SPACE
  PROVE  MipsSpec /\ []StaysInRom => StoresInTheirBlock
<1> DEFINE Step == /\ ram' # ram   => Bus!inside(top_addr', Bus!mmap.ram)
                   /\ leds' # leds => Bus!inside(top_addr, Bus!mmap.led)
                   /\ vram' # vram => /\ Bus!inside(top_addr, Bus!mmap.vram)
                                      /\ bus_vram_addr = top_addr
                   /\ mode_idx' = mode_idx
<1>1. TypeOK /\ Chosen /\ Chosen' /\ [MipsNext]_mipsVars => [Step]_mipsVars
  <2> SUFFICES ASSUME TypeOK, Chosen, Chosen', MipsNext PROVE Step
    BY DEF mipsVars
  <2>1. Bus!Settled => (ram' # ram => Bus!inside(top_addr', Bus!mmap.ram))
    BY DEF Bus!Settled, Bus!async_ram, Chosen
  <2>2. CASE MipsClock
    <3>1. Bus!Clocked /\ Bus!Settled
      BY <2>2 DEF MipsClock, Bus!BusEdge
    <3>2. leds' # leds => Bus!inside(top_addr, Bus!mmap.led)
      BY <3>1 DEF Bus!Clocked, Bus!mmio_leds, Bus!Writing, Bus!Accessed, Chosen
    <3>3. vram' # vram => Bus!inside(top_addr, Bus!mmap.vram) /\ bus_vram_addr = top_addr
      BY <3>1 DEF Bus!Clocked, Bus!vram_bus_side, Chosen
    <3>4. cs = "vram" => Bus!inside(top_addr, Bus!mmap.vram)
      BY DEF Chosen
    <3>5. mode_idx' = mode_idx
      <4>1. top_addr \in Word
        BY SignalTypes
      <4>2. cs = "vram" => ~Bus!InConfiguration(top_addr)
        BY <3>4, <4>1, NoConfiguration
      <4>3. QED
        BY <3>1, <4>2 DEF Bus!Clocked, Bus!mmio_vga, Bus!Writing, Bus!Accessed
    <3>6. QED
      BY <2>1, <3>1, <3>2, <3>3, <3>5
  <2>3. CASE MipsReset
    BY <2>1, <2>3 DEF MipsReset, Bus!BusSettle
  <2>4. CASE Press
    BY <2>4 DEF Press, busVars
  <2>5. QED
    BY <2>2, <2>3, <2>4 DEF MipsNext
<1>2. MipsTypeOK => TypeOK
  BY DEF MipsTypeOK
<1>3. QED
  BY <1>1, <1>2, MipsTypeCorrect, ChosenAlways, PTL DEF MipsSpec, StoresInTheirBlock

=============================================================================
