-------------------------------- MODULE Cpu --------------------------------
(***************************************************************************)
(* The processor core, cycle by cycle: vhdl/arch/cpu.vhdl with the         *)
(* Pipeliner that sequences it, instruction fetch (IF.vhdl, PC.vhdl,       *)
(* InstructionMem.vhdl) and the register file its top level attaches       *)
(* (mips.vhdl, regFile.vhdl).                                              *)
(*                                                                         *)
(* One step Edge(dout) is one rising edge of clk: every clocked process    *)
(* of the design reads the values before the edge, and the combinational   *)
(* ones have settled before the next.  "dout" is what the bus answers at   *)
(* that edge.  Reset is a pulse on rst; mips.vhdl derives clk from a       *)
(* divider that rst holds at 0, so no edge falls into the pulse.           *)
(***************************************************************************)
EXTENDS Datapath, FiniteSets

CONSTANTS
  SINGLE_ADDRESS_SPACE,  \* the generic: instructions come over the bus
  Programs,              \* the ROM contents considered: address -> instruction
  Unmapped,              \* what a fetch outside the ROM contents delivers
  BusData,               \* the words the bus may answer a data access with
  PowerOn,               \* the contents of a register no reset has cleared yet
  ResetTicks,            \* the values of "ticks" at which rst may be pulsed
  MaxResets              \* a bound on the number of pulses after power-on

\* The contents of an instruction ROM: a word for some addresses
IsRom(rom) == DOMAIN rom \subseteq Word /\ \A a \in DOMAIN rom : rom[a] \in Word

ASSUME SpaceIsBoolean    == SINGLE_ADDRESS_SPACE \in BOOLEAN
ASSUME UnmappedIsWord    == Unmapped \in Word
ASSUME ProgramsAreRoms   == \A p \in Programs : IsRom(p)
ASSUME BusDataAreWords   == BusData \subseteq Word
ASSUME PowerOnAreWords   == PowerOn \subseteq Word
ASSUME ResetTicksInRange == ResetTicks \subseteq 1 .. 11
ASSUME MaxResetsIsNat    == MaxResets \in Nat

\* memory_map.vhdl: the reset vector
BOOT_ADDR == ZERO

\* The ROM of the core's own drops the two low bits of the address; the one
\* on the bus compares all of them.
RomAt(rom, a) ==
  LET found == IF SINGLE_ADDRESS_SPACE THEN a ELSE [a EXCEPT ![0] = 0, ![1] = 0]
  IN  IF found \in DOMAIN rom THEN rom[found] ELSE Unmapped

Stage == {"none", "IF", "ID", "EX", "MEM", "MEM_read", "WB", "done"}

VARIABLES
  ticks,        \* Pipeliner: the position in the instruction's cycle
  en,           \* Pipeliner: the one enable that is up, or "none"
  selMEM,       \* who drives the bus: 0 instruction fetch, 1 memory access
  read_addr,    \* PC: the address being fetched
  instr_pre,    \* InstructionMem: its registered output
  top_addr_if,  \* InstructionMem: its registered bus address
  new_pc, pc_plus_4, instr, id, aluResult, takeBranch, memReadData, regwritedata,
                \* the pipeline registers of cpu.vhdl
  dec,          \* maindec: what its process latches
  alu,          \* alu: what its process latches
  reg,          \* the register file
  prog,         \* the ROM (never changes)
  resets        \* pulses on rst so far

fetchVars == <<read_addr, instr_pre, top_addr_if>>
pipeVars  == <<new_pc, pc_plus_4, instr, id, aluResult, takeBranch, memReadData,
               regwritedata>>
vars == <<ticks, en, selMEM, fetchVars, pipeVars, dec, alu, reg, prog, resets>>

-----------------------------------------------------------------------------
(* The bus signals. *)

\* The four muxes in front of the bus.  The fetch side never writes; in the
\* build with a ROM of its own it leaves address and size undriven.
top_addr == IF selMEM = 1 THEN aluResult ELSE top_addr_if
top_din  == IF selMEM = 1 THEN reg[id.readreg2] ELSE ZERO
top_size == IF selMEM = 1 THEN AccessSize(id)
            ELSE IF SINGLE_ADDRESS_SPACE THEN "WORD" ELSE WIDTH_NONE
top_wr   == IF selMEM = 1 THEN high_if(id.memwrite # WIDTH_NONE) ELSE 0

\* What the bus may answer at the next edge: the ROM answers a fetch.  At an
\* instruction's first edge, the first of all in particular, the fetch address
\* may not be there yet.
Answers == IF SINGLE_ADDRESS_SPACE /\ selMEM = 0 /\ ticks # 1
           THEN {RomAt(prog, top_addr)} ELSE BusData

-----------------------------------------------------------------------------
(* The clocked processes. *)

\* Pipeliner: the enable raised by an edge depends on ticks alone.
Raised(t) == CASE t = 2 -> "IF"  [] t = 3 -> "ID" [] t = 4 -> "EX" [] t = 5 -> "MEM"
               [] t = 9 -> "MEM_read" [] t = 10 -> "WB" [] t = 11 -> "done"
               [] OTHER -> "none"
\* Variant for mutation testing: a cycle of twelve edges.
PipelinerLong == /\ en'    = Raised(ticks)
                 /\ ticks' = IF ticks = 12 THEN 1 ELSE ticks + 1

\* Variant for mutation testing: the count does not start over.
PipelinerOnce == /\ en'    = Raised(ticks)
                 /\ ticks' = IF ticks = 11 THEN 11 ELSE ticks + 1

Pipeliner == /\ en'    = Raised(ticks)
             /\ ticks' = IF ticks = 11 THEN 1 ELSE ticks + 1

\* PC and InstructionMem, which are not enabled by the Pipeliner
InstructionFetch(dout) ==
  /\ read_addr' = new_pc
  /\ IF SINGLE_ADDRESS_SPACE
     THEN instr_pre' = dout /\ top_addr_if' = read_addr
     ELSE instr_pre' = RomAt(prog, read_addr) /\ UNCHANGED top_addr_if

\* pc_plus_4_reg and instr_reg; maindec sees the new instruction.
IFRegisters ==
  /\ pc_plus_4' = IF en = "IF" THEN PcPlus4(read_addr) ELSE pc_plus_4
  /\ instr'     = IF en = "IF" THEN instr_pre ELSE instr
  /\ dec'       = IF en = "IF" THEN MainDec(instr_pre, dec) ELSE dec

IDRegisters == id' = IF en = "ID" THEN InstructionDecode(instr, pc_plus_4, dec) ELSE id

EXRegisters ==
  /\ aluResult'  = IF en = "EX" THEN alu.result ELSE aluResult
  /\ takeBranch' = IF en = "EX" THEN TakeBranch(id, alu) ELSE takeBranch

\* Variant for mutation testing: the bus is handed over at MEM_en.
SelectBusLate  == selMEM' = IF en \in {"MEM", "WB"} THEN 1 - selMEM ELSE selMEM

\* Variant for mutation testing: the bus is given back at MEM_read.
SelectBusEarly == selMEM' = IF en \in {"EX", "MEM_read"} THEN 1 - selMEM ELSE selMEM

\* selMEM toggles at the edges after EX_en and WB_en were raised.
SelectBus == selMEM' = IF en \in {"EX", "WB"} THEN 1 - selMEM ELSE selMEM

MemRegister(dout) == memReadData' = IF en = "MEM" THEN MemReadData(id, dout)
                                    ELSE memReadData

\* Variant for mutation testing: the register file is not gated by WB_en.
WBRegistersUngated ==
  /\ new_pc' = IF en = "WB" THEN NewPc(id, reg, pc_plus_4, takeBranch) ELSE new_pc
  /\ regwritedata' = RegWriteData(id, pc_plus_4, aluResult, memReadData)
  /\ reg' = WriteRegFile(reg, id.regwrite, id.writereg, regwritedata)

\* new_pc_reg, regWrite_data_reg (always enabled) and the register file
WBRegisters ==
  /\ new_pc' = IF en = "WB" THEN NewPc(id, reg, pc_plus_4, takeBranch) ELSE new_pc
  /\ regwritedata' = RegWriteData(id, pc_plus_4, aluResult, memReadData)
  /\ reg' = WriteRegFile(reg, IF en = "WB" THEN id.regwrite ELSE 0, id.writereg,
                         regwritedata)

\* The ALU process settles on the inputs the edge leaves behind.
AluSettles == alu' = Execute(id', reg', alu)

Edge(dout) == /\ Pipeliner
              /\ InstructionFetch(dout)
              /\ IFRegisters
              /\ IDRegisters
              /\ EXRegisters
              /\ SelectBus
              /\ MemRegister(dout)
              /\ WBRegisters
              /\ AluSettles
              /\ UNCHANGED <<prog, resets>>

\* The asynchronous clear.  The enables, selMEM and InstructionMem's outputs
\* have no reset.
Reset == /\ ticks \in ResetTicks
         /\ resets < MaxResets
         /\ resets' = resets + 1
         /\ ticks' = 1
         /\ read_addr' = BOOT_ADDR
         /\ new_pc' = ZERO
         /\ pc_plus_4' = ZERO
         /\ instr' = ZERO
         /\ dec' = MainDec(ZERO, dec)
         /\ id' = ClearedId
         /\ aluResult' = ZERO
         /\ takeBranch' = 0
         /\ memReadData' = ZERO
         /\ regwritedata' = ZERO
         /\ reg' = [r \in Reg |-> ZERO]
         /\ AluSettles
         /\ UNCHANGED <<en, selMEM, instr_pre, top_addr_if, prog>>

-----------------------------------------------------------------------------
(* Power-on: the initial values of the declarations, then the reset the    *)
(* board starts with; what has neither holds anything.                     *)

Init ==
  /\ ticks = 1 /\ en = "none" /\ selMEM = 0
  /\ read_addr = BOOT_ADDR
  /\ instr_pre \in PowerOn /\ top_addr_if \in PowerOn
  /\ new_pc = ZERO /\ pc_plus_4 = ZERO /\ instr = ZERO
  /\ id = ClearedId
  /\ aluResult = ZERO /\ takeBranch = 0 /\ memReadData = ZERO /\ regwritedata = ZERO
  /\ reg = [r \in Reg |-> ZERO]
  /\ \E w \in PowerOn :
       /\ alu = [result |-> ZERO, hi |-> w, lo |-> w]
       /\ dec = MainDec(ZERO, [ctrl |-> Row({}, {}), aluop |-> "ADD",
                               memwidth |-> WIDTH_NONE])
  /\ prog \in Programs
  /\ resets = 0

Clock == \E dout \in Answers : Edge(dout)
Next  == Clock \/ Reset

Spec == Init /\ [][Next]_vars

\* The clock keeps running: the Pipeliner, which is part of every edge and of no
\* reset, does not stop.
FairSpec == Spec /\ WF_ticks(Pipeliner)

-----------------------------------------------------------------------------
(* Refinement: the Machine this core implements.  An instruction is        *)
(* fetched, decoded, requested and committed at the edges that load instr, *)
(* id, aluResult and new_pc; between them the pipeline registers hold      *)
(* still.  Until instr is loaded the instruction is found where the fetch  *)
(* has got to.                                                             *)

phase == CASE ticks <= 3 -> "fetch" [] ticks = 4 -> "decode"
           [] ticks = 5 -> "execute" [] OTHER -> "access"

ir == CASE ticks = 1 -> RomAt(prog, IF SINGLE_ADDRESS_SPACE THEN read_addr ELSE new_pc)
        [] ticks = 2 -> RomAt(prog, IF SINGLE_ADDRESS_SPACE THEN top_addr_if
                                                            ELSE read_addr)
        [] ticks = 3 -> instr_pre
        [] OTHER     -> instr

\* A reset between the edges that raise and sample IF_en lets one more word
\* through the decoder.
decMapped == IF ticks = 1 /\ en = "IF" THEN MainDec(instr_pre, dec) ELSE dec

req == IF selMEM = 0 \/ top_size = WIDTH_NONE THEN Idle
       ELSE [size |-> top_size, wr |-> top_wr, addr |-> top_addr, din |-> top_din]

M == INSTANCE Machine WITH
       pc <- new_pc, dec <- decMapped,
       Boot <- BOOT_ADDR, Cleared <- [r \in Reg |-> ZERO], NoRequest <- Idle,
       DecStates <- DecLatch, AluStates <- AluState,
       Fetched <- RomAt, Following <- PcPlus4, Latched <- MainDec,
       Decoded <- InstructionDecode, Evaluated <- Execute,
       Requested <- BusRequest, Continued <- NextPc, Committed <- Commit

\* The core runs instructions the way Machine says, whatever the program, the
\* answers of the bus and the moments of the resets allowed by ResetTicks
\* (cpu.vhdl as a whole: the Pipeliner's schedule against the registers it
\* enables, the fetch that runs free of it, and the bus muxes).
ImplementsMachine == M!Spec

-----------------------------------------------------------------------------
(* Properties. *)

\* The types of the variables.
TypeOK ==
  /\ ticks \in 1 .. 11 /\ en \in Stage /\ selMEM \in Bit
  /\ read_addr \in Word /\ instr_pre \in Word /\ top_addr_if \in Word
  /\ new_pc \in Word /\ pc_plus_4 \in Word /\ instr \in Word /\ id \in IdReg
  /\ aluResult \in Word /\ takeBranch \in Bit
  /\ memReadData \in Word /\ regwritedata \in Word
  /\ dec \in DecLatch /\ alu \in AluState /\ reg \in RegFile
  /\ prog \in Programs /\ resets \in Nat

\* The resets that fall where the memory side does not have the bus, or is
\* about to give it back.
SafeResets == ResetTicks \subseteq {1, 2, 3, 4, 11}

\* The toggle that hands the bus over (cpu.vhdl:399-404) never gets out of
\* step with the Pipeliner: the memory side has the bus from the edge that
\* loads aluResult to the edge that writes back, and at no other time - but
\* for the edge after a reset that fell between raising and sampling WB_en.
BusPhase == selMEM = 1 <=> ticks >= 6 \/ (ticks = 1 /\ en = "WB")

\* A store in progress does not change under the device that takes it, and
\* ends only with the instruction: while top_wr is up, address, data and size
\* stay put, although the data comes straight from the register file and the
\* address from a register the next instruction loads.
StoreHeld ==
  [][top_wr = 1 /\ resets' = resets =>
       IF ticks = 11 THEN top_wr' = 0
       ELSE /\ top_wr' = 1
            /\ UNCHANGED <<top_addr, top_din, top_size>>]_vars

\* Register 0 reads as zero, whatever instructions name it as their target.
ZeroRegister == reg[0] = ZERO

=============================================================================
