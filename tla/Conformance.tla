---------------------------- MODULE Conformance ----------------------------
(***************************************************************************)
(* The datapath against the instruction set.  A case is an instruction and *)
(* the situation it meets: an address, a register file, HI and LO, what    *)
(* the decoder's latches hold from the instructions before, and the bus's  *)
(* answer.  The step Execution runs the case through decoder, ALU and      *)
(* write-back muxes; the invariants compare the outcome with Isa's         *)
(* Meaning.  Unaligned accesses are not told from aligned ones: the traps  *)
(* of the design go nowhere.                                               *)
(***************************************************************************)
EXTENDS Datapath, Isa

CONSTANTS Instructions, Situations

Situation == [pc : Word, reg : RegFile, hi : Word, lo : Word, latch : DecLatch,
              answer : Word]

ASSUME CasesAssumption == /\ Instructions \subseteq Instruction
                          /\ Situations \subseteq Situation

VARIABLES case, outcome

vars == <<case, outcome>>

Init == /\ case \in [i : Instructions, at : Situations]
        /\ outcome = <<>>

\* The instruction through the datapath
Outcome(i, at) ==
  LET instr == Encode(i)
      pc4   == PcPlus4(at.pc)
      id    == InstructionDecode(instr, pc4, MainDec(instr, at.latch))
      alu   == Execute(id, at.reg, [result |-> at.answer, hi |-> at.hi, lo |-> at.lo])
      req   == BusRequest(id, at.reg, alu)
  IN  [reg |-> Commit(id, at.reg, alu, pc4, at.answer), hi |-> alu.hi, lo |-> alu.lo,
       pc  |-> NextPc(id, at.reg, alu, pc4),
       req |-> IF req.size # WIDTH_NONE /\ req.wr = 0
               THEN [size |-> req.size, wr |-> 0, addr |-> req.addr] ELSE req]

Execution == /\ outcome = <<>>
             /\ outcome' = <<Outcome(case.i, case.at)>>
             /\ UNCHANGED case

Spec == Init /\ [][Execution]_vars

Expected(i, at) == Meaning(i, at.pc, at.reg, at.hi, at.lo, at.answer)

Ran(ms)   == outcome # <<>> /\ case.i.m \in ms
Conforms  == outcome = <<Expected(case.i, case.at)>>

-----------------------------------------------------------------------------
(* Which parts of the instruction set the runs ask about. *)

Deviating  == Shifts \cup {"lw", "bltzal", "bgezal", "mtlo"}
Jumps      == {"j", "jal", "jr", "jalr"}
Conforming == Mnemonics \ Deviating

\* The decoder still has the ALU load HI or LO.
Moving == case.at.latch.aluop \in {"MTHI", "MTLO"}

\* Arithmetic, logic and comparisons leave in the register file, and nowhere
\* else, what the instruction set says: sign- or zero-extension of the
\* immediate, signed or unsigned order, R0, and no trace of the instruction
\* before (maindec.vhdl's table against alu.vhdl and the muxes of EX and WB).
ComputesRight ==
  Ran(ThreeRegisters \cup Immediates \cup FromHiLo \cup {"mthi"}) => Conforms

\* Loads of bytes and halves and all stores put the right access on the bus
\* and extend its answer as their mnemonic says (MEM.vhdl and RegCaster.vhdl
\* under the decoder's memsex and memwidth).
AccessesRight == Ran((Loads \ {"lw"}) \cup Stores) => Conforms

\* Jumps and branches continue where the instruction set says and link into
\* the register it says (the three jump muxes of WB.vhdl, whose control bits
\* the table leaves open where another mux decides), and change nothing else;
\* but a jump, which has no ALU operation of its own, that comes behind mthi
\* or mtlo is left out.
ContinuesRight ==
  /\ Ran({"beq", "bne", "blez", "bgtz", "bltz", "bgez"}) => Conforms
  /\ Ran(Jumps) /\ ~Moving => Conforms

-----------------------------------------------------------------------------
(* The instructions of which some case comes out differently, all of them  *)
(* in one step.                                                            *)

Deviates(i) == \E at \in Situations : Outcome(i, at) # Expected(i, at)

Survey == /\ outcome = <<>>
          /\ outcome' = <<{i.m : i \in {x \in Instructions : Deviates(x)}}>>
          /\ UNCHANGED case

SurveySpec == case = <<>> /\ outcome = <<>> /\ [][Survey]_vars

\* README.md:5: "All MIPS R3000 instructions are implemented, except
\* co-processor access, division/multiplication and interrupt/trap/syscall
\* handling" - no other instruction deviates from its meaning (maindec.vhdl's
\* table and alu.vhdl).
AllImplemented == outcome \in {<<>>, <<{}>>}

=============================================================================
