------------------------------ MODULE Machine ------------------------------
(***************************************************************************)
(* What the core promises to the software: instructions run one at a time, *)
(* each against the registers the previous one left, with at most one bus  *)
(* access, held while it is in progress, and one commit in which the       *)
(* register file and the program counter change together.  What an         *)
(* instruction means is a parameter (decoding, evaluation, request, next   *)
(* address, commit); this module says only when each of them happens.      *)
(*                                                                         *)
(* The instruction to run is fixed when the previous one commits.  With a  *)
(* ROM of its own (~SINGLE_ADDRESS_SPACE) it is the one at the new program *)
(* counter; with the ROM on the bus the fetch lags and it is the one at    *)
(* the program counter just left, which gives every jump a delay slot.     *)
(***************************************************************************)
CONSTANTS
  SINGLE_ADDRESS_SPACE, Programs, BusData,
  Boot,                 \* the reset vector
  Cleared,              \* the register file after a reset
  NoRequest,            \* no bus access
  DecStates, AluStates, \* what the decoder's and the ALU's latches may hold
  Fetched(_, _),        \* (rom, pc): the instruction there
  Following(_),         \* (pc): the address behind an instruction's
  Latched(_, _),        \* (ir, dec): the decoder's latches after an instruction
  Decoded(_, _, _),     \* (ir, following, dec): the decoded instruction
  Evaluated(_, _, _),   \* (op, reg, alu): the ALU after an instruction
  Requested(_, _, _),   \* (op, reg, alu): its bus access
  Continued(_, _, _, _),    \* (op, reg, alu, following): where it continues
  Committed(_, _, _, _, _)  \* (op, reg, alu, following, answer): the registers

VARIABLES phase, pc, ir, dec, alu, reg, req, prog

vars == <<phase, pc, ir, dec, alu, reg, req, prog>>

\* The decoded instruction; meaningful from phase "decode" on.
Op == Decoded(ir, Following(pc), dec)

Init ==
  /\ phase = "fetch"
  /\ pc = Boot
  /\ prog \in Programs
  /\ ir = Fetched(prog, Boot)
  /\ dec \in DecStates
  /\ alu \in AluStates
  /\ reg = Cleared
  /\ req = NoRequest

Fetch ==
  /\ phase = "fetch"
  /\ phase' = "decode"
  /\ dec' = Latched(ir, dec)
  /\ UNCHANGED <<pc, ir, alu, reg, req, prog>>

Decode ==
  /\ phase = "decode"
  /\ phase' = "execute"
  /\ alu' = Evaluated(Op, reg, alu)
  /\ UNCHANGED <<pc, ir, dec, reg, req, prog>>

Request ==
  /\ phase = "execute"
  /\ phase' = "access"
  /\ req' = Requested(Op, reg, alu)
  /\ UNCHANGED <<pc, ir, dec, alu, reg, prog>>

Complete(d) ==
  /\ phase = "access"
  /\ phase' = "fetch"
  /\ reg' = Committed(Op, reg, alu, Following(pc), d)
  /\ pc' = Continued(Op, reg, alu, Following(pc))
  /\ ir' = Fetched(prog, IF SINGLE_ADDRESS_SPACE THEN pc ELSE pc')
  /\ req' = NoRequest
  /\ alu' = Evaluated(Op, reg', alu)
  /\ UNCHANGED <<dec, prog>>

Reset ==
  /\ phase' = "fetch"
  /\ pc' = Boot
  /\ ir' = Fetched(prog, Boot)
  /\ dec' \in DecStates
  /\ alu' \in AluStates
  /\ reg' = Cleared
  /\ req' = NoRequest
  /\ UNCHANGED prog

Next == \/ Fetch
        \/ Decode
        \/ Request
        \/ \E d \in BusData : Complete(d)
        \/ Reset

Spec == Init /\ [][Next]_vars

=============================================================================
