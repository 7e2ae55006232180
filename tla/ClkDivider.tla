----------------------------- MODULE ClkDivider -----------------------------
(***************************************************************************)
(* The clock of the core, arch/clkdivider.vhdl: a level that toggles after *)
(* every `ticks' edges of the board's clock, cleared while the reset is    *)
(* pressed.                                                                *)
(***************************************************************************)
EXTENDS Integers

CONSTANT ticks

ASSUME TicksAssumption == ticks \in Nat \ {0}

VARIABLES i, pulse, rst

dividerVars == <<i, pulse, rst>>

DividerInit == i = 0 /\ pulse = 0 /\ rst = 0

\* Variant for mutation testing: the level is set and never cleared.
DivideSets == /\ IF rst = 1 THEN i' = 0 /\ pulse' = 0
                 ELSE IF i + 1 >= ticks THEN i' = 0 /\ pulse' = 1
                 ELSE i' = i + 1 /\ pulse' = pulse
              /\ rst' = rst

\* A rising edge of bigclk
Divide == /\ IF rst = 1 THEN i' = 0 /\ pulse' = 0
             ELSE IF i + 1 >= ticks THEN i' = 0 /\ pulse' = 1 - pulse
             ELSE i' = i + 1 /\ pulse' = pulse
          /\ rst' = rst

\* Variant for mutation testing: the clear forgets the counter.
MoveResetKeeps == /\ rst' = 1 - rst
                  /\ pulse' = IF rst' = 1 THEN 0 ELSE pulse
                  /\ i' = i

\* The button of the reset is pressed or let go, at any time: the clear is
\* asynchronous.
MoveReset == /\ rst' = 1 - rst
             /\ IF rst' = 1 THEN i' = 0 /\ pulse' = 0 ELSE UNCHANGED <<i, pulse>>

Rising == pulse = 0 /\ pulse' = 1

DividerTypeOK == i \in 0 .. ticks - 1 /\ pulse \in {0, 1} /\ rst \in {0, 1}

=============================================================================
