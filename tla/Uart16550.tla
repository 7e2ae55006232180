------------------------------ MODULE Uart16550 ------------------------------
(***************************************************************************)
(* The UART as bios/uart16550.c drives it, and the terminal at the other   *)
(* end of the line.  The device itself is not part of this repository: it  *)
(* has a holding and a shift register for what is sent, its FIFO is        *)
(* disabled by the driver, and the terminal has the screen line the cursor *)
(* is in.                                                                  *)
(***************************************************************************)
EXTENDS Integers, Sequences

CONSTANTS NONE,       \* no character in a register
          Columns     \* the columns of the screen

ASSUME ColumnsAssumption == Columns \in Nat

VARIABLES dlab, divisor, config,     \* the line control and the baud rate
          data_available, rx,        \* what was received
          thr, tsr,                  \* what is to be sent, what is being sent
          line, cursor,              \* the terminal
          lost                       \* a history: the characters that never arrive

receiver    == <<data_available, rx>>
transmitter == <<thr, tsr, line, cursor, lost>>
settings    == <<dlab, divisor, config>>
uartVars    == <<settings, receiver, transmitter>>

Blank == [c \in 0 .. Columns - 1 |-> " "]

UartInit == /\ dlab = FALSE /\ divisor = [lo |-> 0, hi |-> 0] /\ config = 0
            /\ data_available = FALSE /\ rx = NONE
            /\ thr = NONE /\ tsr = NONE /\ lost = {}
            /\ line = Blank /\ cursor = 0

\* Both ends agree: UART16550_BAUD_115200, UART16550_8N1
Agreed == ~dlab /\ divisor = [lo |-> 1, hi |-> 0] /\ config = 3

-----------------------------------------------------------------------------
(* The driver *)

\* The first two registers are the divisor while set_baud is on.
StoreFirst(v)  == IF dlab
                  THEN /\ divisor' = [divisor EXCEPT !.lo = v]
                       /\ UNCHANGED thr
                  ELSE /\ thr' = v
                       /\ UNCHANGED divisor
StoreSecond(v) == IF dlab THEN divisor' = [divisor EXCEPT !.hi = v] ELSE UNCHANGED divisor

\* The seven stores; int_enable and fifo_ctrl are cleared.
uart16550_init(k) ==
  /\ CASE k = 1 -> dlab' = TRUE /\ UNCHANGED <<divisor, config, thr>>
       [] k = 2 -> StoreFirst(1) /\ UNCHANGED <<dlab, config>>
       [] k = 3 -> StoreSecond(0) /\ UNCHANGED <<dlab, config, thr>>
       [] k = 4 -> dlab' = FALSE /\ UNCHANGED <<divisor, config, thr>>
       [] k = 5 -> StoreSecond(0) /\ UNCHANGED <<dlab, config, thr>>
       [] k = 6 -> UNCHANGED <<settings, thr>>
       [] OTHER -> config' = 3 /\ UNCHANGED <<dlab, divisor, thr>>
  /\ UNCHANGED <<receiver, tsr, line, cursor, lost>>

\* putc's store: it does not arrive in a divisor, and it replaces what the
\* holding register still has.
Transmit(ch) == /\ StoreFirst(ch)
                /\ lost' = lost \cup (IF dlab THEN {ch} ELSE {thr} \ {NONE})
                /\ UNCHANGED <<dlab, config, receiver, tsr, line, cursor>>

\* getc's load
Received == IF rx = "CR" THEN "LF" ELSE rx
Take     == data_available' = FALSE /\ UNCHANGED <<rx, settings, transmitter>>

-----------------------------------------------------------------------------
(* The device and the terminal *)

Load == /\ tsr = NONE /\ thr # NONE
        /\ tsr' = thr /\ thr' = NONE
        /\ UNCHANGED <<settings, receiver, line, cursor, lost>>

\* The character arrives and is shown.
Arrive == /\ tsr # NONE /\ tsr' = NONE
          /\ lost' = lost \cup (IF Agreed THEN {} ELSE {tsr})
          /\ CASE tsr = "LF" -> line' = Blank /\ UNCHANGED cursor
               [] tsr = "CR" -> cursor' = 0 /\ UNCHANGED line
               [] tsr = "BS" -> cursor' = (IF cursor > 0 THEN cursor - 1 ELSE 0) /\ UNCHANGED line
               [] OTHER      -> /\ line' = [line EXCEPT ![cursor] = tsr]
                                /\ cursor' = cursor + 1
          /\ UNCHANGED <<thr, settings, receiver>>

\* A key is typed; the character that was not taken is overrun.
Type(ch) == /\ Agreed
            /\ data_available' = TRUE /\ rx' = ch
            /\ UNCHANGED <<settings, transmitter>>

=============================================================================
