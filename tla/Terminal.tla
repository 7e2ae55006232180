------------------------------ MODULE Terminal ------------------------------
(***************************************************************************)
(* The dialogue of bios/init.c: a prompt, a line read by gets of           *)
(* bios/tty.c and echoed as it is typed, an answer.  Everything is put and *)
(* got by polling the UART.                                                *)
(***************************************************************************)
EXTENDS Uart16550

CONSTANTS Size,       \* sizeof buf, 16 in the code
          Keys,       \* the keys the user types
          MaxKeys     \* a bound on how many

\* The line, prompt and answer included, fits on the screen.
ASSUME TerminalAssumption == /\ Size \in Nat /\ Size > 1 /\ MaxKeys \in Nat
                             /\ Keys \subseteq STRING /\ Columns > Size + 1

VARIABLES pc,
          step,           \* of uart16550_init
          send, next,     \* what is left to put, and what follows
          buf, s, i,      \* gets_till's, pointers into buf as indices
          typed,
          erased, top, meant   \* histories of the line: how many characters were
                               \* erased, the last cell stored to, and the
                               \* characters typed but not erased

dialogue     == <<step, send, next, buf, s, i, erased, top, meant>>
terminalVars == <<uartVars, pc, dialogue, typed>>

\* The stack behind buf is stored to by gets_till as well.
Cells  == 0 .. Size + MaxKeys
NUL    == "NUL"
STACK  == "STACK"
PROMPT == "prompt"     \* one character for the text, as for the answer's
ANSWER == "answer"
ERASE  == <<"BS", " ", "BS">>
Char   == Keys \cup {PROMPT, ANSWER, "BS", " ", "LF", "CR"}

ASSUME NoneAssumption == NONE \notin Char

TerminalInit == /\ UartInit
                /\ pc = "init" /\ step = 1
                /\ send = <<>> /\ next = "prompt"
                /\ buf = [c \in Cells |-> STACK] /\ s = 0 /\ i = 0
                /\ typed = 0 /\ erased = 0 /\ top = 0 /\ meant = <<>>

-----------------------------------------------------------------------------

Initialise == /\ pc = "init"
              /\ uart16550_init(step)
              /\ step' = step + 1
              /\ pc' = IF step < 7 THEN "init" ELSE "prompt"
              /\ UNCHANGED <<send, next, buf, s, i, typed, erased, top, meant>>

puts(text, then) == send' = text /\ next' = then /\ pc' = "putc"

\* A turn of main's loop: buf is cleared, and gets starts behind the prompt.
Prompt == /\ pc = "prompt"
          /\ puts(<<PROMPT>>, "getc")
          /\ buf' = [c \in Cells |-> IF c < Size THEN NUL ELSE buf[c]]
          /\ s' = 0 /\ i' = 0 /\ erased' = 0 /\ top' = 0 /\ meant' = <<>>
          /\ UNCHANGED <<uartVars, step, typed>>

\* Variant for mutation testing: the transmitter is not waited for.
PollTransmitterNever == /\ pc = "putc"
                        /\ pc' = IF send = <<>> THEN next ELSE "again"
                        /\ UNCHANGED <<uartVars, dialogue, typed>>

\* The loop of puts, and putc's wait for the transmitter
PollTransmitter == /\ pc = "putc"
                   /\ IF send = <<>> THEN pc' = next ELSE thr = NONE /\ pc' = "again"
                   /\ UNCHANGED <<uartVars, dialogue, typed>>

\* Variant for mutation testing: the carriage return is a line feed again.
PutForever == /\ pc = "again"
              /\ Transmit(Head(send))
              /\ IF Head(send) = "LF" THEN UNCHANGED <<send, pc>>
                 ELSE send' = Tail(send) /\ pc' = "putc"
              /\ UNCHANGED <<step, next, buf, s, i, typed, erased, top, meant>>

\* A line feed is followed by a carriage return at once.
Put == /\ pc = "again"
       /\ Transmit(Head(send))
       /\ IF Head(send) = "LF" THEN send' = <<"CR">> \o Tail(send) /\ UNCHANGED pc
                               ELSE send' = Tail(send) /\ pc' = "putc"
       /\ UNCHANGED <<step, next, buf, s, i, typed, erased, top, meant>>

PollReceiver == /\ pc = "getc" /\ data_available
                /\ pc' = "read"
                /\ UNCHANGED <<uartVars, dialogue, typed>>

Store(ch) == buf' = [buf EXCEPT ![s] = ch] /\ top' = IF s > top THEN s ELSE top

\* Variant for mutation testing: an empty line is erased as well.
EraseAlways == /\ i' = (IF i > 0 THEN i - 1 ELSE 0)
               /\ erased' = erased + (IF i > 0 THEN 1 ELSE 0)
               /\ meant' = SubSeq(meant, 1, Len(meant) - 1)
               /\ puts(ERASE, "getc")

\* Variant for mutation testing: the erased character is still counted.
EraseUncounted == IF i > 0
                  THEN /\ erased' = erased + 1
                       /\ meant' = SubSeq(meant, 1, Len(meant) - 1)
                       /\ puts(ERASE, "getc") /\ UNCHANGED i
                  ELSE pc' = "getc" /\ UNCHANGED <<i, erased, meant, send, next>>

\* s stays where it is: what was erased remains in buf.
Erase == IF i > 0
         THEN /\ i' = i - 1 /\ erased' = erased + 1
              /\ meant' = SubSeq(meant, 1, Len(meant) - 1)
              /\ puts(ERASE, "getc")
         ELSE pc' = "getc" /\ UNCHANGED <<i, erased, meant, send, next>>

Echo(ch) == /\ puts(<<ch>>, "advance")
            /\ meant' = Append(meant, ch)

\* *s = getc(), and the switch
Read == /\ pc = "read"
        /\ Take /\ Store(Received)
        /\ \/ Received = "DEL" /\ Erase
           \/ Received = "EOT" /\ pc' = "out" /\ UNCHANGED <<i, erased, meant, send, next>>
           \/ Received \notin {"DEL", "EOT"} /\ Echo(Received) /\ UNCHANGED <<i, erased>>
        /\ UNCHANGED <<step, s, typed>>

\* Variant for mutation testing: the bound is not looked at.
AdvanceUnbounded == /\ pc = "advance"
                    /\ s' = s + 1
                    /\ IF buf[s] = "LF" THEN pc' = "out" /\ UNCHANGED i
                                        ELSE i' = i + 1 /\ pc' = "getc"
                    /\ UNCHANGED <<uartVars, step, send, next, buf, typed, erased, top, meant>>

\* while (*s++ != delim && ++i < size)
Advance == /\ pc = "advance"
           /\ s' = s + 1
           /\ IF buf[s] = "LF" THEN pc' = "out" /\ UNCHANGED i
              ELSE i' = i + 1 /\ pc' = IF i' < Size THEN "getc" ELSE "out"
           /\ UNCHANGED <<uartVars, step, send, next, buf, typed, erased, top, meant>>

\* The line is terminated and answered.
Answer == /\ pc = "out"
          /\ Store(NUL)
          /\ puts(<<ANSWER, "LF">>, "prompt")
          /\ UNCHANGED <<uartVars, step, s, i, typed, erased, meant>>

Program == Initialise \/ Prompt \/ PollTransmitter \/ Put \/ PollReceiver \/ Read \/ Advance \/ Answer

Device == /\ Load \/ Arrive
          /\ UNCHANGED <<pc, dialogue, typed>>

User == /\ typed < MaxKeys /\ typed' = typed + 1
        /\ \E ch \in Keys : Type(ch)
        /\ UNCHANGED <<pc, dialogue>>

TerminalNext == Program \/ Device \/ User

\* The processor and the device go on; the user need not.
TerminalSpec     == TerminalInit /\ [][TerminalNext]_terminalVars
TerminalFairSpec == TerminalSpec /\ WF_terminalVars(Program) /\ WF_terminalVars(Device)

-----------------------------------------------------------------------------

TerminalTypeOK == /\ pc \in {"init", "prompt", "putc", "again", "getc", "read", "advance", "out"}
                  /\ next \in {"prompt", "getc", "advance"}
                  /\ s \in Cells /\ i \in 0 .. Size /\ typed \in 0 .. MaxKeys
                  /\ DOMAIN buf = Cells /\ cursor \in 0 .. Columns - 1

\* The program waits for a key, and everything it put has arrived.
Quiet == pc = "getc" /\ thr = NONE /\ tsr = NONE

\* Erasing never goes past the prompt: the cursor is as many columns behind it
\* as there are characters in the line (tty.c:31-34), also when line feeds were
\* lost and the prompt is written over the line before.
PromptIntact == Quiet => line[0] = PROMPT /\ cursor = 1 + i

\* What stands on the screen behind the prompt is what was typed and not erased,
\* and, unless something was erased, it is what buf holds (tty.c:28-40).
EchoedIsStored == Quiet => /\ Len(meant) = i
                           /\ \A k \in 0 .. i - 1 : line[1 + k] = meant[k + 1]
                           /\ erased = 0 => \A k \in 0 .. i - 1 : buf[k] = meant[k + 1]

\* gets_till stores no further behind buf than one cell, and one more for every
\* character that was erased: an erased one is subtracted from i and not from s,
\* and the terminator of a full line has no cell of its own (tty.c:33, 40, 43).
StoreBounded == /\ top <= Size + erased
                /\ pc \in {"getc", "read", "advance"} => s = i + erased

\* The only character that may not arrive is the line feed, which the carriage
\* return is put over (uart16550.c:104-117); none is stored in the divisor
\* (uart16550.c:78-91).
OnlyLinefeedsLost == lost \subseteq {"LF"}

\* A key that has arrived is taken, whatever is being put (uart16550.c:93-107).
KeysAreTaken == data_available ~> ~data_available

=============================================================================
