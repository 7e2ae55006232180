--------------------------- MODULE TerminalProofs ---------------------------
(***************************************************************************)
(* The dialogue, for buffers of any size: how far gets stores, what the    *)
(* transmitter may lose, and that the screen shows the line that was       *)
(* typed, by what will stand on it once everything has arrived.            *)
(***************************************************************************)
EXTENDS Terminal, SequenceTheorems, TLAPS

\* Where the program goes on once everything is put
Ahead == IF pc \in {"putc", "again"} THEN next ELSE pc

CountsInv == /\ Size \in Nat /\ s \in Nat /\ i \in Nat /\ erased \in Nat /\ top \in Nat
             /\ pc \in {"init", "prompt", "putc", "again", "getc", "read", "advance", "out"}
             /\ next \in {"prompt", "getc", "advance"}

StoreInv  == /\ CountsInv
             /\ top <= Size + erased
             /\ Ahead \in {"getc", "read", "advance"} => s = i + erased /\ i < Size
             /\ pc = "out" => s <= Size + erased

LEMMA StoreStep == ASSUME StoreInv, [TerminalNext]_terminalVars
                   PROVE  StoreInv'
  <1> USE DEF StoreInv, CountsInv, Ahead
  <1>1. CASE Initialise
    BY <1>1 DEF Initialise
  <1>2. CASE Prompt
    BY <1>2, TerminalAssumption DEF Prompt, puts
  <1>3. CASE PollTransmitter
    BY <1>3 DEF PollTransmitter, dialogue
  <1>4. CASE Put
    BY <1>4 DEF Put
  <1>5. CASE PollReceiver
    BY <1>5 DEF PollReceiver, dialogue
  <1>6. CASE Read
    <2>1. pc = "read" /\ s' = s /\ top' \in {s, top} /\ s = i + erased /\ i < Size
      BY <1>6 DEF Read, Store
    <2>2. CASE Erase
      BY <2>1, <2>2 DEF Erase, puts
    <2>3. CASE pc' = "out" /\ UNCHANGED <<i, erased, meant, send, next>>
      BY <2>1, <2>3
    <2>4. CASE Echo(Received) /\ UNCHANGED <<i, erased>>
      BY <2>1, <2>4 DEF Echo, puts
    <2>5. QED BY <1>6, <2>2, <2>3, <2>4 DEF Read
  <1>7. CASE Advance
    BY <1>7 DEF Advance
  <1>8. CASE Answer
    BY <1>8 DEF Answer, puts, Store
  <1>9. CASE Device
    BY <1>9 DEF Device, dialogue
  <1>10. CASE User
    BY <1>10 DEF User, dialogue
  <1>11. CASE UNCHANGED terminalVars
    BY <1>11 DEF terminalVars, dialogue
  <1>12. QED
    BY <1>1, <1>2, <1>3, <1>4, <1>5, <1>6, <1>7, <1>8, <1>9, <1>10, <1>11
       DEF TerminalNext, Program

\* For every size of buf and however much is typed, gets_till stores at most one
\* cell behind buf and one for every erased character (tty.c:19-46).
THEOREM StoreBoundedHolds == TerminalSpec => []StoreBounded
  <1>1. TerminalInit => StoreInv
    BY TerminalAssumption DEF TerminalInit, StoreInv, CountsInv, Ahead
  <1>2. StoreInv /\ [TerminalNext]_terminalVars => StoreInv'
    BY StoreStep
  <1>3. StoreInv => StoreBounded
    BY DEF StoreInv, StoreBounded, Ahead
  <1>4. QED BY <1>1, <1>2, <1>3, PTL DEF TerminalSpec

-----------------------------------------------------------------------------

\* The seven stores of uart16550_init, by the one that is next
SettingsInv == IF pc = "init"
               THEN /\ step \in 1 .. 7 /\ thr = NONE /\ tsr = NONE
                    /\ divisor \in [lo : {0, 1}, hi : {0}]
                    /\ step \in 2 .. 4 => dlab = TRUE
                    /\ step \notin 2 .. 4 => dlab = FALSE
                    /\ step > 2 => divisor.lo = 1
               ELSE Agreed

\* putc's store finds the holding register empty, or its own line feed there.
LostInv == /\ SettingsInv
           /\ pc = "again" => thr \in {NONE, "LF"}
           /\ next \in {"prompt", "getc", "advance"}
           /\ OnlyLinefeedsLost

LEMMA LostStep == ASSUME LostInv, [TerminalNext]_terminalVars
                  PROVE  LostInv'
  <1>1. CASE Initialise
    <2>1. /\ pc = "init" /\ step \in 1 .. 7 /\ step' = step + 1
          /\ pc' = IF step < 7 THEN "init" ELSE "prompt"
          /\ lost' = lost /\ tsr' = tsr /\ next' = next
      BY <1>1 DEF Initialise, uart16550_init, LostInv, SettingsInv
    <2>2. SettingsInv'
      <3>1. CASE step = 1
        BY <1>1, <2>1, <3>1 DEF Initialise, uart16550_init, LostInv, SettingsInv
      <3>2. CASE step = 2
        BY <1>1, <2>1, <3>2 DEF Initialise, uart16550_init, LostInv, SettingsInv, StoreFirst
      <3>3. CASE step = 3
        BY <1>1, <2>1, <3>3 DEF Initialise, uart16550_init, LostInv, SettingsInv, StoreSecond
      <3>4. CASE step = 4
        BY <1>1, <2>1, <3>4 DEF Initialise, uart16550_init, LostInv, SettingsInv
      <3>5. CASE step = 5
        BY <1>1, <2>1, <3>5 DEF Initialise, uart16550_init, LostInv, SettingsInv, StoreSecond
      <3>6. CASE step = 6
        BY <1>1, <2>1, <3>6 DEF Initialise, uart16550_init, LostInv, SettingsInv, settings
      <3>7. CASE step = 7
        BY <1>1, <2>1, <3>7 DEF Initialise, uart16550_init, LostInv, SettingsInv, Agreed
      <3>8. QED BY <2>1, <3>1, <3>2, <3>3, <3>4, <3>5, <3>6, <3>7
    <2>3. QED BY <2>1, <2>2 DEF LostInv, OnlyLinefeedsLost
  <1>2. CASE Prompt
    BY <1>2 DEF Prompt, puts, LostInv, SettingsInv, Agreed, OnlyLinefeedsLost, uartVars, settings,
                receiver, transmitter
  <1>3. CASE PollTransmitter
    <2>1. /\ UNCHANGED uartVars /\ pc = "putc" /\ pc' # "init" /\ next' = next
          /\ pc' = "again" => thr = NONE
      BY <1>3 DEF PollTransmitter, LostInv, dialogue
    <2>2. QED BY <2>1 DEF LostInv, SettingsInv, Agreed, OnlyLinefeedsLost, uartVars, settings,
                          receiver, transmitter
  <1>4. CASE Put
    <2>1. pc = "again" /\ Agreed /\ thr \in {NONE, "LF"} /\ OnlyLinefeedsLost
      BY <1>4 DEF Put, LostInv, SettingsInv
    <2>2. /\ thr' = Head(send) /\ UNCHANGED <<divisor, dlab, config>>
          /\ lost' = lost \cup ({thr} \ {NONE})
      BY <1>4, <2>1 DEF Put, Transmit, StoreFirst, Agreed
    <2>3. OnlyLinefeedsLost' /\ Agreed'
      BY <2>1, <2>2 DEF OnlyLinefeedsLost, Agreed
    <2>4. pc' \in {"again", "putc"} /\ (pc' = "again" => Head(send) = "LF") /\ next' = next
      BY <1>4 DEF Put
    <2>5. next' \in {"prompt", "getc", "advance"}
      BY <2>4 DEF LostInv
    <2>6. QED BY <2>2, <2>3, <2>4, <2>5 DEF LostInv, SettingsInv
  <1>5. CASE PollReceiver
    BY <1>5 DEF PollReceiver, dialogue, LostInv, SettingsInv, Agreed, OnlyLinefeedsLost, uartVars, settings,
                receiver, transmitter
  <1>6. CASE Read
    <2>1. pc = "read" /\ pc' \in {"getc", "putc", "out"} /\ next' \in {next, "getc", "advance"}
      BY <1>6 DEF Read, Erase, Echo, puts
    <2>2. UNCHANGED <<settings, transmitter>>
      BY <1>6 DEF Read, Take
    <2>3. QED BY <2>1, <2>2 DEF LostInv, SettingsInv, Agreed, OnlyLinefeedsLost, settings,
                                transmitter
  <1>7. CASE Advance
    BY <1>7 DEF Advance, LostInv, SettingsInv, Agreed, OnlyLinefeedsLost, uartVars, settings,
                receiver, transmitter
  <1>8. CASE Answer
    BY <1>8 DEF Answer, puts, LostInv, SettingsInv, Agreed, OnlyLinefeedsLost, uartVars, settings,
                receiver, transmitter
  <1>9. CASE Device
    <2>1. pc' = pc /\ next' = next /\ UNCHANGED settings
      BY <1>9 DEF Device, Load, Arrive, dialogue
    <2>2. CASE Load
      BY <2>1, <2>2 DEF Load, LostInv, SettingsInv, Agreed, OnlyLinefeedsLost, settings
    <2>3. CASE Arrive
      <3>1. pc # "init" /\ Agreed
        BY <2>3 DEF Arrive, LostInv, SettingsInv
      <3>2. lost' = lost /\ thr' = thr
        BY <2>3, <3>1 DEF Arrive
      <3>3. QED BY <2>1, <3>1, <3>2 DEF LostInv, SettingsInv, Agreed, OnlyLinefeedsLost, settings
    <2>4. QED BY <1>9, <2>2, <2>3 DEF Device
  <1>10. CASE User
    <2>1. pc' = pc /\ UNCHANGED <<settings, transmitter>> /\ Agreed
      BY <1>10 DEF User, Type, dialogue
    <2>2. QED
      BY <1>10, <2>1 DEF User, LostInv, SettingsInv, Agreed, OnlyLinefeedsLost, settings,
                         transmitter, dialogue
  <1>11. CASE UNCHANGED terminalVars
    BY <1>11 DEF terminalVars, dialogue, LostInv, SettingsInv, Agreed, OnlyLinefeedsLost, uartVars,
                 settings, receiver, transmitter
  <1>12. QED
    BY <1>1, <1>2, <1>3, <1>4, <1>5, <1>6, <1>7, <1>8, <1>9, <1>10, <1>11
       DEF TerminalNext, Program

\* Nothing but a line feed is ever lost between putc and the terminal, although
\* putc stores twice on one look at the status (uart16550.c:104-117).
THEOREM OnlyLinefeedsLostHolds == TerminalSpec => []OnlyLinefeedsLost
  <1>1. TerminalInit => LostInv
    BY DEF TerminalInit, UartInit, LostInv, SettingsInv, OnlyLinefeedsLost
  <1>2. LostInv /\ [TerminalNext]_terminalVars => LostInv'
    BY LostStep
  <1>3. LostInv => OnlyLinefeedsLost
    BY DEF LostInv
  <1>4. QED BY <1>1, <1>2, <1>3, PTL DEF TerminalSpec

-----------------------------------------------------------------------------
(* What stands on the screen. *)

\* The screen's line with the cursor in it
Screen == [line : [0 .. Columns - 1 -> Char], cursor : Nat]

\* The screen after one more character has arrived
Shown(scr, ch) ==
  IF ch = NONE THEN scr
  ELSE IF ch = "LF" THEN [scr EXCEPT !.line = Blank]
  ELSE IF ch = "CR" THEN [scr EXCEPT !.cursor = 0]
  ELSE IF ch = "BS" THEN [scr EXCEPT !.cursor = IF scr.cursor > 0 THEN scr.cursor - 1 ELSE 0]
  ELSE [line |-> [scr.line EXCEPT ![scr.cursor] = ch], cursor |-> scr.cursor + 1]

\* The screen once what the shift register has, and then what the holding
\* register has, have arrived
AfterShift == Shown([line |-> line, cursor |-> cursor], tsr)
AfterAll   == Shown(AfterShift, thr)

\* The prompt and the first n characters of m stand in the line.
Stands(scr, m, n) == scr.line[0] = PROMPT /\ \A k \in 1 .. n : scr.line[k] = m[k]

LEMMA Characters ==
  /\ NONE \notin Char
  /\ {"LF", "CR", "BS", " ", PROMPT, ANSWER} \subseteq Char
  /\ PROMPT \notin {"LF", "CR", "BS"}
BY NoneAssumption DEF Char, PROMPT

LEMMA ShownType ==
  ASSUME NEW scr \in Screen, NEW ch \in Char \cup {NONE}
  PROVE  Shown(scr, ch) \in Screen
<1>1. Blank \in [0 .. Columns - 1 -> Char]
  BY Characters DEF Blank
<1>2. [scr.line EXCEPT ![scr.cursor] = ch] \in [0 .. Columns - 1 -> Char] \/ ch = NONE
  BY DEF Screen
<1>3. QED
  BY <1>1, <1>2 DEF Screen, Shown

\* An ordinary character is written and moves the cursor on.
LEMMA Written ==
  ASSUME NEW scr \in Screen, NEW ch \in Char, ch \notin {"LF", "CR", "BS"}
  PROVE  /\ Shown(scr, ch).line = [scr.line EXCEPT ![scr.cursor] = ch]
         /\ Shown(scr, ch).cursor = scr.cursor + 1
BY Characters DEF Shown

LEMMA PromptWritten ==
  ASSUME NEW scr \in Screen, scr.cursor = 0, NEW m
  PROVE  Stands(Shown(scr, PROMPT), m, 0) /\ Shown(scr, PROMPT).cursor = 1
<1>1. PROMPT \in Char /\ PROMPT \notin {"LF", "CR", "BS"}
  BY Characters
<1>2. 0 \in 0 .. Columns - 1 /\ scr.line \in [0 .. Columns - 1 -> Char]
  BY TerminalAssumption, ColumnsAssumption DEF Screen
<1>3. Shown(scr, PROMPT).line = [scr.line EXCEPT ![0] = PROMPT]
  BY <1>1, Written
<1>4. Shown(scr, PROMPT).cursor = 1
  <2>1. Shown(scr, PROMPT).cursor = scr.cursor + 1
    BY <1>1, Written
  <2>2. QED
    BY <2>1
<1>5. Shown(scr, PROMPT).line[0] = PROMPT
  BY <1>2, <1>3
<1>6. QED
  BY <1>4, <1>5 DEF Stands

LEMMA ExceptNext ==
  ASSUME NEW D, NEW S, NEW f \in [D -> S], NEW n \in Nat, 0 .. n \subseteq D, n + 1 \in D, NEW e
  PROVE  /\ \A k \in 0 .. n : [f EXCEPT ![1 + n] = e][k] = f[k]
         /\ [f EXCEPT ![1 + n] = e][n + 1] = e
OBVIOUS

LEMMA CharacterWritten ==
  ASSUME NEW scr \in Screen, NEW m, NEW n \in Nat, n < Size, Stands(scr, m, n),
         scr.cursor = 1 + n, NEW ch \in Char, ch \notin {"LF", "CR", "BS"}
  PROVE  /\ Shown(scr, ch).cursor = 2 + n /\ Stands(Shown(scr, ch), m, n)
         /\ m[n + 1] = ch => Stands(Shown(scr, ch), m, n + 1)
<1>1. /\ Shown(scr, ch).line = [scr.line EXCEPT ![1 + n] = ch]
      /\ Shown(scr, ch).cursor = 2 + n
  BY Written
<1>2. /\ 0 .. n \subseteq 0 .. Columns - 1 /\ n + 1 \in 0 .. Columns - 1
      /\ scr.line \in [0 .. Columns - 1 -> Char]
  BY TerminalAssumption, ColumnsAssumption DEF Screen
<1>3. /\ \A k \in 0 .. n : Shown(scr, ch).line[k] = scr.line[k]
      /\ Shown(scr, ch).line[n + 1] = ch
  <2>1. /\ \A k \in 0 .. n : [scr.line EXCEPT ![1 + n] = ch][k] = scr.line[k]
        /\ [scr.line EXCEPT ![1 + n] = ch][n + 1] = ch
    BY <1>2, ExceptNext
  <2>2. QED
    BY <1>1, <2>1
<1>4. QED
  BY <1>1, <1>3 DEF Stands

LEMMA MovedBack ==
  ASSUME NEW scr \in Screen, NEW m, NEW n \in Nat, Stands(scr, m, n), scr.cursor = 2 + n
  PROVE  Stands(Shown(scr, "BS"), m, n) /\ Shown(scr, "BS").cursor = 1 + n
<1>1. "BS" # NONE
  BY Characters
<1>2. Shown(scr, "BS").line = scr.line /\ Shown(scr, "BS").cursor = 1 + n
  BY <1>1 DEF Shown, Screen
<1>3. QED
  BY <1>2 DEF Stands

LEMMA Returned ==
  ASSUME NEW scr \in Screen
  PROVE  Shown(scr, "CR").cursor = 0
BY Characters DEF Shown, Screen

\* What the registers and the screen hold
WireInv == /\ line \in [0 .. Columns - 1 -> Char] /\ cursor \in Nat
           /\ tsr \in Char \cup {NONE} /\ thr \in Char \cup {NONE}

LEMMA WireScreens ==
  ASSUME WireInv
  PROVE  AfterShift \in Screen /\ AfterAll \in Screen
<1>1. [line |-> line, cursor |-> cursor] \in Screen
  BY DEF WireInv, Screen
<1>2. QED
  BY <1>1, ShownType DEF WireInv, AfterShift, AfterAll

\* The device on its own changes nothing of what will stand there.
LEMMA DeviceKeeps ==
  ASSUME WireInv, Load \/ Arrive
  PROVE  WireInv' /\ AfterAll' = AfterAll
<1>1. CASE Load
  BY <1>1 DEF Load, WireInv, AfterAll, AfterShift, Shown
<1>2. CASE Arrive
  <2>1. tsr \in Char /\ tsr # NONE /\ tsr' = NONE /\ thr' = thr
    BY <1>2 DEF Arrive, WireInv
  <2>2. [line |-> line', cursor |-> cursor'] = AfterShift
    BY <1>2, <2>1 DEF Arrive, AfterShift, Shown
  <2>3. [line |-> line', cursor |-> cursor'] \in Screen
    BY <2>2, WireScreens
  <2>4. line' \in [0 .. Columns - 1 -> Char] /\ cursor' \in Nat
    BY <2>3 DEF Screen
  <2>5. AfterAll' = Shown([line |-> line', cursor |-> cursor'], thr)
    BY <2>1 DEF AfterAll, AfterShift, Shown
  <2>6. QED
    BY <2>1, <2>2, <2>4, <2>5 DEF AfterAll, WireInv
<1>3. QED
  BY <1>1, <1>2

\* putc's store adds a character behind them.
LEMMA TransmitAdds ==
  ASSUME WireInv, ~dlab, NEW ch \in Char, Transmit(ch)
  PROVE  /\ WireInv'
         /\ thr = NONE => AfterAll' = Shown(AfterAll, ch)
         /\ \E scr \in Screen : AfterAll' = Shown(scr, ch)
<1>1. thr' = ch /\ UNCHANGED <<tsr, line, cursor>>
  BY DEF Transmit, StoreFirst
<1>2. AfterShift' = AfterShift
  BY <1>1 DEF AfterShift, Shown, Blank
<1>3. AfterAll' = Shown(AfterShift, ch)
  BY <1>1, <1>2 DEF AfterAll, Shown, Blank
<1>4. thr = NONE => AfterAll = AfterShift
  BY DEF AfterAll, Shown
<1>5. QED
  BY <1>1, <1>3, <1>4, WireScreens DEF WireInv


-----------------------------------------------------------------------------
(* The line and the histories of it. *)

\* A key is counted before it can be erased, so gets_till stays in Cells.
KeysInv == /\ data_available \in BOOLEAN /\ typed \in 0 .. MaxKeys
           /\ data_available => rx \in Keys
           /\ pc = "read" => data_available
           /\ erased <= typed /\ (data_available => erased < typed)

\* The first n cells of buf hold the first n characters of meant.
Stored(n) == \A k \in 0 .. n - 1 : buf[k] = meant[k + 1]

MeantInv == /\ meant \in Seq(Char) /\ DOMAIN buf = Cells
            /\ Ahead \in {"getc", "read"} => Len(meant) = i /\ (erased = 0 => Stored(i))
            /\ Ahead = "advance" => /\ Len(meant) = i + 1 /\ buf[s] = meant[i + 1]
                                    /\ meant[i + 1] \notin {"CR", "BS"}
                                    /\ erased = 0 => Stored(i + 1)

LineInv == StoreInv /\ LostInv /\ KeysInv /\ MeantInv

\* The cursor stands behind n characters of the line.
Behind(scr, n) == Stands(scr, meant, n) /\ scr.cursor = 1 + n

\* What is left to put, by what the program does then
Answering(scr) == \/ send \in {<<ANSWER, "LF">>, <<"LF">>, <<"CR">>}
                  \/ send = <<>> /\ scr.cursor = 0
Prompting(scr) == send = <<PROMPT>> /\ i = 0 /\ scr.cursor = 0
Erasing(scr)   == \/ send = ERASE /\ Stands(scr, meant, i) /\ scr.cursor = 2 + i
                  \/ send = <<" ", "BS">> /\ Behind(scr, i)
                  \/ send = <<"BS">> /\ Stands(scr, meant, i) /\ scr.cursor = 2 + i
                  \/ send = <<>> /\ Behind(scr, i)
Echoing(scr)   == \/ send = <<meant[i + 1]>> /\ Behind(scr, i)
                  \/ send \in {<<"CR">>, <<>>} /\ meant[i + 1] = "LF"
                  \/ send = <<>> /\ Behind(scr, i + 1)

PuttingInv(scr) == \/ next = "prompt" /\ Answering(scr)
                   \/ next = "getc" /\ (Prompting(scr) \/ Erasing(scr))
                   \/ next = "advance" /\ Echoing(scr)

\* What stands on the screen once everything has arrived
ScreenInv == /\ WireInv
             /\ pc \in {"init", "prompt"} => AfterAll.cursor = 0
             /\ pc \in {"putc", "again"} => PuttingInv(AfterAll)
             /\ pc = "again" => send # <<>> /\ (Head(send) = "CR" \/ thr = NONE)
             /\ pc \in {"getc", "read"} => Behind(AfterAll, i)
             /\ pc = "advance" => meant[i + 1] = "LF" \/ Behind(AfterAll, i + 1)

-----------------------------------------------------------------------------

\* The actions that leave the line as it is
LEMMA LineLeft ==
  ASSUME LineInv, [TerminalNext]_terminalVars, ~Prompt, ~Read, ~Advance, ~Answer
  PROVE  /\ UNCHANGED <<buf, s, i, erased, meant>>
         /\ \/ Ahead' = Ahead
            \/ Ahead' \in {"init", "prompt"}
            \/ Ahead = "getc" /\ Ahead' = "read"
<1>1. Initialise => UNCHANGED <<buf, s, i, erased, meant>> /\ Ahead' \in {"init", "prompt"}
  BY DEF Initialise, Ahead
<1>2. PollTransmitter => UNCHANGED <<buf, s, i, erased, meant>> /\ Ahead' = Ahead
  BY DEF PollTransmitter, dialogue, Ahead, LineInv, StoreInv, CountsInv
<1>3. Put => UNCHANGED <<buf, s, i, erased, meant>> /\ Ahead' = Ahead
  BY DEF Put, Ahead, LineInv, StoreInv, CountsInv
<1>4. PollReceiver => UNCHANGED <<buf, s, i, erased, meant>> /\ Ahead = "getc" /\ Ahead' = "read"
  BY DEF PollReceiver, dialogue, Ahead
<1>5. Device => UNCHANGED <<buf, s, i, erased, meant>> /\ Ahead' = Ahead
  BY DEF Device, dialogue, Ahead
<1>6. User \/ UNCHANGED terminalVars => UNCHANGED <<buf, s, i, erased, meant>> /\ Ahead' = Ahead
  BY DEF User, terminalVars, dialogue, Ahead
<1>7. QED
  BY <1>1, <1>2, <1>3, <1>4, <1>5, <1>6 DEF TerminalNext, Program

LEMMA KeysStep ==
  ASSUME LineInv, [TerminalNext]_terminalVars
  PROVE  KeysInv'
<1> USE DEF LineInv, KeysInv, StoreInv, CountsInv
<1>1. CASE Initialise
  BY <1>1 DEF Initialise, uart16550_init, receiver
<1>2. CASE Prompt
  BY <1>2 DEF Prompt, puts, uartVars, receiver
<1>3. CASE PollTransmitter
  BY <1>3 DEF PollTransmitter, dialogue, uartVars, receiver
<1>4. CASE Put
  BY <1>4 DEF Put, Transmit, receiver
<1>5. CASE PollReceiver
  BY <1>5 DEF PollReceiver, dialogue, uartVars, receiver
<1>6. CASE Read
  <2>1. data_available /\ data_available' = FALSE /\ typed' = typed /\ pc' # "read"
    BY <1>6 DEF Read, Take, Erase, Echo, puts
  <2>2. erased' \in Nat /\ erased' <= erased + 1
    BY <1>6 DEF Read, Erase, Echo
  <2>3. erased < typed /\ typed \in 0 .. MaxKeys /\ erased \in Nat
    BY <2>1
  <2>4. erased' <= typed' /\ typed' \in 0 .. MaxKeys
    BY <2>1, <2>2, <2>3, TerminalAssumption
  <2>5. QED
    BY <2>1, <2>4
<1>7. CASE Advance
  BY <1>7 DEF Advance, uartVars, receiver
<1>8. CASE Answer
  BY <1>8 DEF Answer, puts, uartVars, receiver
<1>9. CASE Device
  BY <1>9 DEF Device, Load, Arrive, dialogue, receiver
<1>10. CASE User
  <2>1. typed' = typed + 1 /\ typed' \in 0 .. MaxKeys /\ erased' = erased /\ pc' = pc
    BY <1>10, TerminalAssumption DEF User, dialogue
  <2>2. data_available' = TRUE /\ rx' \in Keys
    BY <1>10 DEF User, Type
  <2>3. QED
    BY <2>1, <2>2
<1>11. CASE UNCHANGED terminalVars
  BY <1>11 DEF terminalVars, dialogue, uartVars, receiver
<1>12. QED
  BY <1>1, <1>2, <1>3, <1>4, <1>5, <1>6, <1>7, <1>8, <1>9, <1>10, <1>11
     DEF TerminalNext, Program

\* The cell gets_till is at
LEMMA InCells ==
  ASSUME LineInv, Ahead \in {"getc", "read", "advance"}
  PROVE  s \in Cells /\ s = i + erased /\ i \in Nat /\ i < Size /\ erased \in Nat
BY TerminalAssumption DEF LineInv, StoreInv, CountsInv, KeysInv, Cells

\* What getc returns, unless the user types a backspace
LEMMA ReceivedKey ==
  ASSUME LineInv, pc = "read", "BS" \notin Keys
  PROVE  Received \in Char \ {"CR", "BS"}
BY Characters DEF LineInv, KeysInv, Received, Char

LEMMA Shortened ==
  ASSUME NEW S, NEW m \in Seq(S), NEW n \in Nat, n <= Len(m)
  PROVE  SubSeq(m, 1, n) \in Seq(S)
OBVIOUS

LEMMA ShortenedLen ==
  ASSUME NEW S, NEW m \in Seq(S), NEW n \in Nat, n <= Len(m)
  PROVE  Len(SubSeq(m, 1, n)) = n
OBVIOUS

LEMMA ShortenedElements ==
  ASSUME NEW S, NEW m \in Seq(S), NEW n \in Nat, n <= Len(m), NEW k \in 1 .. n
  PROVE  SubSeq(m, 1, n)[k] = m[k]
OBVIOUS

LEMMA MeantStep ==
  ASSUME LineInv, [TerminalNext]_terminalVars, "BS" \notin Keys
  PROVE  MeantInv'
<1>1. CASE Prompt
  <2>1. buf' = [c \in Cells |-> IF c < Size THEN NUL ELSE buf[c]] /\ meant' = <<>> /\ i' = 0
    BY <1>1 DEF Prompt
  <2>2. Ahead' = "getc"
    BY <1>1 DEF Prompt, puts, Ahead
  <2>3. meant' \in Seq(Char) /\ Len(meant') = 0 /\ DOMAIN buf' = Cells
    BY <2>1
  <2>4. Stored(i)'
    BY <2>1 DEF Stored
  <2>5. QED
    BY <2>1, <2>2, <2>3, <2>4 DEF MeantInv
<1>2. CASE Read
  <2>1. Ahead = "read" /\ s \in Cells /\ s = i + erased /\ i \in Nat /\ i < Size /\ erased \in Nat
    BY <1>2, InCells DEF Read, Ahead
  <2>2. meant \in Seq(Char) /\ Len(meant) = i /\ DOMAIN buf = Cells /\ (erased = 0 => Stored(i))
    BY <2>1 DEF LineInv, MeantInv
  <2>3. buf' = [buf EXCEPT ![s] = Received] /\ s' = s
    BY <1>2 DEF Read, Store
  <2>4. DOMAIN buf' = Cells /\ buf'[s] = Received /\ \A c \in Cells \ {s} : buf'[c] = buf[c]
    BY <2>1, <2>2, <2>3
  <2>5. CASE Erase /\ i > 0
    <3>1. i' = i - 1 /\ erased' = erased + 1 /\ meant' = SubSeq(meant, 1, i - 1) /\ Ahead' = "getc"
      BY <2>2, <2>5 DEF Erase, puts, Ahead
    <3>2. meant' \in Seq(Char) /\ Len(meant') = i'
      BY <2>1, <2>2, <2>5, <3>1, Shortened, ShortenedLen
    <3>3. erased' # 0
      BY <2>1, <3>1
    <3>4. QED
      BY <2>4, <3>1, <3>2, <3>3 DEF MeantInv
  <2>6. CASE Erase /\ ~(i > 0)
    <3>1. UNCHANGED <<i, meant>> /\ Ahead' = "getc" /\ i' = 0
      BY <2>1, <2>6 DEF Erase, Ahead
    <3>2. Stored(i)'
      BY <3>1 DEF Stored
    <3>3. QED
      BY <2>2, <2>4, <3>1, <3>2 DEF MeantInv
  <2>7. CASE pc' = "out" /\ UNCHANGED <<i, erased, meant, send, next>>
    BY <2>2, <2>4, <2>7 DEF MeantInv, Ahead
  <2>8. CASE Echo(Received) /\ UNCHANGED <<i, erased>>
    <3>1. meant' = Append(meant, Received) /\ Ahead' = "advance" /\ i' = i /\ erased' = erased
      BY <2>8 DEF Echo, puts, Ahead
    <3>2. Received \in Char \ {"CR", "BS"}
      BY <1>2, ReceivedKey DEF Read
    <3>3. /\ meant' \in Seq(Char) /\ Len(meant') = i + 1 /\ meant'[i + 1] = Received
          /\ \A k \in 1 .. i : meant'[k] = meant[k]
      BY <2>2, <3>1, <3>2, AppendProperties
    <3>4. erased = 0 => Stored(i + 1)'
      <4>1. SUFFICES ASSUME erased = 0, NEW k \in 0 .. i  PROVE  buf'[k] = meant'[k + 1]
        <5>1. (i + 1)' - 1 = i
          BY <2>1, <3>1
        <5>2. QED
          BY <5>1 DEF Stored
      <4>2. s = i
        BY <2>1, <4>1
      <4>3. CASE k = i
        BY <2>4, <3>3, <4>2, <4>3
      <4>4. CASE k # i
        <5>1. k \in Cells \ {s} /\ k \in 0 .. i - 1 /\ k + 1 \in 1 .. i
          BY <2>1, <4>1, <4>2, <4>4, TerminalAssumption DEF Cells
        <5>2. buf[k] = meant[k + 1]
          BY <2>2, <4>1, <5>1 DEF Stored
        <5>3. QED
          BY <2>4, <3>3, <5>1, <5>2
      <4>5. QED
        BY <4>3, <4>4
    <3>5. QED
      BY <2>3, <2>4, <3>1, <3>2, <3>3, <3>4 DEF MeantInv
  <2>9. QED
    BY <1>2, <2>5, <2>6, <2>7, <2>8 DEF Read
<1>3. CASE Advance
  <2>1. /\ Ahead = "advance" /\ UNCHANGED <<buf, erased, meant>>
        /\ \/ Ahead' = "getc" /\ i' = i + 1
           \/ Ahead' = "out"
    BY <1>3 DEF Advance, Ahead
  <2>2. /\ meant \in Seq(Char) /\ Len(meant) = i + 1 /\ DOMAIN buf = Cells
        /\ erased = 0 => Stored(i + 1)
    BY <2>1 DEF LineInv, MeantInv
  <2>3. CASE Ahead' = "getc" /\ i' = i + 1
    <3>1. Stored(i + 1) => Stored(i)'
      BY <2>1, <2>3 DEF Stored
    <3>2. QED
      BY <2>1, <2>2, <2>3, <3>1 DEF MeantInv
  <2>4. CASE Ahead' = "out"
    BY <2>1, <2>2, <2>4 DEF MeantInv
  <2>5. QED
    BY <2>1, <2>3, <2>4
<1>4. CASE Answer
  <2>1. Ahead' = "prompt" /\ meant' = meant /\ buf' = [buf EXCEPT ![s] = NUL]
    BY <1>4 DEF Answer, puts, Ahead, Store
  <2>2. QED
    BY <2>1 DEF LineInv, MeantInv
<1>5. CASE ~Prompt /\ ~Read /\ ~Advance /\ ~Answer
  <2>1. UNCHANGED <<buf, s, i, erased, meant>> /\ (Stored(i)' <=> Stored(i))
        /\ (Stored(i + 1)' <=> Stored(i + 1))
    BY <1>5, LineLeft DEF Stored
  <2>2. CASE Ahead' = Ahead
    BY <2>1, <2>2 DEF LineInv, MeantInv
  <2>3. CASE Ahead' \in {"init", "prompt"}
    BY <2>1, <2>3 DEF LineInv, MeantInv
  <2>4. CASE Ahead = "getc" /\ Ahead' = "read"
    BY <2>1, <2>4 DEF LineInv, MeantInv
  <2>5. QED
    BY <1>5, <2>2, <2>3, <2>4, LineLeft
<1>6. QED
  BY <1>1, <1>2, <1>3, <1>4, <1>5

LEMMA LineStep ==
  ASSUME LineInv, [TerminalNext]_terminalVars, "BS" \notin Keys
  PROVE  LineInv'
BY StoreStep, LostStep, KeysStep, MeantStep DEF LineInv

-----------------------------------------------------------------------------

\* A step that leaves the transmitter alone changes nothing of what will stand there.
LEMMA WireLeft ==
  ASSUME WireInv, UNCHANGED transmitter
  PROVE  WireInv' /\ AfterAll' = AfterAll
BY DEF WireInv, transmitter, AfterAll, AfterShift, Shown, Blank

LEMMA ScreenLeft ==
  ASSUME ScreenInv, WireInv', AfterAll' = AfterAll, thr' \in {thr, NONE},
         UNCHANGED <<pc, send, next, i, meant>>
  PROVE  ScreenInv'
<1> DEFINE scr == AfterAll
<1>1. scr' = scr
  OBVIOUS
<1>2. Behind(scr, i)' = Behind(scr, i) /\ Behind(scr, i + 1)' = Behind(scr, i + 1)
  BY <1>1 DEF Behind, Stands
<1>3. PuttingInv(scr)' = PuttingInv(scr)
  BY <1>1 DEF PuttingInv, Answering, Prompting, Erasing, Echoing, Behind, Stands
<1>4. QED
  BY <1>1, <1>2, <1>3 DEF ScreenInv

LEMMA Agreement ==
  ASSUME LineInv, pc # "init"
  PROVE  ~dlab
BY DEF LineInv, LostInv, SettingsInv, Agreed

LEMMA HeadsAndTails ==
  ASSUME NEW a, NEW b, NEW c
  PROVE  /\ Head(<<a, b, c>>) = a /\ Tail(<<a, b, c>>) = <<b, c>>
         /\ Head(<<a, b>>) = a /\ Tail(<<a, b>>) = <<b>>
         /\ Head(<<a>>) = a /\ Tail(<<a>>) = <<>>
OBVIOUS

LEMMA TextsPut ==
  /\ Head(<<"BS", " ", "BS">>) = "BS" /\ Tail(<<"BS", " ", "BS">>) = <<" ", "BS">>
  /\ Head(<<" ", "BS">>) = " " /\ Tail(<<" ", "BS">>) = <<"BS">>
  /\ Head(<<ANSWER, "LF">>) = ANSWER /\ Tail(<<ANSWER, "LF">>) = <<"LF">>
  /\ \A ch : Head(<<ch>>) = ch /\ Tail(<<ch>>) = <<>>
<1>1. Head(<<"BS", " ", "BS">>) = "BS" /\ Tail(<<"BS", " ", "BS">>) = <<" ", "BS">>
  <2>1. \A a, b, c : Head(<<a, b, c>>) = a /\ Tail(<<a, b, c>>) = <<b, c>>
    OBVIOUS
  <2>2. QED
    BY <2>1, Zenon
<1>2. Head(<<" ", "BS">>) = " " /\ Tail(<<" ", "BS">>) = <<"BS">>
  BY HeadsAndTails, Zenon
<1>3. Head(<<ANSWER, "LF">>) = ANSWER /\ Tail(<<ANSWER, "LF">>) = <<"LF">>
  BY HeadsAndTails, Zenon
<1>4. \A ch : Head(<<ch>>) = ch /\ Tail(<<ch>>) = <<>>
  BY HeadsAndTails, Zenon
<1>5. QED
  BY <1>1, <1>2, <1>3, <1>4

\* Putting the answer, the prompt, the three characters that erase one, an echo
LEMMA AnswerPut ==
  ASSUME LineInv, ScreenInv, Put, next = "prompt"
  PROVE  PuttingInv(AfterAll)'
<1>1. pc = "again" /\ send # <<>> /\ next' = next /\ ~dlab /\ WireInv /\ Transmit(Head(send))
  BY Agreement DEF Put, ScreenInv
<1>2. send \in {<<ANSWER, "LF">>, <<"LF">>, <<"CR">>}
  BY <1>1 DEF ScreenInv, PuttingInv, Answering
<1>3. CASE send = <<ANSWER, "LF">>
  <2>1. send' = <<"LF">>
    BY <1>3 DEF Put, ANSWER
  <2>2. QED
    BY <1>1, <2>1 DEF PuttingInv, Answering
<1>4. CASE send = <<"LF">>
  <2>1. send' = <<"CR">>
    BY <1>4 DEF Put
  <2>2. QED
    BY <1>1, <2>1 DEF PuttingInv, Answering
<1>5. CASE send = <<"CR">>
  <2>1. send' = <<>> /\ Head(send) = "CR"
    BY <1>5 DEF Put
  <2>2. AfterAll'.cursor = 0
    BY <1>1, <2>1, TransmitAdds, Returned, Characters
  <2>3. QED
    BY <1>1, <2>1, <2>2 DEF PuttingInv, Answering
<1>6. QED
  BY <1>2, <1>3, <1>4, <1>5

LEMMA PromptPut ==
  ASSUME LineInv, ScreenInv, Put, next = "getc", send = <<PROMPT>>, i = 0, AfterAll.cursor = 0, thr = NONE
  PROVE  PuttingInv(AfterAll)'
<1>1. pc = "again" /\ next' = next /\ ~dlab /\ WireInv /\ Transmit(PROMPT)
      /\ send' = <<>> /\ i' = 0
  BY Agreement DEF Put, ScreenInv, PROMPT
<1>2. AfterAll' = Shown(AfterAll, PROMPT) /\ AfterAll \in Screen
  BY <1>1, TransmitAdds, Characters, WireScreens
<1>3. Stands(AfterAll', meant', 0) /\ AfterAll'.cursor = 1
  BY <1>2, PromptWritten
<1>4. Behind(AfterAll, i)'
  BY <1>1, <1>3 DEF Behind
<1>5. QED
  BY <1>1, <1>4 DEF PuttingInv, Erasing

LEMMA ErasePut ==
  ASSUME LineInv, ScreenInv, Put, next = "getc", Erasing(AfterAll), thr = NONE
  PROVE  PuttingInv(AfterAll)'
<1>1. pc = "again" /\ send # <<>> /\ next' = next /\ ~dlab /\ WireInv /\ Transmit(Head(send))
      /\ i' = i /\ meant' = meant
  BY Agreement DEF Put, ScreenInv
<1>2. i \in Nat /\ i < Size
  BY <1>1, InCells DEF Ahead
<1>3. AfterAll \in Screen /\ {"BS", " "} \subseteq Char
  BY <1>1, WireScreens, Characters
<1>4. ASSUME send \in {ERASE, <<"BS">>}, Stands(AfterAll, meant, i), AfterAll.cursor = 2 + i
      PROVE  Behind(AfterAll, i)' /\ send' = Tail(send)
  <2>1. Head(send) = "BS" /\ send' = Tail(send)
    <3>1. Head(ERASE) = "BS" /\ Head(<<"BS">>) = "BS"
      BY TextsPut DEF ERASE
    <3>2. Head(send) = "BS"
      BY <1>4, <3>1
    <3>3. QED
      BY <3>2 DEF Put
  <2>2. AfterAll' = Shown(AfterAll, "BS")
    BY <1>1, <1>3, <2>1, TransmitAdds
  <2>3. QED
    BY <1>1, <1>2, <1>3, <1>4, <2>1, <2>2, MovedBack DEF Behind
<1>5. ASSUME send = <<" ", "BS">>, Behind(AfterAll, i)
      PROVE  Stands(AfterAll, meant, i)' /\ AfterAll'.cursor = 2 + i /\ send' = <<"BS">>
  <2>1. Head(send) = " " /\ send' = <<"BS">>
    <3>1. Head(send) = " " /\ Tail(send) = <<"BS">>
      BY <1>5, HeadsAndTails
    <3>2. QED
      BY <3>1 DEF Put
  <2>2. AfterAll' = Shown(AfterAll, " ")
    BY <1>1, <1>3, <2>1, TransmitAdds
  <2>3. QED
    BY <1>1, <1>2, <1>3, <1>5, <2>1, <2>2, CharacterWritten DEF Behind
<1>6. CASE send = ERASE /\ Stands(AfterAll, meant, i) /\ AfterAll.cursor = 2 + i
  <2>1. Tail(ERASE) = <<" ", "BS">>
    BY TextsPut DEF ERASE
  <2>2. QED
    BY <1>1, <1>4, <1>6, <2>1 DEF PuttingInv, Erasing
<1>7. CASE send = <<" ", "BS">> /\ Behind(AfterAll, i)
  BY <1>1, <1>5, <1>7 DEF PuttingInv, Erasing
<1>8. CASE send = <<"BS">> /\ Stands(AfterAll, meant, i) /\ AfterAll.cursor = 2 + i
  <2>1. Tail(<<"BS">>) = <<>>
    OBVIOUS
  <2>2. QED
    BY <1>1, <1>4, <1>8, <2>1 DEF PuttingInv, Erasing
<1>9. QED
  BY <1>1, <1>6, <1>7, <1>8 DEF Erasing

LEMMA EchoPut ==
  ASSUME LineInv, ScreenInv, Put, next = "advance"
  PROVE  PuttingInv(AfterAll)'
<1>1. pc = "again" /\ send # <<>> /\ next' = next /\ ~dlab /\ WireInv /\ Transmit(Head(send))
      /\ i' = i /\ meant' = meant
  BY Agreement DEF Put, ScreenInv
<1>2. i \in Nat /\ i < Size /\ meant \in Seq(Char) /\ Len(meant) = i + 1 /\ meant[i + 1] \notin {"CR", "BS"}
  BY <1>1, InCells DEF Ahead, LineInv, MeantInv
<1>3. AfterAll \in Screen /\ meant[i + 1] \in Char
  BY <1>1, <1>2, WireScreens
<1>4. CASE send = <<meant[i + 1]>> /\ Behind(AfterAll, i) /\ meant[i + 1] # "LF"
  <2>1. Head(send) = meant[i + 1] /\ send' = <<>>
    BY <1>4 DEF Put
  <2>2. thr = NONE
    BY <1>1, <1>2, <2>1 DEF ScreenInv
  <2>3. AfterAll' = Shown(AfterAll, meant[i + 1])
    BY <1>1, <1>3, <2>1, <2>2, TransmitAdds
  <2>4. Behind(AfterAll, i + 1)'
    BY <1>1, <1>2, <1>3, <1>4, <2>3, CharacterWritten DEF Behind
  <2>5. QED
    BY <1>1, <2>1, <2>4 DEF PuttingInv, Echoing
<1>5. CASE send = <<meant[i + 1]>> /\ meant[i + 1] = "LF"
  <2>1. send' = <<"CR">>
    BY <1>5 DEF Put
  <2>2. QED
    BY <1>1, <1>5, <2>1 DEF PuttingInv, Echoing
<1>6. CASE send = <<"CR">> /\ meant[i + 1] = "LF"
  <2>1. send' = <<>>
    BY <1>6 DEF Put
  <2>2. QED
    BY <1>1, <1>6, <2>1 DEF PuttingInv, Echoing
<1>7. QED
  BY <1>1, <1>4, <1>5, <1>6 DEF ScreenInv, PuttingInv, Echoing

LEMMA PutStep ==
  ASSUME LineInv, ScreenInv, Put
  PROVE  ScreenInv'
<1>1. /\ pc = "again" /\ ~dlab /\ send # <<>> /\ WireInv /\ Transmit(Head(send))
      /\ PuttingInv(AfterAll) /\ pc' \in {"again", "putc"}
      /\ pc' = "again" => Head(send) = "LF" /\ send' = <<"CR">> \o Tail(send)
  BY Agreement DEF Put, ScreenInv
<1>2. Head(send) \in Char
  <2>1. next = "advance" => meant[i + 1] \in Char
    BY <1>1, InCells DEF Ahead, LineInv, MeantInv
  <2>2. CASE next = "prompt"
    <3>1. send \in {<<ANSWER, "LF">>, <<"LF">>, <<"CR">>}
      BY <1>1, <2>2 DEF PuttingInv, Answering
    <3>2. Head(send) \in {ANSWER, "LF", "CR"}
      BY <3>1, TextsPut
    <3>3. QED
      BY <3>2, Characters
  <2>3. CASE next = "getc"
    <3>1. send \in {<<PROMPT>>, <<"BS", " ", "BS">>, <<" ", "BS">>, <<"BS">>}
      BY <1>1, <2>3 DEF PuttingInv, Prompting, Erasing, ERASE
    <3>2. Head(send) \in {PROMPT, "BS", " "}
      BY <3>1, TextsPut
    <3>3. QED
      BY <3>2, Characters
  <2>4. CASE next = "advance"
    <3>1. send \in {<<meant[i + 1]>>, <<"CR">>}
      BY <1>1, <2>4 DEF PuttingInv, Echoing
    <3>2. Head(send) \in {meant[i + 1], "CR"}
      BY <3>1, TextsPut
    <3>3. QED
      BY <2>1, <2>4, <3>2, Characters
  <2>5. QED
    BY <1>1, <2>2, <2>3, <2>4 DEF PuttingInv
<1>3. WireInv'
  BY <1>1, <1>2, TransmitAdds
<1>4. PuttingInv(AfterAll)'
  <2>1. CASE next = "prompt"
    BY <2>1, AnswerPut
  <2>2. CASE next = "getc"
    <3>1. Head(send) # "CR"
      <4>1. send \in {<<PROMPT>>, <<"BS", " ", "BS">>, <<" ", "BS">>, <<"BS">>}
        BY <1>1, <2>2 DEF PuttingInv, Prompting, Erasing, ERASE
      <4>2. Head(send) \in {PROMPT, "BS", " "}
        BY <4>1, TextsPut
      <4>3. QED
        BY <4>2 DEF PROMPT
    <3>2. thr = NONE
      BY <1>1, <3>1 DEF ScreenInv
    <3>3. QED
      BY <1>1, <2>2, <3>2, PromptPut, ErasePut DEF PuttingInv, Prompting
  <2>3. CASE next = "advance"
    BY <2>3, EchoPut
  <2>4. QED
    BY <1>1, <2>1, <2>2, <2>3 DEF PuttingInv
<1>5. pc' = "again" => send' # <<>> /\ Head(send') = "CR"
  <2>1. SUFFICES ASSUME pc' = "again"  PROVE  send' # <<>> /\ Head(send') = "CR"
    OBVIOUS
  <2>2. Head(send) = "LF" /\ send' = <<"CR">> \o Tail(send)
    BY <1>1, <2>1
  <2>3. CASE next = "prompt"
    <3>1. send \in {<<ANSWER, "LF">>, <<"LF">>, <<"CR">>}
      BY <1>1, <2>3 DEF PuttingInv, Answering
    <3>2. send = <<ANSWER, "LF">> => Head(send) = ANSWER
      BY TextsPut
    <3>3. send # <<ANSWER, "LF">>
      BY <2>2, <3>2 DEF ANSWER
    <3>4. Tail(send) = <<>>
      BY <3>1, <3>3, TextsPut
    <3>5. QED
      BY <2>2, <3>4
  <2>4. CASE next = "getc"
    <3>1. send \in {<<PROMPT>>, <<"BS", " ", "BS">>, <<" ", "BS">>, <<"BS">>}
      BY <1>1, <2>4 DEF PuttingInv, Prompting, Erasing, ERASE
    <3>2. Head(send) \in {PROMPT, "BS", " "}
      BY <3>1, TextsPut
    <3>3. QED
      BY <2>2, <3>2 DEF PROMPT
  <2>5. CASE next = "advance"
    <3>1. send \in {<<meant[i + 1]>>, <<"CR">>}
      BY <1>1, <2>5 DEF PuttingInv, Echoing
    <3>2. Tail(send) = <<>>
      BY <3>1, TextsPut
    <3>3. QED
      BY <2>2, <3>2
  <2>6. QED
    BY <1>1, <2>3, <2>4, <2>5 DEF PuttingInv
<1>6. QED
  BY <1>1, <1>3, <1>4, <1>5 DEF ScreenInv

LEMMA StandsSame ==
  ASSUME NEW scr, NEW m, NEW n \in Nat, NEW mm, NEW nn \in 0 .. n, Stands(scr, m, n),
         \A k \in 1 .. nn : mm[k] = m[k]
  PROVE  Stands(scr, mm, nn)
BY DEF Stands

LEMMA ReadStep ==
  ASSUME LineInv, ScreenInv, Read
  PROVE  ScreenInv'
<1>1. pc = "read" /\ UNCHANGED transmitter /\ WireInv /\ Behind(AfterAll, i)
  BY DEF Read, Take, ScreenInv
<1>2. WireInv' /\ AfterAll' = AfterAll
  BY <1>1, WireLeft
<1>3. i \in Nat /\ i < Size /\ meant \in Seq(Char) /\ Len(meant) = i
  BY <1>1, InCells DEF Ahead, LineInv, MeantInv
<1>4. Stands(AfterAll, meant, i) /\ AfterAll.cursor = 1 + i
  BY <1>1 DEF Behind
<1>5. CASE Erase /\ i > 0
  <2>1. /\ i' = i - 1 /\ meant' = SubSeq(meant, 1, i - 1) /\ send' = ERASE /\ next' = "getc"
        /\ pc' = "putc"
    BY <1>3, <1>5 DEF Erase, puts
  <2>2. i - 1 \in Nat /\ i - 1 <= Len(meant) /\ i - 1 \in 0 .. i
    BY <1>3, <1>5
  <2>3. \A k \in 1 .. i - 1 : meant'[k] = meant[k]
    BY <1>3, <2>1, <2>2, ShortenedElements
  <2>4. Stands(AfterAll, meant', i - 1)
    BY <1>3, <1>4, <2>2, <2>3, StandsSame
  <2>5. AfterAll'.cursor = 2 + i'
    BY <1>2, <1>3, <1>4, <2>1
  <2>6. Erasing(AfterAll)'
    BY <1>2, <2>1, <2>4, <2>5 DEF Erasing, ERASE
  <2>7. QED
    BY <1>2, <2>1, <2>6 DEF ScreenInv, PuttingInv
<1>6. CASE Erase /\ ~(i > 0)
  <2>1. pc' = "getc" /\ UNCHANGED <<i, meant>>
    BY <1>6 DEF Erase
  <2>2. Behind(AfterAll, i)'
    BY <1>2, <1>4, <2>1 DEF Behind
  <2>3. QED
    BY <1>2, <2>1, <2>2 DEF ScreenInv
<1>7. CASE pc' = "out"
  BY <1>2, <1>7 DEF ScreenInv
<1>8. CASE Echo(Received) /\ i' = i
  <2>1. meant' = Append(meant, Received) /\ send' = <<Received>> /\ next' = "advance" /\ pc' = "putc"
    BY <1>8 DEF Echo, puts
  <2>2. meant'[i + 1] = Received /\ \A k \in 1 .. i : meant'[k] = meant[k]
    BY <1>3, <2>1, AppendProperties
  <2>3. Stands(AfterAll, meant', i)
    BY <1>3, <1>4, <2>2, StandsSame
  <2>4. Behind(AfterAll, i)'
    BY <1>2, <1>4, <1>8, <2>3 DEF Behind
  <2>5. QED
    BY <1>2, <1>8, <2>1, <2>2, <2>4 DEF ScreenInv, PuttingInv, Echoing
<1>9. QED
  BY <1>5, <1>6, <1>7, <1>8 DEF Read

\* What an empty text leaves, and where the program goes on
LEMMA PutAll ==
  ASSUME LineInv, ScreenInv, pc = "putc", send = <<>>
  PROVE  /\ next = "prompt" => AfterAll.cursor = 0
         /\ next = "getc" => Behind(AfterAll, i)
         /\ next = "advance" => meant[i + 1] = "LF" \/ Behind(AfterAll, i + 1)
BY DEF ScreenInv, PuttingInv, Answering, Prompting, Erasing, Echoing, ERASE

LEMMA ScreenStep ==
  ASSUME LineInv, ScreenInv, [TerminalNext]_terminalVars
  PROVE  ScreenInv'
<1>1. WireInv
  BY DEF ScreenInv
<1>2. CASE Initialise
  <2>1. pc = "init" /\ pc' \in {"init", "prompt"} /\ UNCHANGED <<tsr, line, cursor>> /\ step \in 1 .. 7
        /\ (step = 2 => dlab = TRUE)
    BY <1>2 DEF Initialise, uart16550_init, LineInv, LostInv, SettingsInv
  <2>2. UNCHANGED thr
    BY <1>2, <2>1 DEF Initialise, uart16550_init, StoreFirst
  <2>3. WireInv' /\ AfterAll' = AfterAll
    BY <1>1, <2>1, <2>2 DEF WireInv, AfterAll, AfterShift, Shown, Blank
  <2>4. QED
    BY <2>1, <2>3 DEF ScreenInv
<1>3. CASE Prompt
  <2>1. pc = "prompt" /\ UNCHANGED transmitter /\ send' = <<PROMPT>> /\ next' = "getc" /\ i' = 0
        /\ pc' = "putc"
    BY <1>3 DEF Prompt, puts, uartVars
  <2>2. WireInv' /\ AfterAll' = AfterAll /\ AfterAll.cursor = 0
    BY <1>1, <2>1, WireLeft DEF ScreenInv
  <2>3. QED
    BY <2>1, <2>2 DEF ScreenInv, PuttingInv, Prompting
<1>4. CASE PollTransmitter
  <2>1. pc = "putc" /\ UNCHANGED <<transmitter, send, next, i, meant>>
    BY <1>4 DEF PollTransmitter, dialogue, uartVars
  <2>2. WireInv' /\ AfterAll' = AfterAll
    BY <1>1, <2>1, WireLeft
  <2>3. CASE send = <<>>
    <3>1. pc' = next /\ next \in {"prompt", "getc", "advance"}
      BY <1>4, <2>3 DEF PollTransmitter, LineInv, LostInv
    <3>2. Behind(AfterAll, i)' = Behind(AfterAll, i) /\ Behind(AfterAll, i + 1)' = Behind(AfterAll, i + 1)
      BY <2>1, <2>2 DEF Behind, Stands
    <3>3. QED
      BY <2>1, <2>2, <2>3, <3>1, <3>2, PutAll DEF ScreenInv
  <2>4. CASE send # <<>>
    <3>1. pc' = "again" /\ thr = NONE /\ thr' = thr
      BY <1>4, <2>1, <2>4 DEF PollTransmitter, transmitter
    <3>2. PuttingInv(AfterAll)' = PuttingInv(AfterAll)
      BY <2>1, <2>2 DEF PuttingInv, Answering, Prompting, Erasing, Echoing, Behind, Stands
    <3>3. QED
      BY <2>1, <2>2, <2>4, <3>1, <3>2 DEF ScreenInv
  <2>5. QED
    BY <2>3, <2>4
<1>5. CASE Put
  BY <1>5, PutStep
<1>6. CASE PollReceiver
  <2>1. pc = "getc" /\ pc' = "read" /\ UNCHANGED <<transmitter, i, meant>>
    BY <1>6 DEF PollReceiver, dialogue, uartVars
  <2>2. WireInv' /\ AfterAll' = AfterAll
    BY <1>1, <2>1, WireLeft
  <2>3. Behind(AfterAll, i)' = Behind(AfterAll, i)
    BY <2>1, <2>2 DEF Behind, Stands
  <2>4. QED
    BY <2>1, <2>2, <2>3 DEF ScreenInv
<1>7. CASE Read
  BY <1>7, ReadStep
<1>8. CASE Advance
  <2>1. pc = "advance" /\ UNCHANGED <<transmitter, meant>>
        /\ \/ pc' = "out"
           \/ pc' = "getc" /\ i' = i + 1 /\ buf[s] # "LF"
    BY <1>8 DEF Advance, uartVars
  <2>2. WireInv' /\ AfterAll' = AfterAll
    BY <1>1, <2>1, WireLeft
  <2>3. CASE pc' = "out"
    BY <2>2, <2>3 DEF ScreenInv
  <2>4. CASE pc' = "getc" /\ i' = i + 1 /\ buf[s] # "LF"
    <3>1. buf[s] = meant[i + 1]
      BY <2>1 DEF LineInv, MeantInv, Ahead
    <3>2. Behind(AfterAll, i + 1)
      BY <2>1, <2>4, <3>1 DEF ScreenInv
    <3>3. Behind(AfterAll, i)'
      BY <2>1, <2>2, <2>4, <3>2 DEF Behind, Stands
    <3>4. QED
      BY <2>2, <2>4, <3>3 DEF ScreenInv
  <2>5. QED
    BY <2>1, <2>3, <2>4
<1>9. CASE Answer
  <2>1. UNCHANGED transmitter /\ send' = <<ANSWER, "LF">> /\ next' = "prompt" /\ pc' = "putc"
    BY <1>9 DEF Answer, puts, uartVars
  <2>2. WireInv'
    BY <1>1, <2>1, WireLeft
  <2>3. QED
    BY <2>1, <2>2 DEF ScreenInv, PuttingInv, Answering
<1>10. CASE Device
  <2>1. UNCHANGED <<pc, send, next, i, meant>> /\ thr' \in {thr, NONE} /\ (Load \/ Arrive)
    BY <1>10 DEF Device, dialogue, Load, Arrive
  <2>2. QED
    BY <1>1, <2>1, DeviceKeeps, ScreenLeft
<1>11. CASE User \/ UNCHANGED terminalVars
  <2>1. UNCHANGED <<pc, send, next, i, meant, transmitter>> /\ thr' = thr
    BY <1>11 DEF User, Type, terminalVars, dialogue, uartVars, transmitter
  <2>2. QED
    BY <1>1, <2>1, WireLeft, ScreenLeft
<1>12. QED
  BY <1>2, <1>3, <1>4, <1>5, <1>6, <1>7, <1>8, <1>9, <1>10, <1>11 DEF TerminalNext, Program

LEMMA DialogueStarts == TerminalInit => LineInv /\ ScreenInv
<1> SUFFICES ASSUME TerminalInit  PROVE LineInv /\ ScreenInv
  OBVIOUS
<1>1. StoreInv
  BY TerminalAssumption DEF TerminalInit, StoreInv, CountsInv, Ahead
<1>2. LostInv
  BY DEF TerminalInit, UartInit, LostInv, SettingsInv, OnlyLinefeedsLost
<1>3. KeysInv
  <2>1. typed \in 0 .. MaxKeys /\ erased <= typed
    BY TerminalAssumption DEF TerminalInit
  <2>2. data_available = FALSE /\ pc # "read"
    BY DEF TerminalInit, UartInit
  <2>3. QED
    BY <2>1, <2>2 DEF KeysInv
<1>4. MeantInv
  <2>1. meant = <<>> /\ DOMAIN buf = Cells /\ Ahead = "init"
    BY DEF TerminalInit, Ahead
  <2>2. QED
    BY <2>1 DEF MeantInv
<1>5. ScreenInv
  <2>1. thr = NONE /\ tsr = NONE /\ cursor = 0 /\ line = Blank /\ pc = "init"
    BY DEF TerminalInit, UartInit
  <2>2. Blank \in [0 .. Columns - 1 -> Char]
    BY Characters DEF Blank
  <2>3. AfterAll.cursor = 0
    BY <2>1 DEF AfterAll, AfterShift, Shown
  <2>4. QED
    BY <2>1, <2>2, <2>3 DEF ScreenInv, WireInv
<1>6. QED
  BY <1>1, <1>2, <1>3, <1>4, <1>5 DEF LineInv

LEMMA QuietScreen ==
  ASSUME LineInv, ScreenInv, Quiet
  PROVE  Stands([line |-> line, cursor |-> cursor], meant, i) /\ cursor = 1 + i
BY DEF ScreenInv, Quiet, Behind, AfterAll, AfterShift, Shown

\* For every size of buf, every screen it fits on and every key but a backspace,
\* erasing never goes past the prompt (tty.c:31-34).
THEOREM PromptIntactHolds ==
  ASSUME "BS" \notin Keys
  PROVE  TerminalSpec => []PromptIntact
<1>1. TerminalInit => LineInv /\ ScreenInv
  BY DialogueStarts
<1>2. LineInv /\ ScreenInv /\ [TerminalNext]_terminalVars => LineInv' /\ ScreenInv'
  BY LineStep, ScreenStep
<1>3. LineInv /\ ScreenInv => PromptIntact
  BY QuietScreen DEF PromptIntact, Stands
<1>4. QED
  BY <1>1, <1>2, <1>3, PTL DEF TerminalSpec

\* For the same, the screen shows what was typed and not erased, and it is what
\* buf holds when nothing was (tty.c:28-40).
THEOREM EchoedIsStoredHolds ==
  ASSUME "BS" \notin Keys
  PROVE  TerminalSpec => []EchoedIsStored
<1>1. TerminalInit => LineInv /\ ScreenInv
  BY DialogueStarts
<1>2. LineInv /\ ScreenInv /\ [TerminalNext]_terminalVars => LineInv' /\ ScreenInv'
  BY LineStep, ScreenStep
<1>3. LineInv /\ ScreenInv => EchoedIsStored
  <2>1. SUFFICES ASSUME LineInv, ScreenInv, Quiet  PROVE EchoedIsStored
    BY DEF EchoedIsStored
  <2>2. Len(meant) = i /\ i \in Nat /\ (erased = 0 => Stored(i))
    BY <2>1, InCells DEF Quiet, LineInv, MeantInv, Ahead
  <2>3. \A k \in 0 .. i - 1 : line[1 + k] = meant[k + 1]
    BY <2>1, <2>2, QuietScreen DEF Stands
  <2>4. QED
    BY <2>2, <2>3 DEF EchoedIsStored, Stored
<1>4. QED
  BY <1>1, <1>2, <1>3, PTL DEF TerminalSpec

=============================================================================
