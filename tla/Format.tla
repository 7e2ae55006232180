------------------------------- MODULE Format -------------------------------
(***************************************************************************)
(* What the BIOS prints: the numerals of bios/string.c, and vprintf and    *)
(* hexdump of bios/tty.c, which take a directive or a byte a step.  A      *)
(* character is a string, an argument both the number and the string it    *)
(* can be taken for, and words have Width bits.                            *)
(***************************************************************************)
EXTENDS Integers, SequencesExt

CONSTANTS Width,      \* the bits of unsigned: 32 in the code
          PerLine,    \* 16 in the code
          Texts,      \* what is printed: sequences of items [kind, d, val]
          Blocks,     \* what is dumped: sequences of bytes
          Character,  \* the characters of the bytes 0x20 to 0x7e
          Beyond      \* the argument found behind the last one

NUL   == "0x00"
Blank == " "
Sep   == "_"

ASSUME FormatAssumption == Width \in 16 .. 32 /\ PerLine \in Nat \ {0}
\* The buffer of an offset has four places.
ASSUME BlocksAssumption == \A b \in Blocks : b \in Seq(0 .. 255) /\ Len(b) <= 65536
\* The arguments fit in a word, %c is given one character, the text of a format
\* is neither a directive nor its end, and a % alone is the last of it.
ASSUME TextsAssumption ==
  \A f \in Texts :
    /\ f \in Seq([kind : {"text", "percent", "alone", "conversion"}, d : STRING,
                  val : [num : 0 .. 2^Width - 1, str : Seq(STRING)]])
    /\ \A k \in DOMAIN f :
         /\ f[k].kind = "text" => \A i \in DOMAIN f[k].val.str : f[k].val.str[i] \notin {"%", NUL}
         /\ f[k].kind = "alone" => k = Len(f)
         /\ f[k].kind = "conversion" => f[k].d \in {"d", "i", "u", "b", "o", "p", "x", "X", "c", "s"}
         /\ f[k].d = "c" => Len(f[k].val.str) = 1
ASSUME CharacterAssumption == \A byte \in 32 .. 126 : Character[byte] # NUL

Digit == <<"0", "1", "2", "3", "4", "5", "6", "7", "8", "9", "a", "b", "c", "d", "e", "f">>

\* The graphic characters, of the bytes 0x20 to 0x7e, and a dot for the others
Graphic(byte) == byte \in 32 .. 126
Ascii(byte)   == IF Graphic(byte) THEN Character[byte] ELSE "."

-----------------------------------------------------------------------------
(* Numerals *)

\* Variant for mutation testing: the counter is incremented before it is compared.
itopow2Early(num, pow2) ==
  LET put[at \in (0 .. num) \X Nat] ==
        LET v == at[1]  counter == at[2]
        IN  (IF v \div 2^pow2 = 0 THEN <<>> ELSE put[<<v \div 2^pow2, counter + 1>>])
            \o <<Digit[(v % 2^pow2) + 1]>> \o (IF counter = 3 THEN <<Sep>> ELSE <<>>)
  IN  put[<<num, 0>>]

\* A separator in front of the last four digits, and no other
itopow2(num, pow2) ==
  LET put[at \in (0 .. num) \X Nat] ==
        LET v == at[1]  counter == at[2]
        IN  (IF v \div 2^pow2 = 0 THEN <<>> ELSE put[<<v \div 2^pow2, counter + 1>>])
            \o <<Digit[(v % 2^pow2) + 1]>> \o (IF counter = 4 THEN <<Sep>> ELSE <<>>)
  IN  put[<<num, 0>>]

itodec(num) ==
  LET put[v \in 0 .. num] == IF v = 0 THEN <<>> ELSE Append(put[v \div 10], Digit[(v % 10) + 1])
  IN  IF num = 0 THEN <<"0">> ELSE put[num]

\* -val of an unsigned
Negated(val) == (2^Width - val) % 2^Width

-----------------------------------------------------------------------------

VARIABLES job,      \* the call being executed, or none
          pos,      \* fmt, or hexdump's i
          taken,    \* how many arguments va_arg has taken
          out       \* what was put so far

formatVars == <<job, pos, taken, out>>

NoJob == [fn |-> "none"]

FormatInit == job = NoJob /\ pos = 0 /\ taken = 0 /\ out = <<>>

\* A format is written from texts, percent signs and conversions with a value,
\* and may end in a % alone.
Written(item) == CASE item.kind = "text"    -> item.val.str
                   [] item.kind = "percent" -> <<"%", "%">>
                   [] item.kind = "alone"   -> <<"%">>
                   [] OTHER                 -> <<"%", item.d>>
Passed(item) == IF item.kind = "conversion" THEN <<item.val>> ELSE <<>>

printf(f)  == /\ job = NoJob
              /\ job' = [fn |-> "printf", items |-> f,
                         fmt  |-> FlattenSeq([k \in DOMAIN f |-> Written(f[k])]),
                         args |-> FlattenSeq([k \in DOMAIN f |-> Passed(f[k])])]
              /\ pos' = 1 /\ taken' = 0 /\ out' = <<>>

hexdump(b) == /\ job = NoJob
              /\ job' = IF b = <<>> THEN [fn |-> "done", of |-> [fn |-> "hexdump", bytes |-> b]]
                        ELSE [fn |-> "hexdump", bytes |-> b]
              /\ pos' = 0 /\ taken' = 0 /\ out' = <<>>

Done == job' = [fn |-> "done", of |-> job]

At(k)  == IF k <= Len(job.fmt) THEN job.fmt[k] ELSE NUL
Arg(k) == IF k <= Len(job.args) THEN job.args[k] ELSE Beyond

\* What a directive puts of the value va_arg has taken for it
Put(d, val) ==
  CASE d \in {"d", "i"} -> IF val.num >= 2^(Width - 1) THEN <<"-">> \o itodec(Negated(val.num))
                                                       ELSE itodec(val.num)
    [] d = "u"          -> itodec(val.num)
    [] d = "b"          -> itopow2(val.num, 1)
    [] d = "o"          -> itopow2(val.num, 3)
    [] d = "p"          -> <<"0", "x">> \o itopow2(val.num, 4)
    [] d \in {"x", "X"} -> itopow2(val.num, 4)
    [] d = "c"          -> SubSeq(val.str, 1, 1)
    [] d = "s"          -> val.str
    [] d = NUL          -> <<>>
    [] OTHER            -> <<d>>

\* The text up to the next directive, and the directive.  Every directive takes
\* an argument, also %%; behind a last % the format is at its end once more.
vprintf ==
  /\ job.fn = "printf"
  /\ LET ends == {k \in pos .. Len(job.fmt) + 1 : At(k) \in {"%", NUL}}
         stop == CHOOSE k \in ends : \A l \in ends : k <= l
         text == out \o SubSeq(job.fmt, pos, stop - 1)
         d    == At(stop + 1)
     IN  IF At(stop) = NUL
         THEN out' = text /\ Done /\ UNCHANGED <<pos, taken>>
         ELSE /\ out' = text \o Put(d, Arg(taken + 1))
              /\ taken' = taken + 1
              /\ pos' = IF d = NUL THEN stop + 1 ELSE stop + 2
              /\ UNCHANGED job

-----------------------------------------------------------------------------
(* hexdump *)

\* Digits laid over the zeros of a buffer whose terminator is put with it
InBuf(zeros, digits) == [k \in 1 .. zeros |-> IF k <= zeros - Len(digits) THEN "0"
                                              ELSE digits[k - (zeros - Len(digits))]] \o <<NUL>>

\* buf: the characters of the line that ends before byte i
LineText(i) == [k \in 1 .. ((i - 1) % PerLine) + 1 |->
                  Ascii(job.bytes[((i - 1) \div PerLine) * PerLine + k])]
EndLine(i)  == <<Blank, Blank>> \o LineText(i) \o <<"\n">>
Heading(i)  == (IF i = 0 THEN <<>> ELSE EndLine(i))
               \o <<Blank, Blank>> \o InBuf(4, itopow2(i, 4)) \o <<Blank>>

DumpByte == /\ job.fn = "hexdump" /\ pos < Len(job.bytes)
            /\ out' = out \o (IF pos % PerLine = 0 THEN Heading(pos) ELSE <<>>)
                          \o <<Blank>> \o InBuf(2, itopow2(job.bytes[pos + 1], 4))
            /\ pos' = pos + 1
            /\ UNCHANGED <<job, taken>>

\* Variant for mutation testing: a full line is padded as well.
MissingFull(i) == PerLine - (i % PerLine)

\* The columns left when the bytes end
Missing(i) == (PerLine - (i % PerLine)) % PerLine

\* The padding of the last line and its characters
DumpEnd == /\ job.fn = "hexdump" /\ pos = Len(job.bytes)
           /\ out' = out \o [k \in 1 .. 3 * Missing(pos) |-> Blank] \o EndLine(pos)
           /\ Done
           /\ UNCHANGED <<pos, taken>>

FormatNext == \/ \E f \in Texts : printf(f)
              \/ \E b \in Blocks : hexdump(b)
              \/ vprintf \/ DumpByte \/ DumpEnd
FormatSpec == FormatInit /\ [][FormatNext]_formatVars

FormatTypeOK == /\ job.fn \in {"none", "printf", "hexdump", "done"}
                /\ pos \in Nat /\ taken \in Nat /\ out \in Seq(STRING)

-----------------------------------------------------------------------------
(* What is meant by a format and by a dump, without the code's loops. *)

\* The value of a 1 behind which there are k digits
Weight(base) == LET weight[k \in 0 .. Width] == IF k = 0 THEN 1 ELSE base * weight[k - 1]
                IN  weight
Places(n, base)  == CHOOSE k \in 1 .. Width : /\ n < Weight(base)[k]
                                              /\ k = 1 \/ n >= Weight(base)[k - 1]
Numeral(n, base) == [k \in 1 .. Places(n, base) |->
                       Digit[((n \div Weight(base)[Places(n, base) - k]) % base) + 1]]
Grouped(ds)      == IF Len(ds) <= 4 THEN ds
                    ELSE SubSeq(ds, 1, Len(ds) - 4) \o <<Sep>> \o SubSeq(ds, Len(ds) - 3, Len(ds))

MeantBy(d, val) ==
  LET n == val.num IN
  CASE d \in {"d", "i"} -> IF n < 2^(Width - 1) THEN Numeral(n, 10)
                                                ELSE <<"-">> \o Numeral(2^Width - n, 10)
    [] d = "u"          -> Numeral(n, 10)
    [] d = "b"          -> Grouped(Numeral(n, 2))
    [] d = "o"          -> Grouped(Numeral(n, 8))
    [] d \in {"x", "X"} -> Grouped(Numeral(n, 16))
    [] d = "p"          -> <<"0", "x">> \o Grouped(Numeral(n, 16))
    [] d \in {"c", "s"} -> val.str
Meant(item) == CASE item.kind = "text"       -> item.val.str
                 [] item.kind = "percent"    -> <<"%">>
                 [] item.kind = "alone"      -> <<>>
                 [] item.kind = "conversion" -> MeantBy(item.d, item.val)

\* Behind %% the arguments have moved on by one.
Aligned(items) == \A j, k \in DOMAIN items :
                     j < k /\ items[j].kind = "percent" => items[k].kind # "conversion"

\* Every directive is given the argument that was passed for it and prints its
\* value, no numeral loses or gains a digit, and the format is never read behind
\* its terminator (tty.c:53-97, string.c:3-42).
PrintsWhatIsMeant ==
  /\ job.fn = "printf" => pos <= Len(job.fmt) + 1
  /\ job.fn = "done" /\ job.of.fn = "printf" /\ Aligned(job.of.items)
       => LET items == job.of.items
          IN  out = FlattenSeq([k \in DOMAIN items |-> Meant(items[k])])

\* A line of a dump: the offset, the bytes or blanks in their columns, the text
Padded(ds, places) == [k \in 1 .. places - Len(ds) |-> "0"] \o ds
Line(bytes, l) ==
  LET first == l * PerLine
      here  == SubSeq(bytes, first + 1, IF first + PerLine < Len(bytes) THEN first + PerLine
                                                                      ELSE Len(bytes))
  IN  <<Blank, Blank>> \o Padded(Numeral(first, 16), 4) \o <<Blank>>
      \o FlattenSeq([k \in 1 .. PerLine |->
                       IF k <= Len(here) THEN <<Blank>> \o Padded(Numeral(here[k], 16), 2)
                                         ELSE <<Blank, Blank, Blank>>])
      \o <<Blank, Blank>>
      \o [k \in 1 .. Len(here) |-> IF Graphic(here[k]) THEN Character[here[k]] ELSE "."]
      \o <<"\n">>

\* What a terminal shows of characters: the terminators are dropped.
Shown(chars) == FlattenSeq([k \in DOMAIN chars |-> IF chars[k] = NUL THEN <<>> ELSE <<chars[k]>>])

\* What a terminal shows of a dump, which drops the terminators that are put, is
\* every byte once, at its offset and in its column, with its text behind it,
\* also in a last line that is not full (tty.c:115-164).
DumpShowsAll ==
  job.fn = "done" /\ job.of.fn = "hexdump" =>
    LET bytes == job.of.bytes
        lines == (Len(bytes) + PerLine - 1) \div PerLine
    IN  Shown(out) = FlattenSeq([l \in 1 .. lines |-> Line(bytes, l - 1)])

=============================================================================
