----------------------------- MODULE MCFirmware -----------------------------
(* Values for TLC: small sections, blocks, pictures and words. *)
EXTENDS Firmware

Layouts  == {[data |-> 0, bss |-> 0], [data |-> 4, bss |-> 0], [data |-> 4, bss |-> 4],
             [data |-> 8, bss |-> 8]}
RomWords == [a \in 0 .. 15 |-> 100 + a]
Linked   == [data |-> 4, bss |-> 4]

\* Every byte another, and few bytes in turns for the matches and differences
MemoryImages == {[a \in 0 .. MemSize - 1 |-> a], [a \in 0 .. MemSize - 1 |-> a % 3]}

Stale == [num |-> 7, str |-> <<"?">>]

Number(v)  == [kind |-> "conversion", val |-> [num |-> v, str |-> <<>>]]
WithD(r, d) == [kind |-> r.kind, val |-> r.val, d |-> d]
Pointer(s) == [kind |-> "conversion", val |-> [num |-> 0, str |-> s]]

\* The edges of a 16-bit word, of its sign, and of four digits
Values == {0, 9, 10, 15, 16, 4095, 32767, 32768, 65535}
Items  == {WithD(Number(v), d) : v \in Values, d \in {"d", "u", "b", "o", "x", "p"}}
            \cup {WithD(Pointer(<<"a">>), "c"), WithD(Pointer(<<"a", "%", "d">>), "s"),
                  WithD(Pointer(<<>>), "s")}
            \cup {[kind |-> "text", d |-> "", val |-> [num |-> 0, str |-> <<"h", "i">>]],
                  [kind |-> "percent", d |-> "", val |-> [num |-> 0, str |-> <<>>]]}
Few    == {item \in Items : item.val.num \in {0, 32768} /\ item.d \in {"", "d", "s", "x"}}
MCTexts == {<<>>} \cup {<<a>> : a \in Items} \cup {<<a, b>> : a \in Items, b \in Few}
             \cup {<<a, b, c>> : a \in Few, b \in Few, c \in Few}
             \cup {<<a, [kind |-> "alone", d |-> "", val |-> Stale]>> : a \in Few}

Characters == [byte \in 32 .. 126 |-> ToString(byte)]

Bytes    == <<0, 15, 16, 31, 32, 65, 126, 127, 255>>
MCBlocks == {[k \in 1 .. len |-> Bytes[((k + shift) % 9) + 1]] :
               len \in {0, 1, 3, 4, 5, 8, 9, 17}, shift \in {0, 4}}

=============================================================================
