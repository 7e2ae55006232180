---------------------------- MODULE FirmwareProofs ----------------------------
(***************************************************************************)
(* The BIOS from its entry, for memories, sections, blocks and pictures of *)
(* any size: the static variables are in place when main starts, the       *)
(* memory functions do what they promise, and both hold of the BIOS they   *)
(* are composed into.                                                      *)
(***************************************************************************)
EXTENDS Firmware, FormatProofs

-----------------------------------------------------------------------------
(* head.S: the sections. *)

\* What the clearing leaves: four words more when there is nothing to clear
Cleared == bss_end + (IF sections.bss = 0 THEN 4 ELSE 0)

ClearInv == boot = "clear_loop" =>
              /\ v0 \in Nat /\ v0 % 4 = 0 /\ v0 >= bss_start
              /\ v0 < Cleared
              /\ t0 = 0 /\ t1 = data_start
              /\ \A a \in Ram : ram[a] = IF a \in bss_start .. v0 - 1 THEN 0 ELSE Garbage

CopyInv  == boot = "copy_loop" =>
              /\ t0 \in Nat /\ t1 = t0
              /\ t0 = 0 \/ t0 < sections.data
              /\ \A a \in 0 .. t0 - 1 : ram[a] = Rom[a]
              /\ \A a \in bss_start .. Cleared - 1 : ram[a] = 0
              /\ \A a \in Ram : a >= Cleared => ram[a] = Garbage

SectionsInv == /\ sections \in Sections
               /\ boot \in {"clear_loop", "copy_loop", "main"}
               /\ DOMAIN ram = Ram

StartupInv == SectionsInv /\ ClearInv /\ CopyInv /\ StaticsInPlace

LEMMA SectionSizes ==
  ASSUME sections \in Sections
  PROVE  /\ sections.data \in Nat /\ sections.bss \in Nat /\ RamWords \in Nat
         /\ sections.data % 4 = 0 /\ sections.bss % 4 = 0
         /\ sections.data + sections.bss + 4 <= RamWords
         /\ sections.bss > 0 => sections.data > 0
  BY SectionsAssumption

LEMMA FourMore == ASSUME NEW a \in Nat, NEW b \in Nat, a % 4 = 0, b % 4 = 0, a < b
                  PROVE  a + 4 <= b /\ (a + 4) % 4 = 0
  OBVIOUS

LEMMA SumOfFours == ASSUME NEW a \in Nat, NEW b \in Nat, a % 4 = 0, b % 4 = 0
                    PROVE  (a + b) % 4 = 0
  OBVIOUS

LEMMA ClearStep == ASSUME StartupInv, clear_loop
                   PROVE  StartupInv'
  <1> DEFINE data == sections.data
             bss  == sections.bss
  <1>1. /\ data \in Nat /\ bss \in Nat /\ RamWords \in Nat
        /\ data % 4 = 0 /\ bss % 4 = 0 /\ data + bss + 4 <= RamWords
    BY SectionSizes DEF StartupInv, SectionsInv
  <1>2. /\ v0 \in Nat /\ v0 % 4 = 0 /\ v0 >= data /\ v0 < Cleared
        /\ t0 = 0 /\ t1 = 0
        /\ \A a \in Ram : ram[a] = IF a \in data .. v0 - 1 THEN 0 ELSE Garbage
    BY DEF StartupInv, ClearInv, clear_loop, bss_start, data_start
  <1>3. Cleared = data + bss + (IF bss = 0 THEN 4 ELSE 0) /\ bss_end = data + bss
    BY DEF Cleared, bss_end
  <1>4. /\ ram' = [a \in Ram |-> IF a \in v0 .. v0 + 3 THEN 0 ELSE ram[a]]
        /\ v0' = v0 + 4 /\ sections' = sections /\ t0' = t0 /\ t1' = t1
        /\ boot' = IF v0' < bss_end THEN "clear_loop" ELSE "copy_loop"
    BY DEF clear_loop
  <1>5. \A a \in Ram : ram'[a] = IF a \in data .. v0' - 1 THEN 0 ELSE Garbage
    BY <1>1, <1>2, <1>4 DEF Ram
  <1>6. v0' \in Nat /\ v0' % 4 = 0 /\ v0' >= data /\ v0' <= Cleared
    <2>1. Cleared % 4 = 0 /\ Cleared \in Nat
      <3>1. (data + bss) % 4 = 0 /\ (data + 4) % 4 = 0
        BY <1>1, SumOfFours
      <3>2. CASE bss = 0
        <4>1. Cleared = data + 4 BY <3>2, <1>1, <1>3
        <4>2. QED BY <4>1, <3>1, <1>1
      <3>3. CASE bss # 0
        <4>1. Cleared = data + bss BY <3>3, <1>1, <1>3
        <4>2. QED BY <4>1, <3>1, <1>1
      <3>4. QED BY <3>2, <3>3
    <2>2. v0 + 4 <= Cleared /\ (v0 + 4) % 4 = 0
      BY <2>1, <1>2, FourMore
    <2>3. QED BY <2>1, <2>2, <1>1, <1>2, <1>4
  <1>7. SectionsInv'
    BY <1>4 DEF StartupInv, SectionsInv, Ram
  <1>8. Cleared' = Cleared /\ bss_start' = data /\ bss_end' = bss_end /\ data_start' = 0
    BY <1>4 DEF Cleared, bss_start, bss_end, data_start
  <1>9. ClearInv'
    <2> SUFFICES ASSUME v0' < bss_end PROVE ClearInv'
      BY <1>4 DEF ClearInv
    <2>1. v0' < Cleared
      BY <1>1, <1>3, <1>6
    <2>2. QED BY <2>1, <1>2, <1>4, <1>5, <1>6, <1>8 DEF ClearInv, Ram
  <1>10. CopyInv'
    <2> SUFFICES ASSUME ~(v0' < bss_end) PROVE CopyInv'
      BY <1>4 DEF CopyInv
    <2>1. v0' = Cleared
      <3>1. CASE bss = 0
        <4>1. Cleared = data + 4 BY <3>1, <1>1, <1>3
        <4>2. v0' >= data + 4 /\ v0' <= data + 4 BY <4>1, <1>1, <1>2, <1>4, <1>6
        <4>3. QED BY <4>1, <4>2, <1>1, <1>6
      <3>2. CASE bss # 0
        <4>1. Cleared = bss_end /\ Cleared \in Nat BY <3>2, <1>1, <1>3
        <4>2. QED BY <4>1, <1>6
      <3>3. QED BY <3>1, <3>2
    <2>2. \A a \in data .. Cleared - 1 : a \in Ram /\ a \in data .. v0' - 1
      BY <2>1, <1>1, <1>3 DEF Ram
    <2>3. \A a \in data .. Cleared - 1 : ram'[a] = 0
      BY <2>2, <1>5
    <2>4. \A a \in Ram : a >= Cleared => ram'[a] = Garbage
      <3>1. \A a \in Ram : a >= Cleared => a \notin data .. v0' - 1
        BY <2>1, <1>1, <1>3 DEF Ram
      <3>2. QED BY <3>1, <1>5
    <2>5. t0' = 0 /\ t1' = 0 /\ Ram' = Ram
      BY <1>2, <1>4 DEF Ram
    <2>6. \A a \in 0 .. t0' - 1 : ram'[a] = Rom[a]
      BY <2>5
    <2>7. QED BY <2>3, <2>4, <2>5, <2>6, <1>8 DEF CopyInv
  <1>11. StaticsInPlace'
    BY <1>4 DEF StaticsInPlace
  <1>12. QED BY <1>7, <1>9, <1>10, <1>11 DEF StartupInv

LEMMA CopyStep == ASSUME StartupInv, copy_loop
                  PROVE  StartupInv'
  <1> DEFINE data == sections.data
             bss  == sections.bss
  <1>1. /\ data \in Nat /\ bss \in Nat /\ RamWords \in Nat
        /\ data + bss + 4 <= RamWords /\ (bss > 0 => data > 0)
    BY SectionSizes DEF StartupInv, SectionsInv
  <1>2. /\ t0 \in Nat /\ t1 = t0 /\ (t0 = 0 \/ t0 < data)
        /\ \A a \in 0 .. t0 - 1 : ram[a] = Rom[a]
        /\ \A a \in data .. Cleared - 1 : ram[a] = 0
        /\ \A a \in Ram : a >= Cleared => ram[a] = Garbage
    BY DEF StartupInv, CopyInv, copy_loop, bss_start
  <1>3. Cleared = data + bss + (IF bss = 0 THEN 4 ELSE 0)
    BY DEF Cleared, bss_end
  <1>4. /\ ram' = [ram EXCEPT ![t1] = Rom[t0]]
        /\ t0' = t0 + 1 /\ t1' = t1 + 1 /\ sections' = sections
        /\ boot' = IF t1' < data THEN "copy_loop" ELSE "main"
    BY DEF copy_loop, data_end
  <1>5. DOMAIN ram = Ram
    BY DEF StartupInv, SectionsInv
  <1>6. \A a \in Ram : ram'[a] = IF a = t0 THEN Rom[t0] ELSE ram[a]
    BY <1>2, <1>4, <1>5
  <1>7. t0 < Cleared /\ t0 \in Ram
    BY <1>1, <1>2, <1>3 DEF Ram
  <1>8. \A a \in 0 .. t0' - 1 : ram'[a] = Rom[a]
    <2>1. \A a \in 0 .. t0' - 1 : a \in Ram /\ (a = t0 \/ a \in 0 .. t0 - 1)
      BY <1>1, <1>2, <1>4, <1>7 DEF Ram
    <2>2. QED BY <2>1, <1>2, <1>6
  <1>9. \A a \in Ram : a >= Cleared => ram'[a] = Garbage
    BY <1>1, <1>2, <1>3, <1>6, <1>7 DEF Ram
  <1>10. data > 0 => \A a \in data .. Cleared - 1 : ram'[a] = 0
    <2>1. data > 0 => \A a \in data .. Cleared - 1 : a \in Ram /\ a # t0
      BY <1>1, <1>2, <1>3 DEF Ram
    <2>2. QED BY <2>1, <1>2, <1>6
  <1>11. SectionsInv'
    BY <1>4, <1>5 DEF StartupInv, SectionsInv, Ram
  <1>12. Cleared' = Cleared /\ bss_start' = data /\ data_end' = data /\ data_start' = 0
         /\ bss_end' = data + bss /\ Ram' = Ram
    BY <1>4 DEF Cleared, bss_start, bss_end, data_start, data_end, Ram
  <1>13. ClearInv'
    BY <1>4 DEF ClearInv
  <1>14. CopyInv'
    <2> SUFFICES ASSUME t1' < data PROVE CopyInv'
      BY <1>4 DEF CopyInv
    <2>1. data > 0
      BY <1>1, <1>2, <1>4
    <2>2. QED BY <2>1, <1>2, <1>4, <1>8, <1>9, <1>10, <1>12 DEF CopyInv
  <1>15. StaticsInPlace'
    <2> SUFFICES ASSUME ~(t1' < data) PROVE StaticsInPlace'
      BY <1>4 DEF StaticsInPlace
    <2>1. \A a \in 0 .. data - 1 : ram'[a] = Rom[a]
      BY <1>1, <1>2, <1>4, <1>8
    <2>2. \A a \in data .. data + bss - 1 : ram'[a] = 0
      <3>1. CASE data > 0
        BY <3>1, <1>1, <1>3, <1>10
      <3>2. CASE data = 0
        BY <3>2, <1>1
      <3>3. QED BY <3>1, <3>2, <1>1
    <2>3. QED BY <2>1, <2>2, <1>1, <1>4, <1>9, <1>12 DEF StaticsInPlace, Cleared
  <1>16. QED BY <1>11, <1>13, <1>14, <1>15 DEF StartupInv

\* head.S:40-60 leaves .data and .bss as the program expects them, however
\* large they are, and nothing else is written to but the four words behind.
THEOREM StaticsInPlaceHolds == StartupSpec => []StaticsInPlace
  <1>1. StartupInit => StartupInv
    <2> SUFFICES ASSUME StartupInit PROVE StartupInv
      OBVIOUS
    <2>1. /\ sections.data \in Nat /\ sections.bss \in Nat
          /\ sections.data % 4 = 0
      BY SectionSizes DEF StartupInit
    <2>2. v0 < Cleared
      BY <2>1 DEF StartupInit, Cleared, bss_end, bss_start
    <2>3. QED BY <2>1, <2>2
              DEF StartupInit, StartupInv, SectionsInv, ClearInv, CopyInv, StaticsInPlace, bss_start, Ram
  <1>2. StartupInv /\ [StartupNext]_startupVars => StartupInv'
    <2>1. StartupInv /\ UNCHANGED startupVars => StartupInv'
      BY DEF startupVars, StartupInv, SectionsInv, ClearInv, CopyInv, StaticsInPlace, Cleared,
             bss_start, bss_end, data_start, data_end, Ram
    <2>2. QED BY <2>1, ClearStep, CopyStep DEF StartupNext
  <1>3. StartupInv => StaticsInPlace
    BY DEF StartupInv
  <1>4. QED BY <1>1, <1>2, <1>3, PTL DEF StartupSpec

-----------------------------------------------------------------------------
(* string.c: an invariant for every loop, and the step simulation that     *)
(* rests on them.                                                          *)

\* The bytes memcpy has yet to copy: label and n between them
Left == IF label = 0 THEN 8 * n ELSE label + 8 * (n - 1)

\* The memory with the bytes from lo up to hi in place
Moving(lo, hi)  == [a \in Addr |-> IF a \in lo .. hi - 1
                                   THEN before[call.src + (a - call.dst)] ELSE before[a]]
Filling(lo, hi) == [a \in Addr |-> IF a \in lo .. hi - 1 THEN call.ch % 256 ELSE before[a]]

NothingInv   == call # NoCall /\ call.op \in {"memcpy", "memmove"} /\ call.len = 0
                  => mem = before

ForwardsInv  == call # NoCall /\ Forwards(call) /\ call.len > 0 =>
                  /\ n \in Nat /\ n > 0 /\ label \in 0 .. 7
                  /\ Left > 0 /\ Left <= call.len
                  /\ dst = call.dst + (call.len - Left) /\ src = call.src + (call.len - Left)
                  /\ mem = Moving(call.dst, dst)

BackwardsInv == call # NoCall /\ Backwards(call) /\ call.len > 0 =>
                  /\ n \in 0 .. call.len
                  /\ dst = call.dst + n /\ src = call.src + n
                  /\ mem = Moving(dst, call.dst + call.len)

FillInv      == call # NoCall /\ Running("memset") =>
                  /\ n \in 0 .. call.len
                  /\ dst = call.dst + (call.len - n)
                  /\ mem = Filling(call.dst, dst)

CompareInv   == call # NoCall /\ Running("memcmp") =>
                  /\ n \in 0 .. call.len
                  /\ dst = call.dst + (call.len - n) /\ src = call.src + (call.len - n)
                  /\ mem = before
                  /\ B!Same(before, call, call.len - n)

SearchInv    == call # NoCall /\ Running("memchr") =>
                  /\ n \in 0 .. call.len
                  /\ src = call.src + (call.len - n)
                  /\ mem = before
                  /\ \A a \in call.src .. src - 1 : before[a] # call.ch

Contents == [Addr -> 0 .. 255]

\* Within a call the invariants of the loops say what the memory is.
ContentsInv == /\ before \in Contents /\ call \in Calls \cup {NoCall}
               /\ call = NoCall => mem \in Contents

LoopInv == /\ NothingInv /\ ForwardsInv /\ BackwardsInv
           /\ FillInv /\ CompareInv /\ SearchInv

StringsInv == ContentsInv /\ LoopInv

-----------------------------------------------------------------------------

LEMMA CallFields ==
  ASSUME NEW c \in Calls
  PROVE  /\ c # NoCall
         /\ c.op \in {"memcpy", "memmove", "memset", "memcmp", "memchr"}
         /\ c.dst \in Nat /\ c.src \in Nat /\ c.len \in Nat /\ c.ch \in Int
         /\ c.dst + c.len <= MemSize /\ c.src + c.len <= MemSize
         /\ c.op = "memcpy" => Disjoint(c)
         /\ c.op = "memchr" => c.ch \in Sought
  <1>1. c \in [op : {"memcpy", "memmove", "memset", "memcmp", "memchr"},
               dst : 0 .. MemSize, src : 0 .. MemSize, len : Lengths, ch : Chars]
        /\ Callable(c)
    BY DEF Calls
  <1>2. /\ c.op \in {"memcpy", "memmove", "memset", "memcmp", "memchr"}
        /\ c.dst \in 0 .. MemSize /\ c.src \in 0 .. MemSize /\ c.len \in Lengths /\ c.ch \in Chars
    BY <1>1
  <1>3. c # NoCall
    <2>1. c.op # NoCall.op BY <1>2 DEF NoCall
    <2>2. QED BY <2>1
  <1>4. /\ c.dst + c.len <= MemSize /\ c.src + c.len <= MemSize
        /\ c.op = "memcpy" => Disjoint(c)
        /\ c.op = "memchr" => c.ch \in Sought
    BY <1>1 DEF Callable
  <1>5. c.dst \in Nat /\ c.src \in Nat /\ c.len \in Nat /\ c.ch \in Int
    <2>1. MemSize \in Nat /\ Lengths \subseteq Nat /\ Chars \subseteq Int
      BY MemoryAssumption
    <2>2. c.dst \in Nat /\ c.src \in Nat BY <1>2, <2>1
    <2>3. c.len \in Nat /\ c.ch \in Int BY <1>2, <2>1
    <2>4. QED BY <2>2, <2>3
  <1>6. QED BY <1>2, <1>3, <1>4, <1>5

\* The head of a function establishes the invariant of its loop.
LEMMA CallStep == ASSUME StringsInv, NEW c \in Calls, Call(c)
                  PROVE  StringsInv'
  <1>1. ContentsInv' BY CallFields DEF StringsInv, ContentsInv, Call
  <1>2. /\ call' = c /\ before' = mem /\ mem' = mem /\ mem \in Contents
    BY DEF StringsInv, ContentsInv, Call
  <1>3. /\ c.op \in {"memcpy", "memmove", "memset", "memcmp", "memchr"}
        /\ c.dst \in Nat /\ c.src \in Nat /\ c.len \in Nat
    BY CallFields
  <1>4. NothingInv' BY <1>2 DEF NothingInv
  <1>5. ForwardsInv'
    <2> SUFFICES ASSUME Forwards(c), c.len > 0
                 PROVE  /\ n' \in Nat /\ n' > 0 /\ label' \in 0 .. 7
                        /\ Left' = c.len
                        /\ dst' = c.dst + (c.len - Left') /\ src' = c.src + (c.len - Left')
                        /\ mem' = Moving(c.dst, dst)'
      BY <1>2, <1>3 DEF ForwardsInv
    <2>1. n' = (c.len + 7) \div 8 /\ label' = c.len % 8
      BY DEF Call
    <2>2. dst' = c.dst /\ src' = c.src
      BY DEF Call, Backwards
    <2>3. /\ n' \in Nat /\ n' > 0 /\ label' \in 0 .. 7
      BY <2>1, <1>3
    <2>4. Left' = c.len
      BY <2>1, <1>3 DEF Left
    <2>5. mem' = Moving(c.dst, dst)'
      BY <1>2, <1>3, <2>2 DEF Moving, Contents
    <2>6. QED BY <2>2, <2>3, <2>4, <2>5, <1>3
  <1>6. BackwardsInv'
    <2> SUFFICES ASSUME Backwards(c), c.len > 0
                 PROVE  /\ n' \in 0 .. c.len /\ dst' = c.dst + n' /\ src' = c.src + n'
                        /\ mem' = Moving(dst, c.dst + c.len)'
      BY <1>2 DEF BackwardsInv
    <2>1. n' = c.len /\ dst' = c.dst + c.len /\ src' = c.src + c.len
      BY DEF Call, Backwards
    <2>2. mem' = Moving(dst, c.dst + c.len)'
      BY <1>2, <1>3, <2>1 DEF Moving, Contents
    <2>3. QED BY <2>1, <2>2, <1>3
  <1>7. c.op \in {"memset", "memcmp", "memchr"} =>
          n' = c.len /\ dst' = c.dst /\ src' = c.src
    BY DEF Call, Forwards, Backwards
  <1>8. FillInv'
    BY <1>2, <1>3, <1>7 DEF FillInv, Running, Filling, Contents
  <1>9. CompareInv' /\ SearchInv'
    BY <1>2, <1>3, <1>7 DEF CompareInv, SearchInv, Running, B!Same
  <1>10. QED BY <1>1, <1>4, <1>5, <1>6, <1>8, <1>9 DEF StringsInv, LoopInv

-----------------------------------------------------------------------------
(* A step of a loop: it keeps its invariant, or returns with the effect. *)

\* What a step of the execution may do, as the promise sees it.  The memory needs
\* no condition on the characters, the results of memchr do.
Going    == call' = call /\ before' = before /\ LoopInv'
Returned == /\ call' = NoCall /\ mem' = B!Effect(before, call)
            /\ SoughtAreBytes => B!Result(before, call, ret')

LEMMA CopyNothingStep == ASSUME StringsInv, call \in Calls, CopyNothing
                         PROVE  Returned
  <1>1. mem' = before /\ call' = NoCall /\ ret' = call.dst
    BY CallFields DEF CopyNothing, Return, StringsInv, LoopInv, NothingInv
  <1>2. mem' = B!Effect(before, call)
    BY <1>1, CallFields
       DEF CopyNothing, StringsInv, ContentsInv, B!Effect, B!Copied, B!Block, Contents
  <1>3. QED BY <1>1, <1>2 DEF Returned, CopyNothing, B!Result

LEMMA CopyForwardsStep == ASSUME StringsInv, call \in Calls, CopyForwards
                          PROVE  Going \/ Returned
  <1>0. /\ call.op \in {"memcpy", "memmove"}
        /\ call.dst \in Nat /\ call.src \in Nat /\ call.len \in Nat /\ call.len > 0
        /\ call.dst + call.len <= MemSize /\ call.src + call.len <= MemSize
        /\ MemSize \in Nat /\ call # NoCall
        /\ call.dst <= call.src \/ call.src + call.len <= call.dst
    BY CallFields, MemoryAssumption DEF CopyForwards, Forwards, Disjoint
  <1>1. /\ n \in Nat /\ n > 0 /\ label \in 0 .. 7
        /\ Left > 0 /\ Left <= call.len /\ Left \in Nat
        /\ dst = call.dst + (call.len - Left) /\ src = call.src + (call.len - Left)
        /\ mem = Moving(call.dst, dst)
    BY <1>0 DEF StringsInv, LoopInv, ForwardsInv, CopyForwards, Left
  <1>2. /\ mem' = [mem EXCEPT ![dst] = mem[src]] /\ dst' = dst + 1 /\ src' = src + 1
        /\ before' = before
    BY DEF CopyForwards, Kept
  <1>3. dst \in Addr /\ src \in Addr /\ src \notin call.dst .. dst - 1
    BY <1>0, <1>1 DEF Addr
  <1>4. mem[src] = before[src]
    BY <1>1, <1>3 DEF Moving
  <1>5. mem' = [a \in Addr |-> IF a \in call.dst .. dst'- 1
                               THEN before[call.src + (a - call.dst)] ELSE before[a]]
    <2>1. src = call.src + (dst - call.dst)
      BY <1>0, <1>1
    <2>2. \A a \in Addr : a \in call.dst .. dst' - 1 <=> (a = dst \/ a \in call.dst .. dst - 1)
      BY <1>0, <1>1, <1>2 DEF Addr
    <2>3. QED BY <1>1, <1>2, <1>3, <1>4, <2>1, <2>2 DEF Moving
  <1>6. CASE label # 1
    <2>1. label' = (label + 7) % 8 /\ n' = n /\ call' = call
      BY <1>6 DEF CopyForwards
    <2>2. label' = IF label = 0 THEN 7 ELSE label - 1
      BY <2>1, <1>1
    <2>3. Left' = Left - 1 /\ Left' > 0
      BY <2>1, <2>2, <1>1, <1>6 DEF Left
    <2>4. ForwardsInv'
      <3>1. mem' = Moving(call.dst, dst)'
        BY <2>1, <1>2, <1>5 DEF Moving
      <3>2. label' \in 0 .. 7
        BY <2>2, <1>1
      <3>3. Left' \in Nat /\ Left' <= call.len
        BY <2>3, <1>0, <1>1
      <3>4. dst' = call.dst + (call.len - Left') /\ src' = call.src + (call.len - Left')
        BY <2>3, <1>0, <1>1, <1>2
      <3>5. QED BY <2>1, <2>3, <3>1, <3>2, <3>3, <3>4, <1>1 DEF ForwardsInv
    <2>5. QED BY <2>1, <2>4, <1>0, <1>2
              DEF Going, LoopInv, NothingInv, BackwardsInv, FillInv, CompareInv, SearchInv,
                  Running, CopyForwards, Backwards, Forwards
  <1>7. CASE label = 1 /\ n > 1
    <2>1. label' = 0 /\ n' = n - 1 /\ call' = call
      BY <1>7 DEF CopyForwards
    <2>2. Left' = Left - 1 /\ Left' > 0
      BY <2>1, <1>1, <1>7 DEF Left
    <2>3. ForwardsInv'
      <3>1. mem' = Moving(call.dst, dst)'
        BY <2>1, <1>2, <1>5 DEF Moving
      <3>2. label' \in 0 .. 7 /\ n' \in Nat /\ n' > 0
        BY <2>1, <1>1, <1>7
      <3>3. Left' \in Nat /\ Left' <= call.len
        BY <2>2, <1>0, <1>1
      <3>4. dst' = call.dst + (call.len - Left') /\ src' = call.src + (call.len - Left')
        BY <2>2, <1>0, <1>1, <1>2
      <3>5. QED BY <2>1, <2>2, <3>1, <3>2, <3>3, <3>4 DEF ForwardsInv
    <2>4. QED BY <2>1, <2>3, <1>0, <1>2
              DEF Going, LoopInv, NothingInv, BackwardsInv, FillInv, CompareInv, SearchInv,
                  Running, CopyForwards, Backwards, Forwards
  <1>8. CASE label = 1 /\ n = 1
    <2>1. call' = NoCall /\ ret' = call.dst
      BY <1>8 DEF CopyForwards, Return
    <2>2. dst' = call.dst + call.len
      BY <1>0, <1>1, <1>2, <1>8 DEF Left
    <2>3. mem' = B!Effect(before, call)
      BY <2>2, <1>0, <1>5 DEF B!Effect, B!Copied, B!Block
    <2>4. QED BY <2>1, <2>3, <1>0 DEF Returned, B!Result
  <1>9. QED BY <1>1, <1>6, <1>7, <1>8 DEF CopyForwards

LEMMA CopyBackwardsStep == ASSUME StringsInv, call \in Calls, CopyBackwards
                           PROVE  Going \/ Returned
  <1>0. /\ call.op = "memmove"
        /\ call.dst \in Nat /\ call.src \in Nat /\ call.len \in Nat /\ call.len > 0
        /\ call.dst + call.len <= MemSize /\ call.src + call.len <= MemSize
        /\ MemSize \in Nat /\ call # NoCall /\ call.src < call.dst
        /\ Backwards(call) /\ ~Forwards(call)
    BY CallFields, MemoryAssumption DEF CopyBackwards, Backwards, Forwards
  <1>1. /\ n \in 0 .. call.len
        /\ dst = call.dst + n /\ src = call.src + n
        /\ mem = Moving(dst, call.dst + call.len)
    BY <1>0 DEF StringsInv, LoopInv, BackwardsInv
  <1>2. before' = before BY DEF CopyBackwards, Kept
  <1>3. CASE n > 0
    <2>1. /\ n' = n - 1 /\ dst' = dst - 1 /\ src' = src - 1 /\ call' = call
          /\ mem' = [mem EXCEPT ![dst - 1] = mem[src - 1]]
      BY <1>3, <1>1 DEF CopyBackwards
    <2>2. dst - 1 \in Addr /\ src - 1 \in Addr /\ src - 1 < dst
      BY <1>0, <1>1, <1>3 DEF Addr
    <2>3. mem[src - 1] = before[src - 1] /\ src - 1 = call.src + (dst - 1 - call.dst)
      BY <1>0, <1>1, <2>2 DEF Moving
    <2>4. \A a \in Addr : a \in dst' .. (call.dst + call.len) - 1
                           <=> (a = dst - 1 \/ a \in dst .. (call.dst + call.len) - 1)
      BY <1>0, <1>1, <1>3, <2>1 DEF Addr
    <2>5. mem' = [a \in Addr |-> IF a \in dst' .. (call.dst + call.len) - 1
                                 THEN before[call.src + (a - call.dst)] ELSE before[a]]
      <3>1. mem' = [a \in Addr |-> IF a = dst - 1 THEN mem[src - 1] ELSE mem[a]]
        BY <1>1, <2>1, <2>2 DEF Moving
      <3>2. \A a \in Addr : (IF a = dst - 1 THEN mem[src - 1] ELSE mem[a])
                           = IF a \in dst' .. (call.dst + call.len) - 1
                             THEN before[call.src + (a - call.dst)] ELSE before[a]
        BY <1>0, <1>1, <2>2, <2>3, <2>4 DEF Moving
      <3>3. QED BY <3>1, <3>2
    <2>6. BackwardsInv'
      <3>1. mem' = Moving(dst, call.dst + call.len)'
        BY <1>2, <2>1, <2>5 DEF Moving
      <3>2. n' \in 0 .. call.len /\ dst' = call.dst + n' /\ src' = call.src + n'
        BY <1>0, <1>1, <1>3, <2>1
      <3>3. QED BY <2>1, <3>1, <3>2 DEF BackwardsInv
    <2>7. QED BY <1>0, <1>2, <2>1, <2>6
              DEF Going, LoopInv, NothingInv, ForwardsInv, FillInv, CompareInv, SearchInv, Running
  <1>4. CASE n = 0
    <2>1. call' = NoCall /\ ret' = call.dst /\ mem' = mem
      BY <1>4 DEF CopyBackwards, Return
    <2>2. mem' = B!Effect(before, call)
      BY <1>0, <1>1, <1>4, <2>1 DEF B!Effect, B!Copied, B!Block, Moving
    <2>3. QED BY <2>1, <2>2, <1>0 DEF Returned, B!Result
  <1>5. QED BY <1>1, <1>3, <1>4

LEMMA FillStep == ASSUME StringsInv, call \in Calls, Fill
                  PROVE  Going \/ Returned
  <1>0. /\ call.op = "memset"
        /\ call.dst \in Nat /\ call.len \in Nat /\ call.dst + call.len <= MemSize
        /\ MemSize \in Nat /\ call # NoCall
        /\ ~Backwards(call) /\ ~Forwards(call)
    BY CallFields, MemoryAssumption DEF Fill, Running, Backwards, Forwards
  <1>1. /\ n \in 0 .. call.len /\ dst = call.dst + (call.len - n)
        /\ mem = Filling(call.dst, dst)
    BY <1>0 DEF StringsInv, LoopInv, FillInv, Running
  <1>2. before' = before BY DEF Fill, Kept
  <1>3. CASE n > 0
    <2>1. /\ n' = n - 1 /\ dst' = dst + 1 /\ call' = call
          /\ mem' = [mem EXCEPT ![dst] = call.ch % 256]
      BY <1>3, <1>1 DEF Fill
    <2>2. dst \in Addr
      BY <1>0, <1>1, <1>3 DEF Addr
    <2>3. \A a \in Addr : a \in call.dst .. dst' - 1 <=> (a = dst \/ a \in call.dst .. dst - 1)
      BY <1>0, <1>1, <2>1 DEF Addr
    <2>4. mem' = [a \in Addr |-> IF a \in call.dst .. dst' - 1 THEN call.ch % 256 ELSE before[a]]
      BY <1>1, <2>1, <2>2, <2>3 DEF Filling
    <2>5. FillInv'
      <3>1. mem' = Filling(call.dst, dst)'
        BY <1>2, <2>1, <2>4 DEF Filling
      <3>2. n' \in 0 .. call.len /\ dst' = call.dst + (call.len - n')
        BY <1>0, <1>1, <1>3, <2>1
      <3>3. QED BY <2>1, <3>1, <3>2 DEF FillInv
    <2>6. QED BY <1>0, <1>2, <2>1, <2>5
              DEF Going, LoopInv, NothingInv, ForwardsInv, BackwardsInv, CompareInv, SearchInv,
                  Running
  <1>4. CASE n = 0
    <2>1. call' = NoCall /\ ret' = call.dst /\ mem' = mem
      BY <1>4 DEF Fill, Return
    <2>2. mem' = B!Effect(before, call)
      BY <1>0, <1>1, <1>4, <2>1 DEF B!Effect, B!Filled, B!Block, Filling
    <2>3. QED BY <2>1, <2>2, <1>0 DEF Returned, B!Result
  <1>5. QED BY <1>1, <1>3, <1>4

LEMMA CompareStep == ASSUME StringsInv, call \in Calls, Compare
                     PROVE  Going \/ Returned
  <1>0. /\ call.op = "memcmp"
        /\ call.dst \in Nat /\ call.src \in Nat /\ call.len \in Nat /\ call # NoCall
        /\ ~Backwards(call) /\ ~Forwards(call)
    BY CallFields DEF Compare, Running, Backwards, Forwards
  <1>1. /\ n \in 0 .. call.len
        /\ dst = call.dst + (call.len - n) /\ src = call.src + (call.len - n)
        /\ mem = before /\ B!Same(before, call, call.len - n)
    BY <1>0 DEF StringsInv, LoopInv, CompareInv, Running
  <1>2. before' = before /\ mem' = mem BY DEF Compare, Kept
  <1>3. CASE n > 0 /\ mem[dst] = mem[src]
    <2>1. n' = n - 1 /\ dst' = dst + 1 /\ src' = src + 1 /\ call' = call
      BY <1>1, <1>3 DEF Compare
    <2>2. B!Same(before, call, call.len - n + 1)
      BY <1>0, <1>1, <1>3 DEF B!Same
    <2>3. CompareInv'
      BY <1>0, <1>1, <1>2, <1>3, <2>1, <2>2 DEF CompareInv, B!Same
    <2>4. QED BY <1>0, <1>2, <2>1, <2>3
              DEF Going, LoopInv, NothingInv, ForwardsInv, BackwardsInv, FillInv, SearchInv, Running
  <1>4. CASE n > 0 /\ mem[dst] # mem[src]
    <2>1. call' = NoCall /\ ret' = mem[dst] - mem[src]
      BY <1>1, <1>4 DEF Compare, Return
    <2>2. B!FirstDiffers(before, call, ret')
      BY <1>0, <1>1, <1>4, <2>1 DEF B!FirstDiffers
    <2>3. QED BY <1>0, <1>1, <1>2, <2>1, <2>2 DEF Returned, B!Result, B!Effect
  <1>5. CASE n = 0
    <2>1. call' = NoCall /\ ret' = 0
      BY <1>1, <1>5 DEF Compare, Return
    <2>2. B!Same(before, call, call.len)
      BY <1>0, <1>1, <1>5
    <2>3. QED BY <1>0, <1>1, <1>2, <2>1, <2>2 DEF Returned, B!Result, B!Effect
  <1>6. QED BY <1>1, <1>3, <1>4, <1>5

LEMMA SearchStep == ASSUME StringsInv, call \in Calls, Search
                    PROVE  Going \/ Returned
  <1>0. /\ call.op = "memchr"
        /\ call.src \in Nat /\ call.len \in Nat /\ call # NoCall
        /\ ~Backwards(call) /\ ~Forwards(call)
    BY CallFields DEF Search, Running, Backwards, Forwards
  <1>1. /\ n \in 0 .. call.len /\ src = call.src + (call.len - n)
        /\ mem = before /\ \A a \in call.src .. src - 1 : before[a] # call.ch
    BY <1>0 DEF StringsInv, LoopInv, SearchInv, Running
  <1>2. SoughtAreBytes => call.ch % 256 = call.ch
    <2> SUFFICES ASSUME SoughtAreBytes PROVE call.ch % 256 = call.ch
      OBVIOUS
    <2>1. call.ch \in 0 .. 255 BY <1>0, CallFields DEF SoughtAreBytes
    <2>2. QED BY <2>1
  <1>3. before' = before /\ mem' = mem BY DEF Search, Kept
  <1>4. CASE n > 0 /\ mem[src] # call.ch
    <2>1. n' = n - 1 /\ src' = src + 1 /\ call' = call
      BY <1>1, <1>4 DEF Search
    <2>2. SearchInv'
      BY <1>0, <1>1, <1>3, <1>4, <2>1 DEF SearchInv
    <2>3. QED BY <1>0, <1>3, <2>1, <2>2
              DEF Going, LoopInv, NothingInv, ForwardsInv, BackwardsInv, FillInv, CompareInv, Running
  <1>5. CASE n > 0 /\ mem[src] = call.ch
    <2>1. call' = NoCall /\ ret' = src
      BY <1>1, <1>5 DEF Search, Return
    <2>2. SoughtAreBytes => B!FirstFound(before, call, ret')
      BY <1>0, <1>1, <1>2, <1>5, <2>1 DEF B!FirstFound, B!Block
    <2>3. QED BY <1>0, <1>1, <1>3, <2>1, <2>2 DEF Returned, B!Result, B!Effect
  <1>6. CASE n = 0
    <2>1. call' = NoCall /\ ret' = NULL
      BY <1>1, <1>6 DEF Search, Return
    <2>2. SoughtAreBytes => B!NotFound(before, call)
      BY <1>0, <1>1, <1>2, <1>6 DEF B!NotFound, B!Block
    <2>3. QED BY <1>0, <1>1, <1>3, <2>1, <2>2 DEF Returned, B!Result, B!Effect
  <1>7. QED BY <1>1, <1>4, <1>5, <1>6

-----------------------------------------------------------------------------

LEMMA EffectType == ASSUME NEW m \in Contents, NEW c \in Calls
                    PROVE  B!Effect(m, c) \in Contents
  <1>1. MemSize \in Nat BY MemoryAssumption
  <1>2. /\ c.dst \in Nat /\ c.src \in Nat /\ c.len \in Nat /\ c.ch \in Int
        /\ c.dst + c.len <= MemSize /\ c.src + c.len <= MemSize
    BY CallFields
  <1>3. B!Copied(m, c) \in Contents
    <2>1. \A a \in Addr : a \in c.dst .. c.dst + c.len - 1 => c.src + (a - c.dst) \in Addr
      BY <1>1, <1>2 DEF Addr
    <2>2. QED BY <2>1 DEF B!Copied, B!Block, Contents
  <1>4. B!Filled(m, c) \in Contents
    <2>1. c.ch % 256 \in 0 .. 255 BY <1>2
    <2>2. QED BY <2>1 DEF B!Filled, Contents
  <1>5. QED BY <1>3, <1>4 DEF B!Effect

LEMMA ExecuteStep == ASSUME StringsInv, Execute
                     PROVE  call \in Calls /\ before' = before /\ (Going \/ Returned)
  <1>1. call # NoCall
    BY DEF Execute, CopyNothing, CopyForwards, CopyBackwards, Fill, Compare, Search,
           Running, NoCall
  <1>2. call \in Calls
    BY <1>1 DEF StringsInv, ContentsInv
  <1>3. before' = before
    BY DEF Execute, CopyNothing, CopyForwards, CopyBackwards, Fill, Compare, Search, Kept
  <1>4. QED
    BY <1>2, <1>3, CopyNothingStep, CopyForwardsStep, CopyBackwardsStep, FillStep, CompareStep,
       SearchStep DEF Execute

LEMMA StringsInitInv == ASSUME StringsInit
                        PROVE  StringsInv
  <1>1. Memories \subseteq Contents
    BY MemoryAssumption DEF Contents, Addr
  <1>2. QED BY <1>1 DEF StringsInit, StringsInv, ContentsInv, LoopInv, NothingInv, ForwardsInv,
                       BackwardsInv, FillInv, CompareInv, SearchInv

LEMMA StringsStep == ASSUME StringsInv, [StringsNext]_stringVars
                     PROVE  StringsInv'
  <1>1. CASE \E c \in Calls : Call(c)
    BY <1>1, CallStep
  <1>2. CASE Execute
    <2>1. call \in Calls /\ before' = before /\ call # NoCall
      BY <1>2, ExecuteStep, CallFields
    <2>2. CASE Going
      BY <2>1, <2>2 DEF Going, StringsInv, ContentsInv
    <2>3. CASE Returned
      <3>1. call' = NoCall /\ mem' \in Contents
        BY <2>1, <2>3, EffectType DEF Returned, StringsInv, ContentsInv
      <3>2. QED BY <2>1, <3>1
                DEF StringsInv, ContentsInv, LoopInv, NothingInv, ForwardsInv, BackwardsInv, FillInv,
                    CompareInv, SearchInv
    <2>4. QED BY <1>2, <2>2, <2>3, ExecuteStep
  <1>3. CASE UNCHANGED stringVars
    BY <1>3 DEF stringVars, StringsInv, ContentsInv, LoopInv, NothingInv, ForwardsInv, BackwardsInv,
                FillInv, CompareInv, SearchInv, Moving, Filling, Left, Running, Forwards, Backwards
  <1>4. QED BY <1>1, <1>2, <1>3 DEF StringsNext

\* In every state the loops of string.c:43-126 hold their invariants: what is
\* copied, filled, compared or searched so far is as it should be.
THEOREM LoopsCorrect == StringsSpec => []StringsInv
  <1>1. StringsInit => StringsInv BY StringsInitInv
  <1>2. StringsInv /\ [StringsNext]_stringVars => StringsInv' BY StringsStep
  <1>3. QED BY <1>1, <1>2, PTL DEF StringsSpec

LEMMA BlockOpsStep == ASSUME SoughtAreBytes, StringsInv, [StringsNext]_stringVars
                      PROVE  [B!Call \/ B!Return]_<<IF call = NoCall THEN mem ELSE before, call, ret>>
  <1>1. CASE \E c \in Calls : Call(c)
    <2>1. PICK c \in Calls : Call(c) BY <1>1
    <2>2. call = NoCall /\ call' = c /\ before' = mem /\ ret' = ret /\ c # NoCall
      BY <2>1, CallFields DEF Call
    <2>3. B!Call BY <2>2 DEF B!Call
    <2>4. QED BY <2>3
  <1>2. CASE Execute
    <2>1. call \in Calls /\ before' = before /\ call # NoCall
      BY <1>2, ExecuteStep, CallFields
    <2>2. CASE call' = call
      <3>1. ret' = ret
        BY <1>2, <2>1, <2>2
           DEF Execute, CopyNothing, CopyForwards, CopyBackwards, Fill, Compare, Search, Return
      <3>2. QED BY <2>1, <2>2, <3>1
    <2>3. CASE Returned
      BY <2>1, <2>3 DEF Returned, B!Return
    <2>4. QED BY <1>2, <2>2, <2>3, ExecuteStep DEF Going
  <1>3. CASE UNCHANGED stringVars
    BY <1>3 DEF stringVars
  <1>4. QED BY <1>1, <1>2, <1>3 DEF StringsNext

\* memcpy, memmove, memset, memcmp and memchr implement the promises of BlockOps
\* for every memory, block, length and character (string.c:43-126), if memchr is
\* asked for characters that are bytes.
THEOREM StringsImplementBlockOps == ASSUME SoughtAreBytes
                                    PROVE  StringsSpec => ImplementsBlockOps
  <1>1. StringsInit => B!Init
    BY DEF StringsInit, B!Init
  <1>2. StringsInv /\ [StringsNext]_stringVars
          => [B!Call \/ B!Return]_<<IF call = NoCall THEN mem ELSE before, call, ret>>
    BY BlockOpsStep
  <1>3. QED BY <1>1, <1>2, LoopsCorrect, PTL DEF StringsSpec, ImplementsBlockOps, B!Spec

-----------------------------------------------------------------------------
(* vga-demo.c: the carpet, pixel by pixel, and the scale over it. *)

\* What a coordinate of a pixel may be, and the powers of three up to it, as
\* numbers
Coordinate == {v \in Nat : v < 65536}

Power == [place \in 0 .. 10 |-> 3^place]

LEMMA Powers == /\ Power \in [0 .. 10 -> Nat \ {0}]
                /\ \A place \in 0 .. 9 : Power[place + 1] = 3 * Power[place]
                /\ Power[0] = 1 /\ Power[10] = 59049
<1>1. /\ 3^0 = 1 /\ 3^1 = 3 /\ 3^2 = 9 /\ 3^3 = 27 /\ 3^4 = 81 /\ 3^5 = 243 /\ 3^6 = 729
      /\ 3^7 = 2187 /\ 3^8 = 6561 /\ 3^9 = 19683 /\ 3^10 = 59049
  OBVIOUS
<1>2. Power = [place \in 0 .. 10 |-> 3^place]
  BY DEF Power
<1>3. /\ Power[0] = 3^0 /\ Power[1] = 3^1 /\ Power[2] = 3^2 /\ Power[3] = 3^3
      /\ Power[4] = 3^4 /\ Power[5] = 3^5 /\ Power[6] = 3^6 /\ Power[7] = 3^7
      /\ Power[8] = 3^8 /\ Power[9] = 3^9 /\ Power[10] = 3^10
  <2>1. ASSUME NEW place \in 0 .. 10 PROVE Power[place] = 3^place
    BY <1>2, Zenon
  <2>2. QED
    BY <2>1
<1>4. /\ Power[0] = 1 /\ Power[1] = 3 /\ Power[2] = 9 /\ Power[3] = 27 /\ Power[4] = 81
      /\ Power[5] = 243 /\ Power[6] = 729 /\ Power[7] = 2187 /\ Power[8] = 6561
      /\ Power[9] = 19683 /\ Power[10] = 59049
  BY <1>1, <1>3
<1>5. DOMAIN Power = 0 .. 10 /\ Power = [place \in DOMAIN Power |-> Power[place]]
  BY <1>2, Zenon
<1>6. QED
  BY <1>4, <1>5

\* A third of a coordinate is a smaller one, but for 0.
LEMMA Thirds ==
  ASSUME NEW v \in Coordinate
  PROVE  v \in Nat /\ v \div 3 \in Coordinate /\ v \div 3 <= v /\ (v # 0 => v \div 3 < v)
BY DEF Coordinate

\* Hole, without the redundant bounds
Centre(a, b, place) == (a \div Power[place]) % 3 = 1 /\ (b \div Power[place]) % 3 = 1
Carpet(a, b) == IF \E place \in 0 .. 10 : Centre(a, b, place) THEN 0 ELSE 255

\* A place with a one is a place of the number.
LEMMA HoleIsCentre ==
  ASSUME NEW a \in Coordinate, NEW b \in Coordinate
  PROVE  Hole(a, b) <=> \E place \in 0 .. 10 : Centre(a, b, place)
<1>1. ASSUME NEW v \in Coordinate, NEW place \in 0 .. 10, (v \div Power[place]) % 3 = 1
      PROVE  Power[place] <= v
  <2>1. ASSUME NEW m \in Nat \ {0}, v < m PROVE v \div m = 0
    <3>1. 0 \in Nat /\ v \in 0 .. m - 1 /\ m * 0 + v = v
      BY <2>1 DEF Coordinate
    <3>2. QED
      BY <3>1, Quotient
  <2>2. Power[place] \in Nat \ {0} /\ v \in Nat
    BY Powers DEF Coordinate
  <2>3. QED
    BY <1>1, <2>1, <2>2
<1>2. \A place \in 0 .. 10 : Power[place] = 3^place
  BY DEF Power
<1>3. Hole(a, b) <=> \E place \in 0 .. 10 : /\ Power[place] <= a /\ Power[place] <= b
                                            /\ Centre(a, b, place)
  BY <1>2, Zenon DEF Hole, Centre
<1>4. QED
  BY <1>1, <1>3 DEF Centre

\* Without their last digits the coordinates have the places above it.
LEMMA CarpetShrinks ==
  ASSUME NEW a \in Coordinate, NEW b \in Coordinate
  PROVE  Carpet(a, b) = IF a = 0 /\ b = 0 THEN 255
                        ELSE IF a % 3 = 1 /\ b % 3 = 1 THEN 0 ELSE Carpet(a \div 3, b \div 3)
<1>0. a \div Power[0] = a /\ b \div Power[0] = b
  <2>1. a \div 1 = a /\ b \div 1 = b
    BY DEF Coordinate
  <2>2. Power[0] = 1
    BY Powers
  <2>3. QED
    BY <2>1, <2>2, Zenon
<1>1. CASE a = 0 /\ b = 0
  <2>1. ASSUME NEW m \in Nat \ {0} PROVE 0 \div m = 0
    OBVIOUS
  <2>2. QED
    BY <1>1, <2>1, Powers DEF Carpet, Centre
<1>2. CASE ~(a = 0 /\ b = 0) /\ a % 3 = 1 /\ b % 3 = 1
  <2>1. Centre(a, b, 0)
    BY <1>2, <1>0 DEF Centre
  <2>2. QED
    BY <1>2, <2>1 DEF Carpet
<1>3. CASE ~(a = 0 /\ b = 0) /\ ~(a % 3 = 1 /\ b % 3 = 1)
  <2>1. ~Centre(a, b, 0)
    BY <1>3, <1>0 DEF Centre
  <2>2. ASSUME NEW v \in Coordinate, NEW place \in 0 .. 9
        PROVE  (v \div 3) \div Power[place] = v \div Power[place + 1]
    <3>1. Power[place] \in Nat \ {0} /\ Power[place + 1] = 3 * Power[place]
      BY Powers
    <3>2. QED
      BY <3>1, Thirds, QuotientOfQuotient
  <2>3. ASSUME NEW place \in 0 .. 9
        PROVE  Centre(a \div 3, b \div 3, place) <=> Centre(a, b, place + 1)
    BY <2>2 DEF Centre
  <2>4. ~Centre(a \div 3, b \div 3, 10)
    <3>1. (a \div 3) \div 59049 = 0
      BY DEF Coordinate
    <3>2. QED
      BY <3>1, Powers DEF Centre
  <2>5. (\E place \in 0 .. 10 : Centre(a, b, place))
           <=> \E place \in 0 .. 9 : Centre(a, b, place + 1)
    <3>1. ASSUME NEW place \in 0 .. 10, Centre(a, b, place)
          PROVE  \E k \in 0 .. 9 : Centre(a, b, k + 1)
      <4>1. place - 1 \in 0 .. 9 /\ (place - 1) + 1 = place
        BY <2>1, <3>1
      <4>2. QED
        BY <4>1, <3>1
    <3>2. \A k \in 0 .. 9 : k + 1 \in 0 .. 10
      OBVIOUS
    <3>3. QED
      BY <3>1, <3>2
  <2>6. (\E place \in 0 .. 10 : Centre(a \div 3, b \div 3, place))
           <=> \E place \in 0 .. 9 : Centre(a \div 3, b \div 3, place)
    <3>1. \A place \in 0 .. 10 : place \in 0 .. 9 \/ place = 10
      OBVIOUS
    <3>2. \A place \in 0 .. 9 : place \in 0 .. 10
      OBVIOUS
    <3>3. QED
      BY <3>1, <3>2, <2>4
  <2>7. QED
    BY <1>3, <2>3, <2>5, <2>6 DEF Carpet
<1>4. QED
  BY <1>1, <1>2, <1>3

\* The loop of sierpinski: the carpet satisfies its equation, so something
\* does, and with the least coordinates for which the shade were another the
\* next round's would be another as well (vga-demo.c:56-69).
LEMMA SierpinskiIsCarpet ==
  ASSUME NEW px \in Coordinate, NEW py \in Coordinate
  PROVE  sierpinski(px, py) = IF Hole(px, py) THEN 0 ELSE 255
<1> DEFINE D       == (0 .. px) \X (0 .. py)
           Body(g) == [at \in D |-> IF at = <<0, 0>> THEN 255
                                    ELSE IF at[1] % 3 = 1 /\ at[2] % 3 = 1 THEN 0
                                    ELSE g[<<at[1] \div 3, at[2] \div 3>>]]
           carpet  == [at \in D |-> Carpet(at[1], at[2])]
           f       == CHOOSE g : g = Body(g)
<1>1. sierpinski(px, py) = f[<<px, py>>]
  BY DEF sierpinski
<1>2. ASSUME NEW at \in D
      PROVE  /\ at = <<at[1], at[2]>> /\ at[1] \in Coordinate /\ at[2] \in Coordinate
             /\ <<at[1] \div 3, at[2] \div 3>> \in D
             /\ (at = <<0, 0>>) <=> (at[1] = 0 /\ at[2] = 0)
  <2>1. at = <<at[1], at[2]>> /\ at[1] \in 0 .. px /\ at[2] \in 0 .. py
    OBVIOUS
  <2>2. at[1] \in Coordinate /\ at[2] \in Coordinate
    BY <2>1 DEF Coordinate
  <2>3. QED
    <3>1. at[1] \div 3 \in 0 .. px /\ at[2] \div 3 \in 0 .. py
      BY <2>1, <2>2, Thirds DEF Coordinate
    <3>2. QED
      BY <2>1, <2>2, <3>1
<1>3. carpet = Body(carpet)
  <2>1. ASSUME NEW at \in D
        PROVE  carpet[<<at[1] \div 3, at[2] \div 3>>] = Carpet(at[1] \div 3, at[2] \div 3)
    <3>1. \A p \in D : carpet[p] = Carpet(p[1], p[2])
      OBVIOUS
    <3> HIDE DEF carpet, D
    <3>2. QED
      BY <3>1, <1>2
  <2>2. ASSUME NEW at \in D
        PROVE  Carpet(at[1], at[2])
                 = IF at = <<0, 0>> THEN 255
                   ELSE IF at[1] % 3 = 1 /\ at[2] % 3 = 1 THEN 0
                   ELSE carpet[<<at[1] \div 3, at[2] \div 3>>]
    <3> HIDE DEF carpet, D
    <3>1. QED
      BY <1>2, <2>1, CarpetShrinks
  <2> DEFINE c == carpet
  <2>3. Body(c) = [at \in D |-> Carpet(at[1], at[2])]
    <3> HIDE DEF carpet, D
    <3>1. QED
      BY <2>2
  <2>4. QED
    BY <2>3
<1>4. f = Body(f)
  <2> HIDE DEF Body, carpet
  <2>1. QED
    BY <1>3
<1>5. \A at \in D : f[at] = IF at = <<0, 0>> THEN 255
                            ELSE IF at[1] % 3 = 1 /\ at[2] % 3 = 1 THEN 0
                            ELSE f[<<at[1] \div 3, at[2] \div 3>>]
  <2> HIDE DEF f, D
  <2>1. QED
    BY <1>4
<1> HIDE DEF f, carpet, Body, D
<1> DEFINE Wrong == {v \in Nat : \E at \in D : v = at[1] + at[2] /\ f[at] # Carpet(at[1], at[2])}
<1>6. Wrong = {}
  <2> SUFFICES ASSUME Wrong # {} PROVE FALSE
    OBVIOUS
  <2>1. PICK v \in Wrong : \A k \in Wrong : ~(<<k, v>> \in OpToRel(<, Nat))
    <3>1. IsWellFoundedOn(OpToRel(<, Nat), Nat)
      BY NatLessThanWellFounded
    <3>2. Wrong \subseteq Nat
      OBVIOUS
    <3> HIDE DEF Wrong
    <3>3. QED
      BY <3>1, <3>2, WFMin, Zenon
  <2>2. \A k \in Wrong : ~(k < v)
    BY <2>1 DEF OpToRel
  <2>3. PICK at \in D : v = at[1] + at[2] /\ f[at] # Carpet(at[1], at[2])
    OBVIOUS
  <2> DEFINE third == <<at[1] \div 3, at[2] \div 3>>
  <2>4. at # <<0, 0>> /\ f[third] # Carpet(at[1] \div 3, at[2] \div 3)
    BY <2>3, <1>2, <1>5, CarpetShrinks
  <2>5. /\ third \in D /\ third[1] + third[2] < v /\ third[1] + third[2] \in Nat
        /\ third[1] = at[1] \div 3 /\ third[2] = at[2] \div 3
    <3>1. /\ at[1] \in Coordinate /\ at[2] \in Coordinate /\ third \in D
          /\ at[1] # 0 \/ at[2] # 0
      BY <2>4, <1>2
    <3>2. /\ at[1] \div 3 \in Nat /\ at[2] \div 3 \in Nat
          /\ at[1] \in Nat /\ at[2] \in Nat /\ at[1] \div 3 <= at[1] /\ at[2] \div 3 <= at[2]
          /\ at[1] \div 3 < at[1] \/ at[2] \div 3 < at[2]
      BY <3>1, Thirds
    <3>3. third[1] = at[1] \div 3 /\ third[2] = at[2] \div 3
      OBVIOUS
    <3>4. (at[1] \div 3) + (at[2] \div 3) < v
      <4> DEFINE a1 == at[1]  b1 == at[2]  a3 == at[1] \div 3  b3 == at[2] \div 3
      <4>1. /\ a1 \in Nat /\ b1 \in Nat /\ a3 \in Nat /\ b3 \in Nat /\ a3 <= a1 /\ b3 <= b1
            /\ a3 < a1 \/ b3 < b1
            /\ v = a1 + b1
        BY <3>2, <2>3
      <4> HIDE DEF a1, b1, a3, b3
      <4>2. a3 + b3 < v
        BY <4>1
      <4>3. QED
        BY <4>2 DEF a3, b3
    <3>5. QED
      BY <3>1, <3>2, <3>3, <3>4
  <2>6. third[1] + third[2] \in Wrong
    BY <2>4, <2>5
  <2>7. QED
    BY <2>2, <2>5, <2>6
<1>7. f[<<px, py>>] = Carpet(px, py)
  <2>1. <<px, py>> \in D /\ px + py \in Nat
    BY DEF Coordinate, D
  <2>2. QED
    BY <1>6, <2>1
<1>8. QED
  BY <1>1, <1>7, HoleIsCentre DEF Carpet

\* The cell of a pixel
Cell(px, py) == py * WIDTH + px

\* The pixels have their cells one row behind the other.
LEMMA Cells ==
  ASSUME NEW px \in 0 .. WIDTH - 1, NEW py \in 0 .. HEIGHT - 1
  PROVE  /\ Cell(px, py) \in Pixels /\ Cell(px, py) % WIDTH = px /\ Cell(px, py) \div WIDTH = py
         /\ Cell(px, py) >= 7 * WIDTH <=> py >= 7
<1> DEFINE W == WIDTH  H == HEIGHT
<1>1. W \in Nat \ {0} /\ H \in Nat /\ px \in 0 .. W - 1 /\ py \in 0 .. H - 1
  BY PictureAssumption
<1> HIDE DEF W, H
<1>2. py * W = W * py /\ W * py \in Nat
  BY <1>1
<1>3. Cell(px, py) = W * py + px
  BY <1>2 DEF Cell, W
<1>4. ASSUME NEW m \in Nat, NEW v \in Nat, m < v
      PROVE  W * m + W <= W * v
  <2>1. v - m - 1 \in Nat /\ v = m + 1 + (v - m - 1)
    BY <1>4
  <2>2. ASSUME NEW k \in Nat PROVE W * (m + 1 + k) = W * m + W + W * k /\ W * k >= 0
    BY <1>1
  <2>3. QED
    BY <2>1, <2>2, <1>1
<1>5. W * H = WIDTH * HEIGHT /\ W * 7 = 7 * WIDTH
  BY <1>1 DEF W, H
<1>6. Cell(px, py) \in Pixels
  <2>1. W * py + W <= W * H /\ W * H \in Nat
    BY <1>1, <1>4
  <2>2. QED
    BY <2>1, <1>1, <1>2, <1>3, <1>5 DEF Pixels
<1>7. Cell(px, py) % W = px /\ Cell(px, py) \div W = py
  <2>1. py \in Nat
    BY <1>1
  <2>2. (W * py + px) % W = px
    BY <1>1, <2>1, Remainder
  <2>3. (W * py + px) \div W = py
    BY <1>1, <2>1, Quotient
  <2>4. QED
    BY <1>3, <2>2, <2>3, Zenon
<1>8. Cell(px, py) >= W * 7 <=> py >= 7
  <2>1. CASE py < 7
    <3>1. W * py + W <= W * 7
      BY <2>1, <1>1, <1>4
    <3>2. QED
      BY <3>1, <2>1, <1>1, <1>2, <1>3
  <2>2. CASE 7 < py
    <3>1. W * 7 + W <= W * py
      BY <2>2, <1>1, <1>4
    <3>2. QED
      BY <3>1, <2>2, <1>1, <1>2, <1>3
  <2>3. CASE py = 7
    BY <2>3, <1>1, <1>3
  <2>4. QED
    BY <2>1, <2>2, <2>3, <1>1
<1>9. QED
  BY <1>5, <1>6, <1>7, <1>8 DEF W

\* Two pixels of one cell are one.
LEMMA CellsDiffer ==
  ASSUME NEW px \in 0 .. WIDTH - 1, NEW py \in 0 .. HEIGHT - 1,
         NEW qx \in 0 .. WIDTH - 1, NEW qy \in 0 .. HEIGHT - 1, Cell(px, py) = Cell(qx, qy)
  PROVE  px = qx /\ py = qy
BY Cells, Zenon

\* A column's share of the scale
Rises(px, shown) == shown * WIDTH <= 256 * px /\ 256 * px < (shown + 1) * WIDTH
Scaled(px, py) == IF py \in {0, 6} THEN image[Cell(px, py)] = 0 ELSE Rises(px, image[Cell(px, py)])
Carpeted(px, py) == image[Cell(px, py)] = IF Hole(px, py) THEN 0 ELSE 255

Columns == 0 .. WIDTH - 1
Rows    == 0 .. HEIGHT - 1

\* What is drawn so far
DemoInv ==
  /\ painting \in {"idle", "shade", "scale", "shown"} /\ DOMAIN image = Pixels
  /\ painting = "shade" => /\ x \in Columns /\ y \in Rows
                           /\ \A px \in Columns, py \in Rows :
                                py < y \/ (py = y /\ px < x) => Carpeted(px, py)
  /\ painting = "scale" => x \in Columns
  /\ painting \in {"scale", "shown"} =>
       \A px \in Columns, py \in Rows :
         /\ py >= 7 => Carpeted(px, py)
         /\ py < 7 /\ (px < x \/ painting = "shown") => Scaled(px, py)

\* The scale's colour of a column, which fits into its byte
LEMMA ColumnsShare ==
  ASSUME NEW px \in Columns
  PROVE  Rises(px, ((256 * px) \div WIDTH) % 256)
<1> DEFINE W == WIDTH
           v == 256 * px
           q == v \div W
<1>1. W \in Nat \ {0} /\ v \in Nat /\ px \in 0 .. W - 1
  BY PictureAssumption DEF Columns
<1>2. q \in Nat /\ v - W * q \in 0 .. W - 1
  BY <1>1, Division
<1>3. v < 256 * W
  BY <1>1
<1> HIDE DEF W, v, q
<1>4. q < 256
  <2>1. SUFFICES ASSUME q >= 256 PROVE FALSE
    BY <1>2
  <2>2. q - 256 \in Nat /\ q = 256 + (q - 256)
    BY <2>1, <1>2
  <2>3. ASSUME NEW k \in Nat PROVE W * (256 + k) = 256 * W + W * k /\ W * k >= 0
    BY <1>1
  <2>4. W * q >= 256 * W
    BY <2>2, <2>3, <1>1, <1>2
  <2>5. W * q \in Nat
    BY <1>1, <1>2
  <2>6. QED
    BY <2>4, <2>5, <1>1, <1>2, <1>3
<1>5. q % 256 = q
  BY <1>2, <1>4
<1>6. q * W = W * q /\ (q + 1) * W = W * q + W /\ W * q \in Nat
  BY <1>1, <1>2
<1>7. q * W <= v /\ v < (q + 1) * W
  BY <1>1, <1>2, <1>6
<1>8. QED
  BY <1>5, <1>7 DEF Rises, W, v, q

\* What the steps need of the sizes
LEMMA SizesOfPicture == WIDTH \in Nat /\ HEIGHT \in Nat /\ WIDTH >= 1 /\ HEIGHT >= 7
BY PictureAssumption

\* A pixel of the carpet, in the order of the rows
LEMMA ShadeStep ==
  ASSUME DemoInv, Shade
  PROVE  DemoInv'
<1>1. /\ x \in Columns /\ y \in Rows /\ DOMAIN image = Pixels
      /\ \A px \in Columns, py \in Rows : py < y \/ (py = y /\ px < x) => Carpeted(px, py)
      /\ image' = [image EXCEPT ![Cell(x, y)] = sierpinski(x, y)]
  BY DEF DemoInv, Shade, Cell
<1>2. x \in Coordinate /\ y \in Coordinate
  BY <1>1, PictureAssumption DEF Coordinate, Columns, Rows
<1>3. image'[Cell(x, y)] = (IF Hole(x, y) THEN 0 ELSE 255) /\ DOMAIN image' = Pixels
  <2>1. Cell(x, y) \in Pixels
    BY <1>1, Cells DEF Columns, Rows
  <2>2. QED
    BY <1>1, <1>2, <2>1, SierpinskiIsCarpet
<1>4. ASSUME NEW px \in Columns, NEW py \in Rows, py < y \/ (py = y /\ px <= x)
      PROVE  Carpeted(px, py)'
  <2>1. CASE px = x /\ py = y
    BY <2>1, <1>3 DEF Carpeted, Cell, Hole
  <2>2. CASE ~(px = x /\ py = y)
    <3>1. Cell(px, py) # Cell(x, y) /\ Cell(px, py) \in Pixels
      BY <2>2, <1>1, Cells, CellsDiffer DEF Columns, Rows
    <3>2. image'[Cell(px, py)] = image[Cell(px, py)]
      BY <3>1, <1>1
    <3>3. Carpeted(px, py)
      BY <2>2, <1>1, <1>4 DEF Columns, Rows
    <3>4. QED
      BY <3>2, <3>3 DEF Carpeted, Cell, Hole
  <2>3. QED
    BY <2>1, <2>2
<1>5. CASE x + 1 < WIDTH
  <2>1. x' = x + 1 /\ y' = y /\ painting' = "shade" /\ x' \in Columns
    BY <1>5, <1>1, SizesOfPicture DEF Shade, Columns
  <2>2. \A px \in Columns, py \in Rows : py < y' \/ (py = y' /\ px < x') => Carpeted(px, py)'
    BY <2>1, <1>1, <1>4 DEF Columns, Rows
  <2>3. QED
    BY <2>1, <2>2, <1>1, <1>3 DEF DemoInv
<1>6. CASE ~(x + 1 < WIDTH)
  <2>1. x' = 0 /\ y' = y + 1 /\ painting' = (IF y + 1 < HEIGHT THEN "shade" ELSE "scale") /\ x' \in Columns
    BY <1>6, <1>1, SizesOfPicture DEF Shade, Columns
  <2>2. \A px \in Columns, py \in Rows : py < y' => Carpeted(px, py)'
    BY <2>1, <1>1, <1>4, <1>6, SizesOfPicture DEF Columns, Rows
  <2>3. CASE y + 1 < HEIGHT
    <3>1. y' \in Rows
      BY <2>1, <2>3, <1>1, SizesOfPicture DEF Rows
    <3>2. \A px \in Columns : ~(px < x')
      BY <2>1 DEF Columns
    <3>3. QED
      BY <2>1, <2>2, <2>3, <3>1, <3>2, <1>3 DEF DemoInv
  <2>4. CASE ~(y + 1 < HEIGHT)
    <3>1. \A px \in Columns, py \in Rows : py < y' /\ ~(px < x')
      BY <2>1, <2>4, <1>1, SizesOfPicture DEF Rows, Columns
    <3>2. QED
      BY <2>1, <2>2, <2>4, <3>1, <1>3 DEF DemoInv
  <2>5. QED
    BY <2>3, <2>4
<1>7. QED
  BY <1>5, <1>6

\* A column of the scale, over the first seven rows
LEMMA ScaleStep ==
  ASSUME DemoInv, Scale
  PROVE  DemoInv'
<1> DEFINE q == ((256 * x) \div WIDTH) % 256
<1>1. /\ x \in Columns /\ DOMAIN image = Pixels
      /\ \A px \in Columns, py \in Rows : /\ py >= 7 => Carpeted(px, py)
                                          /\ py < 7 /\ px < x => Scaled(px, py)
      /\ image' = [p \in Pixels |->
                     IF p % WIDTH # x \/ p >= 7 * WIDTH THEN image[p]
                     ELSE IF p \div WIDTH \in {0, 6} THEN 0 ELSE q]
      /\ x' = x + 1 /\ painting' = IF x + 1 < WIDTH THEN "scale" ELSE "shown"
  BY DEF DemoInv, Scale
<1>2. Rises(x, q)
  BY <1>1, ColumnsShare
<1> HIDE DEF q
<1>3. ASSUME NEW px \in Columns, NEW py \in Rows
      PROVE  image'[Cell(px, py)] = IF px # x \/ py >= 7 THEN image[Cell(px, py)]
                                    ELSE IF py \in {0, 6} THEN 0 ELSE q
  <2>1. /\ Cell(px, py) \in Pixels /\ Cell(px, py) % WIDTH = px /\ Cell(px, py) \div WIDTH = py
        /\ Cell(px, py) >= 7 * WIDTH <=> py >= 7
    BY Cells DEF Columns, Rows
  <2> DEFINE c == Cell(px, py)
  <2>2. image'[c] = IF c % WIDTH # x \/ c >= 7 * WIDTH THEN image[c]
                    ELSE IF c \div WIDTH \in {0, 6} THEN 0 ELSE q
    <3> HIDE DEF c
    <3>1. c \in Pixels
      BY <2>1 DEF c
    <3>2. QED
      BY <3>1, <1>1, Zenon
  <2>3. QED
    BY <2>1, <2>2, Zenon
<1>4. ASSUME NEW px \in Columns, NEW py \in Rows
      PROVE  /\ py >= 7 => Carpeted(px, py)'
             /\ py < 7 /\ px <= x => Scaled(px, py)'
  <2>1. CASE py >= 7
    <3>1. image'[Cell(px, py)] = image[Cell(px, py)] /\ Carpeted(px, py) /\ ~(py < 7)
      BY <2>1, <1>1, <1>3 DEF Rows
    <3>2. QED
      BY <3>1 DEF Carpeted, Cell, Hole
  <2>2. CASE py < 7 /\ px = x
    <3>1. image'[Cell(px, py)] = (IF py \in {0, 6} THEN 0 ELSE q) /\ ~(py >= 7)
      BY <2>2, <1>3 DEF Rows
    <3>2. QED
      BY <3>1, <2>2, <1>2 DEF Scaled, Cell, Rises
  <2>3. CASE py < 7 /\ px < x
    <3>1. image'[Cell(px, py)] = image[Cell(px, py)] /\ Scaled(px, py) /\ ~(py >= 7)
      BY <2>3, <1>1, <1>3 DEF Rows, Columns
    <3>2. QED
      BY <3>1 DEF Scaled, Cell, Rises
  <2>4. QED
    BY <2>1, <2>2, <2>3, <1>1 DEF Rows, Columns
<1>5. \A px \in Columns : (px < x + 1 => px <= x) /\ (x + 1 >= WIDTH => px <= x)
  BY <1>1, SizesOfPicture DEF Columns
<1>6. x + 1 < WIDTH => x' \in Columns
  BY <1>1, SizesOfPicture DEF Columns
<1>7. DOMAIN image' = Pixels
  BY <1>1
<1>8. CASE x + 1 < WIDTH
  <2>1. painting' = "scale" /\ x' = x + 1 /\ x' \in Columns
    BY <1>1, <1>6, <1>8
  <2>2. QED
    BY <2>1, <1>4, <1>5, <1>7 DEF DemoInv
<1>9. CASE ~(x + 1 < WIDTH)
  <2>1. painting' = "shown" /\ \A px \in Columns : px <= x
    BY <1>1, <1>5, <1>9, SizesOfPicture DEF Columns
  <2>2. QED
    BY <2>1, <1>4, <1>7 DEF DemoInv
<1>10. QED
  BY <1>8, <1>9

\* DemoInv is inductive
LEMMA DrawingStep == DemoInv /\ [DemoNext]_demoVars => DemoInv'
<1> SUFFICES ASSUME DemoInv, [DemoNext]_demoVars PROVE DemoInv'
  OBVIOUS
<1>1. CASE prepare_palette
  <2>1. 0 \in Columns /\ 0 \in Rows /\ \A p \in Columns \cup Rows : ~(p < 0)
    BY SizesOfPicture DEF Columns, Rows
  <2>2. painting' = "shade" /\ x' = 0 /\ y' = 0 /\ image' = image
    BY <1>1 DEF prepare_palette
  <2>3. QED
    BY <2>1, <2>2 DEF DemoInv
<1>2. CASE Shade
  BY <1>2, ShadeStep
<1>3. CASE Scale
  BY <1>3, ScaleStep
<1>4. CASE UNCHANGED demoVars
  BY <1>4 DEF demoVars, DemoInv, Carpeted, Scaled, Rises, Cell, Hole
<1>5. QED
  BY <1>1, <1>2, <1>3, <1>4 DEF DemoNext

\* and says what the picture is.
LEMMA DrawnIsPicture == DemoInv => PictureDrawn
<1> SUFFICES ASSUME DemoInv, painting = "shown", NEW px \in 0 .. WIDTH - 1, NEW py \in 0 .. HEIGHT - 1
             PROVE  LET shown == image[py * WIDTH + px] IN
                    CASE py \in {0, 6}  -> shown = 0
                      [] py \in 1 .. 5  -> shown * WIDTH <= 256 * px /\ 256 * px < (shown + 1) * WIDTH
                      [] OTHER          -> shown = IF Hole(px, py) THEN 0 ELSE 255
  BY DEF PictureDrawn
<1>1. /\ py >= 7 => Carpeted(px, py)
      /\ py < 7 => Scaled(px, py)
  BY DEF DemoInv, Columns, Rows
<1>2. CASE py \in {0, 6}
  BY <1>1, <1>2 DEF Scaled, Cell
<1>3. CASE py \in 1 .. 5
  <2>1. py < 7 /\ py \notin {0, 6}
    BY <1>3
  <2>2. QED
    BY <1>1, <1>3, <2>1 DEF Scaled, Cell, Rises
<1>4. CASE py \notin {0, 6} /\ py \notin 1 .. 5
  <2>1. py >= 7
    BY <1>4
  <2>2. QED
    BY <1>1, <1>4, <2>1 DEF Carpeted, Cell
<1>5. QED
  BY <1>2, <1>3, <1>4

\* The picture of the demo is the scale and the carpet below it, in every pixel,
\* whatever its size (vga-demo.c:33-70).
THEOREM PictureDrawnHolds == DemoSpec => []PictureDrawn
<1>1. DemoInit => DemoInv
  BY DEF DemoInit, DemoInv
<1>2. QED
  BY <1>1, DrawingStep, DrawnIsPicture, PTL DEF DemoSpec

-----------------------------------------------------------------------------
(* The BIOS: each part runs while the others stand still. *)

LEMMA PartsInFirmware ==
  /\ FirmwareSpec => StartupSpec
  /\ FirmwareSpec => StringsSpec
  /\ FirmwareSpec => FormatSpec
  /\ FirmwareSpec => DemoSpec
<1>1. FirmwareInit => StartupInit /\ StringsInit /\ FormatInit /\ DemoInit
  BY DEF FirmwareInit
<1>2. [FirmwareNext]_firmwareVars
        => /\ [StartupNext]_startupVars /\ [StringsNext]_stringVars
           /\ [FormatNext]_formatVars /\ [DemoNext]_demoVars
  BY DEF FirmwareNext, firmwareVars, StringStep, FormatStep, DemoStep, InMain
<1>3. QED
  BY <1>1, <1>2, PTL DEF FirmwareSpec, StartupSpec, StringsSpec, FormatSpec, DemoSpec

\* Nothing the BIOS does later disturbs the static variables head.S has set up
\* (head.S:40-60).
THEOREM FirmwareStaticsInPlace == FirmwareSpec => []StaticsInPlace
BY PartsInFirmware, StaticsInPlaceHolds, PTL

\* The memory functions keep their promises wherever the BIOS calls them
\* (string.c:43-126), if memchr is asked for characters that are bytes.
THEOREM FirmwareImplementsBlockOps == ASSUME SoughtAreBytes
                                      PROVE  FirmwareSpec => ImplementsBlockOps
BY PartsInFirmware, StringsImplementBlockOps, PTL

\* The BIOS draws the demo's picture (vga-demo.c:29-70).
THEOREM FirmwareDrawsPicture == FirmwareSpec => []PictureDrawn
BY PartsInFirmware, PictureDrawnHolds, PTL

\* Wherever the BIOS prints a format, each directive shows the argument passed for
\* it, and the format is not read behind its terminator (tty.c:53-97).
THEOREM FirmwarePrintsWhatIsMeant == FirmwareSpec => []PrintsWhatIsMeant
BY PartsInFirmware, PrintsWhatIsMeantHolds, PTL

\* Wherever the BIOS dumps a block, every byte is shown once and in its place
\* (tty.c:115-164).
THEOREM FirmwareDumpShowsAll == FirmwareSpec => []DumpShowsAll
BY PartsInFirmware, DumpShowsAllHolds, PTL

=============================================================================
