------------------------------- MODULE Startup -------------------------------
(***************************************************************************)
(* What runs before main, bios/head.S, over the sections the linker script *)
(* bios/mmap.x.inc lays out: .data at the start of the RAM, .bss behind    *)
(* it, and the stack behind that; the contents of .data lie in the ROM     *)
(* behind the text.  Addresses count words from the start of the RAM.      *)
(***************************************************************************)
EXTENDS Integers

CONSTANTS Sections,      \* the sizes [data, bss] that are linked
          RamWords,
          Rom,           \* the words behind __text_end
          Garbage        \* what the RAM holds at power-on

\* Sections are aligned to 16 bytes, and a program that has variables to clear
\* has some to initialise.
ASSUME SectionsAssumption ==
  /\ RamWords \in Nat
  /\ \A x \in Sections : /\ x.data \in Nat /\ x.bss \in Nat
                         /\ x.data % 4 = 0 /\ x.bss % 4 = 0
                         /\ x.data + x.bss + 4 <= RamWords
                         /\ x.bss > 0 => x.data > 0

VARIABLES sections, boot, v0, t0, t1, ram

startupVars == <<sections, boot, v0, t0, t1, ram>>

data_start == 0
data_end   == sections.data
bss_start  == sections.data
bss_end    == sections.data + sections.bss
Ram        == 0 .. RamWords - 1

-----------------------------------------------------------------------------

StartupInit == /\ sections \in Sections
               /\ boot = "clear_loop"
               /\ v0 = bss_start /\ t0 = 0 /\ t1 = data_start
               /\ ram = [a \in Ram |-> Garbage]

\* Variant for mutation testing: the loop goes on until it is past the end.
clear_loopPast == /\ boot = "clear_loop"
                  /\ ram' = [a \in Ram |-> IF a \in v0 .. v0 + 3 THEN 0 ELSE ram[a]]
                  /\ v0' = v0 + 4
                  /\ boot' = IF v0' <= bss_end THEN "clear_loop" ELSE "copy_loop"
                  /\ UNCHANGED <<sections, t0, t1>>

\* Four words at a time, the bound compared behind them
clear_loop == /\ boot = "clear_loop"
              /\ ram' = [a \in Ram |-> IF a \in v0 .. v0 + 3 THEN 0 ELSE ram[a]]
              /\ v0' = v0 + 4
              /\ boot' = IF v0' < bss_end THEN "clear_loop" ELSE "copy_loop"
              /\ UNCHANGED <<sections, t0, t1>>

copy_loop == /\ boot = "copy_loop"
             /\ ram' = [ram EXCEPT ![t1] = Rom[t0]]
             /\ t0' = t0 + 1 /\ t1' = t1 + 1
             /\ boot' = IF t1' < data_end THEN "copy_loop" ELSE "main"
             /\ UNCHANGED <<sections, v0>>

StartupNext == clear_loop \/ copy_loop
StartupSpec == StartupInit /\ [][StartupNext]_startupVars

-----------------------------------------------------------------------------

StartupTypeOK == /\ sections \in Sections
                 /\ boot \in {"clear_loop", "copy_loop", "main"}
                 /\ v0 \in Nat /\ t0 \in Nat /\ t1 \in Nat
                 /\ DOMAIN ram = Ram

\* When main starts, every initialised variable has its value and every other
\* one is zero, and no loop has touched more than the four words behind the
\* sections (head.S:1-3).  Both loops store before they compare, and they run
\* in this order: with an empty .data the copy would put a word of the ROM
\* where the clearing has been.
StaticsInPlace ==
  boot = "main" =>
    /\ \A a \in data_start .. data_end - 1 : ram[a] = Rom[a]
    /\ \A a \in bss_start .. bss_end - 1 : ram[a] = 0
    /\ \A a \in Ram : a >= bss_end + (IF sections.bss = 0 THEN 4 ELSE 0) => ram[a] = Garbage

=============================================================================
