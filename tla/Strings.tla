------------------------------- MODULE Strings -------------------------------
(***************************************************************************)
(* The memory functions of bios/string.c, byte by byte: memcpy unrolled    *)
(* into eight copies a round and entered in the middle of one, memmove     *)
(* forwards by memcpy or backwards by itself, memset, memcmp and memchr.   *)
(***************************************************************************)
EXTENDS Integers

CONSTANTS MemSize,
          Lengths,        \* the lengths that are asked for
          Chars,          \* the characters, ints, that are passed
          Sought,         \* those of them that memchr is asked for
          Memories,       \* what the memory holds at first
          NULL, MaxCalls  \* a bound on the calls

ASSUME MemoryAssumption ==
  /\ MemSize \in Nat /\ Lengths \subseteq Nat /\ Chars \subseteq Int /\ MaxCalls \in Nat
  /\ Memories \subseteq [0 .. MemSize - 1 -> 0 .. 255]
  /\ NULL \notin Int

Addr   == 0 .. MemSize - 1
NoCall == [op |-> "none"]

VARIABLES mem,
          call,       \* the call being executed, or none
          dst, src,   \* the pointers
          n,          \* the rounds left of memcpy, the bytes left of the others
          label,      \* the case of memcpy's switch that is next
          ret,        \* the value last returned
          before,     \* a history: the memory the call was made on
          calls       \* the number of calls so far

stringVars == <<mem, call, dst, src, n, label, ret, before, calls>>

-----------------------------------------------------------------------------

StringsInit == /\ mem \in Memories /\ before = mem
               /\ call = NoCall
               /\ dst = 0 /\ src = 0 /\ n = 0 /\ label = 0 /\ ret = NULL /\ calls = 0

Disjoint(c) == c.dst + c.len <= c.src \/ c.src + c.len <= c.dst

\* The calls a program makes: blocks inside the memory, and apart for memcpy,
\* whose pointers are restrict.
Callable(c) == /\ c.dst + c.len <= MemSize /\ c.src + c.len <= MemSize
               /\ c.op = "memcpy" => Disjoint(c)
               /\ c.op = "memchr" => c.ch \in Sought

Calls == {c \in [op : {"memcpy", "memmove", "memset", "memcmp", "memchr"},
                 dst : 0 .. MemSize, src : 0 .. MemSize, len : Lengths, ch : Chars] : Callable(c)}

\* Variant for mutation testing: memmove copies forwards when the blocks overlap
\* the other way.
ForwardsSwapped(c) == c.op = "memcpy" \/ (c.op = "memmove" /\ c.dst >= c.src)

\* memmove leaves the blocks that may be copied forwards to memcpy.
Forwards(c)  == c.op = "memcpy" \/ (c.op = "memmove" /\ c.dst <= c.src)
Backwards(c) == c.op = "memmove" /\ ~Forwards(c)

Return(v) == call' = NoCall /\ ret' = v

\* The head of each function; the copies have nothing to do for no bytes.
Call(c) == /\ call = NoCall /\ calls < MaxCalls
           /\ calls' = calls + 1 /\ before' = mem
           /\ call' = c
           /\ IF Backwards(c)
              THEN dst' = c.dst + c.len /\ src' = c.src + c.len
              ELSE dst' = c.dst /\ src' = c.src
           /\ IF Forwards(c)
              THEN n' = (c.len + 7) \div 8 /\ label' = c.len % 8
              ELSE n' = c.len /\ label' = 0
           /\ UNCHANGED <<mem, ret>>

Running(op) == call.op = op
Kept        == UNCHANGED <<before, calls>>

\* if (!len) return _dst; the test comes before anything else
CopyNothing == /\ call.op \in {"memcpy", "memmove"} /\ call.len = 0
               /\ Return(call.dst)
               /\ UNCHANGED <<mem, dst, src, n, label>> /\ Kept

\* One case of the switch: fall through to the next, go round, or be done.
CopyForwards == /\ call # NoCall /\ Forwards(call) /\ call.len > 0
                /\ mem' = [mem EXCEPT ![dst] = mem[src]]
                /\ dst' = dst + 1 /\ src' = src + 1
                /\ \/ label # 1 /\ label' = (label + 7) % 8 /\ UNCHANGED <<n, call, ret>>
                   \/ label = 1 /\ n > 1 /\ n' = n - 1 /\ label' = 0 /\ UNCHANGED <<call, ret>>
                   \/ label = 1 /\ n = 1 /\ n' = 0 /\ Return(call.dst) /\ UNCHANGED label
                /\ Kept

CopyBackwards == /\ call # NoCall /\ Backwards(call) /\ call.len > 0
                 /\ \/ /\ n > 0
                       /\ n' = n - 1 /\ dst' = dst - 1 /\ src' = src - 1
                       /\ mem' = [mem EXCEPT ![dst - 1] = mem[src - 1]]
                       /\ UNCHANGED <<call, ret>>
                    \/ /\ n = 0
                       /\ Return(call.dst)
                       /\ UNCHANGED <<mem, dst, src, n>>
                 /\ UNCHANGED label /\ Kept

Fill == /\ Running("memset")
        /\ \/ /\ n > 0
              /\ n' = n - 1 /\ dst' = dst + 1
              /\ mem' = [mem EXCEPT ![dst] = call.ch % 256]
              /\ UNCHANGED <<call, ret>>
           \/ /\ n = 0
              /\ Return(call.dst)
              /\ UNCHANGED <<mem, dst, n>>
        /\ UNCHANGED <<src, label>> /\ Kept

Compare == /\ Running("memcmp")
           /\ \/ /\ n > 0 /\ mem[dst] = mem[src]
                 /\ n' = n - 1 /\ dst' = dst + 1 /\ src' = src + 1
                 /\ UNCHANGED <<call, ret>>
              \/ /\ n > 0 /\ mem[dst] # mem[src]
                 /\ Return(mem[dst] - mem[src])
                 /\ UNCHANGED <<n, dst, src>>
              \/ /\ n = 0 /\ Return(0)
                 /\ UNCHANGED <<n, dst, src>>
           /\ UNCHANGED <<mem, label>> /\ Kept

\* The byte is compared with the int as it is, unconverted.
Search == /\ Running("memchr")
          /\ \/ /\ n > 0 /\ mem[src] # call.ch
                /\ n' = n - 1 /\ src' = src + 1
                /\ UNCHANGED <<call, ret>>
             \/ /\ n > 0 /\ mem[src] = call.ch
                /\ Return(src)
                /\ UNCHANGED <<n, src>>
             \/ /\ n = 0 /\ Return(NULL)
                /\ UNCHANGED <<n, src>>
          /\ UNCHANGED <<mem, dst, label>> /\ Kept

Execute == CopyNothing \/ CopyForwards \/ CopyBackwards \/ Fill \/ Compare \/ Search

StringsNext == Execute \/ \E c \in Calls : Call(c)
StringsSpec == StringsInit /\ [][StringsNext]_stringVars

-----------------------------------------------------------------------------

StringsTypeOK == /\ mem \in [Addr -> 0 .. 255] /\ before \in [Addr -> 0 .. 255]
                 /\ call \in Calls \cup {NoCall}
                 /\ {dst, src, n} \subseteq 0 .. MemSize /\ label \in 0 .. 7
                 /\ calls \in 0 .. MaxCalls

\* memchr is asked for characters that are bytes.
SoughtAreBytes == Sought \subseteq 0 .. 255

\* Every function does what the C library promises of it, as if all at once: a
\* copy moves the bytes the source held when it was called, also when the blocks
\* overlap (string.c:111 relies on memcpy's order), no byte outside is touched,
\* and the first match or difference is what is returned.  Of memchr that is true
\* only while SoughtAreBytes (string.c:48).
B == INSTANCE BlockOps WITH mem <- IF call = NoCall THEN mem ELSE before
ImplementsBlockOps == B!Spec

=============================================================================
