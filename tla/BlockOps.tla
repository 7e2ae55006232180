------------------------------ MODULE BlockOps ------------------------------
(***************************************************************************)
(* What the memory functions of the C library promise: the whole effect of *)
(* a call at once, in terms of the memory it was made on.  Strings         *)
(* implements it.                                                          *)
(***************************************************************************)
EXTENDS Integers

CONSTANTS Addr, NULL, NoCall

VARIABLES mem, call, ret

Block(p, c) == p .. p + c.len - 1

\* The bytes of the source, in spite of an overlap
Copied(m, c) == [a \in Addr |-> IF a \in Block(c.dst, c) THEN m[c.src + (a - c.dst)] ELSE m[a]]
Filled(m, c) == [a \in Addr |-> IF a \in Block(c.dst, c) THEN c.ch % 256 ELSE m[a]]

Effect(m, c) == IF c.op \in {"memcpy", "memmove"} THEN Copied(m, c)
                ELSE IF c.op = "memset" THEN Filled(m, c) ELSE m

\* The character is an int, converted to an unsigned char before it is looked for
\* or filled in.
FirstFound(m, c, r) == /\ r \in Block(c.src, c) /\ m[r] = c.ch % 256
                       /\ \A a \in c.src .. r - 1 : m[a] # c.ch % 256
NotFound(m, c)      == \A a \in Block(c.src, c) : m[a] # c.ch % 256

Same(m, c, n) == \A k \in 0 .. n - 1 : m[c.dst + k] = m[c.src + k]
FirstDiffers(m, c, r) == \E k \in 0 .. c.len - 1 :
                            /\ Same(m, c, k) /\ m[c.dst + k] # m[c.src + k]
                            /\ r = m[c.dst + k] - m[c.src + k]

Result(m, c, r) ==
  CASE c.op = "memchr" -> FirstFound(m, c, r) \/ (NotFound(m, c) /\ r = NULL)
    [] c.op = "memcmp" -> FirstDiffers(m, c, r) \/ (Same(m, c, c.len) /\ r = 0)
    [] OTHER -> r = c.dst

Init == call = NoCall

Call   == /\ call = NoCall /\ call' # NoCall
          /\ UNCHANGED <<mem, ret>>
Return == /\ call # NoCall /\ call' = NoCall
          /\ mem' = Effect(mem, call)
          /\ Result(mem, call, ret')

Spec == Init /\ [][Call \/ Return]_<<mem, call, ret>>

=============================================================================
