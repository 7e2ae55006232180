---------------------------- MODULE FormatProofs ----------------------------
(***************************************************************************)
(* Proofs about what the BIOS prints, for every text, every dump and every *)
(* width of a word.                                                        *)
(***************************************************************************)
EXTENDS Format, SequenceTheorems, WellFoundedInduction, TLAPS

-----------------------------------------------------------------------------
(* Induction over a set of numbers, and flattening. *)

LEMMA Induction ==
  ASSUME NEW T, 0 \in T, \A k \in Nat : k \in T => k + 1 \in T
  PROVE  \A k \in Nat : k \in T
<1> DEFINE Wrong == {k \in Nat : k \notin T}
<1> SUFFICES ASSUME Wrong # {} PROVE FALSE
  OBVIOUS
<1>1. PICK k \in Wrong : \A l \in Wrong : ~(<<l, k>> \in OpToRel(<, Nat))
  <2>1. IsWellFoundedOn(OpToRel(<, Nat), Nat)
    BY NatLessThanWellFounded
  <2>2. Wrong \subseteq Nat
    OBVIOUS
  <2> HIDE DEF Wrong
  <2>3. QED
    BY <2>1, <2>2, WFMin, Zenon
<1>2. \A l \in Wrong : ~(l < k)
  BY <1>1 DEF OpToRel
<1>3. k # 0 /\ k - 1 \in Nat /\ k = (k - 1) + 1
  OBVIOUS
<1>4. k - 1 \in T
  BY <1>2, <1>3
<1>5. QED
  BY <1>3, <1>4

\* g flattens the first sequences of ss
Flattens(g, ss, k) == /\ DOMAIN g = 1 .. k
                      /\ \A i \in 1 .. k : g[i] = IF i = 1 THEN ss[1] ELSE g[i - 1] \o ss[i]

\* There is one such function, and it yields sequences.
LEMMA FlattensExists ==
  ASSUME NEW S, NEW ss \in Seq(Seq(S))
  PROVE  \A k \in Nat : k <= Len(ss) => \E g \in [1 .. k -> Seq(S)] : Flattens(g, ss, k)
<1> DEFINE T == {k \in Nat : k <= Len(ss) => \E g \in [1 .. k -> Seq(S)] : Flattens(g, ss, k)}
<1>1. 0 \in T
  <2>1. [i \in 1 .. 0 |-> <<>>] \in [1 .. 0 -> Seq(S)]
    OBVIOUS
  <2>2. Flattens([i \in 1 .. 0 |-> <<>>], ss, 0)
    BY DEF Flattens
  <2>3. QED
    BY <2>1, <2>2
<1>2. ASSUME NEW k \in Nat, k \in T PROVE k + 1 \in T
  <2> SUFFICES ASSUME k + 1 <= Len(ss)
               PROVE  \E g \in [1 .. k + 1 -> Seq(S)] : Flattens(g, ss, k + 1)
    OBVIOUS
  <2>1. Len(ss) \in Nat
    BY LenProperties
  <2>2. PICK g \in [1 .. k -> Seq(S)] : Flattens(g, ss, k)
    BY <1>2, <2>1
  <2> DEFINE h == [i \in 1 .. k + 1 |-> IF i <= k THEN g[i] ELSE
                                        IF i = 1 THEN ss[1] ELSE g[i - 1] \o ss[i]]
  <2>3. \A i \in 1 .. k + 1 : ss[i] \in Seq(S)
    BY <2>1, ElementOfSeq
  <2>4. h \in [1 .. k + 1 -> Seq(S)]
    <3>1. ASSUME NEW i \in 1 .. k + 1, ~(i <= k), i # 1 PROVE g[i - 1] \o ss[i] \in Seq(S)
      <4>1. i - 1 \in 1 .. k
        BY <3>1
      <4>2. QED
        BY <4>1, <2>3, ConcatProperties
    <3>2. QED
      BY <3>1, <2>3
  <2>5. Flattens(h, ss, k + 1)
    <3>1. ASSUME NEW i \in 1 .. k + 1
          PROVE  h[i] = IF i = 1 THEN ss[1] ELSE h[i - 1] \o ss[i]
      <4>1. CASE i <= k
        <5>1. i \in 1 .. k /\ (i # 1 => i - 1 \in 1 .. k /\ h[i - 1] = g[i - 1]) /\ h[i] = g[i]
          BY <4>1
        <5>2. QED
          BY <5>1, <2>2 DEF Flattens
      <4>2. CASE ~(i <= k)
        <5>1. i # 1 => i - 1 \in 1 .. k /\ h[i - 1] = g[i - 1]
          BY <4>2
        <5>2. QED
          BY <5>1, <4>2
      <4>3. QED
        BY <4>1, <4>2
    <3>2. QED
      BY <3>1 DEF Flattens
  <2>6. QED
    BY <2>4, <2>5
<1>3. QED
  <2> HIDE DEF T
  <2>1. \A k \in Nat : k \in T
    BY <1>1, <1>2, Induction, Zenon
  <2>2. QED
    BY <2>1 DEF T

LEMMA FlattensUnique ==
  ASSUME NEW g, NEW h, NEW ss, NEW tt, NEW m \in Nat, NEW n \in Nat,
         Flattens(g, ss, m), Flattens(h, tt, n), m <= n, \A i \in 1 .. m : ss[i] = tt[i]
  PROVE  \A i \in 1 .. m : g[i] = h[i]
<1> DEFINE T == {i \in Nat : i \in 1 .. m => g[i] = h[i]}
<1>1. 0 \in T
  OBVIOUS
<1>2. ASSUME NEW i \in Nat, i \in T PROVE i + 1 \in T
  <2> SUFFICES ASSUME i + 1 \in 1 .. m PROVE g[i + 1] = h[i + 1]
    OBVIOUS
  <2>1. i + 1 \in 1 .. n /\ ss[i + 1] = tt[i + 1] /\ (i + 1) - 1 = i /\ (i + 1 = 1 <=> i = 0)
    OBVIOUS
  <2>2. i # 0 => g[i] = h[i]
    BY <1>2
  <2>3. /\ g[i + 1] = IF i + 1 = 1 THEN ss[1] ELSE g[(i + 1) - 1] \o ss[i + 1]
        /\ h[i + 1] = IF i + 1 = 1 THEN tt[1] ELSE h[(i + 1) - 1] \o tt[i + 1]
    BY <2>1, Zenon DEF Flattens
  <2>4. CASE i = 0
    BY <2>3, <2>4
  <2>5. CASE i # 0
    <3>1. g[(i + 1) - 1] = h[(i + 1) - 1] /\ i + 1 # 1
      BY <2>1, <2>2, <2>5
    <3>2. QED
      BY <2>1, <2>3, <3>1, Zenon
  <2>6. QED
    BY <2>4, <2>5
<1>3. QED
  <2> HIDE DEF T
  <2>1. \A i \in Nat : i \in T
    BY <1>1, <1>2, Induction, Zenon
  <2>2. QED
    BY <2>1 DEF T

LEMMA FlattenDef ==
  ASSUME NEW S, NEW ss \in Seq(Seq(S)), ss # <<>>
  PROVE  \E g : /\ Flattens(g, ss, Len(ss)) /\ FlattenSeq(ss) = g[Len(ss)]
                 /\ \A i \in 1 .. Len(ss) : g[i] \in Seq(S)
<1> DEFINE n == Len(ss)
           Body(g) == [i \in 1 .. n |-> IF i = 1 THEN ss[i] ELSE g[i - 1] \o ss[i]]
           f == CHOOSE g : g = Body(g)
<1>1. n \in Nat /\ n # 0
  BY EmptySeq, LenProperties
<1>2. FlattenSeq(ss) = f[n]
  BY <1>1 DEF FlattenSeq
<1>3. PICK g \in [1 .. n -> Seq(S)] : Flattens(g, ss, n)
  BY <1>1, FlattensExists
<1>4. g = Body(g)
  BY <1>3 DEF Flattens
<1>5. f = Body(f)
  <2> HIDE DEF Body
  <2>1. QED
    BY <1>4
<1>6. Flattens(f, ss, n)
  <2> HIDE DEF f, n
  <2>1. QED
    BY <1>5 DEF Flattens
<1>7. f[n] = g[n]
  <2> HIDE DEF f, n
  <2>1. \A i \in 1 .. n : f[i] = g[i]
    BY <1>1, <1>3, <1>6, FlattensUnique
  <2>2. QED
    BY <2>1, <1>1
<1>8. \A i \in 1 .. n : g[i] \in Seq(S)
  BY <1>3
<1>9. QED
  BY <1>2, <1>3, <1>7, <1>8

\* What flattening a sequence of sequences yields, from its end
LEMMA FlattenEmpty == FlattenSeq(<<>>) = <<>>
BY DEF FlattenSeq

LEMMA FlattenAppend ==
  ASSUME NEW S, NEW ss \in Seq(Seq(S)), NEW s \in Seq(S)
  PROVE  /\ FlattenSeq(ss) \in Seq(S)
         /\ FlattenSeq(Append(ss, s)) = FlattenSeq(ss) \o s
<1> DEFINE n == Len(ss)
           tt == Append(ss, s)
<1>1. /\ n \in Nat /\ tt \in Seq(Seq(S)) /\ Len(tt) = n + 1 /\ tt # <<>>
      /\ tt[n + 1] = s /\ \A i \in 1 .. n : tt[i] = ss[i]
  BY LenProperties, AppendProperties
<1> HIDE DEF tt
<1>2. PICK h : Flattens(h, tt, n + 1) /\ FlattenSeq(tt) = h[n + 1]
  BY <1>1, FlattenDef
<1>3. CASE ss = <<>>
  <2>1. n = 0
    BY <1>3, EmptySeq
  <2>2. FlattenSeq(tt) = s
    BY <1>1, <1>2, <2>1 DEF Flattens
  <2>3. FlattenSeq(ss) = <<>> /\ <<>> \in Seq(S) /\ <<>> \o s = s
    BY <1>3, FlattenEmpty, EmptySeq, ConcatEmptySeq
  <2>4. QED
    BY <2>2, <2>3 DEF tt
<1>4. CASE ss # <<>>
  <2>1. n # 0
    BY <1>4, EmptySeq
  <2>2. PICK g : /\ Flattens(g, ss, n) /\ FlattenSeq(ss) = g[n]
                 /\ \A i \in 1 .. n : g[i] \in Seq(S)
    BY <1>4, FlattenDef
  <2>3. \A i \in 1 .. n : g[i] = h[i]
    <3>1. n + 1 \in Nat /\ n <= n + 1 /\ \A i \in 1 .. n : ss[i] = tt[i]
      BY <1>1
    <3> HIDE DEF n
    <3>2. QED
      <4>1. /\ n \in Nat /\ n + 1 \in Nat /\ n <= n + 1
            /\ Flattens(g, ss, n) /\ Flattens(h, tt, n + 1)
            /\ \A i \in 1 .. n : ss[i] = tt[i]
        BY <1>1, <1>2, <2>2, <3>1
      <4>2. QED
        BY <4>1, FlattensUnique
  <2>4. h[n + 1] = h[n] \o s
    <3>1. n + 1 \in 1 .. n + 1 /\ (n + 1) - 1 = n /\ n + 1 # 1
      BY <1>1, <2>1
    <3>2. h[n + 1] = IF n + 1 = 1 THEN tt[1] ELSE h[(n + 1) - 1] \o tt[n + 1]
      BY <1>2, <3>1, Zenon DEF Flattens
    <3>3. QED
      BY <1>1, <3>1, <3>2, Zenon
  <2>5. g[n] = h[n]
    BY <1>1, <2>1, <2>3
  <2>6. FlattenSeq(tt) = FlattenSeq(ss) \o s
    BY <1>2, <2>2, <2>4, <2>5
  <2>7. FlattenSeq(ss) \in Seq(S)
    <3>1. n \in 1 .. n
      BY <1>1, <2>1
    <3>2. QED
      BY <2>2, <3>1, Zenon
  <2>8. QED
    BY <2>6, <2>7, Zenon DEF tt
<1>5. QED
  BY <1>3, <1>4

\* An operator of its own, for the provers to match
Associative(a, b, c) == (a \o b) \o c = a \o (b \o c)

LEMMA AllAssociative == ASSUME NEW S PROVE \A a, b, c \in Seq(S) : Associative(a, b, c)
BY ConcatAssociative DEF Associative

LEMMA FlattenOne ==
  ASSUME NEW S, NEW s \in Seq(S)
  PROVE  FlattenSeq(<<s>>) = s
<1>1. <<>> \in Seq(Seq(S)) /\ Append(<<>>, s) = <<s>> /\ <<>> \o s = s
  BY EmptySeq, ConcatEmptySeq
<1>2. QED
  BY <1>1, FlattenAppend, FlattenEmpty

\* and from any place in it.
LEMMA FlattenConcat ==
  ASSUME NEW S, NEW ss \in Seq(Seq(S)), NEW tt \in Seq(Seq(S))
  PROVE  FlattenSeq(ss \o tt) = FlattenSeq(ss) \o FlattenSeq(tt)
<1> DEFINE Before(k) == SubSeq(tt, 1, k)
           T == {k \in Nat : k <= Len(tt)
                    => FlattenSeq(ss \o Before(k)) = FlattenSeq(ss) \o FlattenSeq(Before(k))}
<1>0. Len(tt) \in Nat
  BY LenProperties
<1>1. 0 \in T
  <2>1. Before(0) = <<>>
    BY SubSeqEmpty
  <2>2. FlattenSeq(ss) \in Seq(S) /\ <<>> \in Seq(S)
    BY FlattenAppend, EmptySeq
  <2>3. QED
    BY <2>1, <2>2, ConcatEmptySeq, FlattenEmpty
<1>2. ASSUME NEW k \in Nat, k \in T PROVE k + 1 \in T
  <2> SUFFICES ASSUME k + 1 <= Len(tt)
               PROVE  FlattenSeq(ss \o Before(k + 1)) = FlattenSeq(ss) \o FlattenSeq(Before(k + 1))
    OBVIOUS
  <2> DEFINE s == tt[k + 1]
  <2>1. s \in Seq(S) /\ Before(k) \in Seq(Seq(S))
    <3>1. \A i \in 1 .. Len(tt) : tt[i] \in Seq(S)
      BY ElementOfSeq
    <3>2. QED
      BY <3>1, <1>0, SubSeqProperties
  <2>2. Before(k + 1) = Append(Before(k), s)
    <3>1. Before(k + 1) = SubSeq(tt, 1, (k + 1) - 1) \o <<s>>
      BY <1>0, SubSeqRecursiveSecond
    <3>2. QED
      BY <3>1, <2>1, AppendIsConcat
  <2> HIDE DEF Before, s
  <2>3. ss \o Append(Before(k), s) = Append(ss \o Before(k), s) /\ ss \o Before(k) \in Seq(Seq(S))
    <3>1. ss \o Before(k) \in Seq(Seq(S)) /\ <<s>> \in Seq(Seq(S))
      BY <2>1, ConcatProperties
    <3>2. Append(Before(k), s) = Before(k) \o <<s>> /\ Append(ss \o Before(k), s) = (ss \o Before(k)) \o <<s>>
      BY <2>1, <3>1, AppendIsConcat
    <3>3. (ss \o Before(k)) \o <<s>> = ss \o (Before(k) \o <<s>>)
      <4>1. ss \in Seq(Seq(S)) /\ Before(k) \in Seq(Seq(S)) /\ <<s>> \in Seq(Seq(S))
        BY <2>1, <3>1
      <4>2. QED
        <5> DEFINE U == Seq(S)
        <5>1. ss \in Seq(U) /\ Before(k) \in Seq(U) /\ <<s>> \in Seq(U)
          BY <4>1
        <5> HIDE DEF U
        <5>2. Associative(ss, Before(k), <<s>>)
          BY <5>1, AllAssociative, Zenon
        <5>3. QED
          BY <5>2, Zenon DEF Associative
    <3>4. QED
      BY <3>1, <3>2, <3>3
  <2>4. FlattenSeq(ss \o Before(k)) = FlattenSeq(ss) \o FlattenSeq(Before(k))
    BY <1>2
  <2>5. /\ FlattenSeq(Append(ss \o Before(k), s)) = FlattenSeq(ss \o Before(k)) \o s
        /\ FlattenSeq(Append(Before(k), s)) = FlattenSeq(Before(k)) \o s
        /\ FlattenSeq(ss) \in Seq(S) /\ FlattenSeq(Before(k)) \in Seq(S)
    BY <2>1, <2>3, FlattenAppend
  <2>6. (FlattenSeq(ss) \o FlattenSeq(Before(k))) \o s = FlattenSeq(ss) \o (FlattenSeq(Before(k)) \o s)
    <3>1. FlattenSeq(ss) \in Seq(S) /\ FlattenSeq(Before(k)) \in Seq(S) /\ s \in Seq(S)
      BY <2>1, <2>5
    <3>2. Associative(FlattenSeq(ss), FlattenSeq(Before(k)), s)
      BY <3>1, AllAssociative, Zenon
    <3>3. QED
      BY <3>2, Zenon DEF Associative
  <2>7. QED
    BY <2>2, <2>3, <2>4, <2>5, <2>6
<1>3. \A k \in Nat : k \in T
  <2> HIDE DEF T
  <2>1. QED
    BY <1>1, <1>2, Induction, Zenon
<1> HIDE DEF Before
<1>4. Before(Len(tt)) = tt
  BY SubSeqFull DEF Before
<1>5. FlattenSeq(ss \o Before(Len(tt))) = FlattenSeq(ss) \o FlattenSeq(Before(Len(tt)))
  BY <1>0, <1>3
<1>6. QED
  BY <1>4, <1>5, Zenon

-----------------------------------------------------------------------------
(* Numerals: the value of a digit's place, the number of places, and the   *)
(* numeral of a number from that of its quotient.                          *)

LEMMA WidthIs == Width \in Nat /\ Width >= 16 /\ Width <= 32
BY FormatAssumption

\* w tells the weights of the first places
Weighs(w, base, k) == /\ DOMAIN w = 0 .. k
                      /\ \A i \in 0 .. k : w[i] = IF i = 0 THEN 1 ELSE base * w[i - 1]

LEMMA WeighsExists ==
  ASSUME NEW base \in Nat \ {0}
  PROVE  \A k \in Nat : \E w : Weighs(w, base, k) /\ \A i \in 0 .. k : w[i] \in Nat \ {0}
<1> DEFINE T == {k \in Nat : \E w : Weighs(w, base, k) /\ \A i \in 0 .. k : w[i] \in Nat \ {0}}
<1>1. 0 \in T
  <2>1. Weighs([i \in 0 .. 0 |-> 1], base, 0)
    BY DEF Weighs
  <2>2. \A i \in 0 .. 0 : [j \in 0 .. 0 |-> 1][i] \in Nat \ {0}
    OBVIOUS
  <2>3. QED
    BY <2>1, <2>2
<1>2. ASSUME NEW k \in Nat, k \in T PROVE k + 1 \in T
  <2>1. PICK w : Weighs(w, base, k) /\ \A i \in 0 .. k : w[i] \in Nat \ {0}
    BY <1>2
  <2> DEFINE v == [i \in 0 .. k + 1 |-> IF i <= k THEN w[i] ELSE base * w[k]]
  <2>2. v[k + 1] = base * w[k] /\ v[k + 1] \in Nat \ {0} /\ \A i \in 0 .. k : v[i] = w[i]
    <3>1. w[k] \in Nat \ {0}
      BY <2>1
    <3>2. base * w[k] \in Nat \ {0}
      BY <3>1
    <3>3. QED
      BY <3>2
  <2>3. DOMAIN v = 0 .. k + 1
    OBVIOUS
  <2> HIDE DEF v
  <2>4. ASSUME NEW i \in 0 .. k + 1
        PROVE  /\ v[i] \in Nat \ {0}
               /\ v[i] = IF i = 0 THEN 1 ELSE base * v[i - 1]
    <3>1. CASE i \in 0 .. k
      <4>1. v[i] = w[i] /\ w[i] \in Nat \ {0} /\ (i # 0 => i - 1 \in 0 .. k)
        BY <3>1, <2>1, <2>2
      <4>2. w[i] = IF i = 0 THEN 1 ELSE base * w[i - 1]
        BY <3>1, <2>1 DEF Weighs
      <4>3. i # 0 => v[i - 1] = w[i - 1]
        BY <4>1, <2>2
      <4>4. QED
        BY <4>1, <4>2, <4>3
    <3>2. CASE i = k + 1
      <4>1. i # 0 /\ i - 1 = k /\ v[k] = w[k]
        BY <3>2, <2>2
      <4>2. QED
        BY <4>1, <3>2, <2>2
    <3>3. QED
      BY <3>1, <3>2
  <2>5. Weighs(v, base, k + 1)
    BY <2>3, <2>4 DEF Weighs
  <2>6. QED
    BY <2>4, <2>5
<1>3. QED
  <2> HIDE DEF T
  <2>1. \A k \in Nat : k \in T
    BY <1>1, <1>2, Induction, Zenon
  <2>2. QED
    BY <2>1 DEF T

LEMMA Weights ==
  ASSUME NEW base \in Nat \ {0}
  PROVE  /\ \A k \in 0 .. Width : Weight(base)[k] \in Nat \ {0}
         /\ Weight(base)[0] = 1
         /\ \A k \in 0 .. Width - 1 : Weight(base)[k + 1] = base * Weight(base)[k]
<1> DEFINE Body(w) == [k \in 0 .. Width |-> IF k = 0 THEN 1 ELSE base * w[k - 1]]
           W == CHOOSE w : w = Body(w)
<1>1. Weight(base) = W
  BY DEF Weight
<1>2. PICK v : Weighs(v, base, Width)
  BY WidthIs, WeighsExists
<1>3. ASSUME NEW w PROVE w = Body(w) => Weighs(w, base, Width)
  BY DEF Weighs
<1>4. \E w : w = Body(w)
  <2> DEFINE u == [k \in 0 .. Width |-> v[k]]
  <2>1. u = Body(u)
    <3>1. ASSUME NEW k \in 0 .. Width PROVE v[k] = IF k = 0 THEN 1 ELSE base * u[k - 1]
      <4>1. k # 0 => k - 1 \in 0 .. Width
        BY WidthIs
      <4>2. QED
        BY <1>2, <4>1 DEF Weighs
    <3>2. QED
      BY <3>1
  <2>2. QED
    BY <2>1
<1>5. W = Body(W)
  <2> HIDE DEF Body
  <2>1. QED
    BY <1>4
<1>6. Weighs(W, base, Width)
  <2> HIDE DEF W, Body
  <2>1. QED
    BY <1>3, <1>5
<1> HIDE DEF W
<1>7. W[0] = 1 /\ \A k \in 0 .. Width - 1 : W[k + 1] = base * W[k]
  <2>1. 0 \in 0 .. Width
    BY WidthIs
  <2>2. ASSUME NEW k \in 0 .. Width - 1 PROVE W[k + 1] = base * W[k]
    <3>1. k + 1 \in 0 .. Width /\ (k + 1) - 1 = k /\ k + 1 # 0
      BY WidthIs
    <3>2. W[k + 1] = IF k + 1 = 0 THEN 1 ELSE base * W[(k + 1) - 1]
      BY <1>6, <3>1, Zenon DEF Weighs
    <3>3. QED
      BY <3>1, <3>2
  <2>3. QED
    BY <2>1, <2>2, <1>6 DEF Weighs
<1>8. \A k \in 0 .. Width : W[k] \in Nat \ {0}
  <2> DEFINE T == {k \in Nat : k <= Width => W[k] \in Nat \ {0}}
  <2>1. 0 \in T
    BY <1>7
  <2>2. ASSUME NEW k \in Nat, k \in T PROVE k + 1 \in T
    <3> SUFFICES ASSUME k + 1 <= Width PROVE W[k + 1] \in Nat \ {0}
      OBVIOUS
    <3>1. k \in 0 .. Width - 1 /\ W[k] \in Nat \ {0}
      BY <2>2, WidthIs
    <3>2. base * W[k] \in Nat \ {0}
      BY <3>1
    <3>3. QED
      BY <3>1, <3>2, <1>7
  <2>3. \A k \in Nat : k \in T
    <3> HIDE DEF T
    <3>1. QED
      BY <2>1, <2>2, Induction, Zenon
  <2>4. QED
    BY <2>3, WidthIs
<1>9. QED
  BY <1>1, <1>7, <1>8

\* Places to the left weigh more.
LEMMA WeightGrows ==
  ASSUME NEW base \in Nat \ {0}, NEW i \in 0 .. Width, NEW j \in 0 .. Width, i <= j
  PROVE  Weight(base)[i] <= Weight(base)[j]
<1> DEFINE W == Weight(base)
           T == {k \in Nat : i + k <= Width => W[i] <= W[i + k]}
<1>0. \A k \in 0 .. Width : W[k] \in Nat \ {0}
  BY Weights
<1>00. \A k \in 0 .. Width - 1 : W[k + 1] = base * W[k]
  BY Weights
<1> HIDE DEF W
<1>1. 0 \in T
  BY <1>0
<1>2. ASSUME NEW k \in Nat, k \in T PROVE k + 1 \in T
  <2> SUFFICES ASSUME i + (k + 1) <= Width PROVE W[i] <= W[i + (k + 1)]
    OBVIOUS
  <2> DEFINE m == i + k
  <2>1. m \in 0 .. Width - 1 /\ m \in 0 .. Width /\ i + (k + 1) = m + 1 /\ m + 1 \in 0 .. Width
    BY WidthIs
  <2>2. W[i] <= W[m]
    BY <1>2, WidthIs
  <2> HIDE DEF m
  <2>3. W[m + 1] = base * W[m] /\ W[m] \in Nat /\ W[i] \in Nat
    BY <2>1, <1>0, <1>00
  <2>4. base * W[m] >= W[m]
    <3>1. ASSUME NEW a \in Nat PROVE base * a >= a
      OBVIOUS
    <3>2. QED
      BY <3>1, <2>3
  <2>5. W[m + 1] \in Nat
    BY <2>1, <1>0
  <2>6. QED
    BY <2>1, <2>2, <2>3, <2>4, <2>5
<1>3. \A k \in Nat : k \in T
  <2> HIDE DEF T
  <2>1. QED
    BY <1>1, <1>2, Induction, Zenon
<1>4. j - i \in Nat /\ i + (j - i) = j
  BY WidthIs
<1>5. W[i] <= W[i + (j - i)]
  BY <1>3, <1>4, WidthIs
<1>6. QED
  BY <1>4, <1>5 DEF W

\* Division leaves a remainder below the divisor, and finds the quotient.
LEMMA Division ==
  ASSUME NEW p \in Nat \ {0}, NEW v \in Nat
  PROVE  v \div p \in Nat /\ v - p * (v \div p) \in 0 .. p - 1
OBVIOUS

LEMMA Quotient ==
  ASSUME NEW p \in Nat \ {0}, NEW q \in Nat, NEW r \in 0 .. p - 1
  PROVE  (p * q + r) \div p = q
OBVIOUS

LEMMA Remainder ==
  ASSUME NEW p \in Nat \ {0}, NEW q \in Nat, NEW r \in 0 .. p - 1
  PROVE  (p * q + r) % p = r
OBVIOUS

\* Dividing by one number and then another is dividing by their product.
LEMMA QuotientOfQuotient ==
  ASSUME NEW b \in Nat \ {0}, NEW m \in Nat \ {0}, NEW v \in Nat
  PROVE  (v \div b) \div m = v \div (b * m)
<1> DEFINE q == v \div b
           h == q \div m
           r == q - m * h
           e == v - b * q
<1>1. q \in Nat /\ e \in 0 .. b - 1 /\ v = b * q + e
  <2>1. q \in Nat /\ e \in 0 .. b - 1
    BY Division, Zenon
  <2>2. b * q \in Nat
    <3> HIDE DEF q
    <3>1. QED
      BY <2>1
  <2>3. v = b * q + (v - b * q)
    <3> DEFINE z == b * q
    <3> HIDE DEF z
    <3>1. v = z + (v - z)
      BY <2>2 DEF z
    <3>2. QED
      BY <3>1 DEF z
  <2>4. QED
    BY <2>1, <2>3
<1>2. h \in Nat /\ r \in 0 .. m - 1 /\ q = m * h + r
  <2>1. h \in Nat /\ r \in 0 .. m - 1
    BY <1>1, Division
  <2> HIDE DEF q, h
  <2>2. m * h \in Nat
    BY <2>1
  <2>3. QED
    BY <2>1, <2>2, <1>1
<1> HIDE DEF q, r, h, e
<1>3. b * q = (b * m) * h + b * r
  <2>1. b * q = b * (m * h + r)
    BY <1>2
  <2>2. b * (m * h + r) = b * (m * h) + b * r
    BY <1>2
  <2>3. b * (m * h) = (b * m) * h
    BY <1>2
  <2>4. QED
    BY <2>1, <2>2, <2>3
<1>4. b * r + e \in 0 .. (b * m) - 1 /\ b * m \in Nat \ {0}
  <2>1. b * r + b <= b * m
    <3>1. m = r + 1 + (m - r - 1) /\ m - r - 1 \in Nat
      BY <1>2
    <3>2. ASSUME NEW k \in Nat PROVE b * (r + 1 + k) = b * r + b + b * k /\ b * k \in Nat
      BY <1>2
    <3>3. b * (r + 1 + (m - r - 1)) = b * r + b + b * (m - r - 1) /\ b * (m - r - 1) \in Nat
      BY <3>1, <3>2
    <3>4. b * m = b * r + b + b * (m - r - 1)
      BY <3>1, <3>3
    <3>5. b * r \in Nat
      BY <1>2
    <3>6. QED
      BY <3>3, <3>4, <3>5
  <2>2. b * r \in Nat /\ b * m \in Nat \ {0}
    BY <1>2
  <2>3. QED
    BY <2>1, <2>2, <1>1
<1>5. v = (b * m) * h + (b * r + e)
  <2>1. (b * m) * h \in Nat /\ b * r \in Nat
    BY <1>2
  <2>2. QED
    BY <2>1, <1>1, <1>3
<1>6. ((b * m) * h + (b * r + e)) \div (b * m) = h
  <2> DEFINE p == b * m  z == b * r + e
  <2>1. p \in Nat \ {0} /\ z \in 0 .. p - 1 /\ h \in Nat
    BY <1>2, <1>4
  <2> HIDE DEF p, z
  <2>2. (p * h + z) \div p = h
    BY <2>1, Quotient
  <2>3. QED
    BY <2>2 DEF p, z
<1>7. QED
  BY <1>5, <1>6 DEF h, q

\* What the places of a number are
IsPlaces(k, num, base) == /\ k \in 1 .. Width
                          /\ num < Weight(base)[k]
                          /\ k = 1 \/ num >= Weight(base)[k - 1]

LEMMA PlacesUnique ==
  ASSUME NEW base \in Nat \ {0}, NEW num \in Nat, NEW k, NEW l,
         IsPlaces(k, num, base), IsPlaces(l, num, base)
  PROVE  k = l
<1>1. ASSUME NEW i \in 1 .. Width, NEW j \in 1 .. Width,
             IsPlaces(i, num, base), IsPlaces(j, num, base), i < j
      PROVE  FALSE
  <2>1. i \in 0 .. Width /\ j - 1 \in 0 .. Width /\ i <= j - 1 /\ j # 1
    BY <1>1, WidthIs
  <2>2. Weight(base)[i] <= Weight(base)[j - 1]
    BY <2>1, WeightGrows
  <2>3. num < Weight(base)[i] /\ num >= Weight(base)[j - 1]
    BY <1>1, <2>1 DEF IsPlaces
  <2>4. Weight(base)[i] \in Nat /\ Weight(base)[j - 1] \in Nat
    BY <2>1, Weights
  <2>5. QED
    BY <2>2, <2>3, <2>4
<1>2. k \in 1 .. Width /\ l \in 1 .. Width
  BY DEF IsPlaces
<1>3. k < l \/ l < k \/ k = l
  BY <1>2, WidthIs
<1>4. QED
  BY <1>1, <1>2, <1>3

LEMMA PlacesDef ==
  ASSUME NEW base \in Nat \ {0}, NEW num \in Nat, num < Weight(base)[Width]
  PROVE  IsPlaces(Places(num, base), num, base)
<1> DEFINE W == Weight(base)
           T == {k \in Nat : k >= 1 /\ k <= Width /\ num < W[k] => \E j : IsPlaces(j, num, base)}
<1>1. 0 \in T
  OBVIOUS
<1>2. ASSUME NEW k \in Nat, k \in T PROVE k + 1 \in T
  <2> SUFFICES ASSUME k + 1 <= Width, num < W[k + 1] PROVE \E j : IsPlaces(j, num, base)
    OBVIOUS
  <2>1. k + 1 \in 1 .. Width /\ (k + 1) - 1 = k
    BY WidthIs
  <2>2. CASE k = 0 \/ num >= W[k]
    <3>1. IsPlaces(k + 1, num, base)
      BY <2>1, <2>2 DEF IsPlaces
    <3>2. QED
      BY <3>1
  <2>3. CASE k # 0 /\ ~(num >= W[k])
    <3>1. W[k] \in Nat /\ k >= 1 /\ k <= Width
      BY <2>1, <2>3, Weights, WidthIs
    <3>2. num < W[k]
      BY <2>3, <3>1
    <3>3. QED
      BY <1>2, <3>1, <3>2
  <2>4. QED
    BY <2>2, <2>3
<1>3. \A k \in Nat : k \in T
  <2> HIDE DEF T
  <2>1. QED
    BY <1>1, <1>2, Induction, Zenon
<1>4. PICK j : IsPlaces(j, num, base)
  BY <1>3, WidthIs
<1>5. Places(num, base) = CHOOSE k \in 1 .. Width : IsPlaces(k, num, base)
  BY DEF Places, IsPlaces
<1>6. j \in 1 .. Width
  BY <1>4 DEF IsPlaces
<1>7. QED
  BY <1>4, <1>5, <1>6, Zenon

\* A number below the base has one digit, and another has the digits of its
\* quotient and then that of the remainder.
LEMMA NumeralOfDigit ==
  ASSUME NEW base \in Nat \ {0}, NEW num \in Nat, num < base
  PROVE  Numeral(num, base) = <<Digit[(num % base) + 1]>>
<1>1. Weight(base)[0] = 1 /\ Weight(base)[1] = base
  <2>1. 0 \in 0 .. Width - 1 /\ 0 + 1 = 1
    BY WidthIs
  <2>2. Weight(base)[0 + 1] = base * Weight(base)[0] /\ Weight(base)[0] = 1
    BY <2>1, Weights
  <2>3. QED
    BY <2>1, <2>2
<1>2. IsPlaces(1, num, base)
  BY <1>1, WidthIs DEF IsPlaces
<1>3. num < Weight(base)[Width]
  <2>1. 1 \in 0 .. Width /\ Width \in 0 .. Width /\ 1 <= Width
    BY WidthIs
  <2>2. Weight(base)[1] <= Weight(base)[Width] /\ Weight(base)[Width] \in Nat
    BY <2>1, WeightGrows, Weights
  <2>3. QED
    BY <1>1, <2>2
<1>4. Places(num, base) = 1
  BY <1>2, <1>3, PlacesDef, PlacesUnique
<1>5. Numeral(num, base) = [k \in 1 .. 1 |-> Digit[((num \div Weight(base)[1 - k]) % base) + 1]]
  BY <1>4 DEF Numeral
<1>6. num \div 1 = num
  OBVIOUS
<1> DEFINE d == Digit[(num % base) + 1]
<1>7. ASSUME NEW k \in 1 .. 1 PROVE Digit[((num \div Weight(base)[1 - k]) % base) + 1] = d
  <2>1. k = 1 /\ 1 - k = 0
    OBVIOUS
  <2>2. QED
    BY <2>1, <1>1, <1>6
<1> HIDE DEF d
<1>8. Numeral(num, base) = [k \in 1 .. 1 |-> d]
  BY <1>5, <1>7
<1>9. [k \in 1 .. 1 |-> d] = <<d>>
  OBVIOUS
<1>10. QED
  BY <1>8, <1>9 DEF d

LEMMA QuotientBounds ==
  ASSUME NEW base \in Nat \ {0}, NEW num \in Nat, NEW a \in Nat
  PROVE  /\ num \div base \in Nat
         /\ num \div base < a <=> num < base * a
<1> DEFINE q == num \div base
           e == num - base * q
<1>1. q \in Nat /\ e \in 0 .. base - 1
  BY Division, Zenon
<1>2. base * q \in Nat /\ base * a \in Nat
  <2> HIDE DEF q
  <2>1. QED
    BY <1>1
<1>3. num = base * q + e
  <2> DEFINE z == base * q
  <2>1. z \in Nat /\ e = num - z
    BY <1>2
  <2> HIDE DEF z, e
  <2>2. num = z + e
    BY <2>1
  <2>3. QED
    BY <2>2 DEF z
<1> HIDE DEF q, e
<1>4. CASE q < a
  <2>1. a = q + 1 + (a - q - 1) /\ a - q - 1 \in Nat
    BY <1>1, <1>4
  <2>2. ASSUME NEW k \in Nat PROVE base * (q + 1 + k) = base * q + base + base * k /\ base * k \in Nat
    BY <1>1
  <2>3. base * a = base * q + base + base * (a - q - 1) /\ base * (a - q - 1) \in Nat
    BY <2>1, <2>2
  <2>4. num < base * a
    BY <2>3, <1>1, <1>2, <1>3
  <2>5. QED
    BY <1>1, <1>4, <2>4 DEF q
<1>5. CASE ~(q < a)
  <2>1. q = a + (q - a) /\ q - a \in Nat
    BY <1>1, <1>5
  <2>2. ASSUME NEW k \in Nat PROVE base * (a + k) = base * a + base * k /\ base * k \in Nat
    OBVIOUS
  <2>3. base * q = base * a + base * (q - a) /\ base * (q - a) \in Nat
    BY <2>1, <2>2
  <2>4. ~(num < base * a)
    BY <2>3, <1>1, <1>2, <1>3
  <2>5. QED
    BY <1>1, <1>5, <2>4 DEF q
<1>6. QED
  BY <1>4, <1>5

LEMMA NumeralOfQuotient ==
  ASSUME NEW base \in Nat \ {0}, NEW num \in Nat, num >= base, num < Weight(base)[Width]
  PROVE  /\ Places(num, base) = Places(num \div base, base) + 1
         /\ num \div base < Weight(base)[Width]
         /\ Numeral(num, base) = Append(Numeral(num \div base, base), Digit[(num % base) + 1])
<1> DEFINE W == Weight(base)
           q == num \div base
           p == Places(q, base)
<1>0. /\ W[0] = 1 /\ \A k \in 0 .. Width - 1 : W[k + 1] = base * W[k]
      /\ \A k \in 0 .. Width : W[k] \in Nat \ {0}
  BY Weights
<1>1. q \in Nat /\ \A a \in Nat : q < a <=> num < base * a
  BY QuotientBounds
<1>2. q < W[Width]
  <2>1. Width - 1 \in 0 .. Width - 1 /\ Width \in 0 .. Width /\ Width - 1 \in 0 .. Width
        /\ (Width - 1) + 1 = Width
    BY WidthIs
  <2>2. W[Width] = base * W[Width - 1] /\ W[Width - 1] \in Nat /\ W[Width] \in Nat
    BY <1>0, <2>1
  <2>3. q < W[Width - 1]
    <3>1. num < base * W[Width - 1]
      BY <2>2
    <3> HIDE DEF W, q
    <3>2. QED
      BY <1>1, <2>2, <3>1
  <2>4. W[Width - 1] <= W[Width]
    BY <2>1, WeightGrows
  <2> HIDE DEF W, q
  <2>5. QED
    BY <1>1, <2>2, <2>3, <2>4
<1>3. IsPlaces(p, q, base)
  BY <1>1, <1>2, PlacesDef
<1>4. p \in 1 .. Width /\ q < W[p] /\ (p = 1 \/ q >= W[p - 1])
  BY <1>3 DEF IsPlaces
<1> HIDE DEF q, p
<1>5. W[1] = base
  <2>1. 0 \in 0 .. Width - 1 /\ 0 + 1 = 1
    BY WidthIs
  <2>2. W[0 + 1] = base * W[0]
    BY <2>1, <1>0
  <2>3. QED
    BY <2>1, <2>2, <1>0
<1> HIDE DEF W
<1>6. p < Width
  <2> SUFFICES ASSUME p = Width PROVE FALSE
    BY <1>4, WidthIs
  <2>1. p # 1 /\ p - 1 \in 0 .. Width - 1 /\ p - 1 \in 0 .. Width /\ (p - 1) + 1 = p
    BY WidthIs, <1>4
  <2>2. q >= W[p - 1] /\ W[p - 1] \in Nat /\ W[p] = base * W[p - 1] /\ W[p] \in Nat
    BY <1>0, <1>4, <2>1
  <2>3. ~(num < base * W[p - 1])
    <3>1. q < W[p - 1] <=> num < base * W[p - 1]
      BY <1>1, <2>2, Zenon
    <3>2. ~(q < W[p - 1])
      BY <1>1, <2>2
    <3>3. QED
      BY <3>1, <3>2, Zenon
  <2>4. num < W[p]
    BY DEF W
  <2>5. QED
    BY <2>2, <2>3, <2>4
<1>7. IsPlaces(p + 1, num, base)
  <2>1. p + 1 \in 1 .. Width /\ p \in 0 .. Width - 1 /\ p \in 0 .. Width /\ (p + 1) - 1 = p
    BY <1>4, <1>6, WidthIs
  <2>2. num < W[p + 1]
    BY <1>0, <1>1, <1>4, <2>1
  <2>3. num >= W[p]
    <3>1. CASE p = 1
      BY <3>1, <1>5
    <3>2. CASE p # 1
      <4>1. p - 1 \in 0 .. Width - 1 /\ p - 1 \in 0 .. Width /\ (p - 1) + 1 = p
        BY <1>4, <3>2, WidthIs
      <4>2. q >= W[p - 1] /\ W[p - 1] \in Nat /\ W[p] = base * W[p - 1] /\ W[p] \in Nat
        BY <1>0, <1>4, <2>1, <3>2, <4>1
      <4>3. ~(num < base * W[p - 1])
        BY <1>1, <4>2
      <4>4. QED
        BY <4>2, <4>3
    <3>3. QED
      BY <3>1, <3>2
  <2>4. QED
    BY <2>1, <2>2, <2>3 DEF IsPlaces, W
<1>8. Places(num, base) = p + 1
  BY <1>7, PlacesDef, PlacesUnique
<1> DEFINE d == Digit[(num % base) + 1]
           f(k) == Digit[((q \div W[p - k]) % base) + 1]
<1>9. Numeral(num, base) = [k \in 1 .. p + 1 |-> IF k = p + 1 THEN d ELSE f(k)]
  <2>1. ASSUME NEW k \in 1 .. p + 1
        PROVE  Digit[((num \div W[(p + 1) - k]) % base) + 1] = IF k = p + 1 THEN d ELSE f(k)
    <3>1. CASE k = p + 1
      <4>1. (p + 1) - k = 0 /\ num \div 1 = num
        BY <3>1, <1>4
      <4>2. num \div W[(p + 1) - k] = num
        BY <4>1, <1>0
      <4>3. QED
        BY <4>2, <3>1
    <3>2. CASE k # p + 1
      <4>1. p - k \in 0 .. Width - 1 /\ p - k \in 0 .. Width /\ (p + 1) - k = (p - k) + 1
        BY <3>2, <1>4, WidthIs
      <4>2. W[(p + 1) - k] = base * W[p - k] /\ W[p - k] \in Nat \ {0}
        BY <4>1, <1>0
      <4>3. q \div W[p - k] = num \div (base * W[p - k])
        BY <4>2, QuotientOfQuotient DEF q
      <4>4. QED
        BY <4>2, <4>3, <3>2
    <3>3. QED
      BY <3>1, <3>2
  <2>2. Numeral(num, base) = [k \in 1 .. p + 1 |-> Digit[((num \div W[(p + 1) - k]) % base) + 1]]
    BY <1>8 DEF Numeral, W
  <2> HIDE DEF d, f
  <2>3. QED
    BY <2>1, <2>2, Zenon
<1>10. Numeral(q, base) = [k \in 1 .. p |-> f(k)]
  BY DEF Numeral, W, p
<1>11. Append([k \in 1 .. p |-> f(k)], d) = [k \in 1 .. p + 1 |-> IF k = p + 1 THEN d ELSE f(k)]
  <2> HIDE DEF d, f
  <2>1. QED
    BY <1>4
<1>12. QED
  BY <1>2, <1>8, <1>9, <1>10, <1>11 DEF q, p, W

\* The characters the BIOS writes by itself, of which none is a terminator
Numerals == {"0", "1", "2", "3", "4", "5", "6", "7", "8", "9", "a", "b", "c", "d", "e", "f"}
Marks    == {Sep, Blank, "-", "x", "%", ".", "\n"}
Glyph    == Numerals \cup Marks \cup {Character[byte] : byte \in 32 .. 126}

LEMMA DigitIs == \A k \in 0 .. 15 : Digit[k + 1] \in Numerals
<1>1. /\ Digit[1] = "0" /\ Digit[2] = "1" /\ Digit[3] = "2" /\ Digit[4] = "3" /\ Digit[5] = "4"
      /\ Digit[6] = "5" /\ Digit[7] = "6" /\ Digit[8] = "7" /\ Digit[9] = "8" /\ Digit[10] = "9"
      /\ Digit[11] = "a" /\ Digit[12] = "b" /\ Digit[13] = "c" /\ Digit[14] = "d"
      /\ Digit[15] = "e" /\ Digit[16] = "f"
  BY DEF Digit
<1> DEFINE D == Digit
<1> HIDE DEF D
<1>2. ASSUME NEW k \in 1 .. 16 PROVE D[k] \in Numerals
  BY <1>1 DEF D, Numerals
<1>3. ASSUME NEW k \in 0 .. 15 PROVE D[k + 1] \in Numerals
  <2>1. k + 1 \in 1 .. 16
    OBVIOUS
  <2>2. QED
    BY <1>2, <2>1, Zenon
<1>4. QED
  BY <1>3 DEF D

LEMMA GlyphIs == NUL \notin Glyph
<1>1. \A byte \in 32 .. 126 : Character[byte] # NUL
  BY CharacterAssumption
<1>2. NUL # Sep /\ NUL # Blank
  BY Zenon DEF NUL, Sep, Blank
<1>3. NUL \notin Numerals /\ NUL \notin Marks
  BY <1>2 DEF NUL, Numerals, Marks
<1>4. QED
  BY <1>1, <1>3, Zenon DEF Glyph

LEMMA RemainderIs == ASSUME NEW base \in 1 .. 16, NEW num \in Nat PROVE num % base \in 0 .. 15
<1>1. num % base \in 0 .. base - 1
  OBVIOUS
<1>2. QED
  BY <1>1

LEMMA NumeralType ==
  ASSUME NEW base \in 1 .. 16, NEW num \in Nat, num < Weight(base)[Width]
  PROVE  /\ Numeral(num, base) \in Seq(Numerals)
         /\ Len(Numeral(num, base)) = Places(num, base)
         /\ Places(num, base) \in 1 .. Width
<1> DEFINE p == Places(num, base)
           f(k) == Digit[((num \div Weight(base)[p - k]) % base) + 1]
<1>1. p \in 1 .. Width
  BY PlacesDef DEF IsPlaces
<1> HIDE DEF p
<1>2. ASSUME NEW k \in 1 .. p PROVE f(k) \in Numerals
  <2>1. p - k \in 0 .. Width
    BY <1>1, WidthIs
  <2> DEFINE w == Weight(base)[p - k]
             q == num \div w
  <2>2. w \in Nat \ {0}
    BY <2>1, Weights
  <2> HIDE DEF w
  <2>3. q \in Nat
    BY <2>2, Division, Zenon
  <2> HIDE DEF q
  <2>4. q % base \in 0 .. 15
    BY <2>3, RemainderIs
  <2>5. Digit[(q % base) + 1] \in Numerals
    BY <2>4, DigitIs
  <2>6. QED
    BY <2>5 DEF q, w
<1>3. Numeral(num, base) = [k \in 1 .. p |-> f(k)]
  BY DEF Numeral, p
<1> HIDE DEF f
<1>4. [k \in 1 .. p |-> f(k)] \in Seq(Numerals) /\ Len([k \in 1 .. p |-> f(k)]) = p
  BY <1>1, <1>2, WidthIs
<1>5. QED
  BY <1>1, <1>3, <1>4 DEF p

\* string.c's loop over the decimal digits
LEMMA itodecIsNumeral ==
  ASSUME NEW num \in Nat, num < Weight(10)[Width]
  PROVE  itodec(num) = Numeral(num, 10)
<1> DEFINE D == 0 .. num
           d(v) == Digit[(v % 10) + 1]
           Body(g) == [v \in D |-> IF v = 0 THEN <<>> ELSE Append(g[v \div 10], d(v))]
           c == [v \in D |-> IF v = 0 THEN <<>> ELSE Numeral(v, 10)]
           f == CHOOSE g : g = Body(g)
<1>1. itodec(num) = IF num = 0 THEN <<"0">> ELSE f[num]
  BY DEF itodec
<1>2. ASSUME NEW v \in D, v # 0
      PROVE  /\ v \div 10 \in D /\ v \div 10 < v
             /\ Numeral(v, 10) = Append(c[v \div 10], d(v))
  <2>1. v \in Nat /\ v < Weight(10)[Width] /\ 10 \in Nat \ {0}
    BY Weights, WidthIs
  <2>2. v \div 10 \in D /\ v \div 10 < v /\ (v \div 10 = 0 <=> v < 10)
    BY <1>2, <2>1
  <2>3. CASE v < 10
    <3>1. c[v \div 10] = <<>>
      BY <2>2, <2>3
    <3>2. Numeral(v, 10) = <<d(v)>>
      BY <2>1, <2>3, NumeralOfDigit
    <3> HIDE DEF c, d
    <3>3. Append(<<>>, d(v)) = <<d(v)>>
      OBVIOUS
    <3>4. QED
      BY <2>2, <3>1, <3>2, <3>3
  <2>4. CASE ~(v < 10)
    <3>1. c[v \div 10] = Numeral(v \div 10, 10)
      BY <2>2, <2>4
    <3>2. v >= 10
      BY <2>1, <2>4
    <3>3. Numeral(v, 10) = Append(Numeral(v \div 10, 10), d(v))
      BY <2>1, <3>2, NumeralOfQuotient
    <3>4. QED
      BY <2>2, <3>1, <3>3
  <2>5. QED
    BY <2>3, <2>4
<1>3. c = Body(c)
  <2>1. ASSUME NEW v \in D
        PROVE  c[v] = IF v = 0 THEN <<>> ELSE Append(c[v \div 10], d(v))
    BY <1>2
  <2> DEFINE e == c
  <2> HIDE DEF d
  <2>2. \A v \in D : e[v] = IF v = 0 THEN <<>> ELSE Append(e[v \div 10], d(v))
    BY <2>1
  <2>3. e = [v \in D |-> e[v]]
    OBVIOUS
  <2> HIDE DEF e, D
  <2>4. e = Body(e)
    BY <2>2, <2>3
  <2>5. QED
    BY <2>4 DEF e
<1>4. f = Body(f)
  <2> HIDE DEF Body, c
  <2>1. QED
    BY <1>3
<1>5. \A v \in D : v # 0 => f[v] = Append(f[v \div 10], d(v))
  <2> HIDE DEF f, D, d
  <2>1. QED
    BY <1>4
<1>6. 0 \in D /\ f[0] = <<>>
  <2>1. 0 \in D
    OBVIOUS
  <2> HIDE DEF f, D, d
  <2>2. QED
    BY <1>4, <2>1
<1>7. c[0] = <<>>
  OBVIOUS
<1>8. \A v \in D : v # 0 => c[v] = Numeral(v, 10)
  OBVIOUS
<1> HIDE DEF f, c, d, Body
<1> DEFINE T == {k \in Nat : \A v \in D : v < k => f[v] = c[v]}
<1>9. 0 \in T
  OBVIOUS
<1>10. ASSUME NEW k \in Nat, k \in T PROVE k + 1 \in T
  <2> SUFFICES ASSUME NEW v \in D, v < k + 1 PROVE f[v] = c[v]
    OBVIOUS
  <2>1. CASE v = 0
    BY <1>6, <1>7, <2>1
  <2>2. CASE v # 0
    <3>1. v \div 10 \in D /\ v \div 10 < v /\ v \div 10 \in Nat
      BY <1>2, <2>2
    <3>2. v \div 10 < k
      BY <3>1
    <3>3. f[v \div 10] = c[v \div 10]
      BY <1>10, <3>1, <3>2
    <3>4. f[v] = Append(f[v \div 10], d(v)) /\ c[v] = Append(c[v \div 10], d(v))
      BY <1>2, <1>5, <1>8, <2>2
    <3>5. QED
      BY <3>3, <3>4, Zenon
  <2>3. QED
    BY <2>1, <2>2
<1>11. \A k \in Nat : k \in T
  <2> HIDE DEF T
  <2>1. QED
    BY <1>9, <1>10, Induction, Zenon
<1>12. f[num] = c[num]
  <2>1. num \in D /\ num + 1 \in Nat /\ num < num + 1
    OBVIOUS
  <2>2. QED
    BY <1>11, <2>1
<1>13. CASE num = 0
  <2>1. Numeral(0, 10) = <<Digit[(0 % 10) + 1]>> /\ (0 % 10) + 1 = 1 /\ Digit[1] = "0"
    <3>1. 0 \in Nat /\ 10 \in Nat \ {0} /\ 0 < 10
      OBVIOUS
    <3>2. QED
      BY <3>1, NumeralOfDigit DEF Digit
  <2>2. QED
    BY <1>1, <1>13, <2>1
<1>14. CASE num # 0
  BY <1>1, <1>8, <1>12, <1>14
<1>15. QED
  BY <1>13, <1>14

\* The digits that are put when counter digits stand behind them
Split(ds, counter) ==
  IF counter > 4 \/ Len(ds) <= 4 - counter THEN ds
  ELSE SubSeq(ds, 1, Len(ds) - (4 - counter)) \o <<Sep>>
       \o SubSeq(ds, Len(ds) - (4 - counter) + 1, Len(ds))

Separator(counter) == IF counter = 4 THEN <<Sep>> ELSE <<>>

LEMMA SplitStep ==
  ASSUME NEW S, NEW ds \in Seq(S), NEW d \in S, Sep \in S, NEW c \in Nat
  PROVE  Split(Append(ds, d), c) = (Split(ds, c + 1) \o <<d>>) \o Separator(c)
<1> DEFINE es == Append(ds, d)
           m == Len(ds)
<1>1. /\ m \in Nat /\ es \in Seq(S) /\ Len(es) = m + 1 /\ es = ds \o <<d>> /\ <<d>> \in Seq(S)
      /\ es[m + 1] = d /\ \A i \in 1 .. m : es[i] = ds[i]
  <2>1. m \in Nat
    BY LenProperties
  <2>2. es \in Seq(S) /\ Len(es) = m + 1 /\ es[m + 1] = d /\ \A i \in 1 .. m : es[i] = ds[i]
    BY AppendProperties
  <2>3. es = ds \o <<d>> /\ <<d>> \in Seq(S)
    BY AppendIsConcat
  <2>4. QED
    BY <2>1, <2>2, <2>3
<1>2. es \o <<>> = es
  BY <1>1, ConcatEmptySeq
<1> HIDE DEF es, m
<1>3. CASE c > 4
  <2>1. Split(es, c) = es /\ Split(ds, c + 1) = ds /\ Separator(c) = <<>>
    <3>1. c + 1 > 4 /\ c # 4
      BY <1>3
    <3>2. QED
      BY <1>3, <3>1, Zenon DEF Split, Separator
  <2>2. QED
    BY <2>1, <1>1, <1>2 DEF es
<1>4. CASE c = 4
  <2>1. Split(ds, c + 1) = ds /\ Separator(c) = <<Sep>>
    <3>1. c + 1 > 4
      BY <1>4
    <3>2. QED
      BY <1>4, <3>1, Zenon DEF Split, Separator
  <2>2. Split(es, c) = SubSeq(es, 1, m + 1) \o <<Sep>> \o SubSeq(es, m + 2, m + 1)
    <3>1. ~(c > 4 \/ Len(es) <= 4 - c) /\ Len(es) - (4 - c) = m + 1 /\ (m + 1) + 1 = m + 2
      BY <1>1, <1>4
    <3>2. QED
      BY <1>1, <3>1 DEF Split
  <2>3. SubSeq(es, 1, m + 1) = es
    <3>1. SubSeq(es, 1, Len(es)) = es
      BY <1>1, SubSeqFull
    <3>2. QED
      BY <1>1, <3>1
  <2>4. SubSeq(es, m + 2, m + 1) = <<>>
    BY <1>1, SubSeqEmpty
  <2>5. es \o <<Sep>> \in Seq(S)
    BY <1>1, ConcatProperties
  <2>6. (es \o <<Sep>>) \o <<>> = es \o <<Sep>>
    BY <2>5, ConcatEmptySeq
  <2>7. QED
    BY <2>1, <2>2, <2>3, <2>4, <2>6, <1>1 DEF es
<1>5. CASE c < 4 /\ m + 1 <= 4 - c
  <2>1. Len(ds) <= 4 - (c + 1) /\ Len(es) <= 4 - c /\ c # 4
    BY <1>1, <1>5
  <2>2. Split(es, c) = es /\ Split(ds, c + 1) = ds /\ Separator(c) = <<>>
    BY <2>1 DEF Split, Separator
  <2>3. QED
    BY <2>2, <1>1, <1>2 DEF es
<1>6. CASE c < 4 /\ ~(m + 1 <= 4 - c)
  <2> DEFINE k == m + 1 - (4 - c)
             A == SubSeq(ds, 1, k) \o <<Sep>>
             R == SubSeq(ds, k + 1, m)
  <2>1. k \in 1 .. m /\ k \in Int /\ k + 1 \in Int /\ k + 1 <= m + 1
    BY <1>1, <1>6
  <2>2. Split(ds, c + 1) = A \o R /\ Separator(c) = <<>>
    <3>1. ~(c + 1 > 4 \/ Len(ds) <= 4 - (c + 1)) /\ Len(ds) - (4 - (c + 1)) = k /\ c # 4
      BY <1>1, <1>6
    <3> HIDE DEF k
    <3>2. Split(ds, c + 1) = A \o SubSeq(ds, k + 1, Len(ds))
      BY <3>1, Zenon DEF Split
    <3>3. Separator(c) = <<>>
      BY <3>1, Zenon DEF Separator
    <3>4. QED
      BY <3>2, <3>3 DEF m
  <2>3. Split(es, c) = (SubSeq(es, 1, k) \o <<Sep>>) \o SubSeq(es, k + 1, m + 1)
    <3>1. ~(c > 4 \/ Len(es) <= 4 - c) /\ Len(es) - (4 - c) = k
      BY <1>1, <1>6
    <3> HIDE DEF k
    <3>2. QED
      BY <1>1, <3>1 DEF Split
  <2> HIDE DEF k
  <2>4. SubSeq(es, 1, k) = SubSeq(ds, 1, k)
    <3>1. \A i \in 1 .. k : es[i] \in S /\ ds[i] \in S /\ es[i] = ds[i]
      BY <1>1, <2>1, ElementOfSeq
    <3>2. QED
      BY <3>1, <2>1, SubSeqProperties, SeqEqual
  <2>5. SubSeq(es, k + 1, m + 1) = R \o <<d>>
    <3>1. k + 1 \in 1 .. Len(es) /\ m + 1 \in k + 1 .. Len(es)
      BY <1>1, <2>1
    <3>2. SubSeq(es, k + 1, m + 1) = SubSeq(es, k + 1, (m + 1) - 1) \o <<es[m + 1]>>
      BY <1>1, <3>1, SubSeqRecursiveSecond
    <3>3. SubSeq(es, k + 1, m) = R
      <4>1. \A i \in k + 1 .. m : es[i] \in S /\ ds[i] \in S /\ es[i] = ds[i]
        BY <1>1, <2>1, ElementOfSeq
      <4>2. QED
        BY <4>1, <2>1, <1>1, SubSeqProperties, SeqEqual
    <3>4. (m + 1) - 1 = m
      BY <1>1
    <3>5. QED
      BY <1>1, <3>2, <3>3, <3>4
  <2>6. A \in Seq(S) /\ R \in Seq(S) /\ A \o R \in Seq(S)
    <3>1. \A i \in 1 .. m : ds[i] \in S
      BY ElementOfSeq DEF m
    <3>2. SubSeq(ds, 1, k) \in Seq(S) /\ R \in Seq(S)
      BY <3>1, <1>1, <2>1, SubSeqProperties
    <3>3. <<Sep>> \in Seq(S)
      OBVIOUS
    <3>4. QED
      BY <3>2, <3>3, ConcatProperties
  <2> HIDE DEF A, R
  <2>7. A \o (R \o <<d>>) = (A \o R) \o <<d>> /\ (A \o R) \o <<d>> \in Seq(S)
    <3> DEFINE u == <<d>>
    <3>1. A \in Seq(S) /\ R \in Seq(S) /\ u \in Seq(S)
      BY <1>1, <2>6
    <3> HIDE DEF u
    <3>2. A \o R \in Seq(S)
      BY <3>1, ConcatProperties
    <3>3. (A \o R) \o u \in Seq(S)
      BY <3>1, <3>2, ConcatProperties
    <3>4. Associative(A, R, u)
      BY <3>1, AllAssociative, Zenon
    <3>5. A \o (R \o u) = (A \o R) \o u
      BY <3>4, Zenon DEF Associative
    <3>6. QED
      BY <3>3, <3>5 DEF u
  <2>8. ((A \o R) \o <<d>>) \o <<>> = (A \o R) \o <<d>>
    BY <2>7, ConcatEmptySeq
  <2>9. Split(es, c) = A \o (R \o <<d>>)
    BY <2>3, <2>4, <2>5 DEF A
  <2>10. QED
    BY <2>2, <2>7, <2>8, <2>9 DEF es
<1>7. c > 4 \/ c = 4 \/ (c < 4 /\ m + 1 <= 4 - c) \/ (c < 4 /\ ~(m + 1 <= 4 - c))
  OBVIOUS
<1>8. QED
  BY <1>3, <1>4, <1>5, <1>6, <1>7, Zenon DEF es

\* string.c's loop over the digits of a base that is a power of two
LEMMA itopow2IsNumeral ==
  ASSUME NEW num \in Nat, NEW pow2, 2^pow2 \in 2 .. 16, num < Weight(2^pow2)[Width]
  PROVE  itopow2(num, pow2) = Grouped(Numeral(num, 2^pow2))
<1> DEFINE b == 2^pow2
           D == (0 .. num) \X Nat
           S == Numerals \cup {Sep}
           d(v) == Digit[(v % b) + 1]
           Body(g) == [at \in D |-> (IF at[1] \div b = 0 THEN <<>> ELSE g[<<at[1] \div b, at[2] + 1>>])
                                    \o <<d(at[1])>> \o (IF at[2] = 4 THEN <<Sep>> ELSE <<>>)]
           e == [at \in D |-> Split(Numeral(at[1], b), at[2])]
           f == CHOOSE g : g = Body(g)
<1>1. itopow2(num, pow2) = f[<<num, 0>>]
  BY DEF itopow2
<1>2. b \in Nat \ {0} /\ b \in 1 .. 16 /\ b >= 2 /\ num < Weight(b)[Width]
  OBVIOUS
<1> HIDE DEF b
<1>3. ASSUME NEW v \in 0 .. num
      PROVE  /\ v \in Nat /\ v < Weight(b)[Width] /\ v \div b \in 0 .. num
             /\ v \div b = 0 <=> v < b
             /\ v # 0 => v \div b < v
             /\ Numeral(v, b) \in Seq(Numerals) /\ d(v) \in Numerals
  <2>1. Weight(b)[Width] \in Nat
    BY <1>2, Weights, WidthIs
  <2>2. v \in Nat /\ v < Weight(b)[Width]
    BY <1>2, <2>1
  <2>3. v \div b \in Nat /\ (v \div b < 1 <=> v < b * 1)
    BY <1>2, <2>2, QuotientBounds
  <2>4. v \div b = 0 <=> v < b
    BY <1>2, <2>3
  <2>5. v # 0 => v \div b < v
    <3>1. v \div b < v <=> v < b * v
      BY <1>2, <2>2, QuotientBounds
    <3>2. v # 0 => v < b * v
      <4> SUFFICES ASSUME v # 0 PROVE v < b * v
        OBVIOUS
      <4>1. b = 2 + (b - 2) /\ b - 2 \in Nat
        BY <1>2
      <4>2. ASSUME NEW k \in Nat PROVE (2 + k) * v = v + v + k * v /\ k * v \in Nat
        BY <2>2
      <4>3. b * v = v + v + (b - 2) * v /\ (b - 2) * v \in Nat
        BY <4>1, <4>2
      <4>4. QED
        BY <2>2, <4>3
    <3>3. QED
      BY <3>1, <3>2
  <2>6. v \div b \in 0 .. num
    <3>1. v = 0 => v \div b = 0
      BY <1>2, <2>4
    <3>2. QED
      BY <2>2, <2>3, <2>5, <3>1
  <2>7. Numeral(v, b) \in Seq(Numerals)
    BY <1>2, <2>2, NumeralType
  <2>8. d(v) \in Numerals
    BY <1>2, <2>2, RemainderIs, DigitIs
  <2>9. QED
    BY <2>2, <2>4, <2>5, <2>6, <2>7, <2>8
<1>4. ASSUME NEW v \in 0 .. num, NEW c \in Nat
      PROVE  Split(Numeral(v, b), c)
               = (IF v \div b = 0 THEN <<>> ELSE Split(Numeral(v \div b, b), c + 1))
                 \o <<d(v)>> \o Separator(c)
  <2> DEFINE q == v \div b
  <2>1. /\ v \in Nat /\ v < Weight(b)[Width] /\ q \in 0 .. num /\ (q = 0 <=> v < b)
        /\ Numeral(v, b) \in Seq(Numerals) /\ d(v) \in Numerals
    BY <1>3
  <2>2. Numeral(q, b) \in Seq(Numerals)
    BY <1>3, <2>1
  <2>3. Sep \in S /\ Numerals \subseteq S
    OBVIOUS
  <2>4. d(v) \in S
    BY <2>1, <2>3
  <2>5. CASE q = 0
    <3>1. Numeral(v, b) = <<d(v)>>
      BY <1>2, <2>1, <2>5, NumeralOfDigit
    <3> HIDE DEF d
    <3>2. Append(<<>>, d(v)) = <<d(v)>> /\ <<>> \in Seq(S)
      BY EmptySeq
    <3>3. Split(Append(<<>>, d(v)), c) = (Split(<<>>, c + 1) \o <<d(v)>>) \o Separator(c)
      <4> HIDE DEF S
      <4>1. QED
        BY <2>3, <2>4, <3>2, SplitStep
    <3>4. Split(<<>>, c + 1) = <<>>
      <4>1. c + 1 > 4 \/ Len(<<>>) <= 4 - (c + 1)
        BY EmptySeq
      <4>2. QED
        BY <4>1, Zenon DEF Split
    <3>5. QED
      BY <2>5, <3>1, <3>2, <3>3, <3>4, Zenon
  <2>6. CASE q # 0
    <3>1. v >= b
      BY <1>2, <2>1, <2>6
    <3>2. Numeral(v, b) = Append(Numeral(q, b), d(v))
      BY <1>2, <2>1, <3>1, NumeralOfQuotient
    <3>3. Numeral(q, b) \in Seq(S)
      BY <2>2, <2>3, SeqMonotonic
    <3> HIDE DEF S, q, d
    <3>4. Split(Append(Numeral(q, b), d(v)), c) = (Split(Numeral(q, b), c + 1) \o <<d(v)>>) \o Separator(c)
      BY <2>3, <2>4, <3>3, SplitStep
    <3>5. QED
      BY <2>6, <3>2, <3>4, Zenon DEF q
  <2>7. QED
    BY <2>5, <2>6
<1>5. \A at \in D : /\ at = <<at[1], at[2]>> /\ at[1] \in 0 .. num /\ at[2] \in Nat
                    /\ <<at[1] \div b, at[2] + 1>> \in D
  <2>1. ASSUME NEW at \in D
        PROVE  /\ at = <<at[1], at[2]>> /\ at[1] \in 0 .. num /\ at[2] \in Nat
               /\ <<at[1] \div b, at[2] + 1>> \in D
    <3>1. at = <<at[1], at[2]>> /\ at[1] \in 0 .. num /\ at[2] \in Nat
      OBVIOUS
    <3>2. at[1] \div b \in 0 .. num /\ at[2] + 1 \in Nat
      <4>1. at[1] \div b \in 0 .. num
        BY <1>3, <3>1, Zenon
      <4>2. QED
        BY <3>1, <4>1
    <3>3. QED
      BY <3>1, <3>2
  <2>2. QED
    BY <2>1
<1>6. \A at \in D : e[at] = Split(Numeral(at[1], b), at[2])
  OBVIOUS
<1>7. e = Body(e)
  <2>1. ASSUME NEW at \in D
        PROVE  Split(Numeral(at[1], b), at[2])
                 = (IF at[1] \div b = 0 THEN <<>> ELSE e[<<at[1] \div b, at[2] + 1>>])
                   \o <<d(at[1])>> \o (IF at[2] = 4 THEN <<Sep>> ELSE <<>>)
    <3> DEFINE nx == <<at[1] \div b, at[2] + 1>>
    <3>1. nx \in D /\ at[1] \in 0 .. num /\ at[2] \in Nat
      BY <1>5
    <3>2. e[nx] = Split(Numeral(nx[1], b), nx[2])
      <4> HIDE DEF e, nx, D
      <4>1. QED
        BY <1>6, <3>1
    <3>3. nx[1] = at[1] \div b /\ nx[2] = at[2] + 1
      OBVIOUS
    <3> HIDE DEF e, nx, D, d
    <3>4. Split(Numeral(at[1], b), at[2])
            = (IF at[1] \div b = 0 THEN <<>> ELSE e[nx]) \o <<d(at[1])>> \o Separator(at[2])
      <4>1. Split(Numeral(at[1], b), at[2])
              = (IF at[1] \div b = 0 THEN <<>> ELSE Split(Numeral(at[1] \div b, b), at[2] + 1))
                \o <<d(at[1])>> \o Separator(at[2])
        BY <1>4, <3>1, Zenon
      <4>2. QED
        BY <3>2, <3>3, <4>1, Zenon
    <3>5. QED
      BY <3>4, Zenon DEF Separator, nx
  <2> DEFINE h(at) == (IF at[1] \div b = 0 THEN <<>> ELSE e[<<at[1] \div b, at[2] + 1>>])
                      \o <<d(at[1])>> \o (IF at[2] = 4 THEN <<Sep>> ELSE <<>>)
  <2>2. \A at \in D : Split(Numeral(at[1], b), at[2]) = h(at)
    BY <2>1
  <2>3. Body(e) = [at \in D |-> h(at)]
    <3> HIDE DEF e, D, d
    <3>1. QED
      BY Zenon
  <2> HIDE DEF h, D, Body
  <2>4. e = [at \in D |-> h(at)]
    BY <2>2, Zenon
  <2>5. QED
    BY <2>3, <2>4, Zenon
<1>8. f = Body(f)
  <2> HIDE DEF Body, e
  <2>1. QED
    BY <1>7
<1>9. \A at \in D : f[at] = (IF at[1] \div b = 0 THEN <<>> ELSE f[<<at[1] \div b, at[2] + 1>>])
                            \o <<d(at[1])>> \o (IF at[2] = 4 THEN <<Sep>> ELSE <<>>)
  <2> HIDE DEF f, D, d
  <2>1. QED
    BY <1>8, Zenon
<1>10. \A at \in D : e[at] = (IF at[1] \div b = 0 THEN <<>> ELSE e[<<at[1] \div b, at[2] + 1>>])
                             \o <<d(at[1])>> \o (IF at[2] = 4 THEN <<Sep>> ELSE <<>>)
  <2> DEFINE ee == e
  <2>1. ee = Body(ee)
    BY <1>7
  <2> HIDE DEF ee, D, d
  <2>2. \A at \in D : ee[at] = (IF at[1] \div b = 0 THEN <<>> ELSE ee[<<at[1] \div b, at[2] + 1>>])
                               \o <<d(at[1])>> \o (IF at[2] = 4 THEN <<Sep>> ELSE <<>>)
    BY <2>1, Zenon
  <2>3. QED
    BY <2>2 DEF ee
<1> HIDE DEF f, e, d, Body
<1> DEFINE T == {k \in Nat : \A at \in D : at[1] < k => f[at] = e[at]}
<1>11. 0 \in T
  BY <1>5
<1>12. ASSUME NEW k \in Nat, k \in T PROVE k + 1 \in T
  <2> SUFFICES ASSUME NEW at \in D, at[1] < k + 1 PROVE f[at] = e[at]
    OBVIOUS
  <2> DEFINE nx == <<at[1] \div b, at[2] + 1>>
  <2>1. at[1] \in 0 .. num /\ at[1] \in Nat /\ nx \in D /\ nx[1] = at[1] \div b
    BY <1>5
  <2>2. at[1] \div b # 0 => f[nx] = e[nx]
    <3> SUFFICES ASSUME at[1] \div b # 0 PROVE f[nx] = e[nx]
      OBVIOUS
    <3>1. at[1] # 0
      BY <1>2, <1>3, <2>1
    <3>2. at[1] \div b < at[1] /\ at[1] \div b \in Nat
      BY <1>3, <2>1, <3>1
    <3> HIDE DEF nx, D
    <3>3. nx[1] < k
      BY <2>1, <3>2
    <3>4. QED
      BY <1>12, <2>1, <3>3
  <2> HIDE DEF D
  <2>3. QED
    BY <1>9, <1>10, <2>2, Zenon
<1>13. \A k \in Nat : k \in T
  <2> HIDE DEF T
  <2>1. QED
    BY <1>11, <1>12, Induction, Zenon
<1>14. f[<<num, 0>>] = Split(Numeral(num, b), 0)
  <2> DEFINE at == <<num, 0>>
  <2>1. at \in D /\ at[1] = num /\ at[2] = 0 /\ num + 1 \in Nat /\ num < num + 1
    OBVIOUS
  <2> HIDE DEF at, D
  <2>2. f[at] = e[at]
    BY <1>13, <2>1
  <2>3. e[at] = Split(Numeral(num, b), 0)
    BY <1>6, <2>1
  <2>4. QED
    BY <2>2, <2>3 DEF at
<1>15. Split(Numeral(num, b), 0) = Grouped(Numeral(num, b))
  <2> DEFINE ds == Numeral(num, b)
  <2>1. ds \in Seq(Numerals) /\ Len(ds) \in Nat
    BY <1>2, NumeralType, LenProperties
  <2> HIDE DEF ds
  <2>2. Split(ds, 0) = Grouped(ds)
    <3>1. ~(0 > 4) /\ 4 - 0 = 4 /\ (Len(ds) - 4) + 1 = Len(ds) - 3
      BY <2>1
    <3>2. QED
      BY <3>1, Zenon DEF Split, Grouped
  <2>3. QED
    BY <2>2 DEF ds
<1>16. QED
  BY <1>1, <1>14, <1>15 DEF b

-----------------------------------------------------------------------------
(* What a terminal shows of what is put. *)

Visible(chars) == [k \in DOMAIN chars |-> IF chars[k] = NUL THEN <<>> ELSE <<chars[k]>>]

LEMMA VisibleType ==
  ASSUME NEW S, NEW s \in Seq(S)
  PROVE  /\ Visible(s) \in Seq(Seq(S)) /\ Len(Visible(s)) = Len(s)
         /\ \A k \in 1 .. Len(s) : Visible(s)[k] = IF s[k] = NUL THEN <<>> ELSE <<s[k]>>
<1> DEFINE n == Len(s)
           g == [k \in 1 .. n |-> IF s[k] = NUL THEN <<>> ELSE <<s[k]>>]
<1>1. n \in Nat /\ DOMAIN s = 1 .. n
  BY LenProperties
<1>2. Visible(s) = g
  BY <1>1 DEF Visible
<1>3. ASSUME NEW k \in 1 .. n PROVE (IF s[k] = NUL THEN <<>> ELSE <<s[k]>>) \in Seq(S)
  <2>1. s[k] \in S
    BY ElementOfSeq
  <2>2. <<>> \in Seq(S) /\ <<s[k]>> \in Seq(S)
    BY <2>1
  <2>3. QED
    BY <2>2
<1> HIDE DEF n
<1>4. g \in Seq(Seq(S)) /\ Len(g) = n
  BY <1>1, <1>3
<1>5. \A k \in 1 .. n : g[k] = IF s[k] = NUL THEN <<>> ELSE <<s[k]>>
  OBVIOUS
<1> HIDE DEF g
<1>6. QED
  BY <1>2, <1>4, <1>5 DEF n

LEMMA ShownConcat ==
  ASSUME NEW S, NEW s \in Seq(S), NEW t \in Seq(S)
  PROVE  Shown(s) \in Seq(S) /\ Shown(s \o t) = Shown(s) \o Shown(t)
<1>1. s \o t \in Seq(S) /\ Len(s \o t) = Len(s) + Len(t) /\ Len(s) \in Nat /\ Len(t) \in Nat
  BY ConcatProperties, LenProperties
<1>2. Visible(s) \in Seq(Seq(S)) /\ Visible(t) \in Seq(Seq(S)) /\ Visible(s \o t) \in Seq(Seq(S))
  BY <1>1, VisibleType
<1>3. Visible(s \o t) = Visible(s) \o Visible(t)
  <2>1. /\ Visible(s) \o Visible(t) \in Seq(Seq(S))
        /\ Len(Visible(s) \o Visible(t)) = Len(s) + Len(t)
        /\ Len(Visible(s \o t)) = Len(s) + Len(t)
    <3>1. Len(Visible(s)) = Len(s) /\ Len(Visible(t)) = Len(t) /\ Len(Visible(s \o t)) = Len(s \o t)
      BY <1>1, VisibleType
    <3>2. QED
      <4> DEFINE a == Visible(s)  b == Visible(t)  U == Seq(S)
      <4>1. a \in Seq(U) /\ b \in Seq(U)
        BY <1>2
      <4> HIDE DEF a, b, U
      <4>2. a \o b \in Seq(U) /\ Len(a \o b) = Len(a) + Len(b)
        BY <4>1, ConcatProperties
      <4>3. QED
        BY <1>1, <3>1, <4>2 DEF a, b, U
  <2>2. ASSUME NEW k \in 1 .. Len(s) + Len(t) PROVE Visible(s \o t)[k] = (Visible(s) \o Visible(t))[k]
    <3>1. Visible(s \o t)[k] = IF (s \o t)[k] = NUL THEN <<>> ELSE <<(s \o t)[k]>>
      BY <1>1, VisibleType
    <3>2. (s \o t)[k] = IF k <= Len(s) THEN s[k] ELSE t[k - Len(s)]
      BY ConcatProperties
    <3>3. (Visible(s) \o Visible(t))[k] = IF k <= Len(s) THEN Visible(s)[k] ELSE Visible(t)[k - Len(s)]
      <4>1. Len(Visible(s)) = Len(s) /\ Len(Visible(t)) = Len(t)
        BY VisibleType
      <4>2. QED
        BY <1>2, <4>1, ConcatProperties
    <3>4. CASE k <= Len(s)
      <4>1. k \in 1 .. Len(s)
        BY <1>1, <3>4
      <4>2. Visible(s)[k] = IF s[k] = NUL THEN <<>> ELSE <<s[k]>>
        BY <4>1, VisibleType
      <4>3. QED
        BY <3>1, <3>2, <3>3, <3>4, <4>2, Zenon
    <3>5. CASE ~(k <= Len(s))
      <4>1. k - Len(s) \in 1 .. Len(t)
        BY <1>1, <3>5
      <4>2. Visible(t)[k - Len(s)] = IF t[k - Len(s)] = NUL THEN <<>> ELSE <<t[k - Len(s)]>>
        BY <4>1, VisibleType
      <4>3. QED
        BY <3>1, <3>2, <3>3, <3>5, <4>2, Zenon
    <3>6. QED
      BY <3>4, <3>5
  <2> DEFINE a == Visible(s \o t)  b == Visible(s) \o Visible(t)  U == Seq(S)
  <2>3. a \in Seq(U) /\ b \in Seq(U) /\ Len(a) = Len(b) /\ \A k \in 1 .. Len(a) : a[k] = b[k]
    BY <1>2, <2>1, <2>2
  <2> HIDE DEF a, b, U
  <2>4. a = b
    BY <2>3, SeqEqual
  <2>5. QED
    BY <2>4 DEF a, b
<1>4. Shown(s) = FlattenSeq(Visible(s)) /\ Shown(t) = FlattenSeq(Visible(t))
      /\ Shown(s \o t) = FlattenSeq(Visible(s \o t))
  BY Zenon DEF Shown, Visible
<1>5. FlattenSeq(Visible(s)) \in Seq(S)
  <2>1. <<>> \in Seq(S)
    BY EmptySeq
  <2>2. QED
    BY <1>2, <2>1, FlattenAppend
<1>6. FlattenSeq(Visible(s) \o Visible(t)) = FlattenSeq(Visible(s)) \o FlattenSeq(Visible(t))
  BY <1>2, FlattenConcat
<1>7. QED
  BY <1>3, <1>4, <1>5, <1>6, Zenon

LEMMA ShownNothing == Shown(<<>>) = <<>> /\ Shown(<<NUL>>) = <<>>
<1>1. ASSUME NEW S, NEW s \in Seq(S) PROVE Shown(s) = FlattenSeq(Visible(s))
  BY Zenon DEF Shown, Visible
<1>2. Shown(<<>>) = <<>>
  <2>1. <<>> \in Seq({NUL}) /\ Len(<<>>) = 0
    BY EmptySeq
  <2>2. Visible(<<>>) \in Seq(Seq({NUL})) /\ Len(Visible(<<>>)) = 0
    BY <2>1, VisibleType
  <2>3. Visible(<<>>) = <<>>
    BY <2>2, EmptySeq
  <2>4. QED
    BY <1>1, <2>1, <2>3, FlattenEmpty
<1>3. Shown(<<NUL>>) = <<>>
  <2>1. Visible(<<NUL>>) = <<<<>>>>
    <3>1. <<NUL>> \in Seq({NUL}) /\ Len(<<NUL>>) = 1 /\ <<NUL>>[1] = NUL
      OBVIOUS
    <3>2. Len(Visible(<<NUL>>)) = 1 /\ Visible(<<NUL>>)[1] = <<>> /\ Visible(<<NUL>>) \in Seq(Seq({NUL}))
      <4> DEFINE z == <<NUL>>  N == {NUL}
      <4>1. z \in Seq(N) /\ Len(z) = 1 /\ z[1] = NUL
        BY <3>1
      <4> HIDE DEF z, N
      <4>2. /\ Visible(z) \in Seq(Seq(N)) /\ Len(Visible(z)) = Len(z)
            /\ \A k \in 1 .. Len(z) : Visible(z)[k] = IF z[k] = NUL THEN <<>> ELSE <<z[k]>>
        BY <4>1, VisibleType, Zenon
      <4>3. 1 \in 1 .. Len(z)
        BY <4>1
      <4>4. Visible(z)[1] = <<>>
        BY <4>1, <4>2, <4>3, Zenon
      <4>5. QED
        BY <4>1, <4>2, <4>4 DEF z, N
    <3>3. <<<<>>>> \in Seq(Seq({NUL})) /\ Len(<<<<>>>>) = 1 /\ <<<<>>>>[1] = <<>>
      BY EmptySeq
    <3> DEFINE a == Visible(<<NUL>>)  b == <<<<>>>>  U == Seq({NUL})
    <3>4. a \in Seq(U) /\ b \in Seq(U) /\ Len(a) = Len(b) /\ \A k \in 1 .. Len(a) : a[k] = b[k]
      BY <3>2, <3>3
    <3> HIDE DEF a, b, U
    <3>5. a = b
      BY <3>4, SeqEqual
    <3>6. QED
      BY <3>5 DEF a, b
  <2>2. <<>> \in Seq({NUL}) /\ <<NUL>> \in Seq({NUL})
    OBVIOUS
  <2>3. FlattenSeq(<<<<>>>>) = <<>>
    BY <2>2, FlattenOne
  <2>4. QED
    BY <1>1, <2>1, <2>2, <2>3
<1>4. QED
  BY <1>2, <1>3

\* Characters without a terminator are shown as they are.
LEMMA ShownPlain ==
  ASSUME NEW S, NUL \notin S, NEW s \in Seq(S)
  PROVE  Shown(s) = s
<1> DEFINE Before(k) == SubSeq(s, 1, k)
           T == {k \in Nat : k <= Len(s) => Shown(Before(k)) = Before(k)}
<1>0. Len(s) \in Nat /\ \A i \in 1 .. Len(s) : s[i] \in S
  BY LenProperties, ElementOfSeq
<1>1. 0 \in T
  <2>1. Before(0) = <<>>
    BY SubSeqEmpty
  <2>2. QED
    BY <2>1, ShownNothing
<1>2. ASSUME NEW k \in Nat, k \in T PROVE k + 1 \in T
  <2> SUFFICES ASSUME k + 1 <= Len(s) PROVE Shown(Before(k + 1)) = Before(k + 1)
    OBVIOUS
  <2> DEFINE c == s[k + 1]
  <2>1. c \in S /\ c # NUL /\ <<c>> \in Seq(S)
    BY <1>0
  <2>2. Before(k + 1) = Before(k) \o <<c>> /\ Before(k) \in Seq(S)
    <3>1. Before(k + 1) = SubSeq(s, 1, (k + 1) - 1) \o <<c>>
      BY <1>0, SubSeqRecursiveSecond
    <3>2. QED
      BY <3>1, <1>0, SubSeqProperties
  <2> HIDE DEF Before, c
  <2>3. Shown(<<c>>) = <<c>>
    <3>1. Visible(<<c>>) = <<<<c>>>>
      <4>1. Len(<<c>>) = 1 /\ <<c>>[1] = c
        OBVIOUS
      <4>2. Len(Visible(<<c>>)) = 1 /\ Visible(<<c>>)[1] = <<c>> /\ Visible(<<c>>) \in Seq(Seq(S))
        <5> DEFINE t == <<c>>
        <5>1. t \in Seq(S) /\ 1 \in 1 .. Len(t) /\ t[1] = c /\ Len(t) = 1
          BY <2>1, <4>1
        <5> HIDE DEF t
        <5>2. Visible(t) \in Seq(Seq(S)) /\ Len(Visible(t)) = Len(t)
              /\ Visible(t)[1] = IF t[1] = NUL THEN <<>> ELSE <<t[1]>>
          BY <5>1, VisibleType
        <5>3. QED
          BY <2>1, <5>1, <5>2, Zenon DEF t
      <4>3. <<<<c>>>> \in Seq(Seq(S)) /\ Len(<<<<c>>>>) = 1 /\ <<<<c>>>>[1] = <<c>>
        BY <2>1
      <4> DEFINE a == Visible(<<c>>)  b == <<<<c>>>>  U == Seq(S)
      <4>4. a \in Seq(U) /\ b \in Seq(U) /\ Len(a) = Len(b) /\ \A i \in 1 .. Len(a) : a[i] = b[i]
        BY <4>2, <4>3
      <4> HIDE DEF a, b, U
      <4>5. a = b
        BY <4>4, SeqEqual
      <4>6. QED
        BY <4>5 DEF a, b
    <3>2. Shown(<<c>>) = FlattenSeq(Visible(<<c>>))
      BY Zenon DEF Shown, Visible
    <3>3. FlattenSeq(<<<<c>>>>) = <<c>>
      BY <2>1, FlattenOne
    <3>4. QED
      BY <3>1, <3>2, <3>3
  <2>4. Shown(Before(k) \o <<c>>) = Shown(Before(k)) \o Shown(<<c>>)
    BY <2>1, <2>2, ShownConcat
  <2>5. Shown(Before(k)) = Before(k)
    BY <1>2, <1>0
  <2>6. QED
    BY <2>2, <2>3, <2>4, <2>5
<1>3. \A k \in Nat : k \in T
  <2> HIDE DEF T
  <2>1. QED
    BY <1>1, <1>2, Induction, Zenon
<1> HIDE DEF Before
<1>4. Before(Len(s)) = s
  BY SubSeqFull DEF Before
<1>5. Shown(Before(Len(s))) = Before(Len(s))
  BY <1>0, <1>3
<1>6. QED
  BY <1>4, <1>5, Zenon

-----------------------------------------------------------------------------
(* A dump: its numbers in their buffers, its cells, its lines. *)

\* Everything that is put in a dump
Alphabet == Glyph \cup {NUL}

LEMMA GlyphsShown ==
  ASSUME NEW s \in Seq(Glyph)
  PROVE  s \in Seq(Alphabet) /\ Shown(s) = s
BY GlyphIs, ShownPlain, SeqMonotonic DEF Alphabet

LEMMA Puts ==
  ASSUME NEW s \in Seq(Alphabet), NEW t \in Seq(Alphabet)
  PROVE  /\ s \o t \in Seq(Alphabet) /\ Shown(s) \in Seq(Alphabet)
         /\ Shown(s \o t) = Shown(s) \o Shown(t)
BY ShownConcat, ConcatProperties

\* The numbers of four digits
Short == {num \in Nat : num < 65536}

\* Four digits are enough for an offset, and two for a byte.
LEMMA HexDigits ==
  ASSUME NEW num \in Short
  PROVE  /\ itopow2(num, 4) = Numeral(num, 16)
         /\ Numeral(num, 16) \in Seq(Numerals)
         /\ Len(Numeral(num, 16)) \in 1 .. 4
         /\ num < 256 => Len(Numeral(num, 16)) <= 2
<1> DEFINE W == Weight(16)
           p == Places(num, 16)
<1>1. W[0] = 1 /\ W[1] = 16 /\ W[2] = 256 /\ W[3] = 4096 /\ W[4] = 65536
  <2>1. /\ W[0] = 1 /\ W[0 + 1] = 16 * W[0] /\ W[1 + 1] = 16 * W[1]
        /\ W[2 + 1] = 16 * W[2] /\ W[3 + 1] = 16 * W[3]
    <3>1. 16 \in Nat \ {0} /\ 0 \in 0 .. Width - 1 /\ 1 \in 0 .. Width - 1 /\ 2 \in 0 .. Width - 1
          /\ 3 \in 0 .. Width - 1
      BY WidthIs
    <3>2. QED
      BY <3>1, Weights
  <2> HIDE DEF W
  <2>2. QED
    BY <2>1
<1>2. num \in Nat /\ num < W[Width]
  <2>1. 16 \in Nat \ {0} /\ 4 \in 0 .. Width /\ Width \in 0 .. Width /\ 4 <= Width
    BY WidthIs
  <2>2. W[4] <= W[Width] /\ W[Width] \in Nat
    BY <2>1, WeightGrows, Weights
  <2> HIDE DEF W
  <2>3. QED
    BY <1>1, <2>2 DEF Short
<1>3. IsPlaces(p, num, 16)
  BY <1>2, PlacesDef
<1>4. p \in 1 .. Width /\ (p = 1 \/ num >= W[p - 1])
  BY <1>3 DEF IsPlaces
<1> HIDE DEF p
<1>5. ASSUME NEW k \in 1 .. 4, num < W[k] PROVE p <= k
  <2> SUFFICES ASSUME ~(p <= k) PROVE FALSE
    OBVIOUS
  <2>1. 16 \in Nat \ {0} /\ k \in 0 .. Width /\ p - 1 \in 0 .. Width /\ k <= p - 1 /\ p # 1
    BY <1>4, WidthIs
  <2>2. W[k] <= W[p - 1] /\ W[k] \in Nat /\ W[p - 1] \in Nat
    BY <2>1, WeightGrows, Weights
  <2>3. num >= W[p - 1]
    BY <1>4, <2>1
  <2> HIDE DEF W
  <2>4. QED
    BY <1>2, <1>5, <2>2, <2>3
<1>6. p <= 4 /\ (num < 256 => p <= 2)
  <2> HIDE DEF W
  <2>1. num < W[4] /\ (num < 256 => num < W[2])
    BY <1>1, SMT DEF Short
  <2>2. 4 \in 1 .. 4 /\ 2 \in 1 .. 4
    OBVIOUS
  <2>3. QED
    BY <1>5, <2>1, <2>2
<1> HIDE DEF W
<1>7. 2^4 = 16 /\ 16 \in 1 .. 16 /\ 16 \in 2 .. 16
  OBVIOUS
<1>8. Numeral(num, 16) \in Seq(Numerals) /\ Len(Numeral(num, 16)) = p
  BY <1>2, <1>7, NumeralType DEF p, W
<1>9. itopow2(num, 4) = Grouped(Numeral(num, 16))
  <2>1. 2^4 \in 2 .. 16 /\ num < Weight(2^4)[Width]
    BY <1>2, <1>7 DEF W
  <2>2. itopow2(num, 4) = Grouped(Numeral(num, 2^4))
    BY <1>2, <2>1, itopow2IsNumeral, Zenon
  <2>3. QED
    BY <1>7, <2>2
<1>10. Grouped(Numeral(num, 16)) = Numeral(num, 16)
  <2>1. Len(Numeral(num, 16)) <= 4
    BY <1>6, <1>8
  <2>2. QED
    BY <2>1, Zenon DEF Grouped
<1>11. Len(Numeral(num, 16)) \in 1 .. 4 /\ (num < 256 => Len(Numeral(num, 16)) <= 2)
  <2>1. p \in 1 .. 4
    BY <1>4, <1>6, WidthIs
  <2>2. QED
    BY <1>6, <1>8, <2>1, Zenon
<1>12. QED
  BY <1>8, <1>9, <1>10, <1>11

LEMMA InBufIs ==
  ASSUME NEW zeros \in Nat, NEW ds \in Seq(Numerals), Len(ds) <= zeros
  PROVE  /\ Padded(ds, zeros) \in Seq(Glyph) /\ Len(Padded(ds, zeros)) = zeros
         /\ InBuf(zeros, ds) = Padded(ds, zeros) \o <<NUL>>
<1> DEFINE z == zeros - Len(ds)
           os == [k \in 1 .. z |-> "0"]
           buf == [k \in 1 .. zeros |-> IF k <= z THEN "0" ELSE ds[k - z]]
<1>1. z \in Nat /\ Len(ds) \in Nat /\ zeros = z + Len(ds) /\ "0" \in Numerals
  BY LenProperties DEF Numerals
<1> HIDE DEF z
<1>2. os \in Seq(Numerals) /\ Len(os) = z /\ \A k \in 1 .. z : os[k] = "0"
  BY <1>1
<1>3. buf \in Seq(Numerals) /\ Len(buf) = zeros
      /\ \A k \in 1 .. zeros : buf[k] = IF k <= z THEN "0" ELSE ds[k - z]
  <2>1. ASSUME NEW k \in 1 .. zeros PROVE (IF k <= z THEN "0" ELSE ds[k - z]) \in Numerals
    <3>1. ~(k <= z) => k - z \in 1 .. Len(ds)
      BY <1>1
    <3>2. QED
      BY <1>1, <3>1, ElementOfSeq
  <2>2. QED
    BY <2>1
<1> HIDE DEF os, buf
<1>4. /\ os \o ds \in Seq(Numerals) /\ Len(os \o ds) = zeros
      /\ \A k \in 1 .. zeros : (os \o ds)[k] = IF k <= z THEN os[k] ELSE ds[k - z]
  BY <1>1, <1>2, ConcatProperties
<1>5. os \o ds = buf
  <2>1. \A k \in 1 .. zeros : (os \o ds)[k] = buf[k]
    BY <1>1, <1>2, <1>3, <1>4
  <2>2. QED
    BY <1>3, <1>4, <2>1, SeqEqual
<1>6. Padded(ds, zeros) = os \o ds
  BY Zenon DEF Padded, os, z
<1>7. InBuf(zeros, ds) = buf \o <<NUL>>
  BY Zenon DEF InBuf, buf, z
<1>8. Numerals \subseteq Glyph
  BY DEF Glyph
<1>9. QED
  BY <1>4, <1>5, <1>6, <1>7, <1>8, SeqMonotonic

\* A number in its buffer is shown with leading zeros.
LEMMA BufferShown ==
  ASSUME NEW zeros \in Nat, NEW num \in Short, Len(Numeral(num, 16)) <= zeros
  PROVE  /\ InBuf(zeros, itopow2(num, 4)) \in Seq(Alphabet)
         /\ Shown(InBuf(zeros, itopow2(num, 4))) = Padded(Numeral(num, 16), zeros)
         /\ Padded(Numeral(num, 16), zeros) \in Seq(Glyph)
<1> DEFINE ds == Numeral(num, 16)
           ps == Padded(ds, zeros)
<1>1. itopow2(num, 4) = ds /\ ds \in Seq(Numerals)
  BY HexDigits
<1>2. ps \in Seq(Glyph) /\ InBuf(zeros, ds) = ps \o <<NUL>>
  BY <1>1, InBufIs
<1> HIDE DEF ds, ps
<1>3. ps \in Seq(Alphabet) /\ Shown(ps) = ps
  BY <1>2, GlyphsShown
<1>4. <<NUL>> \in Seq(Alphabet)
  BY DEF Alphabet
<1>5. ps \o <<NUL>> \in Seq(Alphabet) /\ Shown(ps \o <<NUL>>) = ps \o <<>>
  BY <1>3, <1>4, Puts, ShownNothing
<1>6. ps \o <<>> = ps
  BY <1>3, ConcatEmptySeq
<1>7. QED
  BY <1>1, <1>2, <1>5, <1>6 DEF ds, ps

\* The parts of a line: the offset, a byte in its column, the columns of some
\* bytes, and the text
Offset(i)   == <<Blank, Blank>> \o Padded(Numeral(i, 16), 4) \o <<Blank>>
Hex(byte) == <<Blank>> \o Padded(Numeral(byte, 16), 2)
Hexes(bytes, first, m) == FlattenSeq([k \in 1 .. m |-> Hex(bytes[first + k])])
Text(bytes, first, m)    == [k \in 1 .. m |-> Ascii(bytes[first + k])]

LEMMA MarksAre == Blank \in Glyph /\ "\n" \in Glyph /\ "." \in Glyph
BY DEF Glyph, Marks

LEMMA AsciiIs == ASSUME NEW byte \in 0 .. 255 PROVE Ascii(byte) \in Glyph
<1>1. CASE Graphic(byte)
  <2>1. Character[byte] \in Glyph
    <3>1. byte \in 32 .. 126
      BY <1>1 DEF Graphic
    <3>2. QED
      BY <3>1, Zenon DEF Glyph
  <2>2. QED
    BY <1>1, <2>1, Zenon DEF Ascii
<1>2. CASE ~Graphic(byte)
  BY <1>2, MarksAre, Zenon DEF Ascii
<1>3. QED
  BY <1>1, <1>2

LEMMA OffsetShown ==
  ASSUME NEW i \in Short
  PROVE  LET put == <<Blank, Blank>> \o InBuf(4, itopow2(i, 4)) \o <<Blank>>
         IN  put \in Seq(Alphabet) /\ Shown(put) = Offset(i) /\ Offset(i) \in Seq(Glyph)
<1> DEFINE b == InBuf(4, itopow2(i, 4))
           ps == Padded(Numeral(i, 16), 4)
<1>1. b \in Seq(Alphabet) /\ Shown(b) = ps /\ ps \in Seq(Glyph)
  <2>1. Len(Numeral(i, 16)) \in 1 .. 4
    BY HexDigits
  <2>2. Len(Numeral(i, 16)) <= 4 /\ 4 \in Nat
    <3>1. 4 \in Nat /\ \A l \in 1 .. 4 : l <= 4
      OBVIOUS
    <3>2. QED
      BY <2>1, <3>1, Zenon
  <2>3. QED
    BY <2>2, BufferShown
<1>2. <<Blank, Blank>> \in Seq(Glyph) /\ <<Blank>> \in Seq(Glyph)
  BY MarksAre
<1>3. /\ <<Blank, Blank>> \in Seq(Alphabet) /\ Shown(<<Blank, Blank>>) = <<Blank, Blank>>
      /\ <<Blank>> \in Seq(Alphabet) /\ Shown(<<Blank>>) = <<Blank>>
  BY <1>2, GlyphsShown
<1> HIDE DEF b, ps
<1>4. <<Blank, Blank>> \o b \in Seq(Alphabet) /\ Shown(<<Blank, Blank>> \o b) = <<Blank, Blank>> \o ps
  BY <1>1, <1>3, Puts
<1>5. /\ (<<Blank, Blank>> \o b) \o <<Blank>> \in Seq(Alphabet)
      /\ Shown((<<Blank, Blank>> \o b) \o <<Blank>>) = (<<Blank, Blank>> \o ps) \o <<Blank>>
  BY <1>3, <1>4, Puts
<1>6. (<<Blank, Blank>> \o ps) \o <<Blank>> \in Seq(Glyph)
  <2>1. <<Blank, Blank>> \o ps \in Seq(Glyph)
    BY <1>1, <1>2, ConcatProperties
  <2>2. QED
    BY <1>2, <2>1, ConcatProperties
<1>7. QED
  BY <1>5, <1>6 DEF Offset, b, ps

LEMMA ByteShown ==
  ASSUME NEW byte \in 0 .. 255
  PROVE  /\ <<Blank>> \in Seq(Alphabet) /\ Shown(<<Blank>>) = <<Blank>>
         /\ InBuf(2, itopow2(byte, 4)) \in Seq(Alphabet)
         /\ <<Blank>> \o Shown(InBuf(2, itopow2(byte, 4))) = Hex(byte)
         /\ Hex(byte) \in Seq(Glyph)
<1>1. byte \in Short /\ byte < 256
  BY DEF Short
<1>2. Len(Numeral(byte, 16)) <= 2
  BY <1>1, HexDigits
<1>3. /\ InBuf(2, itopow2(byte, 4)) \in Seq(Alphabet)
      /\ Shown(InBuf(2, itopow2(byte, 4))) = Padded(Numeral(byte, 16), 2)
      /\ Padded(Numeral(byte, 16), 2) \in Seq(Glyph)
  BY <1>1, <1>2, BufferShown
<1>4. <<Blank>> \in Seq(Glyph)
  BY MarksAre
<1>5. <<Blank>> \in Seq(Alphabet) /\ Shown(<<Blank>>) = <<Blank>>
  BY <1>4, GlyphsShown
<1>6. Hex(byte) \in Seq(Glyph)
  BY <1>3, <1>4, ConcatProperties DEF Hex
<1>7. QED
  BY <1>3, <1>5, <1>6 DEF Hex

\* The bytes of a line, one more and the blanks behind the last
LEMMA HexesStep ==
  ASSUME NEW bytes \in Seq(0 .. 255), NEW first \in Nat, NEW m \in Nat, first + m < Len(bytes)
  PROVE  /\ Hexes(bytes, first, m) \in Seq(Glyph)
         /\ Hexes(bytes, first, m + 1) = Hexes(bytes, first, m) \o Hex(bytes[first + m + 1])
         /\ Hex(bytes[first + m + 1]) \in Seq(Glyph)
<1> DEFINE f(k) == Hex(bytes[first + k])
           s == [k \in 1 .. m |-> f(k)]
           x == f(m + 1)
<1>1. \A k \in 1 .. m + 1 : f(k) \in Seq(Glyph)
  <2>1. ASSUME NEW k \in 1 .. m + 1 PROVE f(k) \in Seq(Glyph)
    <3>1. first + k \in 1 .. Len(bytes)
      BY LenProperties
    <3>2. bytes[first + k] \in 0 .. 255
      BY <3>1, ElementOfSeq
    <3>3. QED
      BY <3>2, ByteShown
  <2>2. QED
    BY <2>1
<1>2. x \in Seq(Glyph)
  BY <1>1
<1>3. Hexes(bytes, first, m) = FlattenSeq(s)
      /\ Hexes(bytes, first, m + 1) = FlattenSeq([k \in 1 .. m + 1 |-> f(k)])
  BY Zenon DEF Hexes
<1>4. x = Hex(bytes[first + m + 1])
  <2>1. first + (m + 1) = first + m + 1
    OBVIOUS
  <2>2. QED
    BY <2>1
<1> HIDE DEF f
<1>5. s \in Seq(Seq(Glyph))
  BY <1>1
<1>6. Append(s, x) = [k \in 1 .. m + 1 |-> f(k)]
  OBVIOUS
<1> HIDE DEF s, x
<1>7. FlattenSeq(s) \in Seq(Glyph) /\ FlattenSeq(Append(s, x)) = FlattenSeq(s) \o x
  BY <1>2, <1>5, FlattenAppend
<1>8. QED
  BY <1>2, <1>3, <1>4, <1>6, <1>7, Zenon

LEMMA HexesFirst ==
  ASSUME NEW bytes, NEW first
  PROVE  Hexes(bytes, first, 0) = <<>>
<1> DEFINE s == [k \in 1 .. 0 |-> Hex(bytes[first + k])]
<1>1. s = <<>>
  OBVIOUS
<1>2. Hexes(bytes, first, 0) = FlattenSeq(s)
  BY Zenon DEF Hexes
<1>3. QED
  BY <1>1, <1>2, FlattenEmpty, Zenon

LEMMA HexesType ==
  ASSUME NEW bytes \in Seq(0 .. 255), NEW first \in Nat, NEW m \in Nat, first + m <= Len(bytes)
  PROVE  Hexes(bytes, first, m) \in Seq(Glyph)
<1>1. CASE m = 0
  BY <1>1, HexesFirst, EmptySeq
<1>2. CASE m # 0
  <2>1. m - 1 \in Nat /\ first + (m - 1) < Len(bytes) /\ (m - 1) + 1 = m
    BY <1>2, LenProperties
  <2>2. /\ Hexes(bytes, first, m) = Hexes(bytes, first, m - 1) \o Hex(bytes[first + (m - 1) + 1])
        /\ Hexes(bytes, first, m - 1) \in Seq(Glyph)
        /\ Hex(bytes[first + (m - 1) + 1]) \in Seq(Glyph)
    <3> DEFINE l == m - 1
    <3>1. l \in Nat /\ first + l < Len(bytes) /\ l + 1 = m
      BY <2>1
    <3> HIDE DEF l
    <3>2. /\ Hexes(bytes, first, l) \in Seq(Glyph)
          /\ Hexes(bytes, first, l + 1) = Hexes(bytes, first, l) \o Hex(bytes[first + l + 1])
          /\ Hex(bytes[first + l + 1]) \in Seq(Glyph)
      BY <3>1, HexesStep
    <3>3. QED
      BY <3>1, <3>2 DEF l
  <2>3. QED
    BY <2>2, ConcatProperties
<1>3. QED
  BY <1>1, <1>2

Blanks(k) == [i \in 1 .. k |-> Blank]

LEMMA BlanksAre ==
  ASSUME NEW k \in Nat
  PROVE  /\ Blanks(k) \in Seq(Glyph) /\ Blanks(0) = <<>>
         /\ Blanks(k + 3) = Blanks(k) \o <<Blank, Blank, Blank>>
<1>1. Blanks(k) \in Seq(Glyph) /\ Blanks(0) = <<>>
  BY MarksAre DEF Blanks
<1>2. Blanks(k + 3) = Blanks(k) \o <<Blank, Blank, Blank>>
  <2> DEFINE t == <<Blank, Blank, Blank>>
  <2>1. Len(Blanks(k)) = k /\ \A i \in 1 .. k : Blanks(k)[i] = Blank
    BY DEF Blanks
  <2>2. /\ Blanks(k + 3) \in Seq(Glyph) /\ Len(Blanks(k + 3)) = k + 3
        /\ \A i \in 1 .. k + 3 : Blanks(k + 3)[i] = Blank
    BY MarksAre DEF Blanks
  <2>3. t \in Seq(Glyph) /\ Len(t) = 3 /\ \A i \in 1 .. 3 : t[i] = Blank
    BY MarksAre
  <2> HIDE DEF t
  <2>4. /\ Blanks(k) \o t \in Seq(Glyph) /\ Len(Blanks(k) \o t) = k + 3
        /\ \A i \in 1 .. k + 3 : (Blanks(k) \o t)[i] = IF i <= k THEN Blanks(k)[i] ELSE t[i - k]
    <3> DEFINE u == Blanks(k)
    <3>1. u \in Seq(Glyph) /\ Len(u) = k
      BY <1>1, <2>1
    <3> HIDE DEF u
    <3>2. /\ u \o t \in Seq(Glyph) /\ Len(u \o t) = Len(u) + Len(t)
          /\ \A i \in 1 .. Len(u) + Len(t) : (u \o t)[i] = IF i <= Len(u) THEN u[i] ELSE t[i - Len(u)]
      BY <2>3, <3>1, ConcatProperties
    <3>3. QED
      BY <2>3, <3>1, <3>2 DEF u
  <2>5. \A i \in 1 .. k + 3 : (Blanks(k) \o t)[i] = Blank
    BY <2>1, <2>3, <2>4
  <2>6. Blanks(k + 3) = Blanks(k) \o t
    BY <2>2, <2>4, <2>5, SeqEqual
  <2>7. QED
    BY <2>6 DEF t
<1>3. QED
  BY <1>1, <1>2

LEMMA PaddedRow ==
  ASSUME NEW bytes \in Seq(0 .. 255), NEW first \in Nat, NEW r \in Nat, first + r <= Len(bytes),
         NEW m \in Nat
  PROVE  FlattenSeq([k \in 1 .. r + m |-> IF k <= r THEN Hex(bytes[first + k])
                                                    ELSE <<Blank, Blank, Blank>>])
           = Hexes(bytes, first, r) \o Blanks(3 * m)
<1> DEFINE b == <<Blank, Blank, Blank>>
           f(k) == IF k <= r THEN Hex(bytes[first + k]) ELSE b
           s(l) == [k \in 1 .. r + l |-> f(k)]
           T == {l \in Nat : FlattenSeq(s(l)) = Hexes(bytes, first, r) \o Blanks(3 * l)}
<1>1. b \in Seq(Glyph) /\ Hexes(bytes, first, r) \in Seq(Glyph)
  BY MarksAre, HexesType
<1>2. ASSUME NEW k \in Nat \ {0} PROVE f(k) \in Seq(Glyph)
  <2>1. CASE k <= r
    <3>1. first + k \in 1 .. Len(bytes)
      BY <2>1, LenProperties
    <3>2. bytes[first + k] \in 0 .. 255
      BY <3>1, ElementOfSeq
    <3>3. QED
      BY <2>1, <3>2, ByteShown
  <2>2. CASE ~(k <= r)
    BY <1>1, <2>2
  <2>3. QED
    BY <2>1, <2>2
<1>3. 0 \in T
  <2>1. s(0) = [k \in 1 .. r |-> Hex(bytes[first + k])]
    OBVIOUS
  <2>2. FlattenSeq(s(0)) = Hexes(bytes, first, r)
    BY <2>1, Zenon DEF Hexes
  <2>3. 3 * 0 = 0 /\ Blanks(0) = <<>>
    BY BlanksAre
  <2>4. Hexes(bytes, first, r) \o <<>> = Hexes(bytes, first, r)
    BY <1>1, ConcatEmptySeq
  <2> HIDE DEF s
  <2>5. QED
    BY <2>2, <2>3, <2>4
<1>4. ASSUME NEW l \in Nat, l \in T PROVE l + 1 \in T
  <2>1. FlattenSeq(s(l)) = Hexes(bytes, first, r) \o Blanks(3 * l)
    BY <1>4
  <2>2. f(r + l + 1) = b
    OBVIOUS
  <2> DEFINE x == f(r + l + 1)
  <2>3. \A k \in 1 .. r + l : f(k) \in Seq(Glyph)
    BY <1>2
  <2> HIDE DEF f
  <2>4. s(l) \in Seq(Seq(Glyph))
    BY <2>3
  <2>5. s(l + 1) = Append(s(l), x)
    <3>1. r + (l + 1) = r + l + 1
      OBVIOUS
    <3>2. [k \in 1 .. r + l + 1 |-> f(k)] = Append([k \in 1 .. r + l |-> f(k)], f(r + l + 1))
      OBVIOUS
    <3>3. QED
      BY <3>1, <3>2
  <2> HIDE DEF s, x, b
  <2>6. FlattenSeq(Append(s(l), b)) = FlattenSeq(s(l)) \o b
    BY <1>1, <2>4, FlattenAppend
  <2>7. 3 * l \in Nat /\ 3 * (l + 1) = 3 * l + 3
    OBVIOUS
  <2>8. Blanks(3 * l) \in Seq(Glyph) /\ Blanks(3 * l + 3) = Blanks(3 * l) \o b
    BY <2>7, BlanksAre DEF b
  <2>9. (Hexes(bytes, first, r) \o Blanks(3 * l)) \o b = Hexes(bytes, first, r) \o (Blanks(3 * l) \o b)
    <3> DEFINE u == Hexes(bytes, first, r)  v == Blanks(3 * l)
    <3>1. u \in Seq(Glyph) /\ v \in Seq(Glyph) /\ b \in Seq(Glyph)
      BY <1>1, <2>8
    <3> HIDE DEF u, v
    <3>2. Associative(u, v, b)
      BY <3>1, AllAssociative, Zenon
    <3>3. QED
      BY <3>2, Zenon DEF Associative, u, v
  <2>10. FlattenSeq(s(l + 1)) = Hexes(bytes, first, r) \o Blanks(3 * (l + 1))
    BY <2>1, <2>2, <2>5, <2>6, <2>7, <2>8, <2>9, Zenon DEF x
  <2>11. QED
    BY <2>10
<1>5. m \in T
  <2> HIDE DEF T
  <2>1. \A l \in Nat : l \in T
    BY <1>3, <1>4, Induction, Zenon
  <2>2. QED
    BY <2>1
<1>6. QED
  BY <1>5, Zenon

-----------------------------------------------------------------------------
(* The lines of a dump. *)

\* A line that ends behind r bytes: what is put before its end, and its end
Begun(bytes, first, r) == Offset(first) \o Hexes(bytes, first, r)
Ended(bytes, first, r) == <<Blank, Blank>> \o Text(bytes, first, r) \o <<"\n">>

LEMMA TextIs ==
  ASSUME NEW bytes \in Seq(0 .. 255), NEW first \in Nat, NEW r \in Nat, first + r <= Len(bytes)
  PROVE  Text(bytes, first, r) \in Seq(Glyph) /\ Ended(bytes, first, r) \in Seq(Glyph)
<1>1. ASSUME NEW k \in 1 .. r PROVE Ascii(bytes[first + k]) \in Glyph
  <2>1. first + k \in 1 .. Len(bytes)
    BY LenProperties
  <2>2. bytes[first + k] \in 0 .. 255
    BY <2>1, ElementOfSeq
  <2>3. QED
    BY <2>2, AsciiIs
<1>2. Text(bytes, first, r) \in Seq(Glyph)
  BY <1>1 DEF Text
<1> DEFINE t == Text(bytes, first, r)
           b == <<Blank, Blank>>
           e == <<"\n">>
<1>3. b \in Seq(Glyph) /\ e \in Seq(Glyph) /\ t \in Seq(Glyph)
  BY <1>2, MarksAre
<1> HIDE DEF t, b, e
<1>4. (b \o t) \o e \in Seq(Glyph)
  <2>1. b \o t \in Seq(Glyph)
    BY <1>3, ConcatProperties
  <2>2. QED
    BY <1>3, <2>1, ConcatProperties
<1>5. QED
  BY <1>2, <1>4, Zenon DEF Ended, t, b, e

LEMMA Rebracket ==
  ASSUME NEW S, NEW o \in Seq(S), NEW h \in Seq(S), NEW s \in Seq(S), NEW b \in Seq(S),
         NEW t \in Seq(S), NEW e \in Seq(S)
  PROVE  /\ (((o \o (h \o s)) \o b) \o t) \o e = ((o \o h) \o s) \o ((b \o t) \o e)
         /\ ((o \o h) \o s) \o ((b \o t) \o e) \in Seq(S)
<1> DEFINE u == (o \o h) \o s
           v == b \o t
<1>1. o \o h \in Seq(S) /\ h \o s \in Seq(S) /\ v \in Seq(S)
  BY ConcatProperties
<1>2. u \in Seq(S)
  BY <1>1, ConcatProperties
<1>3. v \o e \in Seq(S)
  <2> HIDE DEF v
  <2>1. QED
    BY <1>1, ConcatProperties
<1>4. o \o (h \o s) = u
  <2>1. Associative(o, h, s)
    BY AllAssociative, Zenon
  <2>2. QED
    BY <2>1, Zenon DEF Associative, u
<1>5. (u \o b) \o t = u \o v
  <2> HIDE DEF u
  <2>1. Associative(u, b, t)
    BY <1>2, AllAssociative, Zenon
  <2>2. QED
    BY <2>1, Zenon DEF Associative, v
<1>6. (u \o v) \o e = u \o (v \o e)
  <2>1. u \in Seq(S) /\ v \in Seq(S) /\ e \in Seq(S)
    BY <1>1, <1>2
  <2>2. Associative(u, v, e)
    BY <2>1, AllAssociative, Zenon
  <2>3. QED
    BY <2>2, Zenon DEF Associative
<1>7. u \o (v \o e) \in Seq(S)
  <2> DEFINE w == v \o e
  <2>1. w \in Seq(S)
    BY <1>3
  <2> HIDE DEF u, w
  <2>2. u \o w \in Seq(S)
    BY <1>2, <2>1, ConcatProperties
  <2>3. QED
    BY <2>2 DEF w
<1>8. QED
  BY <1>4, <1>5, <1>6, <1>7, Zenon

\* A line in the order it is put
LEMMA LineIs ==
  ASSUME NEW bytes \in Seq(0 .. 255), NEW q \in Nat, NEW r \in 1 .. PerLine,
         q * PerLine \in Short, q * PerLine + r <= Len(bytes),
         r = PerLine \/ Len(bytes) = q * PerLine + r
  PROVE  /\ Line(bytes, q) = (Begun(bytes, q * PerLine, r) \o Blanks(3 * (PerLine - r)))
                             \o Ended(bytes, q * PerLine, r)
         /\ Line(bytes, q) \in Seq(Glyph)
         /\ Begun(bytes, q * PerLine, r) \in Seq(Glyph)
<1> DEFINE first == q * PerLine
           m == PerLine - r
           last == IF first + PerLine < Len(bytes) THEN first + PerLine ELSE Len(bytes)
           here == SubSeq(bytes, first + 1, last)
<1>0. PerLine \in Nat /\ m \in Nat /\ r \in Nat /\ PerLine = r + m /\ Len(bytes) \in Nat
  BY FormatAssumption, LenProperties
<1>1. first \in Short /\ first \in Nat /\ first + r <= Len(bytes)
  BY <1>0 DEF Short
<1>2. r = PerLine \/ Len(bytes) = first + r
  OBVIOUS
<1> HIDE DEF first, m
<1>3. last = first + r
  BY <1>0, <1>1, <1>2
<1>4. Len(here) = r /\ \A k \in 1 .. r : here[k] = bytes[first + k]
  <2>1. here = SubSeq(bytes, first + 1, first + r)
    BY <1>3
  <2>3. /\ Len(SubSeq(bytes, first + 1, first + r)) = (first + r) - (first + 1) + 1
        /\ \A k \in 1 .. (first + r) - (first + 1) + 1 :
              SubSeq(bytes, first + 1, first + r)[k] = bytes[(first + 1) + k - 1]
    <3>1. first + 1 \in Int /\ first + r \in Int /\ first + 1 <= first + r
          /\ \A i \in first + 1 .. first + r : i \in 1 .. Len(bytes)
      BY <1>0, <1>1
    <3>2. \A i \in first + 1 .. first + r : bytes[i] \in 0 .. 255
      BY <3>1, ElementOfSeq
    <3> DEFINE a == first + 1  z == first + r
    <3>3. a \in Int /\ z \in Int /\ a <= z /\ \A i \in a .. z : bytes[i] \in 0 .. 255
      BY <3>1, <3>2
    <3> HIDE DEF a, z
    <3>4. /\ Len(SubSeq(bytes, a, z)) = z - a + 1
          /\ \A k \in 1 .. z - a + 1 : SubSeq(bytes, a, z)[k] = bytes[a + k - 1]
      BY <3>3, SubSeqProperties
    <3>5. QED
      BY <3>4 DEF a, z
  <2>4. (first + r) - (first + 1) + 1 = r /\ \A k \in 1 .. r : (first + 1) + k - 1 = first + k
    BY <1>0, <1>1
  <2>5. QED
    BY <2>1, <2>3, <2>4
<1> HIDE DEF last, here
<1> DEFINE cells == [k \in 1 .. PerLine |-> IF k <= Len(here) THEN Hex(here[k])
                                                             ELSE <<Blank, Blank, Blank>>]
           marks == [k \in 1 .. Len(here) |-> IF Graphic(here[k]) THEN Character[here[k]] ELSE "."]
           nl == <<"\n">>
           b == <<Blank, Blank>>
<1>5. Line(bytes, q) = (((Offset(first) \o FlattenSeq(cells)) \o b) \o marks) \o nl
  BY Zenon DEF Line, Offset, Hex, first, here, last
<1>6. FlattenSeq(cells) = Hexes(bytes, first, r) \o Blanks(3 * m)
  <2>1. cells = [k \in 1 .. r + m |-> IF k <= r THEN Hex(bytes[first + k])
                                                ELSE <<Blank, Blank, Blank>>]
    <3>1. \A k \in 1 .. r + m : (IF k <= Len(here) THEN Hex(here[k]) ELSE <<Blank, Blank, Blank>>)
                              = (IF k <= r THEN Hex(bytes[first + k]) ELSE <<Blank, Blank, Blank>>)
      <4> SUFFICES ASSUME NEW k \in 1 .. r + m
                   PROVE  (IF k <= r THEN Hex(here[k]) ELSE <<Blank, Blank, Blank>>)
                        = (IF k <= r THEN Hex(bytes[first + k]) ELSE <<Blank, Blank, Blank>>)
        BY <1>4
      <4>1. k <= r => k \in 1 .. r
        BY <1>0
      <4>2. k <= r => here[k] = bytes[first + k]
        BY <4>1, <1>4
      <4>3. QED
        BY <4>2, Zenon
    <3>2. QED
      BY <1>0, <3>1
  <2> HIDE DEF cells
  <2>2. FlattenSeq([k \in 1 .. r + m |-> IF k <= r THEN Hex(bytes[first + k])
                                                  ELSE <<Blank, Blank, Blank>>])
          = Hexes(bytes, first, r) \o Blanks(3 * m)
    <3>1. /\ bytes \in Seq(0 .. 255) /\ first \in Nat /\ r \in Nat /\ first + r <= Len(bytes)
          /\ m \in Nat
      BY <1>0, <1>1
    <3>2. QED
      BY <3>1, PaddedRow, Zenon
  <2>3. QED
    BY <2>1, <2>2, Zenon
<1>7. marks = Text(bytes, first, r)
  BY <1>4, Zenon DEF Text, Ascii
<1>8. Offset(first) \in Seq(Glyph)
  BY <1>1, OffsetShown, Zenon
<1>9. Hexes(bytes, first, r) \in Seq(Glyph)
  BY <1>0, <1>1, HexesType
<1>10. Blanks(3 * m) \in Seq(Glyph)
  <2>1. 3 * m \in Nat
    BY <1>0
  <2>2. QED
    BY <2>1, BlanksAre
<1>11. b \in Seq(Glyph) /\ nl \in Seq(Glyph)
  BY MarksAre
<1>12. Text(bytes, first, r) \in Seq(Glyph)
  BY <1>0, <1>1, TextIs
<1> DEFINE o == Offset(first)
           h == Hexes(bytes, first, r)
           s == Blanks(3 * m)
           t == Text(bytes, first, r)
<1>13. o \in Seq(Glyph) /\ h \in Seq(Glyph) /\ s \in Seq(Glyph) /\ b \in Seq(Glyph)
       /\ t \in Seq(Glyph) /\ nl \in Seq(Glyph)
  BY <1>8, <1>9, <1>10, <1>11, <1>12
<1> HIDE DEF o, h, s, t, b, nl
<1>14. o \o h \in Seq(Glyph)
  BY <1>13, ConcatProperties
<1>15. /\ (((o \o (h \o s)) \o b) \o t) \o nl = ((o \o h) \o s) \o ((b \o t) \o nl)
       /\ ((o \o h) \o s) \o ((b \o t) \o nl) \in Seq(Glyph)
  BY <1>13, Rebracket, Zenon
<1>17. Line(bytes, q) = (((o \o (h \o s)) \o b) \o t) \o nl
  BY <1>5, <1>6, <1>7, Zenon DEF o, h, s, t
<1>18. QED
  BY <1>14, <1>15, <1>17, Zenon DEF Begun, Ended, o, h, s, t, b, nl, first, m

-----------------------------------------------------------------------------
(* Where byte i of a dump stands: behind q lines, the r-th of its own. *)

LEMMA Lines ==
  ASSUME NEW q \in Nat, NEW r \in 1 .. PerLine
  PROVE  /\ q * PerLine + r \in Nat /\ q * PerLine \in Nat
         /\ ((q * PerLine + r) - 1) \div PerLine = q
         /\ ((q * PerLine + r) - 1) % PerLine = r - 1
         /\ (q * PerLine + r + PerLine - 1) \div PerLine = q + 1
         /\ (q * PerLine + r) % PerLine = IF r = PerLine THEN 0 ELSE r
         /\ Missing(q * PerLine + r) = PerLine - r
         /\ (q + 1) * PerLine = q * PerLine + PerLine
<1>1. PerLine \in Nat \ {0} /\ r \in Nat /\ r - 1 \in 0 .. PerLine - 1 /\ q + 1 \in Nat
  BY FormatAssumption
<1>2. PerLine * q = q * PerLine /\ q * PerLine \in Nat
      /\ PerLine * (q + 1) = q * PerLine + PerLine /\ (q + 1) * PerLine = q * PerLine + PerLine
  BY <1>1
<1>3. /\ (PerLine * q + (r - 1)) \div PerLine = q
      /\ (PerLine * q + (r - 1)) % PerLine = r - 1
      /\ (PerLine * (q + 1) + (r - 1)) \div PerLine = q + 1
  BY <1>1, Quotient, Remainder
<1>4. (q * PerLine + r) % PerLine = IF r = PerLine THEN 0 ELSE r
  <2>1. CASE r = PerLine
    <3>1. 0 \in 0 .. PerLine - 1
      BY <1>1
    <3>2. (PerLine * (q + 1) + 0) % PerLine = 0
      BY <1>1, <3>1, Remainder
    <3>3. PerLine * (q + 1) + 0 = q * PerLine + r
      BY <1>1, <1>2, <2>1
    <3>4. QED
      BY <2>1, <3>2, <3>3
  <2>2. CASE r # PerLine
    <3>1. r \in 0 .. PerLine - 1
      BY <1>1, <2>2
    <3>2. (PerLine * q + r) % PerLine = r
      BY <1>1, <3>1, Remainder
    <3>3. QED
      BY <1>2, <2>2, <3>2
  <2>3. QED
    BY <2>1, <2>2
<1>5. Missing(q * PerLine + r) = PerLine - r
  <2>1. CASE r = PerLine
    <3>1. PerLine % PerLine = 0
      <4>1. (PerLine * 1 + 0) % PerLine = 0
        BY <1>1, Remainder
      <4>2. PerLine * 1 + 0 = PerLine
        BY <1>1
      <4>3. QED
        BY <4>1, <4>2
    <3>2. PerLine - 0 = PerLine /\ PerLine - r = 0
      BY <1>1, <2>1
    <3>3. QED
      BY <1>4, <2>1, <3>1, <3>2, Zenon DEF Missing
  <2>2. CASE r # PerLine
    <3>1. PerLine - r \in 0 .. PerLine - 1 /\ 0 \in Nat
      BY <1>1, <2>2
    <3>2. (PerLine * 0 + (PerLine - r)) % PerLine = PerLine - r
      BY <1>1, <3>1, Remainder
    <3>3. PerLine * 0 + (PerLine - r) = PerLine - r
      BY <1>1, <3>1
    <3>4. (PerLine - r) % PerLine = PerLine - r
      BY <3>2, <3>3
    <3>5. QED
      BY <1>4, <2>2, <3>4, Zenon DEF Missing
  <2>3. QED
    BY <2>1, <2>2
<1> DEFINE f == q * PerLine
           g == PerLine * (q + 1)
           h == PerLine * q
<1>6. f \in Nat /\ h = f /\ g = f + PerLine
  BY <1>2
<1>7. (h + (r - 1)) \div PerLine = q /\ (h + (r - 1)) % PerLine = r - 1
      /\ (g + (r - 1)) \div PerLine = q + 1
  BY <1>3
<1>8. /\ f + r \in Nat /\ ((f + r) - 1) \div PerLine = q /\ ((f + r) - 1) % PerLine = r - 1
      /\ (f + r + PerLine - 1) \div PerLine = q + 1
  <2> HIDE DEF f, g, h
  <2>1. (f + r) - 1 = h + (r - 1) /\ f + r + PerLine - 1 = g + (r - 1) /\ f + r \in Nat
    BY <1>1, <1>6
  <2>2. QED
    BY <1>7, <2>1
<1>9. QED
  BY <1>2, <1>4, <1>5, <1>8

\* Bytes whose offsets have four digits
Dumped(bytes) == bytes \in Seq(0 .. 255) /\ \A i \in Nat : i < Len(bytes) => i \in Short

LEMMA BlocksAre == ASSUME NEW b \in Blocks PROVE Dumped(b)
<1>1. b \in Seq(0 .. 255)
  BY BlocksAssumption, SMT
<1>2. \A i \in Nat : i < Len(b) => i \in Short
  <2>1. Len(b) \in Nat
    BY <1>1, LenProperties
  <2>2. QED
    BY <2>1, BlocksAssumption, SMT DEF Short
<1>3. QED
  BY <1>1, <1>2, Zenon DEF Dumped

\* The first q lines
LinesOf(bytes, q) == FlattenSeq([l \in 1 .. q |-> Line(bytes, l - 1)])

\* Lines that are full, all of a dump but the last
LEMMA LinesAre ==
  ASSUME NEW bytes, Dumped(bytes), NEW q \in Nat,
         q * PerLine <= Len(bytes)
  PROVE  [l \in 1 .. q |-> Line(bytes, l - 1)] \in Seq(Seq(Glyph))
         /\ LinesOf(bytes, q) \in Seq(Glyph)
<1>0. bytes \in Seq(0 .. 255)
  BY DEF Dumped
<1>1. ASSUME NEW l \in 1 .. q PROVE Line(bytes, l - 1) \in Seq(Glyph)
  <2> DEFINE k == l - 1
             f == k * PerLine
  <2>1. PerLine \in Nat \ {0} /\ k \in Nat /\ Len(bytes) \in Nat /\ l = k + 1 /\ q \in Nat /\ l <= q
    BY <1>0, FormatAssumption, LenProperties
  <2>2. f \in Nat /\ f + PerLine = l * PerLine
    BY <2>1
  <2>3. l * PerLine <= q * PerLine
    <3>1. q - l \in Nat /\ q = l + (q - l)
      BY <2>1
    <3>2. (q - l) * PerLine \in Nat /\ (l + (q - l)) * PerLine = l * PerLine + (q - l) * PerLine
      BY <2>1, <3>1
    <3>3. QED
      BY <2>1, <2>2, <3>1, <3>2
  <2>4. PerLine \in 1 .. PerLine
    BY <2>1
  <2> HIDE DEF k
  <2>5. f \in Short /\ f + PerLine <= Len(bytes)
    <3> HIDE DEF f
    <3> DEFINE g == l * PerLine  h == q * PerLine
    <3>1. g \in Nat /\ h \in Nat /\ f + PerLine = g /\ g <= h /\ h <= Len(bytes)
      BY <2>1, <2>2, <2>3
    <3> HIDE DEF g, h
    <3>2. f + PerLine <= Len(bytes) /\ f < Len(bytes)
      BY <2>1, <2>2, <3>1
    <3>3. QED
      BY <2>1, <2>2, <3>2 DEF Dumped
  <2>6. Line(bytes, k) \in Seq(Glyph)
    BY <1>0, <2>1, <2>4, <2>5, LineIs, Zenon
  <2>7. QED
    BY <2>6 DEF k
<1> DEFINE s == [l \in 1 .. q |-> Line(bytes, l - 1)]
<1>2. s \in Seq(Seq(Glyph))
  BY <1>1
<1>3. <<>> \in Seq(Glyph)
  BY EmptySeq
<1> HIDE DEF s
<1>4. FlattenSeq(s) \in Seq(Glyph)
  BY <1>2, <1>3, FlattenAppend
<1>5. QED
  BY <1>2, <1>4, Zenon DEF LinesOf, s

LEMMA LinesStep ==
  ASSUME NEW bytes, Dumped(bytes), NEW q \in Nat,
         q * PerLine <= Len(bytes), Line(bytes, q) \in Seq(Glyph)
  PROVE  LinesOf(bytes, q + 1) = LinesOf(bytes, q) \o Line(bytes, q)
<1> DEFINE f(l) == Line(bytes, l - 1)
           s == [l \in 1 .. q |-> f(l)]
<1>1. s \in Seq(Seq(Glyph))
  BY LinesAre, Zenon
<1>2. f(q + 1) = Line(bytes, q)
  OBVIOUS
<1>3. LinesOf(bytes, q) = FlattenSeq(s) /\ LinesOf(bytes, q + 1) = FlattenSeq([l \in 1 .. q + 1 |-> f(l)])
  BY Zenon DEF LinesOf
<1> DEFINE x == f(q + 1)
<1> HIDE DEF f
<1>4. Append(s, x) = [l \in 1 .. q + 1 |-> f(l)]
  OBVIOUS
<1>5. x \in Seq(Glyph)
  BY <1>2
<1> HIDE DEF s, x
<1>6. FlattenSeq(Append(s, x)) = FlattenSeq(s) \o x
  BY <1>1, <1>5, FlattenAppend
<1>7. QED
  BY <1>2, <1>3, <1>4, <1>6, Zenon DEF x

LEMMA NoLines == ASSUME NEW bytes PROVE LinesOf(bytes, 0) = <<>>
<1> DEFINE s == [l \in 1 .. 0 |-> Line(bytes, l - 1)]
<1>1. s = <<>>
  OBVIOUS
<1>2. LinesOf(bytes, 0) = FlattenSeq(s)
  BY Zenon DEF LinesOf
<1>3. QED
  BY <1>1, <1>2, FlattenEmpty, Zenon

-----------------------------------------------------------------------------
(* What a step puts. *)

LEMMA EndLineIs ==
  ASSUME NEW bytes, NEW q \in Nat, NEW r \in 1 .. PerLine, job.bytes = bytes
  PROVE  EndLine(q * PerLine + r) = Ended(bytes, q * PerLine, r)
<1> DEFINE i == q * PerLine + r
           X == (i - 1) \div PerLine
           Y == ((i - 1) % PerLine) + 1
<1>1. X = q /\ Y = r
  <2>1. (i - 1) \div PerLine = q /\ (i - 1) % PerLine = r - 1
    BY Lines, Zenon
  <2>2. (r - 1) + 1 = r
    BY FormatAssumption
  <2>3. QED
    BY <2>1, <2>2
<1>2. LineText(i) = [k \in 1 .. Y |-> Ascii(bytes[X * PerLine + k])]
  BY Zenon DEF LineText
<1> HIDE DEF X, Y, i
<1>3. LineText(i) = Text(bytes, q * PerLine, r)
  BY <1>1, <1>2, Zenon DEF Text
<1>4. EndLine(i) = Ended(bytes, q * PerLine, r)
  BY <1>3, Zenon DEF EndLine, Ended
<1>5. QED
  BY <1>4 DEF i

\* A byte put behind others
LEMMA ByteAdded ==
  ASSUME NEW o \in Seq(Alphabet), NEW byte \in 0 .. 255
  PROVE  LET p == (o \o <<Blank>>) \o InBuf(2, itopow2(byte, 4))
         IN  p \in Seq(Alphabet) /\ Shown(p) = Shown(o) \o Hex(byte)
<1> DEFINE b == <<Blank>>
           c == InBuf(2, itopow2(byte, 4))
           s == Shown(o)
           t == Shown(c)
<1>1. b \in Seq(Alphabet) /\ Shown(b) = b /\ c \in Seq(Alphabet) /\ b \o t = Hex(byte)
  BY ByteShown
<1> HIDE DEF b, c
<1>2. o \o b \in Seq(Alphabet) /\ Shown(o \o b) = s \o b /\ s \in Seq(Alphabet)
  BY <1>1, Puts, Zenon
<1>3. (o \o b) \o c \in Seq(Alphabet) /\ Shown((o \o b) \o c) = (s \o b) \o t /\ t \in Seq(Alphabet)
  <2> DEFINE u == o \o b
  <2>1. u \in Seq(Alphabet) /\ c \in Seq(Alphabet) /\ Shown(u) = s \o b
    BY <1>1, <1>2
  <2> HIDE DEF u
  <2>2. u \o c \in Seq(Alphabet) /\ Shown(u \o c) = Shown(u) \o t /\ t \in Seq(Alphabet)
    BY <2>1, Puts, Zenon
  <2>3. QED
    BY <2>1, <2>2, Zenon DEF u
<1>4. (s \o b) \o t = s \o (b \o t)
  <2> HIDE DEF s, t
  <2>1. s \in Seq(Alphabet) /\ b \in Seq(Alphabet) /\ t \in Seq(Alphabet)
    BY <1>1, <1>2, <1>3
  <2> HIDE DEF b
  <2>2. Associative(s, b, t)
    BY <2>1, AllAssociative, Zenon
  <2>3. QED
    BY <2>2, Zenon DEF Associative
<1>5. QED
  BY <1>1, <1>3, <1>4, Zenon DEF b, c

\* The heading of the line at i, behind the end e of the one before it
Headed(e, i) == ((e \o <<Blank, Blank>>) \o InBuf(4, itopow2(i, 4))) \o <<Blank>>

LEMMA HeadingShown ==
  ASSUME NEW i \in Short, NEW e \in Seq(Glyph)
  PROVE  Headed(e, i) \in Seq(Alphabet) /\ Shown(Headed(e, i)) = e \o Offset(i)
<1> DEFINE b == <<Blank, Blank>>
           c == InBuf(4, itopow2(i, 4))
           d == <<Blank>>
           put == (b \o c) \o d
<1>1. put \in Seq(Alphabet) /\ Shown(put) = Offset(i)
  BY OffsetShown
<1>2. c \in Seq(Alphabet)
  <2>1. Len(Numeral(i, 16)) \in 1 .. 4
    BY HexDigits
  <2>2. Len(Numeral(i, 16)) <= 4 /\ 4 \in Nat
    <3>1. 4 \in Nat /\ \A l \in 1 .. 4 : l <= 4
      OBVIOUS
    <3>2. QED
      BY <2>1, <3>1, Zenon
  <2>3. QED
    BY <2>2, BufferShown
<1>3. b \in Seq(Alphabet) /\ d \in Seq(Alphabet)
  <2>1. b \in Seq(Glyph) /\ d \in Seq(Glyph)
    BY MarksAre
  <2>2. QED
    BY <2>1, GlyphsShown
<1>4. e \in Seq(Alphabet) /\ Shown(e) = e
  BY GlyphsShown
<1> HIDE DEF b, c, d
<1>5. ((e \o b) \o c) \o d = e \o put
  <2>1. b \o c \in Seq(Alphabet)
    BY <1>2, <1>3, ConcatProperties
  <2>2. Associative(e, b, c)
    BY <1>2, <1>3, <1>4, AllAssociative, Zenon
  <2> DEFINE u == b \o c
  <2>3. e \in Seq(Alphabet) /\ u \in Seq(Alphabet) /\ d \in Seq(Alphabet)
    BY <1>3, <1>4, <2>1
  <2> HIDE DEF u
  <2>4. Associative(e, u, d)
    BY <2>3, AllAssociative, Zenon
  <2>5. (e \o b) \o c = e \o u /\ (e \o u) \o d = e \o (u \o d)
    BY <2>2, <2>4, Zenon DEF Associative, u
  <2>6. QED
    BY <2>5 DEF u
<1>6. e \o put \in Seq(Alphabet) /\ Shown(e \o put) = e \o Offset(i)
  <2> HIDE DEF put
  <2>1. QED
    BY <1>1, <1>4, Puts
<1>7. QED
  BY <1>5, <1>6, Zenon DEF Headed, b, c, d

\* One column of a new line
LEMMA BegunFirst ==
  ASSUME NEW bytes \in Seq(0 .. 255), NEW first \in Short, first < Len(bytes)
  PROVE  /\ Begun(bytes, first, 1) = Offset(first) \o Hex(bytes[first + 1])
         /\ Offset(first) \in Seq(Glyph) /\ Hex(bytes[first + 1]) \in Seq(Glyph)
         /\ bytes[first + 1] \in 0 .. 255
<1>1. first \in Nat /\ 0 \in Nat /\ first + 0 < Len(bytes) /\ first + 0 + 1 = first + 1 /\ 0 + 1 = 1
      /\ first + 1 \in 1 .. Len(bytes)
  BY LenProperties DEF Short
<1>2. /\ Hexes(bytes, first, 0 + 1) = Hexes(bytes, first, 0) \o Hex(bytes[first + 0 + 1])
      /\ Hex(bytes[first + 0 + 1]) \in Seq(Glyph)
  BY <1>1, HexesStep, Zenon
<1>3. Hexes(bytes, first, 1) = <<>> \o Hex(bytes[first + 1]) /\ Hex(bytes[first + 1]) \in Seq(Glyph)
  BY <1>1, <1>2, HexesFirst
<1>4. <<>> \o Hex(bytes[first + 1]) = Hex(bytes[first + 1])
  BY <1>3, ConcatEmptySeq
<1>5. Offset(first) \in Seq(Glyph)
  BY OffsetShown, Zenon
<1>6. bytes[first + 1] \in 0 .. 255
  BY <1>1, ElementOfSeq
<1>7. QED
  BY <1>3, <1>4, <1>5, <1>6, Zenon DEF Begun

LEMMA BegunNext ==
  ASSUME NEW bytes \in Seq(0 .. 255), NEW first \in Short, NEW m \in Nat, first + m < Len(bytes)
  PROVE  /\ Begun(bytes, first, m + 1) = Begun(bytes, first, m) \o Hex(bytes[first + m + 1])
         /\ Begun(bytes, first, m) \in Seq(Glyph)
         /\ Hex(bytes[first + m + 1]) \in Seq(Glyph)
         /\ bytes[first + m + 1] \in 0 .. 255
<1> DEFINE o == Offset(first)
           h == Hexes(bytes, first, m)
           x == Hex(bytes[first + m + 1])
<1>0. first \in Nat
  BY DEF Short
<1>1. Hexes(bytes, first, m + 1) = h \o x /\ h \in Seq(Glyph) /\ x \in Seq(Glyph)
  BY <1>0, HexesStep
<1>2. o \in Seq(Glyph)
  BY OffsetShown, Zenon
<1>3. bytes[first + m + 1] \in 0 .. 255
  <2>1. first + m + 1 \in 1 .. Len(bytes)
    BY <1>0, LenProperties
  <2>2. QED
    BY <2>1, ElementOfSeq
<1>4. o \o h \in Seq(Glyph) /\ (o \o h) \o x = o \o (h \o x)
  <2>1. o \in Seq(Glyph) /\ h \in Seq(Glyph) /\ x \in Seq(Glyph)
    BY <1>1, <1>2
  <2> HIDE DEF o, h, x
  <2>2. o \o h \in Seq(Glyph)
    BY <2>1, ConcatProperties
  <2>3. Associative(o, h, x)
    BY <2>1, AllAssociative, Zenon
  <2>4. QED
    BY <2>2, <2>3, Zenon DEF Associative
<1>5. QED
  BY <1>1, <1>3, <1>4, Zenon DEF Begun

-----------------------------------------------------------------------------
(* The invariant of a dump: what is shown after i bytes are the lines before *)
(* the last one and the last one as far as it is put.                        *)

Progress(bytes, i, chars) ==
  \E q \in Nat, r \in 1 .. PerLine :
     i = q * PerLine + r /\ Shown(chars) = LinesOf(bytes, q) \o Begun(bytes, q * PerLine, r)

\* Operators of their own, for the provers to match
Rebracketed(a, b, c, d) == /\ (a \o (b \o c)) \o d = (a \o b) \o (c \o d)
                           /\ ((a \o b) \o c) \o d = a \o ((b \o c) \o d)

LEMMA PutsAssociative == \A a, b, c \in Seq(Alphabet) : Associative(a, b, c)
BY AllAssociative, Zenon

LEMMA PutsRebracketed == \A a, b, c, d \in Seq(Alphabet) : Rebracketed(a, b, c, d)
<1> SUFFICES ASSUME NEW a \in Seq(Alphabet), NEW b \in Seq(Alphabet), NEW c \in Seq(Alphabet),
                    NEW d \in Seq(Alphabet)
             PROVE  Rebracketed(a, b, c, d)
  OBVIOUS
<1> DEFINE u == b \o c
           v == a \o b
<1>1. u \in Seq(Alphabet) /\ v \in Seq(Alphabet)
  BY ConcatProperties
<1> HIDE DEF u, v
<1>2. Associative(a, b, c) /\ Associative(v, c, d) /\ Associative(a, u, d)
  BY <1>1, PutsAssociative, Zenon
<1>3. v \o c = a \o u /\ (v \o c) \o d = v \o (c \o d) /\ (a \o u) \o d = a \o (u \o d)
  BY <1>2, Zenon DEF Associative, u, v
<1>4. (a \o u) \o d = v \o (c \o d) /\ (v \o c) \o d = a \o (u \o d)
  BY <1>3, Zenon
<1>5. QED
  BY <1>4, Zenon DEF Rebracketed, u, v

\* A line is begun behind the end e of the one before it.
LEMMA LineBegun ==
  ASSUME NEW bytes, Dumped(bytes), NEW q \in Nat, q * PerLine < Len(bytes),
         NEW o \in Seq(Alphabet), NEW e \in Seq(Glyph), Shown(o) \o e = LinesOf(bytes, q)
  PROVE  LET p == ((o \o Headed(e, q * PerLine)) \o <<Blank>>)
                  \o InBuf(2, itopow2(bytes[q * PerLine + 1], 4))
         IN  p \in Seq(Alphabet) /\ Progress(bytes, q * PerLine + 1, p)
<1> DEFINE first == q * PerLine
           h == Headed(e, first)
           p == ((o \o h) \o <<Blank>>) \o InBuf(2, itopow2(bytes[first + 1], 4))
           x == Hex(bytes[first + 1])
           g == Offset(first)
           s == Shown(o)
           ls == LinesOf(bytes, q)
<1>1. bytes \in Seq(0 .. 255) /\ first \in Nat /\ first < Len(bytes) /\ 1 \in 1 .. PerLine
  BY FormatAssumption DEF Dumped
<1>2. first \in Short
  BY <1>1, Zenon DEF Dumped
<1> HIDE DEF first
<1>3. Begun(bytes, first, 1) = g \o x /\ g \in Seq(Glyph) /\ x \in Seq(Glyph) /\ bytes[first + 1] \in 0 .. 255
  BY <1>1, <1>2, BegunFirst
<1>4. h \in Seq(Alphabet) /\ Shown(h) = e \o g
  BY <1>2, HeadingShown
<1>5. o \o h \in Seq(Alphabet) /\ Shown(o \o h) = s \o (e \o g) /\ s \in Seq(Alphabet)
  <2> HIDE DEF h, g
  <2>1. o \o h \in Seq(Alphabet) /\ Shown(o \o h) = s \o Shown(h) /\ s \in Seq(Alphabet)
    BY <1>4, Puts, Zenon
  <2>2. QED
    BY <1>4, <2>1, Zenon
<1>6. p \in Seq(Alphabet) /\ Shown(p) = Shown(o \o h) \o x
  <2> DEFINE u == o \o h
             y == bytes[first + 1]
  <2>1. u \in Seq(Alphabet) /\ y \in 0 .. 255
    BY <1>3, <1>5
  <2> HIDE DEF u, y
  <2>2. /\ (u \o <<Blank>>) \o InBuf(2, itopow2(y, 4)) \in Seq(Alphabet)
        /\ Shown((u \o <<Blank>>) \o InBuf(2, itopow2(y, 4))) = Shown(u) \o Hex(y)
    BY <2>1, ByteAdded, Zenon
  <2>3. QED
    BY <2>2, Zenon DEF u, y
<1>7. (s \o (e \o g)) \o x = ls \o (g \o x)
  <2>1. e \in Seq(Alphabet) /\ g \in Seq(Alphabet) /\ x \in Seq(Alphabet) /\ s \in Seq(Alphabet)
    BY <1>3, <1>5, GlyphsShown
  <2>2. s \o e = ls
    OBVIOUS
  <2> HIDE DEF g, x, s, ls
  <2>3. (s \o (e \o g)) \o x = (s \o e) \o (g \o x)
    <3>1. Rebracketed(s, e, g, x)
      BY <2>1, PutsRebracketed, Zenon
    <3>2. QED
      BY <3>1, Zenon DEF Rebracketed
  <2>4. QED
    BY <2>2, <2>3, Zenon
<1>8. Shown(p) = ls \o Begun(bytes, first, 1)
  BY <1>3, <1>5, <1>6, <1>7, Zenon
<1>9. Progress(bytes, first + 1, p)
  <2> HIDE DEF p, ls
  <2>1. Shown(p) = LinesOf(bytes, q) \o Begun(bytes, q * PerLine, 1)
    BY <1>8 DEF first, ls
  <2>2. \E k \in Nat, r \in 1 .. PerLine :
          q * PerLine + 1 = k * PerLine + r
          /\ Shown(p) = LinesOf(bytes, k) \o Begun(bytes, k * PerLine, r)
    BY <1>1, <2>1, Zenon
  <2>3. QED
    BY <2>2, Zenon DEF Progress, first
<1>10. QED
  BY <1>6, <1>9, Zenon DEF first

LEMMA LineGoesOn ==
  ASSUME NEW bytes, Dumped(bytes), NEW q \in Nat, NEW r \in 1 .. PerLine, r # PerLine,
         q * PerLine + r < Len(bytes), NEW o \in Seq(Alphabet),
         Shown(o) = LinesOf(bytes, q) \o Begun(bytes, q * PerLine, r)
  PROVE  LET p == (o \o <<Blank>>) \o InBuf(2, itopow2(bytes[q * PerLine + r + 1], 4))
         IN  p \in Seq(Alphabet) /\ Progress(bytes, q * PerLine + r + 1, p)
<1> DEFINE first == q * PerLine
           y == bytes[first + r + 1]
           p == (o \o <<Blank>>) \o InBuf(2, itopow2(y, 4))
           x == Hex(y)
           g == Begun(bytes, first, r)
           ls == LinesOf(bytes, q)
<1>1. /\ bytes \in Seq(0 .. 255) /\ first \in Nat /\ first + r < Len(bytes) /\ r \in Nat
      /\ r + 1 \in 1 .. PerLine /\ first < Len(bytes) /\ first <= Len(bytes)
  <2>1. bytes \in Seq(0 .. 255) /\ first \in Nat /\ first + r < Len(bytes) /\ r \in Nat /\ PerLine \in Nat
    BY FormatAssumption DEF Dumped
  <2> HIDE DEF first
  <2>2. Len(bytes) \in Nat
    BY <2>1, LenProperties
  <2>3. QED
    BY <2>1, <2>2
<1>2. first \in Short
  BY <1>1, Zenon DEF Dumped
<1>3. ls \in Seq(Glyph)
  BY <1>1, LinesAre, Zenon
<1>4. Shown(o) = ls \o g
  OBVIOUS
<1> HIDE DEF first
<1>5. Begun(bytes, first, r + 1) = g \o x /\ g \in Seq(Glyph) /\ x \in Seq(Glyph) /\ y \in 0 .. 255
  BY <1>1, <1>2, BegunNext
<1>6. p \in Seq(Alphabet) /\ Shown(p) = Shown(o) \o x
  <2> HIDE DEF y
  <2>1. QED
    BY <1>5, ByteAdded, Zenon
<1>7. (ls \o g) \o x = ls \o (g \o x)
  <2>1. ls \in Seq(Glyph) /\ g \in Seq(Glyph) /\ x \in Seq(Glyph)
    BY <1>3, <1>5
  <2> HIDE DEF ls, g, x
  <2>2. Associative(ls, g, x)
    BY <2>1, AllAssociative, Zenon
  <2>3. QED
    BY <2>2, Zenon DEF Associative
<1>8. Shown(p) = ls \o Begun(bytes, first, r + 1)
  BY <1>4, <1>5, <1>6, <1>7, Zenon
<1>9. Progress(bytes, first + (r + 1), p)
  <2> HIDE DEF p, ls
  <2>1. Shown(p) = LinesOf(bytes, q) \o Begun(bytes, q * PerLine, r + 1)
    BY <1>8 DEF first, ls
  <2>2. \E k \in Nat, m \in 1 .. PerLine :
          q * PerLine + (r + 1) = k * PerLine + m
          /\ Shown(p) = LinesOf(bytes, k) \o Begun(bytes, k * PerLine, m)
    BY <1>1, <2>1, Zenon
  <2>3. QED
    BY <2>2, Zenon DEF Progress, first
<1>10. first + (r + 1) = first + r + 1
  BY <1>1
<1>11. QED
  BY <1>6, <1>9, <1>10, Zenon DEF first, y

\* The end of a line that is full, or the last one
LEMMA LineEnds ==
  ASSUME NEW bytes, Dumped(bytes), NEW q \in Nat, NEW r \in 1 .. PerLine,
         q * PerLine + r <= Len(bytes), r = PerLine \/ Len(bytes) = q * PerLine + r,
         NEW o \in Seq(Alphabet), Shown(o) = LinesOf(bytes, q) \o Begun(bytes, q * PerLine, r)
  PROVE  /\ (Shown(o) \o Blanks(3 * (PerLine - r))) \o Ended(bytes, q * PerLine, r)
              = LinesOf(bytes, q + 1)
         /\ Ended(bytes, q * PerLine, r) \in Seq(Glyph)
         /\ Blanks(3 * (PerLine - r)) \in Seq(Glyph)
<1> DEFINE first == q * PerLine
           b == Blanks(3 * (PerLine - r))
           e == Ended(bytes, first, r)
           g == Begun(bytes, first, r)
           ls == LinesOf(bytes, q)
<1>1. /\ bytes \in Seq(0 .. 255) /\ first \in Nat /\ first + r <= Len(bytes) /\ r \in Nat
      /\ 3 * (PerLine - r) \in Nat /\ first < Len(bytes) /\ first <= Len(bytes)
  <2>1. bytes \in Seq(0 .. 255) /\ first \in Nat /\ first + r <= Len(bytes) /\ r \in Nat /\ PerLine \in Nat
        /\ r > 0 /\ r <= PerLine
    BY FormatAssumption DEF Dumped
  <2> HIDE DEF first
  <2>2. Len(bytes) \in Nat
    BY <2>1, LenProperties
  <2>3. QED
    BY <2>1, <2>2
<1>2. first \in Short
  BY <1>1, Zenon DEF Dumped
<1>3. ls \in Seq(Glyph)
  BY <1>1, LinesAre, Zenon
<1>4. Line(bytes, q) = (g \o b) \o e /\ Line(bytes, q) \in Seq(Glyph) /\ g \in Seq(Glyph)
  BY <1>1, <1>2, LineIs, Zenon
<1>5. LinesOf(bytes, q + 1) = ls \o Line(bytes, q)
  BY <1>1, <1>4, LinesStep, Zenon
<1>6. Shown(o) = ls \o g
  OBVIOUS
<1>7. b \in Seq(Glyph)
  <2> DEFINE k == 3 * (PerLine - r)
  <2>1. k \in Nat
    BY <1>1
  <2> HIDE DEF k
  <2>2. Blanks(k) \in Seq(Glyph)
    BY <2>1, BlanksAre
  <2>3. QED
    BY <2>2 DEF k
<1> HIDE DEF first
<1>8. e \in Seq(Glyph)
  BY <1>1, TextIs, Zenon
<1>9. ((ls \o g) \o b) \o e = ls \o ((g \o b) \o e)
  <2>1. ls \in Seq(Alphabet) /\ g \in Seq(Alphabet) /\ b \in Seq(Alphabet) /\ e \in Seq(Alphabet)
    BY <1>3, <1>4, <1>7, <1>8, GlyphsShown
  <2> HIDE DEF ls, g, b, e
  <2>2. Rebracketed(ls, g, b, e)
    BY <2>1, PutsRebracketed, Zenon
  <2>3. QED
    BY <2>2, Zenon DEF Rebracketed
<1>10. QED
  BY <1>4, <1>5, <1>6, <1>7, <1>8, <1>9, Zenon DEF first

DumpInv == job.fn = "hexdump" =>
             /\ job.bytes \in Blocks /\ job.bytes # <<>>
             /\ pos \in 0 .. Len(job.bytes) /\ out \in Seq(Alphabet)
             /\ pos = 0 => out = <<>>
             /\ pos # 0 => Progress(job.bytes, pos, out)

LEMMA DumpByteStep == ASSUME DumpInv, DumpByte PROVE DumpInv' /\ job'.fn = "hexdump"
<1> DEFINE bytes == job.bytes
           b == <<Blank>>
           c == InBuf(2, itopow2(bytes[pos + 1], 4))
<1>1. /\ job.fn = "hexdump" /\ bytes \in Blocks /\ bytes # <<>> /\ pos \in 0 .. Len(bytes)
      /\ out \in Seq(Alphabet) /\ (pos = 0 => out = <<>>) /\ (pos # 0 => Progress(bytes, pos, out))
      /\ pos < Len(bytes)
  BY DEF DumpInv, DumpByte
<1>2. /\ out' = ((out \o (IF pos % PerLine = 0 THEN Heading(pos) ELSE <<>>)) \o b) \o c
      /\ pos' = pos + 1 /\ job' = job
  BY Zenon DEF DumpByte
<1>3. Dumped(bytes) /\ bytes \in Seq(0 .. 255)
  BY <1>1, BlocksAre DEF Dumped
<1> HIDE DEF bytes, b, c
<1>4. pos \in Nat /\ pos + 1 \in 0 .. Len(bytes) /\ pos + 1 # 0 /\ Len(bytes) \in Nat
  BY <1>1, <1>3, LenProperties
<1>5. out' \in Seq(Alphabet) /\ Progress(bytes, pos + 1, out')
  <2>1. CASE pos = 0
    <3>1. 0 * PerLine = 0 /\ 0 % PerLine = 0 /\ 0 + 1 = 1 /\ 0 \in Nat
      <4>1. PerLine \in Nat \ {0} /\ 0 \in 0 .. PerLine - 1 /\ 0 \in Nat
        BY FormatAssumption
      <4>2. (PerLine * 0 + 0) % PerLine = 0
        BY <4>1, Remainder
      <4>3. PerLine * 0 + 0 = 0 /\ 0 * PerLine = 0
        BY <4>1
      <4>4. QED
        BY <4>1, <4>2, <4>3
    <3>2. Heading(0) = Headed(<<>>, 0)
      BY Zenon DEF Heading, Headed
    <3>3. out' = ((<<>> \o Headed(<<>>, 0)) \o b) \o c
      BY <1>1, <1>2, <2>1, <3>1, <3>2, Zenon
    <3>4. <<>> \in Seq(Alphabet) /\ <<>> \in Seq(Glyph) /\ Shown(<<>>) \o <<>> = LinesOf(bytes, 0)
      BY EmptySeq, ConcatEmptySeq, ShownNothing, NoLines
    <3>5. 0 * PerLine < Len(bytes)
      BY <1>1, <2>1, <3>1
    <3>6. LET p == ((<<>> \o Headed(<<>>, 0 * PerLine)) \o <<Blank>>)
                   \o InBuf(2, itopow2(bytes[0 * PerLine + 1], 4))
          IN  p \in Seq(Alphabet) /\ Progress(bytes, 0 * PerLine + 1, p)
      BY <1>3, <3>1, <3>4, <3>5, LineBegun, Zenon
    <3>7. QED
      BY <2>1, <3>1, <3>3, <3>6, Zenon DEF b, c
  <2>2. CASE pos # 0
    <3>1. PICK q \in Nat, r \in 1 .. PerLine :
             /\ pos = q * PerLine + r
             /\ Shown(out) = LinesOf(bytes, q) \o Begun(bytes, q * PerLine, r)
      BY <1>1, <2>2, Zenon DEF Progress
    <3>2. /\ pos % PerLine = IF r = PerLine THEN 0 ELSE r
          /\ (q + 1) * PerLine = q * PerLine + PerLine /\ q * PerLine \in Nat
      BY <3>1, Lines, Zenon
    <3>3. q + 1 \in Nat /\ r # 0 /\ PerLine \in Nat /\ r \in Nat
      BY FormatAssumption
    <3>4. CASE r = PerLine
      <4>1. (q + 1) * PerLine = pos
        BY <3>1, <3>2, <3>4
      <4> DEFINE e == Ended(bytes, q * PerLine, r)
                 k == q + 1
      <4>2. EndLine(pos) = e
        BY <3>1, EndLineIs, Zenon DEF bytes
      <4>3. Heading(pos) = Headed(e, pos)
        <5> HIDE DEF e
        <5>1. QED
          BY <2>2, <4>2, Zenon DEF Heading, Headed
      <4>4. out' = ((out \o Headed(e, pos)) \o b) \o c
        BY <1>2, <3>2, <3>4, <4>3, Zenon
      <4>5. /\ (Shown(out) \o Blanks(3 * (PerLine - r))) \o e = LinesOf(bytes, k)
            /\ e \in Seq(Glyph)
        <5>1. q * PerLine + r <= Len(bytes)
          BY <1>4, <1>1, <3>1
        <5>2. QED
          BY <1>1, <1>3, <3>1, <3>4, <5>1, LineEnds, Zenon
      <4>6. Blanks(3 * (PerLine - r)) = <<>>
        <5>1. 3 * (PerLine - r) = 0 /\ 0 \in Nat
          BY <3>3, <3>4
        <5>2. Blanks(0) = <<>>
          BY <5>1, BlanksAre
        <5>3. QED
          BY <5>1, <5>2, Zenon
      <4>7. Shown(out) \o <<>> = Shown(out)
        <5>1. Shown(out) \in Seq(Alphabet)
          BY <1>1, ShownConcat
        <5>2. QED
          BY <5>1, ConcatEmptySeq
      <4>8. Shown(out) \o e = LinesOf(bytes, k)
        BY <4>5, <4>6, <4>7, Zenon
      <4> HIDE DEF e, k
      <4>9. k \in Nat /\ k * PerLine = pos
        BY <3>3, <4>1 DEF k
      <4>10. LET p == ((out \o Headed(e, k * PerLine)) \o <<Blank>>)
                      \o InBuf(2, itopow2(bytes[k * PerLine + 1], 4))
             IN  p \in Seq(Alphabet) /\ Progress(bytes, k * PerLine + 1, p)
        <5>1. k * PerLine < Len(bytes) /\ e \in Seq(Glyph)
          BY <1>1, <4>5, <4>9
        <5>2. QED
          BY <1>1, <1>3, <4>8, <4>9, <5>1, LineBegun, Zenon
      <4>11. QED
        BY <4>4, <4>9, <4>10, Zenon DEF b, c
    <3>5. CASE r # PerLine
      <4>1. out' = ((out \o <<>>) \o b) \o c
        BY <1>2, <3>2, <3>3, <3>5, Zenon
      <4>2. out \o <<>> = out
        BY <1>1, ConcatEmptySeq
      <4>3. q * PerLine + r < Len(bytes)
        BY <1>1, <3>1
      <4>4. LET p == (out \o <<Blank>>) \o InBuf(2, itopow2(bytes[q * PerLine + r + 1], 4))
            IN  p \in Seq(Alphabet) /\ Progress(bytes, q * PerLine + r + 1, p)
        BY <1>1, <1>3, <3>1, <3>5, <4>3, LineGoesOn, Zenon
      <4>5. QED
        BY <3>1, <4>1, <4>2, <4>4, Zenon DEF b, c
    <3>6. QED
      BY <3>4, <3>5
  <2>3. QED
    BY <2>1, <2>2
<1>6. job'.fn = "hexdump" /\ job'.bytes = bytes
  BY <1>1, <1>2 DEF bytes
<1>7. QED
  BY <1>1, <1>2, <1>4, <1>5, <1>6, Zenon DEF DumpInv

\* Behind the last byte everything is shown.
LEMMA DumpEndStep == ASSUME DumpInv, DumpEnd PROVE DumpShowsAll' /\ job'.fn = "done"
<1> DEFINE bytes == job.bytes
<1>1. /\ job.fn = "hexdump" /\ bytes \in Blocks /\ bytes # <<>> /\ pos = Len(bytes)
      /\ out \in Seq(Alphabet) /\ (pos # 0 => Progress(bytes, pos, out))
  BY Zenon DEF DumpInv, DumpEnd
<1>2. /\ out' = (out \o Blanks(3 * Missing(pos))) \o EndLine(pos)
      /\ job' = [fn |-> "done", of |-> job]
  BY Zenon DEF DumpEnd, Done, Blanks
<1>3. Dumped(bytes) /\ bytes \in Seq(0 .. 255)
  BY <1>1, BlocksAre DEF Dumped
<1>4. pos # 0
  <2> HIDE DEF bytes
  <2>1. QED
    BY <1>1, <1>3, EmptySeq
<1>5. PICK q \in Nat, r \in 1 .. PerLine :
         /\ pos = q * PerLine + r
         /\ Shown(out) = LinesOf(bytes, q) \o Begun(bytes, q * PerLine, r)
  BY <1>1, <1>4, Zenon DEF Progress
<1> DEFINE e == Ended(bytes, q * PerLine, r)
           s == Blanks(3 * (PerLine - r))
<1>6. EndLine(pos) = e /\ Missing(pos) = PerLine - r
      /\ (q * PerLine + r + PerLine - 1) \div PerLine = q + 1
  BY <1>5, EndLineIs, Lines, Zenon
<1>7. (Shown(out) \o s) \o e = LinesOf(bytes, q + 1) /\ e \in Seq(Glyph) /\ s \in Seq(Glyph)
  <2>1. q * PerLine + r <= Len(bytes) /\ Len(bytes) = q * PerLine + r
    <3> HIDE DEF bytes
    <3>1. Len(bytes) \in Nat
      BY <1>3, LenProperties
    <3>2. QED
      BY <1>1, <1>5, <3>1
  <2>2. QED
    BY <1>1, <1>3, <1>5, <2>1, LineEnds, Zenon
<1>8. out' = (out \o s) \o e
  BY <1>2, <1>6, Zenon
<1> HIDE DEF e, s
<1>9. Shown(out') = LinesOf(bytes, q + 1)
  <2>1. s \in Seq(Alphabet) /\ e \in Seq(Alphabet) /\ Shown(s) = s /\ Shown(e) = e
    BY <1>7, GlyphsShown
  <2>2. out \o s \in Seq(Alphabet) /\ Shown(out \o s) = Shown(out) \o s
    BY <1>1, <2>1, Puts, Zenon
  <2> DEFINE u == out \o s
  <2>3. u \in Seq(Alphabet) /\ Shown(u) = Shown(out) \o s
    BY <2>2
  <2> HIDE DEF u
  <2>4. Shown(u \o e) = Shown(u) \o Shown(e)
    BY <2>1, <2>3, Puts, Zenon
  <2>5. QED
    BY <1>7, <1>8, <2>1, <2>3, <2>4, Zenon DEF u
<1>10. (Len(bytes) + PerLine - 1) \div PerLine = q + 1
  <2> HIDE DEF bytes
  <2>1. Len(bytes) = q * PerLine + r
    BY <1>1, <1>5
  <2>2. QED
    BY <1>6, <2>1, Zenon
<1>11. job'.fn = "done" /\ job'.of.bytes = bytes
  BY <1>2
<1>12. QED
  BY <1>9, <1>10, <1>11, Zenon DEF DumpShowsAll, LinesOf

\* Nothing is shown of no bytes.
LEMMA NothingDumped ==
  ASSUME NEW b \in Blocks, hexdump(b)
  PROVE  DumpInv' /\ DumpShowsAll'
<1>1. out' = <<>> /\ pos' = 0
      /\ job' = IF b = <<>> THEN [fn |-> "done", of |-> [fn |-> "hexdump", bytes |-> b]]
                ELSE [fn |-> "hexdump", bytes |-> b]
  BY DEF hexdump
<1>2. CASE b = <<>>
  <2>1. job' = [fn |-> "done", of |-> [fn |-> "hexdump", bytes |-> b]]
    BY <1>1, <1>2
  <2>2. job'.fn = "done" /\ job'.of.bytes = b
    BY <2>1
  <2>3. (Len(b) + PerLine - 1) \div PerLine = 0
    <3>1. PerLine \in Nat \ {0} /\ PerLine - 1 \in 0 .. PerLine - 1 /\ 0 \in Nat
      BY FormatAssumption
    <3>2. (PerLine * 0 + (PerLine - 1)) \div PerLine = 0
      BY <3>1, Quotient
    <3>3. Len(b) = 0
      BY <1>2
    <3>4. Len(b) + PerLine - 1 = PerLine * 0 + (PerLine - 1)
      BY <3>1, <3>3
    <3>5. QED
      BY <3>2, <3>4
  <2>4. Shown(out') = LinesOf(b, 0)
    BY <1>1, ShownNothing, NoLines
  <2>5. DumpShowsAll'
    BY <2>2, <2>3, <2>4, Zenon DEF DumpShowsAll, LinesOf
  <2>6. DumpInv'
    BY <2>2, Zenon DEF DumpInv
  <2>7. QED
    BY <2>5, <2>6
<1>3. CASE b # <<>>
  <2>1. job'.fn = "hexdump" /\ job'.bytes = b
    BY <1>1, <1>3
  <2>2. 0 \in 0 .. Len(b) /\ <<>> \in Seq(Alphabet)
    <3>1. Len(b) \in Nat
      BY BlocksAre, LenProperties DEF Dumped
    <3>2. QED
      BY <3>1, EmptySeq
  <2>3. DumpInv'
    BY <1>1, <1>3, <2>1, <2>2, Zenon DEF DumpInv
  <2>4. DumpShowsAll'
    BY <2>1, Zenon DEF DumpShowsAll
  <2>5. QED
    BY <2>3, <2>4
<1>4. QED
  BY <1>2, <1>3

\* A dump shows every byte once, at its offset and in its column, with its text
\* behind it, for every block the buffers have room for and lines of every length
\* (tty.c:115-164).
THEOREM DumpShowsAllHolds == FormatSpec => []DumpShowsAll
<1> DEFINE IInv == DumpInv /\ DumpShowsAll
<1>1. FormatInit => IInv
  BY DEF FormatInit, NoJob, DumpInv, DumpShowsAll
<1>2. IInv /\ [FormatNext]_formatVars => IInv'
  <2> SUFFICES ASSUME DumpInv, DumpShowsAll, [FormatNext]_formatVars PROVE IInv'
    OBVIOUS
  <2>1. ASSUME NEW f \in Texts, printf(f) PROVE IInv'
    <3>1. job'.fn = "printf"
      BY <2>1 DEF printf
    <3>2. QED
      BY <3>1, Zenon DEF DumpInv, DumpShowsAll
  <2>2. ASSUME NEW b \in Blocks, hexdump(b) PROVE IInv'
    BY <2>2, NothingDumped
  <2>3. CASE vprintf
    <3>1. job.fn = "printf" /\ (job' = [fn |-> "done", of |-> job] \/ job' = job)
      BY <2>3, Zenon DEF vprintf, Done
    <3>2. CASE job' = job
      BY <3>1, <3>2, Zenon DEF DumpInv, DumpShowsAll
    <3>3. CASE job' = [fn |-> "done", of |-> job]
      <4>1. job'.fn = "done" /\ job'.of = job
        BY <3>3
      <4>2. QED
        BY <3>1, <4>1, Zenon DEF DumpInv, DumpShowsAll
    <3>4. QED
      BY <3>1, <3>2, <3>3
  <2>4. CASE DumpByte
    <3>1. DumpInv' /\ job'.fn = "hexdump"
      BY <2>4, DumpByteStep
    <3>2. QED
      BY <3>1, Zenon DEF DumpShowsAll
  <2>5. CASE DumpEnd
    <3>1. DumpShowsAll' /\ job'.fn = "done"
      BY <2>5, DumpEndStep
    <3>2. QED
      BY <3>1, Zenon DEF DumpInv
  <2>6. CASE UNCHANGED formatVars
    <3>1. job' = job /\ pos' = pos /\ out' = out
      BY <2>6 DEF formatVars
    <3>2. QED
      BY <3>1, Zenon DEF DumpInv, DumpShowsAll, Progress
  <2>7. QED
    BY <2>1, <2>2, <2>3, <2>4, <2>5, <2>6 DEF FormatNext
<1>3. QED
  BY <1>1, <1>2, PTL DEF FormatSpec

-----------------------------------------------------------------------------
(* The words: 2^Width numbers, all of them with a numeral in every base. *)

\* The provers evaluate a power only when its exponent is a number.
LEMMA PowersOfTwo == \A k \in 15 .. Width : 2^k = Weight(2)[k]
<1> DEFINE W == Weight(2)
<1>1. 2 \in Nat \ {0} /\ Width \in Nat /\ Width >= 16 /\ Width <= 32
  BY WidthIs
<1>2. W[0] = 1 /\ \A k \in 0 .. Width - 1 : W[k + 1] = 2 * W[k]
  BY <1>1, Weights
<1> HIDE DEF W
<1>3. W[14] = 2^14
  <2>1. W[1] = 2 * W[0] /\ W[2] = 2 * W[1] /\ W[3] = 2 * W[2] /\ W[4] = 2 * W[3] /\ W[5] = 2 * W[4]
    <3>1. W[0 + 1] = 2 * W[0] /\ W[1 + 1] = 2 * W[1] /\ W[2 + 1] = 2 * W[2] /\ W[3 + 1] = 2 * W[3] /\ W[4 + 1] = 2 * W[4]
      BY <1>1, <1>2
    <3>2. QED
      BY <3>1
  <2>2. W[6] = 2 * W[5] /\ W[7] = 2 * W[6] /\ W[8] = 2 * W[7] /\ W[9] = 2 * W[8] /\ W[10] = 2 * W[9]
    <3>1. W[5 + 1] = 2 * W[5] /\ W[6 + 1] = 2 * W[6] /\ W[7 + 1] = 2 * W[7] /\ W[8 + 1] = 2 * W[8] /\ W[9 + 1] = 2 * W[9]
      BY <1>1, <1>2
    <3>2. QED
      BY <3>1
  <2>3. W[11] = 2 * W[10] /\ W[12] = 2 * W[11] /\ W[13] = 2 * W[12] /\ W[14] = 2 * W[13]
    <3>1. W[10 + 1] = 2 * W[10] /\ W[11 + 1] = 2 * W[11] /\ W[12 + 1] = 2 * W[12] /\ W[13 + 1] = 2 * W[13]
      BY <1>1, <1>2
    <3>2. QED
      BY <3>1
  <2>4. QED
    BY <1>2, <2>1, <2>2, <2>3
<1>4. 15 <= Width => W[15] = 2^15
  <2>1. 15 <= Width => W[14 + 1] = 2 * W[14]
    BY <1>1, <1>2
  <2>2. QED
    BY <1>1, <1>3, <2>1
<1>5. 16 <= Width => W[16] = 2^16
  <2>1. 16 <= Width => W[15 + 1] = 2 * W[15]
    BY <1>1, <1>2
  <2>2. QED
    BY <1>1, <1>4, <2>1
<1>6. 17 <= Width => W[17] = 2^17
  <2>1. 17 <= Width => W[16 + 1] = 2 * W[16]
    BY <1>1, <1>2
  <2>2. QED
    BY <1>1, <1>5, <2>1
<1>7. 18 <= Width => W[18] = 2^18
  <2>1. 18 <= Width => W[17 + 1] = 2 * W[17]
    BY <1>1, <1>2
  <2>2. QED
    BY <1>1, <1>6, <2>1
<1>8. 19 <= Width => W[19] = 2^19
  <2>1. 19 <= Width => W[18 + 1] = 2 * W[18]
    BY <1>1, <1>2
  <2>2. QED
    BY <1>1, <1>7, <2>1
<1>9. 20 <= Width => W[20] = 2^20
  <2>1. 20 <= Width => W[19 + 1] = 2 * W[19]
    BY <1>1, <1>2
  <2>2. QED
    BY <1>1, <1>8, <2>1
<1>10. 21 <= Width => W[21] = 2^21
  <2>1. 21 <= Width => W[20 + 1] = 2 * W[20]
    BY <1>1, <1>2
  <2>2. QED
    BY <1>1, <1>9, <2>1
<1>11. 22 <= Width => W[22] = 2^22
  <2>1. 22 <= Width => W[21 + 1] = 2 * W[21]
    BY <1>1, <1>2
  <2>2. QED
    BY <1>1, <1>10, <2>1
<1>12. 23 <= Width => W[23] = 2^23
  <2>1. 23 <= Width => W[22 + 1] = 2 * W[22]
    BY <1>1, <1>2
  <2>2. QED
    BY <1>1, <1>11, <2>1
<1>13. 24 <= Width => W[24] = 2^24
  <2>1. 24 <= Width => W[23 + 1] = 2 * W[23]
    BY <1>1, <1>2
  <2>2. QED
    BY <1>1, <1>12, <2>1
<1>14. 25 <= Width => W[25] = 2^25
  <2>1. 25 <= Width => W[24 + 1] = 2 * W[24]
    BY <1>1, <1>2
  <2>2. QED
    BY <1>1, <1>13, <2>1
<1>15. 26 <= Width => W[26] = 2^26
  <2>1. 26 <= Width => W[25 + 1] = 2 * W[25]
    BY <1>1, <1>2
  <2>2. QED
    BY <1>1, <1>14, <2>1
<1>16. 27 <= Width => W[27] = 2^27
  <2>1. 27 <= Width => W[26 + 1] = 2 * W[26]
    BY <1>1, <1>2
  <2>2. QED
    BY <1>1, <1>15, <2>1
<1>17. 28 <= Width => W[28] = 2^28
  <2>1. 28 <= Width => W[27 + 1] = 2 * W[27]
    BY <1>1, <1>2
  <2>2. QED
    BY <1>1, <1>16, <2>1
<1>18. 29 <= Width => W[29] = 2^29
  <2>1. 29 <= Width => W[28 + 1] = 2 * W[28]
    BY <1>1, <1>2
  <2>2. QED
    BY <1>1, <1>17, <2>1
<1>19. 30 <= Width => W[30] = 2^30
  <2>1. 30 <= Width => W[29 + 1] = 2 * W[29]
    BY <1>1, <1>2
  <2>2. QED
    BY <1>1, <1>18, <2>1
<1>20. 31 <= Width => W[31] = 2^31
  <2>1. 31 <= Width => W[30 + 1] = 2 * W[30]
    BY <1>1, <1>2
  <2>2. QED
    BY <1>1, <1>19, <2>1
<1>21. 32 <= Width => W[32] = 2^32
  <2>1. 32 <= Width => W[31 + 1] = 2 * W[31]
    BY <1>1, <1>2
  <2>2. QED
    BY <1>1, <1>20, <2>1
<1>22. ASSUME NEW k \in 15 .. Width PROVE 2^k = W[k]
  <2>1. /\ k <= Width
        /\ k = 15 \/ k = 16 \/ k = 17 \/ k = 18 \/ k = 19 \/ k = 20 \/ k = 21 \/ k = 22 \/ k = 23
           \/ k = 24 \/ k = 25 \/ k = 26 \/ k = 27 \/ k = 28 \/ k = 29 \/ k = 30 \/ k = 31 \/ k = 32
    BY <1>1
  <2>2. QED
    BY <2>1, <1>4, <1>5, <1>6, <1>7, <1>8, <1>9, <1>10, <1>11, <1>12, <1>13, <1>14, <1>15, <1>16, <1>17, <1>18, <1>19, <1>20, <1>21, Zenon
<1>23. QED
  BY <1>22 DEF W

LEMMA WeightsOrder ==
  ASSUME NEW base \in Nat, base >= 2
  PROVE  \A k \in 0 .. Width : Weight(2)[k] <= Weight(base)[k]
<1> DEFINE V == Weight(2)
           W == Weight(base)
           T == {k \in Nat : k <= Width => V[k] <= W[k]}
<1>1. 2 \in Nat \ {0} /\ base \in Nat \ {0} /\ Width \in Nat
  BY WidthIs
<1>2. /\ V[0] = 1 /\ \A k \in 0 .. Width - 1 : V[k + 1] = 2 * V[k]
      /\ \A k \in 0 .. Width : V[k] \in Nat
  BY <1>1, Weights
<1>3. /\ W[0] = 1 /\ \A k \in 0 .. Width - 1 : W[k + 1] = base * W[k]
      /\ \A k \in 0 .. Width : W[k] \in Nat
  BY <1>1, Weights
<1> HIDE DEF V, W
<1>4. 0 \in T
  BY <1>2, <1>3
<1>5. ASSUME NEW k \in Nat, k \in T PROVE k + 1 \in T
  <2> SUFFICES ASSUME k + 1 <= Width PROVE V[k + 1] <= W[k + 1]
    OBVIOUS
  <2>1. k \in 0 .. Width - 1 /\ k \in 0 .. Width /\ V[k] <= W[k]
    BY <1>1, <1>5
  <2>2. V[k + 1] = 2 * V[k] /\ W[k + 1] = base * W[k] /\ V[k] \in Nat /\ W[k] \in Nat
    BY <1>2, <1>3, <2>1
  <2> DEFINE v == V[k]  w == W[k]
  <2>3. v \in Nat /\ w \in Nat /\ v <= w
    BY <2>1, <2>2
  <2> HIDE DEF v, w
  <2>4. 2 * v <= 2 * w /\ 2 * w <= base * w
    BY <2>3
  <2>5. 2 * v <= base * w
    BY <2>3, <2>4
  <2>6. QED
    BY <2>2, <2>5 DEF v, w
<1>6. \A k \in Nat : k \in T
  <2> HIDE DEF T
  <2>1. QED
    BY <1>4, <1>5, Induction, Zenon
<1>7. QED
  BY <1>1, <1>6 DEF V, W

\* A word and its sign; every word has a numeral.
LEMMA Words ==
  /\ 2^Width \in Nat /\ 2^(Width - 1) \in Nat \ {0} /\ 2^Width = 2 * 2^(Width - 1)
  /\ \A base \in 2 .. 16, num \in Nat : num < 2^Width => num < Weight(base)[Width]
<1> DEFINE V == Weight(2)
<1>1. /\ 2 \in Nat \ {0} /\ Width \in Nat /\ Width \in 15 .. Width /\ Width - 1 \in 15 .. Width
      /\ Width - 1 \in 0 .. Width - 1 /\ Width - 1 \in 0 .. Width /\ Width \in 0 .. Width
      /\ (Width - 1) + 1 = Width
  BY WidthIs
<1>2. 2^Width = V[Width] /\ 2^(Width - 1) = V[Width - 1]
  BY <1>1, PowersOfTwo, Zenon
<1>3. V[Width] \in Nat \ {0} /\ V[Width - 1] \in Nat \ {0} /\ V[(Width - 1) + 1] = 2 * V[Width - 1]
  BY <1>1, Weights
<1>4. V[Width] = 2 * V[Width - 1]
  BY <1>1, <1>3
<1>5. ASSUME NEW base \in 2 .. 16, NEW num \in Nat, num < 2^Width PROVE num < Weight(base)[Width]
  <2>1. base \in Nat /\ base >= 2 /\ base \in Nat \ {0}
    OBVIOUS
  <2>2. V[Width] <= Weight(base)[Width] /\ Weight(base)[Width] \in Nat
    BY <1>1, <2>1, WeightsOrder, Weights
  <2>3. num < V[Width]
    BY <1>2, <1>5, Zenon
  <2> DEFINE v == V[Width]  w == Weight(base)[Width]
  <2>4. num < v /\ v <= w /\ v \in Nat /\ w \in Nat
    BY <1>3, <2>2, <2>3
  <2> HIDE DEF v, w
  <2>5. num < w
    BY <2>4
  <2>6. QED
    BY <2>5 DEF w
<1>6. QED
  BY <1>2, <1>3, <1>4, <1>5, Zenon

LEMMA GroupedType ==
  ASSUME NEW ds \in Seq(Numerals)
  PROVE  Grouped(ds) \in Seq(Glyph)
<1>1. ds \in Seq(Glyph) /\ Len(ds) \in Nat /\ \A i \in 1 .. Len(ds) : ds[i] \in Glyph
  <2>1. ds \in Seq(Glyph)
    BY SeqMonotonic DEF Glyph
  <2>2. QED
    BY <2>1, LenProperties, ElementOfSeq
<1>2. CASE Len(ds) <= 4
  BY <1>1, <1>2, Zenon DEF Grouped
<1>3. CASE ~(Len(ds) <= 4)
  <2> DEFINE m == Len(ds)
             a == SubSeq(ds, 1, m - 4)
             b == SubSeq(ds, m - 3, m)
  <2>1. Grouped(ds) = (a \o <<Sep>>) \o b
    BY <1>3, Zenon DEF Grouped
  <2>2. a \in Seq(Glyph) /\ b \in Seq(Glyph)
    <3>1. m \in Nat /\ m > 4 /\ \A i \in 1 .. m : ds[i] \in Glyph
      BY <1>1, <1>3
    <3> HIDE DEF m
    <3>2. /\ 1 \in Int /\ m - 4 \in Int /\ m - 3 \in Int /\ m \in Int
          /\ \A i \in 1 .. m - 4 : ds[i] \in Glyph
          /\ \A i \in m - 3 .. m : ds[i] \in Glyph
      BY <3>1
    <3>3. QED
      BY <3>2, SubSeqProperties
  <2>3. <<Sep>> \in Seq(Glyph)
    BY DEF Glyph, Marks
  <2> HIDE DEF a, b
  <2>4. a \o <<Sep>> \in Seq(Glyph)
    BY <2>2, <2>3, ConcatProperties
  <2>5. (a \o <<Sep>>) \o b \in Seq(Glyph)
    BY <2>2, <2>4, ConcatProperties
  <2>6. QED
    BY <2>1, <2>5
<1>4. QED
  BY <1>2, <1>3

LEMMA NumeralsPut ==
  ASSUME NEW num \in Nat, num < 2^Width
  PROVE  /\ itodec(num) = Numeral(num, 10) /\ Numeral(num, 10) \in Seq(Glyph)
         /\ itopow2(num, 1) = Grouped(Numeral(num, 2)) /\ Grouped(Numeral(num, 2)) \in Seq(Glyph)
         /\ itopow2(num, 3) = Grouped(Numeral(num, 8)) /\ Grouped(Numeral(num, 8)) \in Seq(Glyph)
         /\ itopow2(num, 4) = Grouped(Numeral(num, 16)) /\ Grouped(Numeral(num, 16)) \in Seq(Glyph)
<1>1. \A base \in 2 .. 16 : num < Weight(base)[Width]
  BY Words, Zenon
<1>2. /\ 2 \in 2 .. 16 /\ 8 \in 2 .. 16 /\ 10 \in 2 .. 16 /\ 16 \in 2 .. 16
      /\ \A base \in 2 .. 16 : base \in 1 .. 16
      /\ 2^1 = 2 /\ 2^3 = 8 /\ 2^4 = 16
  OBVIOUS
<1>3. \A base \in 2 .. 16 : Numeral(num, base) \in Seq(Numerals)
  BY <1>1, <1>2, NumeralType, Zenon
<1>4. \A base \in 2 .. 16 : Grouped(Numeral(num, base)) \in Seq(Glyph)
  BY <1>3, GroupedType, Zenon
<1>5. Numeral(num, 10) \in Seq(Glyph)
  <2>1. Numerals \subseteq Glyph
    BY DEF Glyph
  <2>2. Numeral(num, 10) \in Seq(Numerals)
    BY <1>2, <1>3
  <2>3. QED
    BY <2>1, <2>2, SeqMonotonic
<1>6. itodec(num) = Numeral(num, 10)
  BY <1>1, <1>2, itodecIsNumeral
<1>7. ASSUME NEW p \in {1, 3, 4} PROVE itopow2(num, p) = Grouped(Numeral(num, 2^p))
  <2>1. 2^p \in 2 .. 16
    <3>1. CASE p = 1
      BY <1>2, <3>1, Zenon
    <3>2. CASE p = 3
      BY <1>2, <3>2, Zenon
    <3>3. CASE p = 4
      BY <1>2, <3>3, Zenon
    <3>4. QED
      BY <3>1, <3>2, <3>3
  <2>2. num < Weight(2^p)[Width]
    BY <1>1, <2>1, Zenon
  <2>3. QED
    BY <2>1, <2>2, itopow2IsNumeral, Zenon
<1>8. /\ itopow2(num, 1) = Grouped(Numeral(num, 2)) /\ itopow2(num, 3) = Grouped(Numeral(num, 8))
      /\ itopow2(num, 4) = Grouped(Numeral(num, 16))
  <2>1. /\ itopow2(num, 1) = Grouped(Numeral(num, 2^1)) /\ itopow2(num, 3) = Grouped(Numeral(num, 2^3))
        /\ itopow2(num, 4) = Grouped(Numeral(num, 2^4))
    BY <1>7, Zenon
  <2>2. QED
    BY <1>2, <2>1, Zenon
<1>9. QED
  BY <1>2, <1>4, <1>5, <1>6, <1>8, Zenon

LEMMA GroupedLength == ASSUME NEW ds \in Seq(Numerals) PROVE Len(Grouped(ds)) <= Len(ds) + 1
<1>1. ds \in Seq(Glyph) /\ Len(ds) \in Nat /\ \A i \in 1 .. Len(ds) : ds[i] \in Glyph
  <2>1. ds \in Seq(Glyph)
    BY SeqMonotonic DEF Glyph
  <2>2. QED
    BY <2>1, LenProperties, ElementOfSeq
<1>2. CASE Len(ds) <= 4
  <2>1. Grouped(ds) = ds
    BY <1>2, Zenon DEF Grouped
  <2>2. QED
    BY <1>1, <2>1
<1>3. CASE ~(Len(ds) <= 4)
  <2> DEFINE m == Len(ds)
             a == SubSeq(ds, 1, m - 4)
             b == SubSeq(ds, m - 3, m)
             e == <<Sep>>
  <2>1. Grouped(ds) = (a \o e) \o b
    BY <1>3, Zenon DEF Grouped
  <2>2. m \in Nat /\ m > 4 /\ \A i \in 1 .. m : ds[i] \in Glyph
    BY <1>1, <1>3
  <2>3. e \in Seq(Glyph) /\ Len(e) = 1
    BY DEF Glyph, Marks
  <2> HIDE DEF m, e
  <2>4. a \in Seq(Glyph) /\ b \in Seq(Glyph) /\ Len(a) = m - 4 /\ Len(b) = 4
    <3>1. /\ 1 \in Int /\ m - 4 \in Int /\ m - 3 \in Int /\ m \in Int
          /\ \A i \in 1 .. m - 4 : ds[i] \in Glyph
          /\ \A i \in m - 3 .. m : ds[i] \in Glyph
          /\ ~(1 > m - 4) /\ ~(m - 3 > m)
          /\ m - (m - 3) + 1 = 4 /\ (m - 4) - 1 + 1 = m - 4
      BY <2>2
    <3>2. QED
      BY <3>1, SubSeqProperties
  <2> HIDE DEF a, b
  <2>5. Len(a \o e) = Len(a) + Len(e) /\ a \o e \in Seq(Glyph)
    BY <2>3, <2>4, ConcatProperties
  <2>6. Len((a \o e) \o b) = Len(a \o e) + Len(b)
    BY <2>4, <2>5, ConcatProperties
  <2>7. QED
    BY <2>1, <2>2, <2>3, <2>4, <2>5, <2>6 DEF m
<1>4. QED
  BY <1>2, <1>3

\* A numeral fits in the buffer it is written to with its terminator, in vprintf's
\* of 64 characters and in hexdump's of five and three.  Nothing else keeps itopow2
\* inside of it, since its checks are commented out (string.c:9-14, tty.c:63,129,141).
THEOREM NumeralsFit ==
  /\ \A num \in 0 .. 2^Width - 1 :
       /\ Len(itodec(num)) + 1 <= 64
       /\ \A pow2 \in {1, 3, 4} : Len(itopow2(num, pow2)) + 1 <= 64
  /\ \A b \in Blocks :
       /\ \A i \in 0 .. Len(b) - 1 : Len(itopow2(i, 4)) + 1 <= 5
       /\ \A i \in DOMAIN b : Len(itopow2(b[i], 4)) + 1 <= 3
<1>1. ASSUME NEW num \in 0 .. 2^Width - 1
      PROVE  /\ Len(itodec(num)) + 1 <= 64
             /\ \A pow2 \in {1, 3, 4} : Len(itopow2(num, pow2)) + 1 <= 64
  <2>1. num \in Nat /\ num < 2^Width
    BY Words
  <2>2. \A base \in {2, 8, 10, 16} : base \in 2 .. 16 /\ base \in 1 .. 16
    OBVIOUS
  <2>3. ASSUME NEW base \in {2, 8, 10, 16}
        PROVE  /\ Numeral(num, base) \in Seq(Numerals)
               /\ Len(Numeral(num, base)) \in Nat /\ Len(Numeral(num, base)) <= 32
               /\ Grouped(Numeral(num, base)) \in Seq(Glyph)
               /\ Len(Grouped(Numeral(num, base))) <= 33
    <3>1. num < Weight(base)[Width]
      BY <2>1, <2>2, Words, Zenon
    <3>2. /\ Numeral(num, base) \in Seq(Numerals)
          /\ Len(Numeral(num, base)) = Places(num, base) /\ Places(num, base) \in 1 .. Width
      BY <2>1, <2>2, <3>1, NumeralType, Zenon
    <3>3. Grouped(Numeral(num, base)) \in Seq(Glyph)
      BY <3>2, GroupedType, Zenon
    <3>4. Len(Grouped(Numeral(num, base))) <= Len(Numeral(num, base)) + 1
      BY <3>2, GroupedLength, Zenon
    <3>5. Len(Grouped(Numeral(num, base))) \in Nat
      BY <3>3, LenProperties
    <3>6. QED
      BY <3>2, <3>3, <3>4, <3>5, WidthIs
  <2>4. /\ itodec(num) = Numeral(num, 10) /\ itopow2(num, 1) = Grouped(Numeral(num, 2))
        /\ itopow2(num, 3) = Grouped(Numeral(num, 8)) /\ itopow2(num, 4) = Grouped(Numeral(num, 16))
    BY <2>1, NumeralsPut, Zenon
  <2>5. /\ Len(itodec(num)) \in Nat /\ Len(itodec(num)) <= 32
    BY <2>3, <2>4
  <2>6. \A pow2 \in {1, 3, 4} : Len(itopow2(num, pow2)) \in Nat /\ Len(itopow2(num, pow2)) <= 33
    <3>1. \A base \in {2, 8, 16} : Len(Grouped(Numeral(num, base))) \in Nat
                                   /\ Len(Grouped(Numeral(num, base))) <= 33
      BY <2>3, LenProperties
    <3>2. QED
      BY <2>4, <3>1
  <2>7. QED
    BY <2>5, <2>6
<1>2. ASSUME NEW b \in Blocks
      PROVE  /\ \A i \in 0 .. Len(b) - 1 : Len(itopow2(i, 4)) + 1 <= 5
             /\ \A i \in DOMAIN b : Len(itopow2(b[i], 4)) + 1 <= 3
  <2>1. b \in Seq(0 .. 255) /\ \A i \in Nat : i < Len(b) => i \in Short
    BY BlocksAre, Zenon DEF Dumped
  <2>2. ASSUME NEW i \in 0 .. Len(b) - 1 PROVE Len(itopow2(i, 4)) + 1 <= 5
    <3>1. i \in Short
      BY <2>1, LenProperties
    <3>2. itopow2(i, 4) = Numeral(i, 16) /\ Len(Numeral(i, 16)) \in 1 .. 4
      BY <3>1, HexDigits, Zenon
    <3> DEFINE len == Len(itopow2(i, 4))
    <3>3. len \in 1 .. 4
      BY <3>2, Zenon
    <3> HIDE DEF len
    <3>4. len + 1 <= 5
      BY <3>3
    <3>5. QED
      BY <3>4, Zenon DEF len
  <2>3. ASSUME NEW i \in DOMAIN b PROVE Len(itopow2(b[i], 4)) + 1 <= 3
    <3> DEFINE byte == b[i]
    <3>1. byte \in 0 .. 255
      BY <2>1, LenProperties, ElementOfSeq
    <3> HIDE DEF byte
    <3>2. byte \in Short /\ byte < 256
      BY <3>1 DEF Short
    <3>3. itopow2(byte, 4) = Numeral(byte, 16) /\ Len(Numeral(byte, 16)) \in 1 .. 4
          /\ Len(Numeral(byte, 16)) <= 2
      BY <3>2, HexDigits, Zenon
    <3>4. Len(itopow2(byte, 4)) + 1 <= 3
      BY <3>3
    <3>5. QED
      BY <3>4 DEF byte
  <2>4. QED
    BY <2>2, <2>3
<1>3. QED
  BY <1>1, <1>2, Zenon

-----------------------------------------------------------------------------
(* What a directive puts for its argument is what is meant. *)

Symbols    == STRING \cup Glyph
Conversion == {"d", "i", "u", "b", "o", "p", "x", "X", "c", "s"}
Values     == [num : 0 .. 2^Width - 1, str : Seq(STRING)]

LEMMA PutArms ==
  ASSUME NEW val
  PROVE  /\ \A d \in {"d", "i"} :
              Put(d, val) = IF val.num >= 2^(Width - 1) THEN <<"-">> \o itodec(Negated(val.num))
                                                        ELSE itodec(val.num)
         /\ Put("u", val) = itodec(val.num)
         /\ Put("b", val) = itopow2(val.num, 1)
         /\ Put("o", val) = itopow2(val.num, 3)
         /\ Put("p", val) = <<"0", "x">> \o itopow2(val.num, 4)
         /\ \A d \in {"x", "X"} : Put(d, val) = itopow2(val.num, 4)
         /\ Put("c", val) = SubSeq(val.str, 1, 1)
         /\ Put("s", val) = val.str
         /\ Put(NUL, val) = <<>>
         /\ Put("%", val) = <<"%">>
BY DEF Put, NUL

LEMMA MeantArms ==
  ASSUME NEW val
  PROVE  /\ \A d \in {"d", "i"} :
              MeantBy(d, val) = IF val.num < 2^(Width - 1) THEN Numeral(val.num, 10)
                                ELSE <<"-">> \o Numeral(2^Width - val.num, 10)
         /\ MeantBy("u", val) = Numeral(val.num, 10)
         /\ MeantBy("b", val) = Grouped(Numeral(val.num, 2))
         /\ MeantBy("o", val) = Grouped(Numeral(val.num, 8))
         /\ \A d \in {"x", "X"} : MeantBy(d, val) = Grouped(Numeral(val.num, 16))
         /\ MeantBy("p", val) = <<"0", "x">> \o Grouped(Numeral(val.num, 16))
         /\ \A d \in {"c", "s"} : MeantBy(d, val) = val.str
BY DEF MeantBy

LEMMA KindArms ==
  ASSUME NEW item
  PROVE  /\ item.kind = "text" => Written(item) = item.val.str /\ Meant(item) = item.val.str
         /\ item.kind = "percent" => Written(item) = <<"%", "%">> /\ Meant(item) = <<"%">>
         /\ item.kind = "alone" => Written(item) = <<"%">> /\ Meant(item) = <<>>
         /\ item.kind = "conversion" =>
              Written(item) = <<"%", item.d>> /\ Meant(item) = MeantBy(item.d, item.val)
BY DEF Written, Meant

\* A conversion is given an argument of its kind.
LEMMA ConversionPut ==
  ASSUME NEW d \in Conversion, NEW val \in Values, d = "c" => Len(val.str) = 1
  PROVE  Put(d, val) = MeantBy(d, val) /\ MeantBy(d, val) \in Seq(Symbols)
<1> DEFINE num == val.num
           str == val.str
<1>1. num \in Nat /\ num < 2^Width /\ str \in Seq(STRING)
  <2>1. num \in 0 .. 2^Width - 1 /\ str \in Seq(STRING)
    BY DEF Values
  <2>2. 2^Width \in Nat
    BY Words
  <2>3. QED
    BY <2>1, <2>2
<1> HIDE DEF num, str
<1>2. /\ itodec(num) = Numeral(num, 10) /\ Numeral(num, 10) \in Seq(Glyph)
      /\ itopow2(num, 1) = Grouped(Numeral(num, 2)) /\ Grouped(Numeral(num, 2)) \in Seq(Glyph)
      /\ itopow2(num, 3) = Grouped(Numeral(num, 8)) /\ Grouped(Numeral(num, 8)) \in Seq(Glyph)
      /\ itopow2(num, 4) = Grouped(Numeral(num, 16)) /\ Grouped(Numeral(num, 16)) \in Seq(Glyph)
  BY <1>1, NumeralsPut, Zenon
<1>3. \A s \in Seq(Glyph) : s \in Seq(Symbols)
  BY SeqMonotonic DEF Symbols
<1>4. str \in Seq(Symbols)
  BY <1>1, SeqMonotonic DEF Symbols
<1>5. CASE d \in {"d", "i"}
  <2>1. CASE num < 2^(Width - 1)
    <3>1. ~(num >= 2^(Width - 1))
      BY <1>1, <2>1, Words
    <3>2. Put(d, val) = itodec(num) /\ MeantBy(d, val) = Numeral(num, 10)
      BY <1>5, <2>1, <3>1, PutArms, MeantArms, Zenon DEF num
    <3>3. QED
      BY <1>2, <1>3, <3>2, Zenon
  <2>2. CASE ~(num < 2^(Width - 1))
    <3> DEFINE neg == 2^Width - num
    <3>1. num >= 2^(Width - 1) /\ neg \in Nat /\ neg < 2^Width /\ Negated(num) = neg
      <4> DEFINE big == 2^Width  half == 2^(Width - 1)
      <4>1. big \in Nat /\ half \in Nat /\ half # 0 /\ big = 2 * half
        BY Words
      <4> HIDE DEF big, half
      <4>2. num \in Nat /\ num < big /\ ~(num < half)
        BY <1>1, <2>2 DEF big, half
      <4>3. num >= half /\ big - num \in Nat /\ big - num < big /\ big - num \in 0 .. big - 1
            /\ big \in Nat \ {0}
        BY <4>1, <4>2
      <4>4. (big - num) % big = big - num
        <5> DEFINE v == big - num
        <5>1. v \in 0 .. big - 1 /\ big \in Nat \ {0} /\ 0 \in Nat
          BY <4>3
        <5> HIDE DEF v
        <5>2. (big * 0 + v) % big = v
          BY <5>1, Remainder
        <5>3. big * 0 + v = v
          BY <5>1
        <5>4. QED
          BY <5>2, <5>3 DEF v
      <4>5. QED
        BY <4>3, <4>4, Zenon DEF Negated, big, half
    <3> HIDE DEF neg
    <3>2. itodec(neg) = Numeral(neg, 10) /\ Numeral(neg, 10) \in Seq(Glyph)
      BY <3>1, NumeralsPut, Zenon
    <3>3. Put(d, val) = <<"-">> \o Numeral(neg, 10)
      <4>1. Put(d, val) = <<"-">> \o itodec(Negated(num))
        BY <1>5, <3>1, PutArms, Zenon DEF num
      <4>2. QED
        BY <3>1, <3>2, <4>1, Zenon
    <3>4. MeantBy(d, val) = <<"-">> \o Numeral(neg, 10)
      BY <1>5, <2>2, MeantArms, Zenon DEF num, neg
    <3>5. <<"-">> \o Numeral(neg, 10) \in Seq(Glyph)
      <4> DEFINE m == <<"-">>
      <4>1. m \in Seq(Glyph)
        BY DEF Glyph, Marks
      <4> HIDE DEF m
      <4>2. m \o Numeral(neg, 10) \in Seq(Glyph)
        BY <3>2, <4>1, ConcatProperties
      <4>3. QED
        BY <4>2 DEF m
    <3>6. QED
      BY <1>3, <3>3, <3>4, <3>5, Zenon
  <2>3. QED
    BY <2>1, <2>2
<1>6. CASE d = "u"
  BY <1>2, <1>3, <1>6, PutArms, MeantArms, Zenon DEF num
<1>7. CASE d = "b"
  BY <1>2, <1>3, <1>7, PutArms, MeantArms, Zenon DEF num
<1>8. CASE d = "o"
  BY <1>2, <1>3, <1>8, PutArms, MeantArms, Zenon DEF num
<1>9. CASE d \in {"x", "X"}
  BY <1>2, <1>3, <1>9, PutArms, MeantArms, Zenon DEF num
<1>10. CASE d = "p"
  <2> DEFINE m == <<"0", "x">>
  <2>1. m \in Seq(Glyph)
    BY DEF Glyph, Marks, Numerals
  <2>2. Put(d, val) = m \o Grouped(Numeral(num, 16)) /\ MeantBy(d, val) = m \o Grouped(Numeral(num, 16))
    BY <1>2, <1>10, PutArms, MeantArms, Zenon DEF num
  <2> HIDE DEF m
  <2>3. m \o Grouped(Numeral(num, 16)) \in Seq(Glyph)
    BY <1>2, <2>1, ConcatProperties
  <2>4. QED
    BY <1>3, <2>2, <2>3, Zenon
<1>11. CASE d = "c"
  <2>1. Put(d, val) = SubSeq(str, 1, 1) /\ MeantBy(d, val) = str
    BY <1>11, PutArms, MeantArms, Zenon DEF str
  <2>2. Len(str) = 1
    BY <1>11 DEF str
  <2>3. SubSeq(str, 1, Len(str)) = str
    BY <1>1, SubSeqFull
  <2>4. QED
    BY <1>4, <2>1, <2>2, <2>3, Zenon
<1>12. CASE d = "s"
  BY <1>4, <1>12, PutArms, MeantArms, Zenon DEF str
<1>13. QED
  BY <1>5, <1>6, <1>7, <1>8, <1>9, <1>10, <1>11, <1>12 DEF Conversion

-----------------------------------------------------------------------------
(* A format, what is meant by it and its arguments are put together item by *)
(* item.                                                                    *)

\* The first k sequences of e, put together
Upto(e, k) == FlattenSeq(SubSeq(e, 1, k))

LEMMA UptoIs ==
  ASSUME NEW S, NEW e \in Seq(Seq(S))
  PROVE  /\ Upto(e, 0) = <<>> /\ Upto(e, Len(e)) = FlattenSeq(e)
         /\ \A k \in 0 .. Len(e) : Upto(e, k) \in Seq(S)
         /\ \A k \in 1 .. Len(e) : Upto(e, k) = Upto(e, k - 1) \o e[k]
         /\ \A k \in 0 .. Len(e) : \E rest \in Seq(S) : FlattenSeq(e) = Upto(e, k) \o rest
<1> DEFINE U == Seq(S)
<1>0. Len(e) \in Nat /\ (\A i \in 1 .. Len(e) : e[i] \in Seq(S)) /\ <<>> \in Seq(S) /\ e \in Seq(U)
  BY LenProperties, ElementOfSeq, EmptySeq
<1>1. \A k \in 0 .. Len(e) : SubSeq(e, 1, k) \in Seq(U) /\ SubSeq(e, k + 1, Len(e)) \in Seq(U)
  <2> SUFFICES ASSUME NEW k \in 0 .. Len(e)
               PROVE  SubSeq(e, 1, k) \in Seq(U) /\ SubSeq(e, k + 1, Len(e)) \in Seq(U)
    OBVIOUS
  <2>1. /\ 1 \in Int /\ k \in Int /\ k + 1 \in Int /\ Len(e) \in Int
        /\ \A i \in 1 .. k : e[i] \in U
        /\ \A i \in k + 1 .. Len(e) : e[i] \in U
    BY <1>0
  <2> HIDE DEF U
  <2>2. QED
    BY <2>1, SubSeqProperties
<1>2. Upto(e, 0) = <<>>
  <2>1. SubSeq(e, 1, 0) = <<>>
    BY SubSeqEmpty
  <2>2. QED
    BY <2>1, FlattenEmpty, Zenon DEF Upto
<1>3. Upto(e, Len(e)) = FlattenSeq(e)
  <2>1. SubSeq(e, 1, Len(e)) = e
    BY SubSeqFull
  <2>2. QED
    BY <2>1, Zenon DEF Upto
<1>4. \A k \in 0 .. Len(e) : Upto(e, k) \in Seq(S)
  BY <1>0, <1>1, FlattenAppend DEF Upto
<1>5. ASSUME NEW k \in 1 .. Len(e) PROVE Upto(e, k) = Upto(e, k - 1) \o e[k]
  <2>1. k - 1 \in 0 .. Len(e) /\ 1 \in 1 .. Len(e) /\ k \in 1 .. Len(e) /\ e[k] \in Seq(S)
    BY <1>0
  <2> DEFINE ss == SubSeq(e, 1, k - 1)
             s == e[k]
  <2>2. ss \in Seq(Seq(S)) /\ s \in Seq(S)
    BY <1>1, <2>1
  <2>3. SubSeq(e, 1, k) = ss \o <<s>>
    BY <2>1, SubSeqRecursiveSecond
  <2> HIDE DEF ss, s
  <2>4. ss \o <<s>> = Append(ss, s)
    BY <2>2, AppendIsConcat
  <2>5. FlattenSeq(Append(ss, s)) = FlattenSeq(ss) \o s
    BY <2>2, FlattenAppend
  <2>6. QED
    BY <2>3, <2>4, <2>5, Zenon DEF Upto, ss, s
<1>6. ASSUME NEW k \in 0 .. Len(e) PROVE \E rest \in Seq(S) : FlattenSeq(e) = Upto(e, k) \o rest
  <2> DEFINE a == SubSeq(e, 1, k)
             b == SubSeq(e, k + 1, Len(e))
  <2>1. a \in Seq(Seq(S)) /\ b \in Seq(Seq(S))
    BY <1>1
  <2>2. a \o b = e
    <3>1. 1 \in 1 .. Len(e) + 1 /\ k \in 1 - 1 .. Len(e) /\ Len(e) \in k .. Len(e)
      BY <1>0
    <3>2. a \o b = SubSeq(e, 1, Len(e))
      <4> HIDE DEF U
      <4>1. QED
        BY <1>0, <3>1, ConcatAdjacentSubSeq
    <3>3. SubSeq(e, 1, Len(e)) = e
      BY SubSeqFull
    <3>4. QED
      BY <3>2, <3>3
  <2> HIDE DEF a, b
  <2>3. FlattenSeq(a \o b) = FlattenSeq(a) \o FlattenSeq(b)
    BY <2>1, FlattenConcat
  <2>4. FlattenSeq(b) \in Seq(S)
    BY <1>0, <2>1, FlattenAppend
  <2>5. QED
    BY <2>2, <2>3, <2>4, Zenon DEF Upto, a
<1>7. QED
  BY <1>2, <1>3, <1>4, <1>5, <1>6

\* Where the next directive of a format is found, and what is in front of it
NextStop(p) == LET ends == {k \in p .. Len(job.fmt) + 1 : At(k) \in {"%", NUL}}
            IN  CHOOSE k \in ends : \A l \in ends : k <= l

LEMMA Scan ==
  ASSUME NEW a \in Seq(Symbols), NEW t \in Seq(Symbols), NEW rest \in Seq(Symbols),
         job.fmt = a \o (t \o rest), \A i \in 1 .. Len(t) : t[i] \notin {"%", NUL},
         rest = <<>> \/ rest[1] = "%"
  PROVE  LET stop == Len(a) + Len(t) + 1
         IN  /\ stop \in Nat /\ Len(a) + 1 \in Nat
             /\ NextStop(Len(a) + 1) = stop
             /\ SubSeq(job.fmt, Len(a) + 1, stop - 1) = t
             /\ rest = <<>> => At(stop) = NUL
             /\ rest # <<>> => At(stop) = "%"
             /\ Len(rest) = 1 => At(stop + 1) = NUL
             /\ Len(rest) > 1 => At(stop + 1) = rest[2]
             /\ stop + Len(rest) = Len(job.fmt) + 1
<1> DEFINE la == Len(a)
           lt == Len(t)
           lr == Len(rest)
           fmt == job.fmt
           p == la + 1
           stop == la + lt + 1
           m == la + lt + lr
<1>1. la \in Nat /\ lt \in Nat /\ lr \in Nat /\ (rest = <<>> <=> lr = 0)
  BY LenProperties, EmptySeq
<1>2. t \o rest \in Seq(Symbols) /\ Len(t \o rest) = lt + lr
      /\ \A i \in 1 .. lt + lr : (t \o rest)[i] = IF i <= lt THEN t[i] ELSE rest[i - lt]
  BY ConcatProperties
<1>3. fmt \in Seq(Symbols) /\ Len(fmt) = m
      /\ \A i \in 1 .. m : fmt[i] = IF i <= la THEN a[i] ELSE (t \o rest)[i - la]
  <2> DEFINE u == t \o rest
  <2>1. u \in Seq(Symbols) /\ Len(u) = lt + lr /\ fmt = a \o u
    BY <1>2
  <2> HIDE DEF u, fmt
  <2>2. /\ a \o u \in Seq(Symbols) /\ Len(a \o u) = Len(a) + Len(u)
        /\ \A i \in 1 .. Len(a) + Len(u) : (a \o u)[i] = IF i <= Len(a) THEN a[i] ELSE u[i - Len(a)]
    BY <2>1, ConcatProperties
  <2>3. Len(a) + Len(u) = m
    BY <1>1, <2>1
  <2>4. QED
    BY <2>1, <2>2, <2>3 DEF u
<1> HIDE DEF la, lt, lr
<1>4. ASSUME NEW i \in 1 .. lt PROVE la + i \in 1 .. m /\ fmt[la + i] = t[i]
  <2>1. la + i \in 1 .. m /\ ~(la + i <= la) /\ (la + i) - la = i /\ i \in 1 .. lt + lr /\ i <= lt
    BY <1>1
  <2>2. fmt[la + i] = (t \o rest)[i]
    BY <1>3, <2>1
  <2>3. QED
    BY <1>2, <2>1, <2>2
<1>5. ASSUME NEW i \in 1 .. lr PROVE la + lt + i \in 1 .. m /\ fmt[la + lt + i] = rest[i]
  <2>1. la + lt + i \in 1 .. m /\ ~(la + lt + i <= la) /\ (la + lt + i) - la = lt + i
        /\ lt + i \in 1 .. lt + lr /\ ~(lt + i <= lt) /\ (lt + i) - lt = i
    BY <1>1
  <2>2. fmt[la + lt + i] = (t \o rest)[lt + i]
    BY <1>3, <2>1
  <2>3. QED
    BY <1>2, <2>1, <2>2
<1>6. \A k \in p .. stop - 1 : At(k) \notin {"%", NUL}
  <2> SUFFICES ASSUME NEW k \in p .. stop - 1 PROVE At(k) \notin {"%", NUL}
    OBVIOUS
  <2>1. k - la \in 1 .. lt /\ la + (k - la) = k
    BY <1>1
  <2>2. k \in 1 .. m /\ fmt[k] = t[k - la]
    BY <1>4, <2>1
  <2>3. k <= Len(fmt)
    BY <1>3, <2>2
  <2>4. At(k) = t[k - la]
    BY <2>2, <2>3, Zenon DEF At
  <2>5. \A i \in 1 .. lt : t[i] \notin {"%", NUL}
    BY DEF lt
  <2>6. QED
    BY <2>1, <2>4, <2>5, Zenon
<1>7. /\ rest = <<>> => At(stop) = NUL
      /\ rest # <<>> => At(stop) = "%"
  <2>1. CASE rest = <<>>
    <3>1. ~(stop <= Len(fmt))
      BY <1>1, <1>3, <2>1
    <3>2. QED
      BY <2>1, <3>1, Zenon DEF At
  <2>2. CASE rest # <<>>
    <3>1. 1 \in 1 .. lr /\ rest[1] = "%"
      BY <1>1, <2>2
    <3>2. stop \in 1 .. m /\ fmt[stop] = rest[1] /\ stop <= Len(fmt)
      BY <1>3, <1>5, <3>1
    <3>3. QED
      BY <2>2, <3>1, <3>2, Zenon DEF At
  <2>3. QED
    BY <2>1, <2>2
<1>8. /\ lr = 1 => At(stop + 1) = NUL
      /\ lr > 1 => At(stop + 1) = rest[2]
  <2>1. CASE lr = 1
    <3>1. ~(stop + 1 <= Len(fmt)) /\ ~(lr > 1)
      BY <1>1, <1>3, <2>1
    <3>2. QED
      BY <2>1, <3>1, Zenon DEF At
  <2>2. CASE lr > 1
    <3>1. 2 \in 1 .. lr /\ la + lt + 2 = stop + 1 /\ lr # 1
      BY <1>1, <2>2
    <3>2. fmt[stop + 1] = rest[2] /\ stop + 1 <= Len(fmt)
      BY <1>1, <1>3, <1>5, <3>1
    <3>3. QED
      BY <2>2, <3>1, <3>2, Zenon DEF At
  <2>3. QED
    BY <1>1, <2>1, <2>2
<1>9. NextStop(p) = stop
  <2> DEFINE ends == {k \in p .. Len(fmt) + 1 : At(k) \in {"%", NUL}}
  <2>1. stop \in p .. Len(fmt) + 1 /\ stop \in Nat
    BY <1>1, <1>3
  <2>2. At(stop) \in {"%", NUL}
    BY <1>7
  <2>3. stop \in ends
    BY <2>1, <2>2
  <2>4. \A l \in ends : stop <= l /\ l \in Int
    <3> SUFFICES ASSUME NEW l \in ends PROVE stop <= l /\ l \in Int
      OBVIOUS
    <3>1. l \in p .. Len(fmt) + 1 /\ At(l) \in {"%", NUL} /\ l \in Int
      BY <1>1, <1>3
    <3>2. l \notin p .. stop - 1
      BY <1>6, <3>1
    <3>3. QED
      BY <1>1, <3>1, <3>2
  <2>5. NextStop(p) = CHOOSE k \in ends : \A l \in ends : k <= l
    BY Zenon DEF NextStop
  <2> HIDE DEF ends, stop
  <2>6. \A k \in ends : (\A l \in ends : k <= l) => k = stop
    BY <2>1, <2>3, <2>4
  <2>7. QED
    BY <2>3, <2>4, <2>5, <2>6
<1>10. SubSeq(fmt, p, stop - 1) = t
  <2> DEFINE z == stop - 1
             w == SubSeq(fmt, p, z)
  <2>1. /\ p \in Int /\ z \in Int /\ z - p + 1 = lt /\ (p <= z <=> lt # 0)
        /\ (\A i \in p .. z : i \in 1 .. m) /\ \A i \in 1 .. lt : p + i - 1 = la + i
    BY <1>1
  <2>2. \A i \in p .. z : fmt[i] \in Symbols
    BY <1>3, <2>1, ElementOfSeq
  <2>3. w \in Seq(Symbols) /\ Len(w) = lt /\ \A i \in 1 .. lt : w[i] = t[i]
    <3> HIDE DEF p, z, fmt
    <3>1. /\ SubSeq(fmt, p, z) \in Seq(Symbols)
          /\ Len(SubSeq(fmt, p, z)) = IF p <= z THEN z - p + 1 ELSE 0
          /\ \A i \in 1 .. z - p + 1 : SubSeq(fmt, p, z)[i] = fmt[p + i - 1]
      BY <2>1, <2>2, SubSeqProperties
    <3>2. \A i \in 1 .. lt : fmt[la + i] = t[i]
      BY <1>4 DEF fmt
    <3>3. QED
      BY <1>1, <2>1, <3>1, <3>2
  <2> HIDE DEF w
  <2>4. Len(t) = lt
    BY DEF lt
  <2>5. w = t
    BY <2>3, <2>4, SeqEqual
  <2>6. QED
    BY <2>5 DEF w
<1>11. stop \in Nat /\ p \in Nat /\ stop + lr = Len(fmt) + 1
  BY <1>1, <1>3
<1>12. QED
  BY <1>7, <1>8, <1>9, <1>10, <1>11, Zenon DEF la, lt, lr

\* The items of a format: what is written, meant and passed for each
Writtens(f) == [k \in DOMAIN f |-> Written(f[k])]
Meants(f)   == [k \in DOMAIN f |-> Meant(f[k])]
Handed(f)   == [k \in DOMAIN f |-> Passed(f[k])]

LEMMA ItemIs ==
  ASSUME NEW f \in Texts
  PROVE  /\ Len(f) \in Nat /\ DOMAIN f = 1 .. Len(f)
         /\ \A k \in 1 .. Len(f) :
              /\ f[k].kind \in {"text", "percent", "alone", "conversion"}
              /\ f[k].d \in STRING /\ f[k].val \in Values /\ f[k].val.str \in Seq(STRING)
              /\ f[k].kind = "text" => \A i \in 1 .. Len(f[k].val.str) : f[k].val.str[i] \notin {"%", NUL}
              /\ f[k].kind = "alone" => k = Len(f)
              /\ f[k].kind = "conversion" => f[k].d \in Conversion
              /\ f[k].d = "c" => Len(f[k].val.str) = 1
<1> DEFINE Item == [kind : {"text", "percent", "alone", "conversion"}, d : STRING, val : Values]
<1>1. f \in Seq(Item)
  BY TextsAssumption, Zenon DEF Values
<1>2. Len(f) \in Nat /\ DOMAIN f = 1 .. Len(f) /\ \A k \in 1 .. Len(f) : f[k] \in Item
  <2> HIDE DEF Item
  <2>1. QED
    BY <1>1, LenProperties, ElementOfSeq
<1>3. ASSUME NEW k \in 1 .. Len(f)
      PROVE  /\ f[k].kind \in {"text", "percent", "alone", "conversion"}
             /\ f[k].d \in STRING /\ f[k].val \in Values /\ f[k].val.str \in Seq(STRING)
  <2>1. f[k] \in Item
    BY <1>2
  <2>2. f[k].kind \in {"text", "percent", "alone", "conversion"} /\ f[k].d \in STRING /\ f[k].val \in Values
    BY <2>1
  <2>3. f[k].val.str \in Seq(STRING)
    BY <2>2 DEF Values
  <2>4. QED
    BY <2>2, <2>3
<1>4. ASSUME NEW k \in 1 .. Len(f)
      PROVE  /\ f[k].kind = "text" => \A i \in 1 .. Len(f[k].val.str) : f[k].val.str[i] \notin {"%", NUL}
             /\ f[k].kind = "alone" => k = Len(f)
             /\ f[k].kind = "conversion" => f[k].d \in Conversion
             /\ f[k].d = "c" => Len(f[k].val.str) = 1
  <2>1. k \in DOMAIN f
    BY <1>2
  <2>2. DOMAIN f[k].val.str = 1 .. Len(f[k].val.str)
    BY <1>3, LenProperties
  <2>3. QED
    BY <2>1, <2>2, TextsAssumption, Zenon DEF Conversion
<1>5. QED
  BY <1>2, <1>3, <1>4, Zenon

LEMMA ItemParts ==
  ASSUME NEW f \in Texts, NEW k \in 1 .. Len(f)
  PROVE  /\ Written(f[k]) \in Seq(Symbols) /\ Meant(f[k]) \in Seq(Symbols)
         /\ Passed(f[k]) \in Seq(Values)
         /\ f[k].kind = "conversion" => Passed(f[k]) = <<f[k].val>>
         /\ f[k].kind # "conversion" => Passed(f[k]) = <<>>
<1> DEFINE item == f[k]
<1>1. /\ item.kind \in {"text", "percent", "alone", "conversion"}
      /\ item.d \in STRING /\ item.val \in Values /\ item.val.str \in Seq(STRING)
      /\ item.kind = "conversion" => item.d \in Conversion
      /\ item.d = "c" => Len(item.val.str) = 1
  BY ItemIs, Zenon
<1> HIDE DEF item
<1>2. item.val.str \in Seq(Symbols) /\ <<>> \in Seq(Symbols)
  BY <1>1, SeqMonotonic, EmptySeq DEF Symbols
<1>3. <<"%">> \in Seq(Symbols) /\ <<"%", "%">> \in Seq(Symbols)
  BY DEF Symbols, Glyph, Marks
<1>4. <<"%", item.d>> \in Seq(Symbols)
  <2>1. "%" \in Symbols /\ item.d \in Symbols
    BY <1>1 DEF Symbols, Glyph, Marks
  <2>2. QED
    BY <2>1
<1>5. item.kind = "conversion" => MeantBy(item.d, item.val) \in Seq(Symbols)
  BY <1>1, ConversionPut, Zenon
<1>6. Written(item) \in Seq(Symbols) /\ Meant(item) \in Seq(Symbols)
  <2>1. CASE item.kind = "text"
    BY <1>2, <2>1, KindArms, Zenon
  <2>2. CASE item.kind = "percent"
    BY <1>3, <2>2, KindArms, Zenon
  <2>3. CASE item.kind = "alone"
    BY <1>2, <1>3, <2>3, KindArms, Zenon
  <2>4. CASE item.kind = "conversion"
    BY <1>4, <1>5, <2>4, KindArms, Zenon
  <2>5. QED
    BY <1>1, <2>1, <2>2, <2>3, <2>4
<1>7. /\ item.kind = "conversion" => Passed(item) = <<item.val>>
      /\ item.kind # "conversion" => Passed(item) = <<>>
  BY Zenon DEF Passed
<1>8. Passed(item) \in Seq(Values)
  <2>1. <<item.val>> \in Seq(Values) /\ <<>> \in Seq(Values)
    BY <1>1, EmptySeq
  <2>2. QED
    BY <1>7, <2>1, Zenon
<1>9. QED
  BY <1>6, <1>7, <1>8, Zenon DEF item

LEMMA ItemsAre ==
  ASSUME NEW f \in Texts
  PROVE  /\ Writtens(f) \in Seq(Seq(Symbols)) /\ Len(Writtens(f)) = Len(f)
         /\ Meants(f) \in Seq(Seq(Symbols)) /\ Len(Meants(f)) = Len(f)
         /\ Handed(f) \in Seq(Seq(Values)) /\ Len(Handed(f)) = Len(f)
         /\ \A k \in 1 .. Len(f) : /\ Writtens(f)[k] = Written(f[k])
                                   /\ Meants(f)[k] = Meant(f[k])
                                   /\ Handed(f)[k] = Passed(f[k])
<1> DEFINE n == Len(f)
           w == [k \in 1 .. n |-> Written(f[k])]
           m == [k \in 1 .. n |-> Meant(f[k])]
           h == [k \in 1 .. n |-> Passed(f[k])]
<1>1. n \in Nat /\ DOMAIN f = 1 .. n
  BY ItemIs
<1>2. Writtens(f) = w /\ Meants(f) = m /\ Handed(f) = h
  BY <1>1, Zenon DEF Writtens, Meants, Handed
<1>3. \A k \in 1 .. n : /\ Written(f[k]) \in Seq(Symbols) /\ Meant(f[k]) \in Seq(Symbols)
                        /\ Passed(f[k]) \in Seq(Values)
  BY ItemParts
<1> HIDE DEF n
<1>4. w \in Seq(Seq(Symbols)) /\ Len(w) = n /\ \A k \in 1 .. n : w[k] = Written(f[k])
  BY <1>1, <1>3
<1>5. m \in Seq(Seq(Symbols)) /\ Len(m) = n /\ \A k \in 1 .. n : m[k] = Meant(f[k])
  BY <1>1, <1>3
<1>6. h \in Seq(Seq(Values)) /\ Len(h) = n /\ \A k \in 1 .. n : h[k] = Passed(f[k])
  BY <1>1, <1>3
<1> HIDE DEF w, m, h
<1>7. QED
  BY <1>2, <1>4, <1>5, <1>6, Zenon DEF n

\* One item more
LEMMA NextItem ==
  ASSUME NEW f \in Texts, NEW k \in 0 .. Len(f)
  PROVE  /\ Upto(Writtens(f), k) \in Seq(Symbols) /\ Upto(Meants(f), k) \in Seq(Symbols)
         /\ Upto(Handed(f), k) \in Seq(Values)
         /\ k < Len(f) =>
              /\ Upto(Writtens(f), k + 1) = Upto(Writtens(f), k) \o Written(f[k + 1])
              /\ Upto(Meants(f), k + 1) = Upto(Meants(f), k) \o Meant(f[k + 1])
              /\ Upto(Handed(f), k + 1) = Upto(Handed(f), k) \o Passed(f[k + 1])
<1> DEFINE w == Writtens(f)
           m == Meants(f)
           h == Handed(f)
<1>1. /\ w \in Seq(Seq(Symbols)) /\ Len(w) = Len(f) /\ m \in Seq(Seq(Symbols)) /\ Len(m) = Len(f)
      /\ h \in Seq(Seq(Values)) /\ Len(h) = Len(f)
      /\ \A i \in 1 .. Len(f) : w[i] = Written(f[i]) /\ m[i] = Meant(f[i]) /\ h[i] = Passed(f[i])
  BY ItemsAre, Zenon
<1> HIDE DEF w, m, h
<1>2. Upto(w, k) \in Seq(Symbols) /\ Upto(m, k) \in Seq(Symbols) /\ Upto(h, k) \in Seq(Values)
  BY <1>1, UptoIs, Zenon
<1>3. ASSUME k < Len(f)
      PROVE  /\ Upto(w, k + 1) = Upto(w, k) \o Written(f[k + 1])
             /\ Upto(m, k + 1) = Upto(m, k) \o Meant(f[k + 1])
             /\ Upto(h, k + 1) = Upto(h, k) \o Passed(f[k + 1])
  <2> DEFINE i == k + 1
  <2>1. i \in 1 .. Len(f) /\ i - 1 = k
    BY <1>3, ItemIs
  <2> HIDE DEF i
  <2>2. /\ Upto(w, i) = Upto(w, i - 1) \o w[i] /\ Upto(m, i) = Upto(m, i - 1) \o m[i]
        /\ Upto(h, i) = Upto(h, i - 1) \o h[i]
    BY <1>1, <2>1, UptoIs, Zenon
  <2>3. QED
    BY <1>1, <2>1, <2>2, Zenon DEF i
<1>4. QED
  BY <1>2, <1>3, Zenon DEF w, m, h

LEMMA SymbolsAssociative == \A a, b, c \in Seq(Symbols) : Associative(a, b, c)
BY AllAssociative, Zenon

\* From item j there is text t up to item k.
Run(f, j, k, t) ==
  /\ k \in j .. Len(f) /\ t \in Seq(Symbols) /\ \A i \in 1 .. Len(t) : t[i] \notin {"%", NUL}
  /\ Upto(Writtens(f), k) = Upto(Writtens(f), j) \o t
  /\ Upto(Meants(f), k) = Upto(Meants(f), j) \o t
  /\ Upto(Handed(f), k) = Upto(Handed(f), j)
  /\ \A i \in j + 1 .. k : f[i].kind = "text"

LEMMA RunStarts ==
  ASSUME NEW f \in Texts, NEW j \in 0 .. Len(f)
  PROVE  Run(f, j, j, <<>>)
<1>1. j \in j .. Len(f) /\ (\A i \in 1 .. 0 : FALSE) /\ (\A i \in j + 1 .. j : FALSE)
  BY ItemIs
<1>2. /\ Upto(Writtens(f), j) \in Seq(Symbols) /\ Upto(Meants(f), j) \in Seq(Symbols)
  BY NextItem, Zenon
<1>3. /\ Upto(Writtens(f), j) = Upto(Writtens(f), j) \o <<>>
      /\ Upto(Meants(f), j) = Upto(Meants(f), j) \o <<>>
  BY <1>2, ConcatEmptySeq
<1>4. <<>> \in Seq(Symbols) /\ Len(<<>>) = 0
  BY EmptySeq
<1>5. QED
  BY <1>1, <1>3, <1>4, Zenon DEF Run

LEMMA RunStep ==
  ASSUME NEW f \in Texts, NEW j \in 0 .. Len(f), NEW k, NEW t, Run(f, j, k, t),
         k < Len(f), f[k + 1].kind = "text"
  PROVE  Run(f, j, k + 1, t \o f[k + 1].val.str)
<1> DEFINE s == f[k + 1].val.str
           a == Upto(Writtens(f), j)
           b == Upto(Meants(f), j)
<1>1. /\ k \in j .. Len(f) /\ t \in Seq(Symbols) /\ (\A i \in 1 .. Len(t) : t[i] \notin {"%", NUL})
      /\ Upto(Writtens(f), k) = a \o t /\ Upto(Meants(f), k) = b \o t
      /\ Upto(Handed(f), k) = Upto(Handed(f), j)
      /\ \A i \in j + 1 .. k : f[i].kind = "text"
  BY Zenon DEF Run
<1>2. /\ k + 1 \in 1 .. Len(f) /\ k + 1 \in j .. Len(f) /\ k \in 0 .. Len(f)
      /\ \A i \in j + 1 .. k + 1 : i \in j + 1 .. k \/ i = k + 1
  BY <1>1, ItemIs
<1>3. s \in Seq(STRING) /\ \A i \in 1 .. Len(s) : s[i] \notin {"%", NUL}
  BY <1>2, ItemIs, Zenon
<1>4. s \in Seq(Symbols)
  BY <1>3, SeqMonotonic DEF Symbols
<1>5. a \in Seq(Symbols) /\ b \in Seq(Symbols) /\ Upto(Handed(f), k) \in Seq(Values)
  BY <1>2, NextItem, Zenon
<1>6. Written(f[k + 1]) = s /\ Meant(f[k + 1]) = s /\ Passed(f[k + 1]) = <<>>
  <2>1. "text" # "conversion"
    OBVIOUS
  <2>2. QED
    BY <1>2, <2>1, KindArms, ItemParts, Zenon
<1>7. /\ Upto(Writtens(f), k + 1) = (a \o t) \o s /\ Upto(Meants(f), k + 1) = (b \o t) \o s
      /\ Upto(Handed(f), k + 1) = Upto(Handed(f), k) \o <<>>
  BY <1>1, <1>2, <1>6, NextItem, Zenon
<1>8. Upto(Handed(f), k) \o <<>> = Upto(Handed(f), k)
  BY <1>5, ConcatEmptySeq
<1> HIDE DEF s, a, b
<1>9. Associative(a, t, s) /\ Associative(b, t, s)
  BY <1>1, <1>4, <1>5, SymbolsAssociative, Zenon
<1>10. (a \o t) \o s = a \o (t \o s) /\ (b \o t) \o s = b \o (t \o s)
  BY <1>9, Zenon DEF Associative
<1>11. t \o s \in Seq(Symbols) /\ \A i \in 1 .. Len(t \o s) : (t \o s)[i] \notin {"%", NUL}
  <2>1. /\ t \o s \in Seq(Symbols) /\ Len(t \o s) = Len(t) + Len(s)
        /\ \A i \in 1 .. Len(t) + Len(s) : (t \o s)[i] = IF i <= Len(t) THEN t[i] ELSE s[i - Len(t)]
    BY <1>1, <1>4, ConcatProperties
  <2>2. ASSUME NEW i \in 1 .. Len(t) + Len(s) PROVE (t \o s)[i] \notin {"%", NUL}
    <3>1. Len(t) \in Nat /\ Len(s) \in Nat
      BY <1>1, <1>4, LenProperties
    <3>2. CASE i <= Len(t)
      <4>1. i \in 1 .. Len(t)
        BY <3>1, <3>2
      <4>2. QED
        BY <1>1, <2>1, <3>2, <4>1, Zenon
    <3>3. CASE ~(i <= Len(t))
      <4>1. i - Len(t) \in 1 .. Len(s)
        BY <3>1, <3>3
      <4>2. QED
        BY <1>3, <2>1, <3>3, <4>1, Zenon
    <3>4. QED
      BY <3>2, <3>3
  <2>3. QED
    BY <2>1, <2>2, Zenon
<1>12. \A i \in j + 1 .. k + 1 : f[i].kind = "text"
  BY <1>1, <1>2, Zenon
<1>13. Run(f, j, k + 1, t \o s)
  BY <1>1, <1>2, <1>7, <1>8, <1>10, <1>11, <1>12, Zenon DEF Run, a, b
<1>14. QED
  BY <1>13 DEF s

\* It ends at the next directive, or at the end of the format.
LEMMA RunFound ==
  ASSUME NEW f \in Texts, NEW j \in 0 .. Len(f)
  PROVE  \E k, t : Run(f, j, k, t) /\ (k = Len(f) \/ (k < Len(f) /\ f[k + 1].kind # "text"))
<1> DEFINE Found(l) == \E k, t : /\ Run(f, j, k, t) /\ k <= j + l
                                 /\ k = j + l \/ (k < Len(f) /\ f[k + 1].kind # "text")
           T == {l \in Nat : j + l <= Len(f) => Found(l)}
<1>1. Len(f) \in Nat /\ j \in Nat /\ j <= Len(f)
  BY ItemIs
<1>2. 0 \in T
  <2>1. j <= j + 0 /\ j = j + 0
    BY <1>1
  <2>2. Run(f, j, j, <<>>)
    BY RunStarts
  <2>3. Found(0)
    BY <2>1, <2>2, Zenon
  <2>4. QED
    BY <2>3
<1>3. ASSUME NEW l \in Nat, l \in T PROVE l + 1 \in T
  <2> SUFFICES ASSUME j + (l + 1) <= Len(f) PROVE Found(l + 1)
    OBVIOUS
  <2>1. j + l <= Len(f) /\ j + l < Len(f) /\ j + l <= j + (l + 1) /\ (j + l) + 1 = j + (l + 1)
        /\ j + (l + 1) <= j + (l + 1)
    BY <1>1
  <2>2. PICK k, t : /\ Run(f, j, k, t) /\ k <= j + l
                    /\ k = j + l \/ (k < Len(f) /\ f[k + 1].kind # "text")
    BY <1>3, <2>1, Zenon
  <2>3. k \in Int /\ k <= j + (l + 1)
    BY <1>1, <2>2 DEF Run
  <2>4. CASE k < Len(f) /\ f[k + 1].kind # "text"
    BY <2>2, <2>3, <2>4, Zenon
  <2>5. CASE k = j + l /\ f[k + 1].kind = "text"
    <3>1. Run(f, j, k + 1, t \o f[k + 1].val.str)
      BY <2>1, <2>2, <2>5, RunStep, Zenon
    <3>2. k + 1 = j + (l + 1)
      BY <2>1, <2>5
    <3>3. QED
      BY <2>1, <3>1, <3>2, Zenon
  <2>6. CASE k = j + l /\ f[k + 1].kind # "text"
    <3>1. k < Len(f)
      BY <2>1, <2>6
    <3>2. QED
      BY <2>2, <2>3, <2>6, <3>1, Zenon
  <2>7. QED
    BY <2>2, <2>4, <2>5, <2>6
<1>4. \A l \in Nat : l \in T
  <2> HIDE DEF T
  <2>1. QED
    BY <1>2, <1>3, Induction, Zenon
<1>5. Found(Len(f) - j)
  <2>1. Len(f) - j \in Nat /\ j + (Len(f) - j) <= Len(f)
    BY <1>1
  <2> DEFINE l == Len(f) - j
  <2>2. l \in Nat /\ j + l <= Len(f)
    BY <2>1
  <2> HIDE DEF l, Found
  <2>3. Found(l)
    BY <1>4, <2>2
  <2>4. QED
    BY <2>3 DEF l
<1>6. j + (Len(f) - j) = Len(f)
  BY <1>1
<1>7. QED
  BY <1>5, <1>6, Zenon

-----------------------------------------------------------------------------
(* The invariant of a format: vprintf stands behind item j of it. *)

Behind(f, j) == /\ pos = Len(Upto(Writtens(f), j)) + 1
                /\ Aligned(f) => out = Upto(Meants(f), j)
                /\ (\A i \in 1 .. j : f[i].kind \notin {"percent", "alone"})
                     => taken = Len(Upto(Handed(f), j))

PrintInv == job.fn = "printf" =>
              /\ job.items \in Texts
              /\ job.fmt = FlattenSeq(Writtens(job.items))
              /\ job.args = FlattenSeq(Handed(job.items))
              /\ \E j \in 0 .. Len(job.items) : Behind(job.items, j)

PrintDone == job.fn = "done" /\ job.of.fn = "printf" /\ Aligned(job.of.items)
               => out = FlattenSeq(Meants(job.of.items))

\* What is written behind a run of text
LEMMA FormatRest ==
  ASSUME NEW f \in Texts, NEW j \in 0 .. Len(f), NEW k, NEW t, Run(f, j, k, t)
  PROVE  LET a == Upto(Writtens(f), j)
         IN  /\ k = Len(f) => FlattenSeq(Writtens(f)) = a \o (t \o <<>>)
             /\ k < Len(f) => \E r \in Seq(Symbols) :
                                 /\ FlattenSeq(Writtens(f)) = a \o (t \o (Written(f[k + 1]) \o r))
                                 /\ k + 1 = Len(f) => r = <<>>
<1> DEFINE W == Writtens(f)
           a == Upto(W, j)
           F == FlattenSeq(W)
<1>1. W \in Seq(Seq(Symbols)) /\ Len(W) = Len(f)
  BY ItemsAre
<1>2. /\ k \in 0 .. Len(f) /\ t \in Seq(Symbols) /\ Upto(W, k) = a \o t
      /\ k < Len(f) => k + 1 \in 1 .. Len(f) /\ k + 1 \in 0 .. Len(f)
  BY ItemIs DEF Run
<1>3. a \in Seq(Symbols) /\ Upto(W, Len(f)) = F
  BY <1>1, NextItem, UptoIs, Zenon
<1> HIDE DEF W, a, F
<1>4. k = Len(f) => F = a \o (t \o <<>>)
  <2>1. t \o <<>> = t
    BY <1>2, ConcatEmptySeq
  <2>2. QED
    BY <1>2, <1>3, <2>1
<1>5. ASSUME k < Len(f)
      PROVE  \E r \in Seq(Symbols) : /\ F = a \o (t \o (Written(f[k + 1]) \o r))
                                     /\ k + 1 = Len(f) => r = <<>>
  <2> DEFINE w == Written(f[k + 1])
  <2>1. k + 1 \in 1 .. Len(f) /\ k + 1 \in 0 .. Len(W)
    BY <1>1, <1>2, <1>5
  <2>2. w \in Seq(Symbols)
    BY <2>1, ItemParts, Zenon
  <2>3. Upto(W, k + 1) = (a \o t) \o w
    BY <1>2, <1>5, NextItem, Zenon DEF W
  <2>4. \E r \in Seq(Symbols) : F = Upto(W, k + 1) \o r /\ (k + 1 = Len(f) => r = <<>>)
    <3>1. CASE k + 1 = Len(f)
      <4>1. <<>> \in Seq(Symbols)
        BY EmptySeq
      <4>2. F = Upto(W, k + 1)
        BY <1>3, <3>1, Zenon
      <4>3. Upto(W, k + 1) \in Seq(Symbols)
        BY <1>1, <2>1, UptoIs, Zenon
      <4>4. Upto(W, k + 1) \o <<>> = Upto(W, k + 1)
        BY <4>3, ConcatEmptySeq
      <4>5. QED
        BY <4>1, <4>2, <4>4, Zenon
    <3>2. CASE k + 1 # Len(f)
      <4>1. \E r \in Seq(Symbols) : F = Upto(W, k + 1) \o r
        BY <1>1, <2>1, UptoIs, Zenon DEF F
      <4>2. QED
        BY <3>2, <4>1, Zenon
    <3>3. QED
      BY <3>1, <3>2
  <2>5. PICK r \in Seq(Symbols) : F = ((a \o t) \o w) \o r /\ (k + 1 = Len(f) => r = <<>>)
    BY <2>3, <2>4, Zenon
  <2> HIDE DEF w
  <2>6. a \o t \in Seq(Symbols) /\ w \o r \in Seq(Symbols)
    BY <1>2, <1>3, <2>2, ConcatProperties
  <2>7. Associative(a \o t, w, r) /\ Associative(a, t, w \o r)
    BY <1>2, <1>3, <2>2, <2>6, SymbolsAssociative, Zenon
  <2>8. ((a \o t) \o w) \o r = a \o (t \o (w \o r))
    BY <2>7, Zenon DEF Associative
  <2>9. QED
    BY <2>5, <2>8, Zenon DEF w
<1>6. QED
  BY <1>4, <1>5, Zenon DEF W, a, F

\* The argument passed for a conversion is behind those of the conversions
\* before it.
LEMMA ArgumentIs ==
  ASSUME NEW f \in Texts, NEW k \in 0 .. Len(f), k < Len(f), f[k + 1].kind = "conversion",
         job.args = FlattenSeq(Handed(f))
  PROVE  /\ Arg(Len(Upto(Handed(f), k)) + 1) = f[k + 1].val
         /\ Len(Upto(Handed(f), k + 1)) = Len(Upto(Handed(f), k)) + 1
<1> DEFINE H == Handed(f)
           u == Upto(H, k)
           val == f[k + 1].val
           v == <<val>>
           s == Upto(H, k + 1)
<1>1. H \in Seq(Seq(Values)) /\ Len(H) = Len(f)
  BY ItemsAre
<1>2. k + 1 \in 1 .. Len(f) /\ k + 1 \in 0 .. Len(H)
  BY <1>1, ItemIs
<1>3. u \in Seq(Values) /\ s = u \o v /\ v \in Seq(Values) /\ val \in Values
  <2>1. Passed(f[k + 1]) = v /\ val \in Values
    BY <1>2, ItemIs, ItemParts, Zenon
  <2>2. u \in Seq(Values) /\ s = u \o v
    BY <2>1, NextItem, Zenon
  <2>3. QED
    BY <2>1, <2>2
<1>4. PICK r \in Seq(Values) : job.args = s \o r
  BY <1>1, <1>2, UptoIs, Zenon
<1>5. Len(v) = 1 /\ v[1] = val
  OBVIOUS
<1> HIDE DEF u, v, s, val
<1>6. /\ s \in Seq(Values) /\ Len(s) = Len(u) + 1 /\ Len(u) \in Nat /\ s[Len(u) + 1] = val
  <2>1. /\ u \o v \in Seq(Values) /\ Len(u \o v) = Len(u) + Len(v)
        /\ \A i \in 1 .. Len(u) + Len(v) : (u \o v)[i] = IF i <= Len(u) THEN u[i] ELSE v[i - Len(u)]
    BY <1>3, ConcatProperties
  <2>2. /\ Len(u) \in Nat /\ Len(u) + 1 \in 1 .. Len(u) + Len(v) /\ ~(Len(u) + 1 <= Len(u))
        /\ (Len(u) + 1) - Len(u) = 1
    BY <1>3, <1>5, LenProperties
  <2>3. (u \o v)[Len(u) + 1] = v[1]
    BY <2>1, <2>2
  <2>4. QED
    BY <1>3, <1>5, <2>1, <2>2, <2>3
<1>7. Len(u) + 1 <= Len(job.args) /\ job.args[Len(u) + 1] = val
  <2>1. /\ Len(s \o r) = Len(s) + Len(r)
        /\ \A i \in 1 .. Len(s) + Len(r) : (s \o r)[i] = IF i <= Len(s) THEN s[i] ELSE r[i - Len(s)]
    BY <1>6, ConcatProperties
  <2>2. Len(r) \in Nat /\ Len(u) + 1 \in 1 .. Len(s) + Len(r) /\ Len(u) + 1 <= Len(s)
    BY <1>6, LenProperties
  <2>3. (s \o r)[Len(u) + 1] = s[Len(u) + 1]
    BY <2>1, <2>2
  <2>4. Len(u) + 1 <= Len(s \o r)
    BY <1>6, <2>1, <2>2
  <2>5. QED
    BY <1>4, <1>6, <2>3, <2>4, Zenon
<1>8. Arg(Len(u) + 1) = val
  BY <1>7, Zenon DEF Arg
<1>9. QED
  BY <1>6, <1>8 DEF u, s, val

LEMMA VprintfIs ==
  ASSUME vprintf
  PROVE  LET stop == NextStop(pos)
             text == out \o SubSeq(job.fmt, pos, stop - 1)
             d    == At(stop + 1)
         IN  /\ job.fn = "printf"
             /\ At(stop) = NUL => out' = text /\ job' = [fn |-> "done", of |-> job]
             /\ At(stop) # NUL => /\ out' = text \o Put(d, Arg(taken + 1))
                                  /\ taken' = taken + 1
                                  /\ pos' = IF d = NUL THEN stop + 1 ELSE stop + 2
                                  /\ job' = job
BY Zenon DEF vprintf, NextStop, Done

\* A directive behind a run of text takes vprintf behind its item.
LEMMA Directive ==
  ASSUME NEW f \in Texts, NEW j \in 0 .. Len(f), Behind(f, j),
         job.fmt = FlattenSeq(Writtens(f)), job.args = FlattenSeq(Handed(f)),
         NEW k, NEW t, Run(f, j, k, t), k < Len(f), f[k + 1].kind # "text", vprintf
  PROVE  k + 1 \in 0 .. Len(f) /\ Behind(f, k + 1)' /\ job' = job
<1> DEFINE a == Upto(Writtens(f), j)
           b == Upto(Meants(f), j)
           h == Upto(Handed(f), j)
           item == f[k + 1]
           w == Written(item)
<1>1. /\ k \in j .. Len(f) /\ t \in Seq(Symbols) /\ (\A i \in 1 .. Len(t) : t[i] \notin {"%", NUL})
      /\ Upto(Writtens(f), k) = a \o t /\ Upto(Meants(f), k) = b \o t /\ Upto(Handed(f), k) = h
      /\ \A i \in j + 1 .. k : f[i].kind = "text"
  BY Zenon DEF Run
<1>2. k + 1 \in 1 .. Len(f) /\ k + 1 \in 0 .. Len(f) /\ k \in 0 .. Len(f)
  BY <1>1, ItemIs
<1>3. a \in Seq(Symbols) /\ b \in Seq(Symbols) /\ w \in Seq(Symbols) /\ Meant(item) \in Seq(Symbols)
  BY <1>2, NextItem, ItemParts, Zenon
<1>4. PICK r \in Seq(Symbols) : /\ job.fmt = a \o (t \o (w \o r))
                                /\ k + 1 = Len(f) => r = <<>>
  <2>1. \E r \in Seq(Symbols) :
           /\ FlattenSeq(Writtens(f)) = Upto(Writtens(f), j) \o (t \o (Written(f[k + 1]) \o r))
           /\ k + 1 = Len(f) => r = <<>>
    <3> HIDE DEF a, b, h, item, w
    <3>1. QED
      BY FormatRest
  <2>2. QED
    BY <2>1, Zenon
<1>5. /\ item.kind \in {"percent", "alone", "conversion"}
      /\ item.kind = "alone" => k + 1 = Len(f)
      /\ item.kind = "conversion" => item.d \in Conversion
      /\ item.d = "c" => Len(item.val.str) = 1
      /\ item.val \in Values
  <2>1. /\ item.kind \in {"text", "percent", "alone", "conversion"} /\ item.kind # "text"
        /\ item.kind = "alone" => k + 1 = Len(f)
        /\ item.kind = "conversion" => item.d \in Conversion
        /\ item.d = "c" => Len(item.val.str) = 1
        /\ item.val \in Values
    BY <1>2, ItemIs, Zenon
  <2> HIDE DEF item
  <2>2. QED
    BY <2>1
<1>6. /\ item.kind = "percent" => w = <<"%", "%">> /\ Meant(item) = <<"%">>
      /\ item.kind = "alone" => w = <<"%">> /\ Meant(item) = <<>>
      /\ item.kind = "conversion" => w = <<"%", item.d>> /\ Meant(item) = MeantBy(item.d, item.val)
  BY KindArms, Zenon
<1>7. Upto(Writtens(f), k + 1) = (a \o t) \o w /\ Upto(Meants(f), k + 1) = (b \o t) \o Meant(item)
  BY <1>1, <1>2, NextItem, Zenon
<1> HIDE DEF a, b, h, item, w
<1> DEFINE d == IF item.kind = "percent" THEN "%" ELSE IF item.kind = "alone" THEN NUL ELSE item.d
           stop == Len(a) + Len(t) + 1
           rest == w \o r
\* What the scan finds
<1>8. /\ rest \in Seq(Symbols) /\ rest[1] = "%" /\ Len(w) \in {1, 2}
      /\ item.kind = "alone" => Len(w) = 1 /\ Len(rest) = 1
      /\ item.kind # "alone" => Len(w) = 2 /\ Len(rest) >= 2 /\ rest[2] = d /\ d # NUL
  <2>1. /\ rest \in Seq(Symbols) /\ Len(rest) = Len(w) + Len(r)
        /\ \A i \in 1 .. Len(w) + Len(r) : rest[i] = IF i <= Len(w) THEN w[i] ELSE r[i - Len(w)]
    BY <1>3, ConcatProperties
  <2>2. Len(r) \in Nat
    BY LenProperties
  <2>3. /\ Len(<<"%">>) = 1 /\ <<"%">>[1] = "%" /\ Len(<<>>) = 0
        /\ \A e : Len(<<"%", e>>) = 2 /\ <<"%", e>>[1] = "%" /\ <<"%", e>>[2] = e
    OBVIOUS
  <2> HIDE DEF rest
  <2>4. CASE item.kind = "alone"
    <3>1. Len(w) = 1 /\ w[1] = "%" /\ Len(r) = 0
      BY <1>4, <1>5, <1>6, <2>3, <2>4, Zenon
    <3>2. Len(rest) = 1 /\ rest[1] = "%"
      BY <2>1, <3>1
    <3>3. QED
      BY <2>1, <2>4, <3>1, <3>2
  <2>5. CASE item.kind # "alone"
    <3>1. w = <<"%", d>>
      BY <1>5, <1>6, <2>5
    <3>2. Len(w) = 2 /\ w[1] = "%" /\ w[2] = d
      BY <2>3, <3>1, Zenon
    <3>3. Len(rest) >= 2 /\ rest[1] = "%" /\ rest[2] = d
      BY <2>1, <2>2, <3>2
    <3>4. d # NUL
      BY <1>5, <2>5 DEF Conversion, NUL
    <3>5. QED
      BY <2>1, <2>5, <3>2, <3>3, <3>4
  <2>6. QED
    BY <2>4, <2>5
<1>9. /\ pos = Len(a) + 1
      /\ Aligned(f) => out = b
      /\ (\A i \in 1 .. j : f[i].kind \notin {"percent", "alone"}) => taken = Len(h)
  BY Zenon DEF Behind, a, b, h
<1> HIDE DEF d, stop, rest
<1>10. /\ stop \in Nat /\ NextStop(pos) = stop /\ SubSeq(job.fmt, pos, stop - 1) = t
       /\ At(stop) = "%" /\ At(stop + 1) = d
  <2>1. rest # <<>> /\ job.fmt = a \o (t \o rest) /\ (Len(rest) > 1 \/ Len(rest) = 1)
    <3>1. Len(rest) > 1 \/ Len(rest) = 1
      BY <1>8
    <3>2. rest # <<>>
      BY <3>1, EmptySeq
    <3>3. QED
      BY <1>4, <3>1, <3>2 DEF rest
  <2>2. /\ stop \in Nat /\ NextStop(Len(a) + 1) = stop /\ SubSeq(job.fmt, Len(a) + 1, stop - 1) = t
        /\ At(stop) = "%"
        /\ Len(rest) = 1 => At(stop + 1) = NUL
        /\ Len(rest) > 1 => At(stop + 1) = rest[2]
    <3>1. /\ a \in Seq(Symbols) /\ t \in Seq(Symbols) /\ rest \in Seq(Symbols)
          /\ job.fmt = a \o (t \o rest) /\ (\A i \in 1 .. Len(t) : t[i] \notin {"%", NUL})
          /\ (rest = <<>> \/ rest[1] = "%") /\ rest # <<>>
      BY <1>1, <1>3, <1>8, <2>1, Zenon
    <3>2. /\ Len(a) + Len(t) + 1 \in Nat /\ NextStop(Len(a) + 1) = Len(a) + Len(t) + 1
          /\ SubSeq(job.fmt, Len(a) + 1, (Len(a) + Len(t) + 1) - 1) = t
          /\ At(Len(a) + Len(t) + 1) = "%"
          /\ Len(rest) = 1 => At(Len(a) + Len(t) + 1 + 1) = NUL
          /\ Len(rest) > 1 => At(Len(a) + Len(t) + 1 + 1) = rest[2]
      BY <3>1, Scan, Zenon
    <3>3. QED
      BY <3>2, Zenon DEF stop
  <2>3. Len(rest) = 1 => item.kind = "alone"
    BY <1>8
  <2>4. item.kind = "alone" => d = NUL /\ Len(rest) = 1
    BY <1>8 DEF d
  <2>5. item.kind # "alone" => Len(rest) > 1 /\ rest[2] = d
    BY <1>8
  <2>6. At(stop + 1) = d
    BY <2>2, <2>4, <2>5, Zenon
  <2>7. QED
    BY <1>9, <2>2, <2>6, Zenon
<1>11. /\ out' = (out \o t) \o Put(d, Arg(taken + 1)) /\ taken' = taken + 1
       /\ pos' = IF d = NUL THEN stop + 1 ELSE stop + 2
       /\ job' = job
  <2>1. At(stop) # NUL
    BY <1>10 DEF NUL
  <2>2. QED
    BY <1>10, <2>1, VprintfIs, Zenon
\* The position behind the item
<1>12. pos' = Len(Upto(Writtens(f), k + 1)) + 1
  <2>1. /\ a \o t \in Seq(Symbols) /\ Len(a \o t) = Len(a) + Len(t)
    BY <1>1, <1>3, ConcatProperties
  <2>2. Len((a \o t) \o w) = Len(a \o t) + Len(w)
    BY <1>3, <2>1, ConcatProperties
  <2>3. Len(a) \in Nat /\ Len(t) \in Nat
    BY <1>1, <1>3, LenProperties
  <2>4. d = NUL <=> item.kind = "alone"
    BY <1>8 DEF d
  <2>5. pos' = stop + Len(w)
    BY <1>8, <1>10, <1>11, <2>4
  <2>6. stop + Len(w) = (Len(a) + Len(t) + Len(w)) + 1
    BY <1>8, <2>3 DEF stop
  <2>7. QED
    BY <1>7, <2>1, <2>2, <2>5, <2>6
\* Nothing but text and conversions is in front of a conversion.
<1>13. ASSUME item.kind = "conversion", \A i \in 1 .. k : f[i].kind # "percent"
       PROVE  taken = Len(h) /\ Arg(taken + 1) = item.val
              /\ Len(Upto(Handed(f), k + 1)) = taken + 1
  <2>1. ASSUME NEW i \in 1 .. j PROVE f[i].kind \notin {"percent", "alone"}
    <3>1. i \in 1 .. Len(f) /\ i \in 1 .. k /\ i # Len(f)
      BY <1>1, <1>2
    <3>2. f[i].kind # "alone"
      BY <3>1, ItemIs, Zenon
    <3>3. QED
      BY <1>13, <3>1, <3>2
  <2>2. taken = Len(h)
    BY <1>9, <2>1, Zenon
  <2>3. /\ Arg(Len(Upto(Handed(f), k)) + 1) = f[k + 1].val
        /\ Len(Upto(Handed(f), k + 1)) = Len(Upto(Handed(f), k)) + 1
    BY <1>2, <1>13, ArgumentIs, Zenon DEF item
  <2>4. QED
    BY <1>1, <2>2, <2>3, Zenon DEF item
<1>14. (Aligned(f) => out = Upto(Meants(f), k + 1))'
  <2> SUFFICES ASSUME Aligned(f) PROVE out' = Upto(Meants(f), k + 1)
    BY Zenon DEF Aligned
  <2>1. Put(d, Arg(taken + 1)) = Meant(item)
    <3>1. CASE item.kind = "percent"
      <4>1. d = "%"
        BY <3>1 DEF d
      <4>2. QED
        BY <1>6, <3>1, <4>1, PutArms, Zenon
    <3>2. CASE item.kind = "alone"
      <4>1. d = NUL
        BY <3>2 DEF d
      <4>2. QED
        BY <1>6, <3>2, <4>1, PutArms, Zenon
    <3>3. CASE item.kind = "conversion"
      <4>1. d = item.d
        BY <3>3 DEF d
      <4>2. ASSUME NEW i \in 1 .. k PROVE f[i].kind # "percent"
        <5>1. i \in DOMAIN f /\ k + 1 \in DOMAIN f /\ i < k + 1
          BY <1>1, <1>2, ItemIs
        <5>2. QED
          BY <3>3, <5>1, Zenon DEF Aligned, item
      <4>3. Arg(taken + 1) = item.val
        BY <1>13, <3>3, <4>2, Zenon
      <4>4. Put(item.d, item.val) = MeantBy(item.d, item.val)
        BY <1>5, <3>3, ConversionPut, Zenon
      <4>5. QED
        BY <1>6, <3>3, <4>1, <4>3, <4>4, Zenon
    <3>4. QED
      BY <1>5, <3>1, <3>2, <3>3
  <2>2. QED
    BY <1>7, <1>9, <1>11, <2>1, Zenon
<1>15. ((\A i \in 1 .. k + 1 : f[i].kind \notin {"percent", "alone"})
          => taken = Len(Upto(Handed(f), k + 1)))'
  <2> SUFFICES ASSUME \A i \in 1 .. k + 1 : f[i].kind \notin {"percent", "alone"}
               PROVE  taken' = Len(Upto(Handed(f), k + 1))
    OBVIOUS
  <2>1. item.kind = "conversion" /\ \A i \in 1 .. k : f[i].kind # "percent"
    <3>1. k + 1 \in 1 .. k + 1 /\ \A i \in 1 .. k : i \in 1 .. k + 1
      BY <1>2
    <3>2. f[k + 1].kind \notin {"percent", "alone"} /\ \A i \in 1 .. k : f[i].kind # "percent"
      BY <3>1
    <3>3. QED
      BY <1>5, <3>2 DEF item
  <2>2. QED
    BY <1>11, <1>13, <2>1, Zenon
<1>16. QED
  BY <1>2, <1>11, <1>12, <1>14, <1>15, Zenon DEF Behind

\* Behind the last item the format is at its end.
LEMMA FormatEnds ==
  ASSUME NEW f \in Texts, NEW j \in 0 .. Len(f), Behind(f, j), job.fmt = FlattenSeq(Writtens(f)),
         NEW t, Run(f, j, Len(f), t), vprintf
  PROVE  job' = [fn |-> "done", of |-> job] /\ (Aligned(f) => out' = FlattenSeq(Meants(f)))
<1> DEFINE a == Upto(Writtens(f), j)
           b == Upto(Meants(f), j)
           stop == Len(a) + Len(t) + 1
<1>1. /\ t \in Seq(Symbols) /\ (\A i \in 1 .. Len(t) : t[i] \notin {"%", NUL})
      /\ Upto(Meants(f), Len(f)) = b \o t
  BY Zenon DEF Run
<1>2. a \in Seq(Symbols) /\ <<>> \in Seq(Symbols)
  BY NextItem, EmptySeq
<1>3. job.fmt = a \o (t \o <<>>)
  BY FormatRest
<1>4. NextStop(Len(a) + 1) = stop /\ SubSeq(job.fmt, Len(a) + 1, stop - 1) = t /\ At(stop) = NUL
  <2> HIDE DEF a
  <2>1. QED
    BY <1>1, <1>2, <1>3, Scan, Zenon
<1>5. pos = Len(a) + 1 /\ (Aligned(f) => out = b)
  BY Zenon DEF Behind
<1>6. Upto(Meants(f), Len(f)) = FlattenSeq(Meants(f))
  BY ItemsAre, UptoIs, Zenon
<1> HIDE DEF a, b, stop
<1>7. out' = out \o t /\ job' = [fn |-> "done", of |-> job]
  BY <1>4, <1>5, VprintfIs, Zenon
<1>8. QED
  BY <1>1, <1>5, <1>6, <1>7, Zenon

LEMMA VprintfStep == ASSUME PrintInv, vprintf PROVE PrintInv' /\ PrintDone'
<1>1. job.fn = "printf"
  BY VprintfIs, Zenon
<1>2. PICK f \in Texts : /\ job.items = f
                         /\ job.fmt = FlattenSeq(Writtens(f)) /\ job.args = FlattenSeq(Handed(f))
                         /\ \E j \in 0 .. Len(f) : Behind(f, j)
  BY <1>1, Zenon DEF PrintInv
<1>3. PICK j \in 0 .. Len(f) : Behind(f, j)
  BY <1>2, Zenon
<1>4. PICK k, t : Run(f, j, k, t) /\ (k = Len(f) \/ (k < Len(f) /\ f[k + 1].kind # "text"))
  BY RunFound, Zenon
<1>5. CASE k = Len(f)
  <2>1. job' = [fn |-> "done", of |-> job] /\ (Aligned(f) => out' = FlattenSeq(Meants(f)))
    BY <1>2, <1>3, <1>4, <1>5, FormatEnds, Zenon
  <2>2. job'.fn = "done" /\ job'.of = job
    BY <2>1
  <2>3. "done" # "printf"
    OBVIOUS
  <2>4. QED
    BY <1>2, <2>1, <2>2, <2>3, Zenon DEF PrintInv, PrintDone
<1>6. CASE k < Len(f) /\ f[k + 1].kind # "text"
  <2>1. k + 1 \in 0 .. Len(f) /\ Behind(f, k + 1)' /\ job' = job
    BY <1>2, <1>3, <1>4, <1>6, Directive, Zenon
  <2>2. "done" # "printf"
    OBVIOUS
  <2>3. \E l \in 0 .. Len(f) : Behind(f, l)'
    BY <2>1, Zenon
  <2>4. PrintInv'
    BY <1>2, <2>1, <2>3, Zenon DEF PrintInv
  <2>5. PrintDone'
    BY <1>1, <2>1, <2>2, Zenon DEF PrintDone
  <2>6. QED
    BY <2>4, <2>5
<1>7. QED
  BY <1>4, <1>5, <1>6

LEMMA PrintfStep == ASSUME NEW f \in Texts, printf(f) PROVE PrintInv' /\ PrintDone'
<1>1. /\ job'.fn = "printf" /\ job'.items = f /\ job'.fmt = FlattenSeq(Writtens(f))
      /\ job'.args = FlattenSeq(Handed(f)) /\ pos' = 1 /\ taken' = 0 /\ out' = <<>>
  <2>1. job' = [fn |-> "printf", items |-> f, fmt |-> FlattenSeq(Writtens(f)),
                args |-> FlattenSeq(Handed(f))] /\ pos' = 1 /\ taken' = 0 /\ out' = <<>>
    BY Zenon DEF printf, Writtens, Handed
  <2>2. QED
    BY <2>1
<1>2. Upto(Writtens(f), 0) = <<>> /\ Upto(Meants(f), 0) = <<>> /\ Upto(Handed(f), 0) = <<>>
  BY ItemsAre, UptoIs, Zenon
<1>3. Len(<<>>) = 0 /\ 0 + 1 = 1 /\ 0 \in 0 .. Len(f) /\ "done" # "printf"
  BY ItemIs
<1>4. Behind(f, 0)'
  <2>1. pos' = Len(Upto(Writtens(f), 0)) + 1 /\ taken' = Len(Upto(Handed(f), 0))
        /\ out' = Upto(Meants(f), 0)
    BY <1>1, <1>2, <1>3, Zenon
  <2>2. QED
    BY <2>1, Zenon DEF Behind
<1>5. QED
  BY <1>1, <1>3, <1>4, Zenon DEF PrintInv, PrintDone

\* The format is not read behind its terminator.
LEMMA PrintInBounds == ASSUME PrintInv, job.fn = "printf" PROVE pos <= Len(job.fmt) + 1
<1>1. PICK f \in Texts : job.fmt = FlattenSeq(Writtens(f)) /\ \E j \in 0 .. Len(f) : Behind(f, j)
  BY Zenon DEF PrintInv
<1>2. PICK j \in 0 .. Len(f) : Behind(f, j)
  BY <1>1, Zenon
<1>3. Writtens(f) \in Seq(Seq(Symbols)) /\ Len(Writtens(f)) = Len(f)
  BY ItemsAre, Zenon
<1> DEFINE a == Upto(Writtens(f), j)
<1>4. a \in Seq(Symbols)
  BY NextItem, Zenon
<1>5. PICK rest \in Seq(Symbols) : job.fmt = a \o rest
  <2>1. Writtens(f) \in Seq(Seq(Symbols)) /\ j \in 0 .. Len(Writtens(f))
    BY <1>3
  <2>2. \E rest \in Seq(Symbols) : FlattenSeq(Writtens(f)) = Upto(Writtens(f), j) \o rest
    BY <2>1, UptoIs, Zenon
  <2>3. QED
    BY <1>1, <2>2, Zenon
<1>6. pos = Len(a) + 1
  BY <1>2, Zenon DEF Behind
<1> HIDE DEF a
<1>7. Len(a \o rest) = Len(a) + Len(rest) /\ Len(a) \in Nat /\ Len(rest) \in Nat
  BY <1>4, ConcatProperties, LenProperties
<1>8. QED
  BY <1>5, <1>6, <1>7

\* Every directive is given the argument that was passed for it and prints its
\* value, in every base no numeral loses or gains a digit, and the format is never
\* read behind its terminator, for every format and words of 16 to 32 bits
\* (tty.c:53-97, string.c:3-42).
THEOREM PrintsWhatIsMeantHolds == FormatSpec => []PrintsWhatIsMeant
<1> DEFINE IInv == PrintInv /\ PrintDone
<1>1. FormatInit => IInv
  BY DEF FormatInit, NoJob, PrintInv, PrintDone
<1>2. IInv /\ [FormatNext]_formatVars => IInv'
  <2> SUFFICES ASSUME PrintInv, PrintDone, [FormatNext]_formatVars PROVE IInv'
    OBVIOUS
  <2>1. ASSUME NEW f \in Texts, printf(f) PROVE IInv'
    BY <2>1, PrintfStep
  <2>2. ASSUME NEW b \in Blocks, hexdump(b) PROVE IInv'
    <3>1. job'.fn = "hexdump" \/ (job'.fn = "done" /\ job'.of.fn = "hexdump")
      BY <2>2 DEF hexdump
    <3>2. job'.fn # "printf" /\ (job'.fn = "done" => job'.of.fn # "printf")
      BY <3>1
    <3>3. QED
      BY <3>2, Zenon DEF PrintInv, PrintDone
  <2>3. CASE vprintf
    BY <2>3, VprintfStep
  <2>4. CASE DumpByte
    <3>1. job'.fn # "printf" /\ job'.fn # "done"
      BY <2>4 DEF DumpByte
    <3>2. QED
      BY <3>1, Zenon DEF PrintInv, PrintDone
  <2>5. CASE DumpEnd
    <3>1. job'.fn # "printf" /\ job'.of.fn # "printf"
      BY <2>5 DEF DumpEnd, Done
    <3>2. QED
      BY <3>1, Zenon DEF PrintInv, PrintDone
  <2>6. CASE UNCHANGED formatVars
    <3>1. job' = job /\ pos' = pos /\ out' = out /\ taken' = taken
      BY <2>6 DEF formatVars
    <3>2. QED
      BY <3>1, Zenon DEF PrintInv, PrintDone, Behind
  <2>7. QED
    BY <2>1, <2>2, <2>3, <2>4, <2>5, <2>6 DEF FormatNext
<1>3. IInv => PrintsWhatIsMeant
  BY PrintInBounds, Zenon DEF PrintDone, PrintsWhatIsMeant, Meants
<1>4. QED
  BY <1>1, <1>2, <1>3, PTL DEF FormatSpec

=============================================================================
