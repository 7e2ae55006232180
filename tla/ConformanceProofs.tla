------------------------- MODULE ConformanceProofs -------------------------
(***************************************************************************)
(* That the datapath gives an instruction its meaning, for all operands.   *)
(*                                                                         *)
(* Isa states meanings on pairs of 16-bit numbers, the design works on     *)
(* bits.  The first half of this module is the bridge between the two: the *)
(* words the halves stand for, the adder's carries, the comparisons, the   *)
(* extensions, and the fields of an encoded instruction.  The second half  *)
(* follows one instruction through decoder, ALU and write-back muxes, one  *)
(* class of mnemonics after the other, and ends in the theorems.           *)
(***************************************************************************)
EXTENDS Conformance, DatapathProofs, WellFoundedInduction

-----------------------------------------------------------------------------
(* Numbers of sixteen bits and their positions.                            *)

\* The values of a half word
Numbers == {n \in Nat : n < 65536}

\* Division by a positive number leaves a remainder below it,
LEMMA Division ==
  ASSUME NEW p \in Nat \ {0}, NEW n \in Nat
  PROVE  n \div p \in Nat /\ n - p * (n \div p) \in 0 .. p - 1
OBVIOUS

\* a quotient is found by its multiple and remainder,
LEMMA Quotient ==
  ASSUME NEW p \in Nat \ {0}, NEW q \in Nat, NEW r \in 0 .. p - 1
  PROVE  (p * q + r) \div p = q
OBVIOUS

\* and dividing by twice p is dividing by p and then by two.
LEMMA HalfOfQuotient ==
  ASSUME NEW p \in Nat \ {0}, NEW n \in Nat
  PROVE  n \div (2 * p) = (n \div p) \div 2
<1> DEFINE q == n \div p
           r == n - p * q
           h == q \div 2
           b == q % 2
<1>1. q \in Nat /\ r \in 0 .. p - 1 /\ n = p * q + r
  <2>1. q \in Nat /\ r \in 0 .. p - 1
    BY Division
  <2>2. QED
    BY <2>1
<1>2. h \in Nat /\ b \in 0 .. 1 /\ q = 2 * h + b
  BY <1>1
<1> HIDE DEF q, r, h, b
<1>3. p * q = (2 * p) * h + p * b
  <2>1. p * q = p * (2 * h) + p * b
    BY <1>2
  <2>2. QED
    BY <2>1, <1>2
<1>4. p * b + r \in 0 .. 2 * p - 1
  BY <1>1, <1>2
<1>5. 2 * p \in Nat \ {0} /\ n = (2 * p) * h + (p * b + r)
  BY <1>1, <1>2, <1>3, <1>4
<1>6. n \div (2 * p) = h
  BY <1>2, <1>4, <1>5, Quotient
<1>7. QED
  BY <1>6 DEF h, q

\* The positions i and above of n
From(n, i) == n \div Weight[i + 1]

\* Each position of a half word weighs twice the one below.
LEMMA Weights ==
  /\ \A i \in 0 .. 15 : Weight[i + 1] \in Nat \ {0}
  /\ \A i \in 0 .. 14 : Weight[i + 2] = 2 * Weight[i + 1]
  /\ Weight[1] = 1 /\ Weight[16] = 32768
BY DEF Weight

\* A number from position i on is twice itself from i + 1 on, and its bit i.
LEMMA BitBelow ==
  ASSUME NEW n \in Nat, NEW i \in 0 .. 14
  PROVE  From(n, i) = 2 * From(n, i + 1) + BitOf(n, i) /\ From(n, i) \in Nat
<1>1. Weight[i + 1] \in Nat \ {0} /\ Weight[i + 2] = 2 * Weight[i + 1]
  BY Weights
<1>2. From(n, i) \in Nat
  BY <1>1, Division DEF From
<1>3. From(n, i + 1) = From(n, i) \div 2
  <2>1. From(n, i + 1) = n \div (2 * Weight[i + 1])
    BY <1>1 DEF From
  <2>2. QED
    BY <2>1, <1>1, HalfOfQuotient DEF From
<1>4. BitOf(n, i) = high_if(From(n, i) % 2 = 1)
  BY DEF BitOf, From
<1>5. QED
  BY <1>2, <1>3, <1>4 DEF high_if

\* The same for five positions at once, the width of a register field
LEMMA FiveBits ==
  ASSUME NEW n \in Nat, NEW i \in 0 .. 10
  PROVE  From(n, i) = BitOf(n, i) + 2 * BitOf(n, i + 1) + 4 * BitOf(n, i + 2) + 8 * BitOf(n, i + 3)
                        + 16 * BitOf(n, i + 4) + 32 * From(n, i + 5)
<1>1. ASSUME NEW j \in 0 .. 15 PROVE BitOf(n, j) \in 0 .. 1 /\ From(n, j) \in Nat
  <2>1. Weight[j + 1] \in Nat \ {0}
    BY Weights
  <2>2. QED
    <3>1. From(n, j) \in Nat
      BY <2>1, Division DEF From
    <3>2. BitOf(n, j) \in 0 .. 1
      BY DEF BitOf, high_if
    <3> QED
      BY <3>1, <3>2
<1>2. \A j \in 0 .. 14 : From(n, j) = 2 * From(n, j + 1) + BitOf(n, j)
  BY BitBelow
<1>3. From(n, i) = 2 * From(n, i + 1) + BitOf(n, i)
  BY <1>2
<1>4. From(n, i + 1) = 2 * From(n, i + 2) + BitOf(n, i + 1)
  <2>1. i + 1 \in 0 .. 14 /\ (i + 1) + 1 = i + 2
    OBVIOUS
  <2>2. QED
    BY <2>1, <1>2
<1>5. From(n, i + 2) = 2 * From(n, i + 3) + BitOf(n, i + 2)
  <2>1. i + 2 \in 0 .. 14 /\ (i + 2) + 1 = i + 3
    OBVIOUS
  <2>2. QED
    BY <2>1, <1>2
<1>6. From(n, i + 3) = 2 * From(n, i + 4) + BitOf(n, i + 3)
  <2>1. i + 3 \in 0 .. 14 /\ (i + 3) + 1 = i + 4
    OBVIOUS
  <2>2. QED
    BY <2>1, <1>2
<1>7. From(n, i + 4) = 2 * From(n, i + 5) + BitOf(n, i + 4)
  <2>1. i + 4 \in 0 .. 14 /\ (i + 4) + 1 = i + 5
    OBVIOUS
  <2>2. QED
    BY <2>1, <1>2
<1>8. QED
  BY <1>1, <1>3, <1>4, <1>5, <1>6, <1>7

\* A number below 2^16 is that of its bits, wherever in a word they stand.
LEMMA BitsSum ==
  ASSUME NEW n \in Numbers, NEW w \in Word, NEW lo \in {0, 16},
         \A i \in 0 .. 15 : w[lo + i] = BitOf(n, i)
  PROVE  Number(w, lo) = n
<1>1. n \in Nat
  BY DEF Numbers
<1>2. From(n, 0) = n
  BY <1>1, Weights DEF From
<1>3. From(n, 15) = BitOf(n, 15)
  <2>1. n \div 32768 \in 0 .. 1
    BY DEF Numbers
  <2>2. QED
    BY <2>1, Weights DEF From, BitOf, high_if
<1>4. From(n, 0) = Field5(w, lo) + 32 * From(n, 5)
  BY <1>1, FiveBits DEF Field5
<1>5. From(n, 5) = Field5(w, lo + 5) + 32 * From(n, 10)
  BY <1>1, FiveBits DEF Field5
<1>6. From(n, 10) = Field6(w, lo + 10)
  BY <1>1, <1>3, FiveBits DEF Field6, Field5
<1>7. Field5(w, lo) \in Nat /\ Field5(w, lo + 5) \in Nat /\ Field6(w, lo + 10) \in Nat
  <2>1. \A i \in 0 .. 31 : w[i] \in 0 .. 1
    BY DEF Word, Bit
  <2>2. \A i \in 0 .. 26 : Field5(w, i) \in Nat
    <3> SUFFICES ASSUME NEW i \in 0 .. 26 PROVE Field5(w, i) \in Nat
      OBVIOUS
    <3>1. w[i] \in 0 .. 1 /\ w[i + 1] \in 0 .. 1 /\ w[i + 2] \in 0 .. 1 /\ w[i + 3] \in 0 .. 1 /\ w[i + 4] \in 0 .. 1
      BY <2>1
    <3> QED
      BY <3>1 DEF Field5
  <2>3. w[lo + 15] \in 0 .. 1 /\ lo \in 0 .. 26 /\ lo + 5 \in 0 .. 26 /\ lo + 10 \in 0 .. 26 /\ (lo + 10) + 5 = lo + 15
    BY <2>1
  <2> QED
    BY <2>2, <2>3 DEF Field6
<1>8. QED
  BY <1>1, <1>2, <1>4, <1>5, <1>6, <1>7 DEF Number

\* The positions of a word hold bits.
LEMMA BitOfWord ==
  ASSUME NEW w \in Word
  PROVE  \A i \in 0 .. 31 : w[i] \in 0 .. 1
BY DEF Word, Bit

\* Two words that agree in a number of which the five lowest positions are a
\* field agree in these positions and in the rest.
LEMMA SameFive ==
  ASSUME NEW v \in Word, NEW w \in Word, NEW l \in 0 .. 27, NEW k \in 0 .. 27,
         NEW p \in Int, NEW q \in Int, Field5(v, l) + 32 * p = Field5(w, k) + 32 * q
  PROVE  /\ \A i \in 0 .. 4 : v[l + i] = w[k + i]
         /\ p = q
<1> DEFINE a(i) == v[l + i]
           b(i) == w[k + i]
<1>1. \A i \in 0 .. 4 : a(i) \in 0 .. 1 /\ b(i) \in 0 .. 1
  BY BitOfWord
<1>2. a(0) + 2 * a(1) + 4 * a(2) + 8 * a(3) + 16 * a(4) + 32 * p
        = b(0) + 2 * b(1) + 4 * b(2) + 8 * b(3) + 16 * b(4) + 32 * q
  BY DEF Field5
<1> HIDE DEF a, b
<1>3. a(0) = b(0) /\ a(1) = b(1) /\ a(2) = b(2) /\ a(3) = b(3) /\ a(4) = b(4) /\ p = q
  BY <1>1, <1>2
<1>4. \A i \in 0 .. 4 : a(i) = b(i)
  BY <1>3
<1>5. QED
  BY <1>3, <1>4 DEF a, b

\* A half is three fields of five bits and one bit.
LEMMA NumberOfFields ==
  ASSUME NEW w \in Word, NEW l \in {0, 16}
  PROVE  /\ Field5(w, l) \in 0 .. 31 /\ Field5(w, l + 5) \in 0 .. 31
         /\ Field5(w, l + 10) \in 0 .. 31 /\ w[l + 15] \in 0 .. 1
         /\ Number(w, l) = Field5(w, l)
              + 32 * (Field5(w, l + 5) + 32 * (Field5(w, l + 10) + 32 * w[l + 15]))
         /\ Number(w, l) \in Numbers
<1>1. Field5(w, l) \in 0 .. 31 /\ Field5(w, l + 5) \in 0 .. 31 /\ Field5(w, l + 10) \in 0 .. 31
  BY Fields DEF Reg
<1>2. w[l + 15] \in 0 .. 1
  BY BitOfWord
<1>3. Field6(w, l + 10) = Field5(w, l + 10) + 32 * w[l + 15]
  BY DEF Field6
<1>4. Number(w, l) = Field5(w, l) + 32 * Field5(w, l + 5) + 1024 * Field6(w, l + 10)
  BY DEF Number
<1> DEFINE a == Field5(w, l)
           b == Field5(w, l + 5)
           c == Field5(w, l + 10)
           d == w[l + 15]
<1>5. Number(w, l) = a + 32 * b + 1024 * (c + 32 * d)
  BY <1>3, <1>4
<1> HIDE DEF a, b, c, d
<1>6. a \in 0 .. 31 /\ b \in 0 .. 31 /\ c \in 0 .. 31 /\ d \in 0 .. 1
  BY <1>1, <1>2 DEF a, b, c, d
<1>7. a + 32 * b + 1024 * (c + 32 * d) = a + 32 * (b + 32 * (c + 32 * d))
  BY <1>6
<1>8. Number(w, l) \in Numbers
  <2>1. c + 32 * d \in 0 .. 63
    BY <1>6
  <2>2. a + 32 * b \in 0 .. 1023
    BY <1>6
  <2>3. Number(w, l) \in Int /\ Number(w, l) >= 0 /\ Number(w, l) <= 65535
    BY <2>1, <2>2, <1>5, <1>6
  <2> QED
    BY <2>3 DEF Numbers
<1>9. QED
  BY <1>5, <1>6, <1>7, <1>8 DEF a, b, c, d

\* The bits of a half are those of its number.
LEMMA SameNumber ==
  ASSUME NEW v \in Word, NEW w \in Word, NEW l \in {0, 16}, NEW k \in {0, 16},
         Number(v, l) = Number(w, k)
  PROVE  \A i \in 0 .. 15 : v[l + i] = w[k + i]
<1> DEFINE x == v[l + 15]
           y == w[k + 15]
           p == Field5(v, l + 10) + 32 * x
           q == Field5(w, k + 10) + 32 * y
           pp == Field5(v, l + 5) + 32 * p
           qq == Field5(w, k + 5) + 32 * q
<1>1. x \in Int /\ y \in Int /\ p \in Int /\ q \in Int /\ pp \in Int /\ qq \in Int
  <2>1. \A z \in Word, o \in {0, 16} : /\ Field5(z, o + 5) \in 0 .. 31 /\ Field5(z, o + 10) \in 0 .. 31
                                       /\ z[o + 15] \in 0 .. 1
    BY NumberOfFields
  <2>2. /\ x \in 0 .. 1 /\ y \in 0 .. 1 /\ Field5(v, l + 10) \in 0 .. 31 /\ Field5(w, k + 10) \in 0 .. 31
        /\ Field5(v, l + 5) \in 0 .. 31 /\ Field5(w, k + 5) \in 0 .. 31
    BY <2>1
  <2> HIDE DEF x, y
  <2>3. p \in Int /\ q \in Int
    BY <2>2
  <2> HIDE DEF p, q
  <2> QED
    BY <2>2, <2>3
<1>2. Field5(v, l) + 32 * pp = Field5(w, k) + 32 * qq
  BY NumberOfFields
<1>3. (\A i \in 0 .. 4 : v[l + i] = w[k + i]) /\ pp = qq
  BY <1>1, <1>2, SameFive
<1>4. (\A i \in 0 .. 4 : v[(l + 5) + i] = w[(k + 5) + i]) /\ p = q
  <2>1. l + 5 \in 0 .. 27 /\ k + 5 \in 0 .. 27
    OBVIOUS
  <2> HIDE DEF p, q
  <2> QED
    BY <1>1, <1>3, <2>1, SameFive
<1>5. (\A i \in 0 .. 4 : v[(l + 10) + i] = w[(k + 10) + i]) /\ v[l + 15] = w[k + 15]
  <2>1. l + 10 \in 0 .. 27 /\ k + 10 \in 0 .. 27
    OBVIOUS
  <2>2. Field5(v, l + 10) + 32 * x = Field5(w, k + 10) + 32 * y
    BY <1>4
  <2> HIDE DEF x, y
  <2>3. (\A i \in 0 .. 4 : v[(l + 10) + i] = w[(k + 10) + i]) /\ x = y
    BY <1>1, <2>1, <2>2, SameFive
  <2> QED
    BY <2>3 DEF x, y
<1> HIDE DEF p, q
<1>6. SUFFICES ASSUME NEW i \in 0 .. 15 PROVE v[l + i] = w[k + i]
  OBVIOUS
<1>7. CASE i \in 0 .. 4
  BY <1>3, <1>7
<1>8. CASE i \in 5 .. 9
  <2>1. i - 5 \in 0 .. 4 /\ (l + 5) + (i - 5) = l + i /\ (k + 5) + (i - 5) = k + i
    BY <1>8
  <2> QED
    BY <1>4, <2>1
<1>9. CASE i \in 10 .. 14
  <2>1. i - 10 \in 0 .. 4 /\ (l + 10) + (i - 10) = l + i /\ (k + 10) + (i - 10) = k + i
    BY <1>9
  <2> QED
    BY <1>5, <2>1
<1>10. CASE i = 15
  BY <1>5, <1>10
<1>11. QED
  BY <1>7, <1>8, <1>9, <1>10

\* W builds the word of which these numbers are the halves,
LEMMA WordOfHalves ==
  ASSUME NEW hi \in Numbers, NEW lo \in Numbers
  PROVE  W(hi, lo) \in Word /\ Hi(W(hi, lo)) = hi /\ Lo(W(hi, lo)) = lo
<1>1. W(hi, lo) \in Word
  BY DEF W, BitOf, high_if, Word, Bit
<1>2. \A i \in 0 .. 15 : W(hi, lo)[0 + i] = BitOf(lo, i) /\ W(hi, lo)[16 + i] = BitOf(hi, i)
  BY DEF W
<1>3. QED
  BY <1>1, <1>2, BitsSum DEF Hi, Lo

\* and every word is built of its halves.
LEMMA HalvesOfWord ==
  ASSUME NEW w \in Word
  PROVE  Hi(w) \in Numbers /\ Lo(w) \in Numbers /\ W(Hi(w), Lo(w)) = w
<1>1. Hi(w) \in Numbers /\ Lo(w) \in Numbers
  BY NumberOfFields DEF Hi, Lo
<1> DEFINE v == W(Hi(w), Lo(w))
<1>2. v \in Word /\ Hi(v) = Hi(w) /\ Lo(v) = Lo(w)
  BY <1>1, WordOfHalves
<1> HIDE DEF v
<1>3. \A i \in 0 .. 15 : v[0 + i] = w[0 + i] /\ v[16 + i] = w[16 + i]
  BY <1>2, SameNumber DEF Hi, Lo
<1>4. \A i \in 0 .. 31 : v[i] = w[i]
  <2> SUFFICES ASSUME NEW i \in 0 .. 31 PROVE v[i] = w[i]
    OBVIOUS
  <2>1. CASE i \in 0 .. 15
    BY <2>1, <1>3
  <2>2. CASE i \in 16 .. 31
    <3>1. i - 16 \in 0 .. 15 /\ 16 + (i - 16) = i
      BY <2>2
    <3> QED
      BY <3>1, <1>3
  <2> QED
    BY <2>1, <2>2
<1>5. v = w
  BY <1>2, <1>4 DEF Word
<1>6. QED
  BY <1>1, <1>5 DEF v

\* The carries of Words' adder exist: position i has one when some position
\* below generates it, or the carry in gets there, and all between pass it on.
LEMMA CarryRipples ==
  ASSUME NEW a \in Word, NEW b \in Word, NEW cin \in Bit
  PROVE  LET c == Carry(a, b, cin)
         IN  /\ c \in [0 .. 32 -> Bit]
             /\ c[0] = cin
             /\ \A i \in 0 .. 31 : c[i + 1] = high_if(a[i] + b[i] + c[i] >= 2)
<1> DEFINE Passed(j, i) == \A k \in j .. i - 1 : a[k] = 1 \/ b[k] = 1
           Generated(i) == \E j \in 0 .. i - 1 : a[j] = 1 /\ b[j] = 1 /\ Passed(j + 1, i)
           Carried(i) == Generated(i) \/ (cin = 1 /\ Passed(0, i))
           f == [i \in 0 .. 32 |-> high_if(Carried(i))]
           Next32(c) == [i \in 0 .. 32 |-> IF i = 0 THEN cin
                                           ELSE high_if(a[i - 1] + b[i - 1] + c[i - 1] >= 2)]
<1>1. \A i \in 0 .. 31 : a[i] \in 0 .. 1 /\ b[i] \in 0 .. 1
  BY BitOfWord
<1>2. ASSUME NEW i \in 1 .. 32
      PROVE  Carried(i) <=> \/ a[i - 1] = 1 /\ b[i - 1] = 1
                            \/ (a[i - 1] = 1 \/ b[i - 1] = 1) /\ Carried(i - 1)
  <2>1. \A j \in 0 .. i - 1 : Passed(j, i) <=> Passed(j, i - 1) /\ (a[i - 1] = 1 \/ b[i - 1] = 1)
    <3> TAKE j \in 0 .. i - 1
    <3>1. \A k : k \in j .. i - 1 <=> (k \in j .. (i - 1) - 1 \/ k = i - 1)
      OBVIOUS
    <3> QED
      BY <3>1
  <2>2. Passed(i, i)
    OBVIOUS
  <2>3. Generated(i) <=> \/ a[i - 1] = 1 /\ b[i - 1] = 1 /\ Passed((i - 1) + 1, i)
                         \/ \E j \in 0 .. (i - 1) - 1 : a[j] = 1 /\ b[j] = 1 /\ Passed(j + 1, i)
    <3>1. \A j : j \in 0 .. i - 1 <=> (j \in 0 .. (i - 1) - 1 \/ j = i - 1)
      OBVIOUS
    <3> HIDE DEF Passed
    <3> QED
      BY <3>1
  <2>4. \A j \in 0 .. (i - 1) - 1 : j + 1 \in 0 .. i - 1
    OBVIOUS
  <2>5. 0 \in 0 .. i - 1 /\ (i - 1) + 1 = i
    OBVIOUS
  <2> HIDE DEF Passed
  <2> QED
    BY <2>1, <2>2, <2>3, <2>4, <2>5
<1>3. f[0] = cin
  BY DEF high_if, Bit
<1>4. \A i \in 1 .. 32 : f[i] = high_if(a[i - 1] + b[i - 1] + f[i - 1] >= 2)
  <2> TAKE i \in 1 .. 32
  <2>1. i - 1 \in 0 .. 31 /\ i \in 0 .. 32 /\ i - 1 \in 0 .. 32
    OBVIOUS
  <2> HIDE DEF Carried
  <2>2. f[i] = high_if(Carried(i)) /\ f[i - 1] = high_if(Carried(i - 1))
    BY <2>1
  <2>3. a[i - 1] \in 0 .. 1 /\ b[i - 1] \in 0 .. 1
    BY <1>1, <2>1
  <2> HIDE DEF f
  <2> QED
    BY <1>2, <2>2, <2>3 DEF high_if
<1>5. f = Next32(f)
  <2>1. f = [i \in 0 .. 32 |-> f[i]]
    OBVIOUS
  <2> HIDE DEF f
  <2>2. \A i \in 0 .. 32 : f[i] = IF i = 0 THEN cin ELSE high_if(a[i - 1] + b[i - 1] + f[i - 1] >= 2)
    BY <1>3, <1>4
  <2> QED
    BY <2>1, <2>2
<1> HIDE DEF f
<1>6. Carry(a, b, cin) = CHOOSE c : c = Next32(c)
  BY DEF Carry
<1> DEFINE c == Carry(a, b, cin)
<1>7. c = Next32(c)
  BY <1>5, <1>6
<1> HIDE DEF c
<1>8. c \in [0 .. 32 -> Bit]
  BY <1>7 DEF high_if, Bit
<1>9. c[0] = cin
  BY <1>7
<1>10. \A i \in 0 .. 31 : c[i + 1] = high_if(a[i] + b[i] + c[i] >= 2)
  <2> TAKE i \in 0 .. 31
  <2>1. i + 1 \in 0 .. 32 /\ i + 1 # 0 /\ (i + 1) - 1 = i
    OBVIOUS
  <2>2. c[i + 1] = high_if(a[(i + 1) - 1] + b[(i + 1) - 1] + c[(i + 1) - 1] >= 2)
    BY <1>7, <2>1
  <2> QED
    BY <2>1, <2>2
<1>11. QED
  BY <1>8, <1>9, <1>10 DEF c

\* Each half of the adder adds, with a carry from below and one to above.
LEMMA HalfSum ==
  ASSUME NEW a \in Word, NEW b \in Word, NEW cin \in Bit
  PROVE  \E c16, c32 \in 0 .. 1 :
            /\ Lo(a) + Lo(b) + cin = Lo(AddC(a, b, cin)) + 65536 * c16
            /\ Hi(a) + Hi(b) + c16 = Hi(AddC(a, b, cin)) + 65536 * c32
<1> DEFINE c == Carry(a, b, cin)
           s == AddC(a, b, cin)
<1>1. /\ c \in [0 .. 32 -> Bit] /\ c[0] = cin
      /\ \A i \in 0 .. 31 : c[i + 1] = high_if(a[i] + b[i] + c[i] >= 2)
  BY CarryRipples
<1>2. \A i \in 0 .. 31 : s[i] = high_if((a[i] = b[i]) <=> (c[i] = 1))
  BY DEF AddC
<1>3. s \in Word
  BY DEF AddC, Word, Bit, high_if
<1> HIDE DEF c, s
<1>4. ASSUME NEW i \in 0 .. 31
      PROVE  /\ a[i] + b[i] + c[i] = s[i] + 2 * c[i + 1]
             /\ a[i] \in 0 .. 1 /\ b[i] \in 0 .. 1 /\ c[i] \in 0 .. 1 /\ s[i] \in 0 .. 1
  <2>1. a[i] \in 0 .. 1 /\ b[i] \in 0 .. 1 /\ c[i] \in 0 .. 1
    BY BitOfWord, <1>1 DEF Bit
  <2> QED
    BY <2>1, <1>1, <1>2 DEF high_if
<1>5. \A i \in 0 .. 32 : c[i] \in 0 .. 1
  BY <1>1 DEF Bit
<1>6. ASSUME NEW l \in 0 .. 27
      PROVE  Field5(a, l) + Field5(b, l) + c[l] = Field5(s, l) + 32 * c[l + 5]
  <2> DEFINE A(i) == a[l + i]
             B(i) == b[l + i]
             C(i) == c[l + i]
             S(i) == s[l + i]
  <2>1. \A i \in 0 .. 4 : /\ A(i) + B(i) + C(i) = S(i) + 2 * C(i + 1)
                          /\ A(i) \in 0 .. 1 /\ B(i) \in 0 .. 1 /\ C(i) \in 0 .. 1 /\ S(i) \in 0 .. 1
    <3> TAKE i \in 0 .. 4
    <3>1. l + i \in 0 .. 31 /\ (l + i) + 1 = l + (i + 1)
      OBVIOUS
    <3> QED
      BY <3>1, <1>4
  <2>2. C(5) \in 0 .. 1
    <3>1. l + 5 \in 0 .. 32
      OBVIOUS
    <3> QED
      BY <3>1, <1>5
  <2>3. /\ Field5(a, l) = A(0) + 2 * A(1) + 4 * A(2) + 8 * A(3) + 16 * A(4)
        /\ Field5(b, l) = B(0) + 2 * B(1) + 4 * B(2) + 8 * B(3) + 16 * B(4)
        /\ Field5(s, l) = S(0) + 2 * S(1) + 4 * S(2) + 8 * S(3) + 16 * S(4)
    BY DEF Field5
  <2>4. C(0) = c[l]
    OBVIOUS
  <2>5. c[l + 5] = C(5)
    OBVIOUS
  <2> HIDE DEF A, B, C, S
  <2>6. /\ A(0) + B(0) + C(0) = S(0) + 2 * C(1)
        /\ A(1) + B(1) + C(1) = S(1) + 2 * C(2)
        /\ A(2) + B(2) + C(2) = S(2) + 2 * C(3)
        /\ A(3) + B(3) + C(3) = S(3) + 2 * C(4)
        /\ A(4) + B(4) + C(4) = S(4) + 2 * C(5)
    BY <2>1
  <2>7. /\ A(0) \in 0 .. 1 /\ A(1) \in 0 .. 1 /\ A(2) \in 0 .. 1 /\ A(3) \in 0 .. 1 /\ A(4) \in 0 .. 1
        /\ B(0) \in 0 .. 1 /\ B(1) \in 0 .. 1 /\ B(2) \in 0 .. 1 /\ B(3) \in 0 .. 1 /\ B(4) \in 0 .. 1
        /\ C(0) \in 0 .. 1 /\ C(1) \in 0 .. 1 /\ C(2) \in 0 .. 1 /\ C(3) \in 0 .. 1 /\ C(4) \in 0 .. 1
        /\ S(0) \in 0 .. 1 /\ S(1) \in 0 .. 1 /\ S(2) \in 0 .. 1 /\ S(3) \in 0 .. 1 /\ S(4) \in 0 .. 1
    BY <2>1
  <2>8. A(0) + 2 * A(1) + 4 * A(2) + 8 * A(3) + 16 * A(4)
          + (B(0) + 2 * B(1) + 4 * B(2) + 8 * B(3) + 16 * B(4)) + C(0)
          = S(0) + 2 * S(1) + 4 * S(2) + 8 * S(3) + 16 * S(4) + 32 * C(5)
    BY <2>2, <2>6, <2>7
  <2>9. QED
    BY <2>3, <2>4, <2>5, <2>8
<1>7. ASSUME NEW l \in {0, 16}
      PROVE  Number(a, l) + Number(b, l) + c[l] = Number(s, l) + 65536 * c[l + 16]
  <2>1. /\ Field5(a, l) + Field5(b, l) + c[l] = Field5(s, l) + 32 * c[l + 5]
        /\ Field5(a, l + 5) + Field5(b, l + 5) + c[l + 5] = Field5(s, l + 5) + 32 * c[l + 10]
        /\ Field5(a, l + 10) + Field5(b, l + 10) + c[l + 10] = Field5(s, l + 10) + 32 * c[l + 15]
    <3>1. /\ l \in 0 .. 27 /\ l + 5 \in 0 .. 27 /\ l + 10 \in 0 .. 27
          /\ (l + 5) + 5 = l + 10 /\ (l + 10) + 5 = l + 15
      OBVIOUS
    <3> QED
      BY <3>1, <1>6
  <2>2. a[l + 15] + b[l + 15] + c[l + 15] = s[l + 15] + 2 * c[l + 16]
    <3>1. l + 15 \in 0 .. 31 /\ (l + 15) + 1 = l + 16
      OBVIOUS
    <3> QED
      BY <3>1, <1>4
  <2>3. \A w \in Word :
           /\ Field5(w, l) \in 0 .. 31 /\ Field5(w, l + 5) \in 0 .. 31
           /\ Field5(w, l + 10) \in 0 .. 31 /\ w[l + 15] \in 0 .. 1
           /\ Number(w, l) = Field5(w, l)
                + 32 * (Field5(w, l + 5) + 32 * (Field5(w, l + 10) + 32 * w[l + 15]))
    BY NumberOfFields
  <2>4. c[l] \in 0 .. 1 /\ c[l + 5] \in 0 .. 1 /\ c[l + 10] \in 0 .. 1 /\ c[l + 15] \in 0 .. 1
        /\ c[l + 16] \in 0 .. 1
    BY <1>5
  <2> DEFINE A0 == Field5(a, l)
             A1 == Field5(a, l + 5)
             A2 == Field5(a, l + 10)
             A3 == a[l + 15]
             B0 == Field5(b, l)
             B1 == Field5(b, l + 5)
             B2 == Field5(b, l + 10)
             B3 == b[l + 15]
             S0 == Field5(s, l)
             S1 == Field5(s, l + 5)
             S2 == Field5(s, l + 10)
             S3 == s[l + 15]
             C0 == c[l]
             C1 == c[l + 5]
             C2 == c[l + 10]
             C3 == c[l + 15]
             C4 == c[l + 16]
  <2>5. /\ A0 + B0 + C0 = S0 + 32 * C1 /\ A1 + B1 + C1 = S1 + 32 * C2
        /\ A2 + B2 + C2 = S2 + 32 * C3 /\ A3 + B3 + C3 = S3 + 2 * C4
    BY <2>1, <2>2
  <2>6. /\ A0 \in Int /\ A1 \in Int /\ A2 \in Int /\ A3 \in Int
        /\ B0 \in Int /\ B1 \in Int /\ B2 \in Int /\ B3 \in Int
        /\ S0 \in Int /\ S1 \in Int /\ S2 \in Int /\ S3 \in Int
        /\ C0 \in Int /\ C1 \in Int /\ C2 \in Int /\ C3 \in Int /\ C4 \in Int
    <3>1. \A w \in Word : /\ Field5(w, l) \in Int /\ Field5(w, l + 5) \in Int
                          /\ Field5(w, l + 10) \in Int /\ w[l + 15] \in Int
      BY <2>3
    <3>2. A0 \in Int /\ A1 \in Int /\ A2 \in Int /\ A3 \in Int
      BY <3>1
    <3>3. B0 \in Int /\ B1 \in Int /\ B2 \in Int /\ B3 \in Int
      BY <3>1
    <3>4. S0 \in Int /\ S1 \in Int /\ S2 \in Int /\ S3 \in Int
      BY <3>1, <1>3
    <3>5. C0 \in Int /\ C1 \in Int /\ C2 \in Int /\ C3 \in Int /\ C4 \in Int
      BY <2>4
    <3> HIDE DEF A0, A1, A2, A3, B0, B1, B2, B3, S0, S1, S2, S3, C0, C1, C2, C3, C4
    <3> QED
      BY <3>2, <3>3, <3>4, <3>5
  <2>7. /\ Number(a, l) = A0 + 32 * (A1 + 32 * (A2 + 32 * A3))
        /\ Number(b, l) = B0 + 32 * (B1 + 32 * (B2 + 32 * B3))
        /\ Number(s, l) = S0 + 32 * (S1 + 32 * (S2 + 32 * S3))
    BY <2>3, <1>3
  <2>8. c[l] = C0 /\ c[l + 16] = C4
    OBVIOUS
  <2> HIDE DEF A0, A1, A2, A3, B0, B1, B2, B3, S0, S1, S2, S3, C0, C1, C2, C3, C4
  <2>9. A0 + 32 * (A1 + 32 * (A2 + 32 * A3)) + (B0 + 32 * (B1 + 32 * (B2 + 32 * B3))) + C0
          = S0 + 32 * (S1 + 32 * (S2 + 32 * S3)) + 65536 * C4
    BY <2>5, <2>6
  <2>10. QED
    BY <2>7, <2>8, <2>9
<1>8. /\ Lo(a) + Lo(b) + cin = Lo(s) + 65536 * c[16]
      /\ Hi(a) + Hi(b) + c[16] = Hi(s) + 65536 * c[32]
  <2>1. 0 + 16 = 16 /\ 16 + 16 = 32
    OBVIOUS
  <2> QED
    BY <2>1, <1>1, <1>7 DEF Hi, Lo
<1>9. c[16] \in 0 .. 1 /\ c[32] \in 0 .. 1
  BY <1>5
<1>10. QED
  BY <1>8, <1>9 DEF s

\* numeric_std's sum is the sum modulo 2^32.
LEMMA AddIsPlus ==
  ASSUME NEW a \in Word, NEW b \in Word
  PROVE  Add(a, b) = Plus(a, b)
<1> DEFINE s == Add(a, b)
<1>1. s \in Word
  BY WordOperators
<1>2. PICK c16 \in 0 .. 1, c32 \in 0 .. 1 :
         /\ Lo(a) + Lo(b) = Lo(s) + 65536 * c16
         /\ Hi(a) + Hi(b) + c16 = Hi(s) + 65536 * c32
  <2>1. \E c16, c32 \in 0 .. 1 :
           /\ Lo(a) + Lo(b) + 0 = Lo(s) + 65536 * c16
           /\ Hi(a) + Hi(b) + c16 = Hi(s) + 65536 * c32
    <3>1. 0 \in Bit
      BY DEF Bit
    <3> QED
      BY <3>1, HalfSum DEF Add
  <2>2. Lo(a) + Lo(b) + 0 = Lo(a) + Lo(b)
    BY HalvesOfWord DEF Numbers
  <2> QED
    BY <2>1, <2>2
<1>3. \A w \in Word : Hi(w) \in Numbers /\ Lo(w) \in Numbers /\ W(Hi(w), Lo(w)) = w
  BY HalvesOfWord
<1> HIDE DEF s
<1> DEFINE lo == Lo(s)
           hi == Hi(s)
           x == Lo(a) + Lo(b)
           y == Hi(a) + Hi(b) + c16
<1>4. lo \in Numbers /\ hi \in Numbers /\ x = lo + 65536 * c16 /\ y = hi + 65536 * c32
  BY <1>1, <1>2, <1>3
<1> HIDE DEF lo, hi, x, y
<1>5. x \div 65536 = c16 /\ x % 65536 = lo /\ y % 65536 = hi
  BY <1>4 DEF Numbers
<1>6. Plus(a, b) = W(hi, lo)
  BY <1>5 DEF Plus, x, y
<1>7. QED
  BY <1>1, <1>3, <1>6 DEF hi, lo, s

\* The complement of a word, by its halves
LEMMA HalvesOfNot ==
  ASSUME NEW b \in Word
  PROVE  Lo(Not(b)) = 65535 - Lo(b) /\ Hi(Not(b)) = 65535 - Hi(b)
<1>1. ASSUME NEW l \in 0 .. 27 PROVE Field5(Not(b), l) = 31 - Field5(b, l)
  <2> DEFINE x(i) == b[l + i]
  <2>1. \A i \in 0 .. 4 : x(i) \in 0 .. 1 /\ Not(b)[l + i] = 1 - x(i)
    <3> TAKE i \in 0 .. 4
    <3>1. l + i \in 0 .. 31
      OBVIOUS
    <3> QED
      BY <3>1, BitOfWord DEF Not
  <2>2. Field5(b, l) = x(0) + 2 * x(1) + 4 * x(2) + 8 * x(3) + 16 * x(4)
    BY DEF Field5
  <2>3. Field5(Not(b), l) = Not(b)[l + 0] + 2 * Not(b)[l + 1] + 4 * Not(b)[l + 2]
                              + 8 * Not(b)[l + 3] + 16 * Not(b)[l + 4]
    BY DEF Field5
  <2> HIDE DEF x
  <2> QED
    BY <2>1, <2>2, <2>3
<1>2. ASSUME NEW l \in {0, 16} PROVE Number(Not(b), l) = 65535 - Number(b, l)
  <2>1. /\ Field5(Not(b), l) = 31 - Field5(b, l)
        /\ Field5(Not(b), l + 5) = 31 - Field5(b, l + 5)
        /\ Field5(Not(b), l + 10) = 31 - Field5(b, l + 10)
    <3>1. l + 5 \in 0 .. 27 /\ l + 10 \in 0 .. 27
      OBVIOUS
    <3> QED
      BY <3>1, <1>1
  <2>2. Not(b)[l + 15] = 1 - b[l + 15]
    BY DEF Not
  <2>3. Not(b) \in Word
    BY WordOperators
  <2> DEFINE x == Field5(b, l)
             y == Field5(b, l + 5)
             z == Field5(b, l + 10)
             t == b[l + 15]
  <2>4. x \in 0 .. 31 /\ y \in 0 .. 31 /\ z \in 0 .. 31 /\ t \in 0 .. 1
    BY NumberOfFields
  <2>5. /\ Number(b, l) = x + 32 * (y + 32 * (z + 32 * t))
        /\ Number(Not(b), l) = (31 - x) + 32 * ((31 - y) + 32 * ((31 - z) + 32 * (1 - t)))
    BY <2>1, <2>2, <2>3, NumberOfFields
  <2> HIDE DEF x, y, z, t
  <2>6. (31 - x) + 32 * ((31 - y) + 32 * ((31 - z) + 32 * (1 - t)))
          = 65535 - (x + 32 * (y + 32 * (z + 32 * t)))
    BY <2>4
  <2> QED
    BY <2>5, <2>6
<1>3. QED
  BY <1>2 DEF Hi, Lo

\* numeric_std's difference is the difference modulo 2^32.
LEMMA SubIsMinus ==
  ASSUME NEW a \in Word, NEW b \in Word
  PROVE  Sub(a, b) = Minus(a, b)
<1> DEFINE s == Sub(a, b)
<1>1. s \in Word /\ Not(b) \in Word
  BY WordOperators
<1>2. PICK c16 \in 0 .. 1, c32 \in 0 .. 1 :
         /\ Lo(a) + Lo(Not(b)) + 1 = Lo(s) + 65536 * c16
         /\ Hi(a) + Hi(Not(b)) + c16 = Hi(s) + 65536 * c32
  <2>1. 1 \in Bit
    BY DEF Bit
  <2> QED
    BY <1>1, <2>1, HalfSum DEF Sub
<1>3. \A w \in Word : Hi(w) \in Numbers /\ Lo(w) \in Numbers /\ W(Hi(w), Lo(w)) = w
  BY HalvesOfWord
<1>4. Lo(Not(b)) = 65535 - Lo(b) /\ Hi(Not(b)) = 65535 - Hi(b)
  BY HalvesOfNot
<1> HIDE DEF s
<1> DEFINE low == Lo(a) - Lo(b)
           high == Hi(a) - Hi(b) - (IF low < 0 THEN 1 ELSE 0)
<1>5. /\ low = Lo(s) - 65536 * (1 - c16) /\ low \in Int
      /\ low < 0 <=> c16 = 0
  BY <1>1, <1>2, <1>3, <1>4 DEF Numbers
<1>6. high = Hi(s) - 65536 * (1 - c32) /\ high \in Int
  <2>1. high = Hi(a) - Hi(b) - (1 - c16)
    BY <1>3, <1>5 DEF Numbers
  <2> HIDE DEF high, low
  <2> QED
    BY <2>1, <1>1, <1>2, <1>3, <1>4 DEF Numbers
<1> HIDE DEF low, high
<1> DEFINE lo == Lo(s)
           hi == Hi(s)
<1>7. lo \in Numbers /\ hi \in Numbers /\ low = lo - 65536 * (1 - c16) /\ high = hi - 65536 * (1 - c32)
  BY <1>1, <1>3, <1>5, <1>6
<1> HIDE DEF lo, hi
<1>8. low % 65536 = lo /\ high % 65536 = hi
  BY <1>7 DEF Numbers
<1>9. Minus(a, b) = W(high % 65536, low % 65536)
  BY DEF Minus, high, low
<1>10. QED
  BY <1>1, <1>3, <1>8, <1>9 DEF s, lo, hi

\* The highest bit in which two fields differ orders them.
LEMMA FieldOrder ==
  ASSUME NEW a \in Word, NEW b \in Word, NEW l \in 0 .. 27
  PROVE  /\ (\A j \in 0 .. 4 : a[l + j] = b[l + j]) => Field5(a, l) = Field5(b, l)
         /\ \A i \in 0 .. 4 :
              a[l + i] < b[l + i] /\ (\A j \in i + 1 .. 4 : a[l + j] = b[l + j])
                => Field5(a, l) < Field5(b, l)
<1> DEFINE x(i) == a[l + i]
           y(i) == b[l + i]
<1>1. \A i \in 0 .. 4 : x(i) \in 0 .. 1 /\ y(i) \in 0 .. 1
  BY BitOfWord
<1>2. /\ Field5(a, l) = x(0) + 2 * x(1) + 4 * x(2) + 8 * x(3) + 16 * x(4)
      /\ Field5(b, l) = y(0) + 2 * y(1) + 4 * y(2) + 8 * y(3) + 16 * y(4)
  BY DEF Field5
<1> HIDE DEF x, y
<1>3. /\ x(0) \in 0 .. 1 /\ x(1) \in 0 .. 1 /\ x(2) \in 0 .. 1 /\ x(3) \in 0 .. 1 /\ x(4) \in 0 .. 1
      /\ y(0) \in 0 .. 1 /\ y(1) \in 0 .. 1 /\ y(2) \in 0 .. 1 /\ y(3) \in 0 .. 1 /\ y(4) \in 0 .. 1
  BY <1>1
<1>4. (\A j \in 0 .. 4 : x(j) = y(j)) => Field5(a, l) = Field5(b, l)
  BY <1>2
<1>5. ASSUME NEW i \in 0 .. 4, x(i) < y(i), \A j \in i + 1 .. 4 : x(j) = y(j)
      PROVE  Field5(a, l) < Field5(b, l)
  <2>1. CASE i = 0
    BY <2>1, <1>2, <1>3, <1>5
  <2>2. CASE i = 1
    BY <2>2, <1>2, <1>3, <1>5
  <2>3. CASE i = 2
    BY <2>3, <1>2, <1>3, <1>5
  <2>4. CASE i = 3
    BY <2>4, <1>2, <1>3, <1>5
  <2>5. CASE i = 4
    BY <2>5, <1>2, <1>3, <1>5
  <2>6. QED
    BY <2>1, <2>2, <2>3, <2>4, <2>5
<1>6. QED
  BY <1>4, <1>5 DEF x, y

\* The highest bit in which two halves differ orders them.
LEMMA HalfOrder ==
  ASSUME NEW a \in Word, NEW b \in Word, NEW l \in {0, 16}
  PROVE  /\ (\A j \in 0 .. 15 : a[l + j] = b[l + j]) => Number(a, l) = Number(b, l)
         /\ \A i \in 0 .. 15 :
              a[l + i] < b[l + i] /\ (\A j \in i + 1 .. 15 : a[l + j] = b[l + j])
                => Number(a, l) < Number(b, l)
<1> DEFINE A0 == Field5(a, l)
           A1 == Field5(a, l + 5)
           A2 == Field5(a, l + 10)
           A3 == a[l + 15]
           B0 == Field5(b, l)
           B1 == Field5(b, l + 5)
           B2 == Field5(b, l + 10)
           B3 == b[l + 15]
<1>1. /\ A0 \in 0 .. 31 /\ A1 \in 0 .. 31 /\ A2 \in 0 .. 31 /\ A3 \in 0 .. 1
      /\ Number(a, l) = A0 + 32 * (A1 + 32 * (A2 + 32 * A3))
  BY NumberOfFields
<1>2. /\ B0 \in 0 .. 31 /\ B1 \in 0 .. 31 /\ B2 \in 0 .. 31 /\ B3 \in 0 .. 1
      /\ Number(b, l) = B0 + 32 * (B1 + 32 * (B2 + 32 * B3))
  BY NumberOfFields
<1>3. /\ l \in 0 .. 27 /\ l + 5 \in 0 .. 27 /\ l + 10 \in 0 .. 27
      /\ \A i \in 0 .. 4 : (l + 5) + i = l + (i + 5) /\ (l + 10) + i = l + (i + 10)
  OBVIOUS
<1>4. ASSUME NEW m \in {0, 5, 10}
      PROVE  /\ (\A j \in m .. m + 4 : a[l + j] = b[l + j]) => Field5(a, l + m) = Field5(b, l + m)
             /\ \A i \in m .. m + 4 :
                  a[l + i] < b[l + i] /\ (\A j \in i + 1 .. m + 4 : a[l + j] = b[l + j])
                    => Field5(a, l + m) < Field5(b, l + m)
  <2>1. l + m \in 0 .. 27 /\ \A i \in 0 .. 4 : (l + m) + i = l + (i + m) /\ i + m \in m .. m + 4
    OBVIOUS
  <2>2. ASSUME \A j \in m .. m + 4 : a[l + j] = b[l + j]
        PROVE  Field5(a, l + m) = Field5(b, l + m)
    <3>1. \A j \in 0 .. 4 : a[(l + m) + j] = b[(l + m) + j]
      BY <2>1, <2>2
    <3> QED
      BY <3>1, <2>1, FieldOrder
  <2>3. ASSUME NEW i \in m .. m + 4, a[l + i] < b[l + i],
               \A j \in i + 1 .. m + 4 : a[l + j] = b[l + j]
        PROVE  Field5(a, l + m) < Field5(b, l + m)
    <3>1. i - m \in 0 .. 4 /\ (l + m) + (i - m) = l + i
      OBVIOUS
    <3>2. \A j \in (i - m) + 1 .. 4 : a[(l + m) + j] = b[(l + m) + j]
      <4> TAKE j \in (i - m) + 1 .. 4
      <4>1. j + m \in i + 1 .. m + 4 /\ (l + m) + j = l + (j + m)
        OBVIOUS
      <4> QED
        BY <4>1, <2>3
    <3>3. a[(l + m) + (i - m)] < b[(l + m) + (i - m)]
      BY <3>1, <2>3
    <3> QED
      BY <3>1, <3>2, <3>3, <2>1, FieldOrder
  <2>4. QED
    BY <2>2, <2>3
<1>5. /\ (\A j \in 0 .. 4 : a[l + j] = b[l + j]) => A0 = B0
      /\ (\A j \in 5 .. 9 : a[l + j] = b[l + j]) => A1 = B1
      /\ (\A j \in 10 .. 14 : a[l + j] = b[l + j]) => A2 = B2
  <2>1. l + 0 = l /\ 0 + 4 = 4 /\ 5 + 4 = 9 /\ 10 + 4 = 14
    OBVIOUS
  <2> QED
    BY <2>1, <1>4
<1>6. ASSUME NEW i \in 0 .. 15, a[l + i] < b[l + i], \A j \in i + 1 .. 15 : a[l + j] = b[l + j]
      PROVE  Number(a, l) < Number(b, l)
  <2>1. CASE i \in 0 .. 4
    <3>1. A0 < B0
      <4>1. \A j \in i + 1 .. 0 + 4 : a[l + j] = b[l + j]
        BY <2>1, <1>6
      <4>2. i \in 0 .. 0 + 4 /\ l + 0 = l
        BY <2>1
      <4> QED
        BY <4>1, <4>2, <1>4, <1>6
    <3>2. A1 = B1 /\ A2 = B2 /\ A3 = B3
      BY <2>1, <1>5, <1>6
    <3> HIDE DEF A0, A1, A2, A3, B0, B1, B2, B3
    <3> QED
      BY <3>1, <3>2, <1>1, <1>2
  <2>2. CASE i \in 5 .. 9
    <3>1. A1 < B1
      <4>1. \A j \in i + 1 .. 5 + 4 : a[l + j] = b[l + j]
        BY <2>2, <1>6
      <4>2. i \in 5 .. 5 + 4
        BY <2>2
      <4> QED
        BY <4>1, <4>2, <1>4, <1>6
    <3>2. A2 = B2 /\ A3 = B3
      BY <2>2, <1>5, <1>6
    <3> HIDE DEF A0, A1, A2, A3, B0, B1, B2, B3
    <3> QED
      BY <3>1, <3>2, <1>1, <1>2
  <2>3. CASE i \in 10 .. 14
    <3>1. A2 < B2
      <4>1. \A j \in i + 1 .. 10 + 4 : a[l + j] = b[l + j]
        BY <2>3, <1>6
      <4>2. i \in 10 .. 10 + 4
        BY <2>3
      <4> QED
        BY <4>1, <4>2, <1>4, <1>6
    <3>2. A3 = B3
      BY <2>3, <1>6
    <3> HIDE DEF A0, A1, A2, A3, B0, B1, B2, B3
    <3> QED
      BY <3>1, <3>2, <1>1, <1>2
  <2>4. CASE i = 15
    <3>1. A3 < B3
      BY <2>4, <1>6
    <3> HIDE DEF A0, A1, A2, A3, B0, B1, B2, B3
    <3> QED
      BY <3>1, <1>1, <1>2
  <2>5. QED
    BY <2>1, <2>2, <2>3, <2>4
<1>7. ASSUME \A j \in 0 .. 15 : a[l + j] = b[l + j] PROVE Number(a, l) = Number(b, l)
  <2>1. A0 = B0 /\ A1 = B1 /\ A2 = B2 /\ A3 = B3
    BY <1>5, <1>7
  <2> QED
    BY <2>1, <1>1, <1>2
<1>8. QED
  BY <1>6, <1>7

\* A nonempty set of bit positions has a highest one.
LEMMA HighestPosition ==
  ASSUME NEW D, D \subseteq 0 .. 31, D # {}
  PROVE  \E i \in D : \A j \in D : j <= i
<1> DEFINE Less2 == {p \in Nat \X Nat : p[1] < p[2]}
           T == {n \in 0 .. 31 : 31 - n \in D}
<1>1. IsWellFoundedOn(Less2, Nat)
  <2>1. Less2 = OpToRel(<, Nat)
    BY Zenon DEF OpToRel
  <2> QED
    BY <2>1, NatLessThanWellFounded, Zenon
<1>2. T \subseteq Nat /\ T # {}
  <2>1. PICK i \in D : TRUE
    OBVIOUS
  <2>2. i \in 0 .. 31 /\ 31 - i \in 0 .. 31 /\ 31 - (31 - i) = i
    BY <2>1
  <2>3. 31 - i \in T
    BY <2>1, <2>2
  <2>4. T \subseteq Nat
    OBVIOUS
  <2> HIDE DEF T
  <2> QED
    BY <2>3, <2>4
<1>3. PICK x \in T : \A y \in T : <<y, x>> \notin Less2
  <2> HIDE DEF Less2, T
  <2> QED
    BY <1>1, <1>2, WFMin, Zenon
<1>4. 31 - x \in D
  OBVIOUS
<1>5. ASSUME NEW j \in D PROVE j <= 31 - x
  <2>1. j \in 0 .. 31 /\ 31 - j \in 0 .. 31 /\ 31 - (31 - j) = j
    OBVIOUS
  <2>2. 31 - j \in T
    BY <2>1
  <2>3. <<31 - j, x>> \notin Less2
    BY <2>2, <1>3
  <2>4. x \in Nat /\ 31 - j \in Nat /\ <<31 - j, x>>[1] = 31 - j /\ <<31 - j, x>>[2] = x
    BY <2>1
  <2>5. ~(31 - j < x)
    BY <2>3, <2>4
  <2> QED
    BY <2>1, <2>4, <2>5
<1>6. QED
  BY <1>4, <1>5

\* The unsigned order (numeric_std's "<" on word_t) is that of the numbers.
LEMMA ULessIsBelow ==
  ASSUME NEW a \in Word, NEW b \in Word
  PROVE  ULess(a, b) <=> Below(a, b)
<1>1. ASSUME NEW v \in Word, NEW w \in Word, ULess(v, w) PROVE Below(v, w)
  <2>1. PICK i \in 0 .. 31 : v[i] < w[i] /\ \A j \in i + 1 .. 31 : v[j] = w[j]
    BY <1>1 DEF ULess
  <2>2. CASE i >= 16
    <3>1. i - 16 \in 0 .. 15 /\ 16 + (i - 16) = i
      BY <2>2
    <3>2. \A j \in (i - 16) + 1 .. 15 : v[16 + j] = w[16 + j]
      <4> TAKE j \in (i - 16) + 1 .. 15
      <4>1. 16 + j \in i + 1 .. 31
        BY <2>2
      <4> QED
        BY <4>1, <2>1
    <3>3. Number(v, 16) < Number(w, 16)
      BY <3>1, <3>2, <2>1, HalfOrder
    <3> QED
      BY <3>3 DEF Below, Hi
  <2>3. CASE i < 16
    <3>1. i \in 0 .. 15 /\ 0 + i = i
      BY <2>3
    <3>2. \A j \in i + 1 .. 15 : v[0 + j] = w[0 + j]
      <4> TAKE j \in i + 1 .. 15
      <4>1. 0 + j \in i + 1 .. 31
        OBVIOUS
      <4> QED
        BY <4>1, <2>1
    <3>3. Number(v, 0) < Number(w, 0)
      BY <3>1, <3>2, <2>1, HalfOrder
    <3>4. \A j \in 0 .. 15 : v[16 + j] = w[16 + j]
      <4> TAKE j \in 0 .. 15
      <4>1. 16 + j \in i + 1 .. 31
        BY <2>3
      <4> QED
        BY <4>1, <2>1
    <3>5. Number(v, 16) = Number(w, 16)
      BY <3>4, HalfOrder
    <3> QED
      BY <3>3, <3>5 DEF Below, Hi, Lo
  <2>4. QED
    BY <2>2, <2>3
<1>2. ASSUME Below(a, b) PROVE ULess(a, b)
  <2>1. Hi(a) \in Nat /\ Lo(a) \in Nat /\ Hi(b) \in Nat /\ Lo(b) \in Nat
    BY HalvesOfWord DEF Numbers
  <2>2. a # b
    BY <1>2, <2>1 DEF Below
  <2>3. ~Below(b, a)
    BY <1>2, <2>1 DEF Below
  <2> DEFINE D == {i \in 0 .. 31 : a[i] # b[i]}
  <2>4. D # {}
    <3>1. a = [i \in 0 .. 31 |-> a[i]] /\ b = [i \in 0 .. 31 |-> b[i]]
      BY DEF Word
    <3> QED
      BY <2>2, <3>1
  <2>5. PICK i \in D : \A j \in D : j <= i
    <3>1. D \subseteq 0 .. 31
      OBVIOUS
    <3> HIDE DEF D
    <3> QED
      BY <2>4, <3>1, HighestPosition
  <2>6. \A j \in i + 1 .. 31 : a[j] = b[j]
    BY <2>5
  <2>7. a[i] < b[i] \/ b[i] < a[i]
    BY <2>5, BitOfWord
  <2>8. CASE b[i] < a[i]
    <3>1. ULess(b, a)
      BY <2>6, <2>8 DEF ULess
    <3> QED
      BY <3>1, <1>1, <2>3
  <2>9. CASE a[i] < b[i]
    BY <2>6, <2>9 DEF ULess
  <2>10. QED
    BY <2>7, <2>8, <2>9
<1>3. QED
  BY <1>1, <1>2

\* The sign bit is the sign of the number.
LEMMA SNegativeIsNegative ==
  ASSUME NEW a \in Word
  PROVE  SNegative(a) <=> Negative(a)
<1> DEFINE A0 == Field5(a, 16)
           A1 == Field5(a, 16 + 5)
           A2 == Field5(a, 16 + 10)
           A3 == a[16 + 15]
<1>1. /\ A0 \in 0 .. 31 /\ A1 \in 0 .. 31 /\ A2 \in 0 .. 31 /\ A3 \in 0 .. 1
      /\ Number(a, 16) = A0 + 32 * (A1 + 32 * (A2 + 32 * A3))
  BY NumberOfFields
<1>2. A3 = a[31]
  OBVIOUS
<1> HIDE DEF A0, A1, A2, A3
<1>3. Number(a, 16) >= 32768 <=> A3 = 1
  BY <1>1
<1>4. QED
  BY <1>2, <1>3 DEF SNegative, Negative, Hi

\* The signed order (vtoi's "<" in alu.vhdl) is that of the signed numbers.
LEMMA SLessIsLess ==
  ASSUME NEW a \in Word, NEW b \in Word
  PROVE  SLess(a, b) <=> Less(a, b)
<1>1. a[31] \in 0 .. 1 /\ b[31] \in 0 .. 1
  BY BitOfWord
<1>2. (a[31] = 1 <=> Negative(a)) /\ (b[31] = 1 <=> Negative(b))
  BY SNegativeIsNegative DEF SNegative
<1>3. (Negative(a) # Negative(b)) <=> ~(Negative(a) <=> Negative(b))
  <2>1. Negative(a) \in BOOLEAN /\ Negative(b) \in BOOLEAN
    BY DEF Negative
  <2> QED
    BY <2>1, Zenon
<1>4. a[31] # b[31] <=> ~(a[31] = 1 <=> b[31] = 1)
  BY <1>1
<1>5. (a[31] # b[31]) <=> (Negative(a) # Negative(b))
  BY <1>2, <1>3, <1>4, Zenon
<1>6. CASE a[31] # b[31]
  <2>1. SLess(a, b) <=> a[31] = 1
    BY <1>6, Zenon DEF SLess
  <2>2. Less(a, b) <=> Negative(a)
    BY <1>5, <1>6, Zenon DEF Less
  <2>3. QED
    BY <1>2, <2>1, <2>2, Zenon
<1>7. CASE a[31] = b[31]
  <2>1. SLess(a, b) <=> ULess(a, b)
    BY <1>7, Zenon DEF SLess
  <2>2. Less(a, b) <=> Below(a, b)
    BY <1>5, <1>7, Zenon DEF Less
  <2>3. QED
    BY ULessIsBelow, <2>1, <2>2, Zenon
<1>8. QED
  BY <1>6, <1>7, Zenon

-----------------------------------------------------------------------------
(* The words an instruction's immediate and the bus's answer are made into. *)

\* A half, bit by bit.
LEMMA NumberOfBits ==
  ASSUME NEW w \in Word, NEW l \in {0, 16}
  PROVE  /\ \A i \in 0 .. 15 : w[l + i] \in 0 .. 1
         /\ Number(w, l) = w[l] + 2 * w[l + 1] + 4 * w[l + 2] + 8 * w[l + 3] + 16 * w[l + 4]
              + 32 * w[l + 5] + 64 * w[l + 6] + 128 * w[l + 7] + 256 * w[l + 8] + 512 * w[l + 9]
              + 1024 * w[l + 10] + 2048 * w[l + 11] + 4096 * w[l + 12] + 8192 * w[l + 13]
              + 16384 * w[l + 14] + 32768 * w[l + 15]
<1> DEFINE x(i) == w[l + i]
<1>1. \A i \in 0 .. 15 : x(i) \in 0 .. 1
  BY BitOfWord
<1>2. /\ Field5(w, l) = x(0) + 2 * x(1) + 4 * x(2) + 8 * x(3) + 16 * x(4)
      /\ Field5(w, l + 5) = x(5) + 2 * x(6) + 4 * x(7) + 8 * x(8) + 16 * x(9)
      /\ Field6(w, l + 10) = x(10) + 2 * x(11) + 4 * x(12) + 8 * x(13) + 16 * x(14) + 32 * x(15)
  BY DEF Field5, Field6
<1>3. Number(w, l) = Field5(w, l) + 32 * Field5(w, l + 5) + 1024 * Field6(w, l + 10)
  BY DEF Number
<1>4. x(0) = w[l]
  OBVIOUS
<1> HIDE DEF x
<1>5. Number(w, l) = x(0) + 2 * x(1) + 4 * x(2) + 8 * x(3) + 16 * x(4)
              + 32 * x(5) + 64 * x(6) + 128 * x(7) + 256 * x(8) + 512 * x(9)
              + 1024 * x(10) + 2048 * x(11) + 4096 * x(12) + 8192 * x(13)
              + 16384 * x(14) + 32768 * x(15)
  <2>1. /\ x(0) \in Int /\ x(1) \in Int /\ x(2) \in Int /\ x(3) \in Int /\ x(4) \in Int
        /\ x(5) \in Int /\ x(6) \in Int /\ x(7) \in Int /\ x(8) \in Int /\ x(9) \in Int
        /\ x(10) \in Int /\ x(11) \in Int /\ x(12) \in Int /\ x(13) \in Int /\ x(14) \in Int
        /\ x(15) \in Int
    BY <1>1
  <2>2. 32 * Field5(w, l + 5) = 32 * x(5) + 64 * x(6) + 128 * x(7) + 256 * x(8) + 512 * x(9)
    BY <1>2, <2>1
  <2>3. 1024 * Field6(w, l + 10) = 1024 * x(10) + 2048 * x(11) + 4096 * x(12) + 8192 * x(13)
              + 16384 * x(14) + 32768 * x(15)
    BY <1>2, <2>1
  <2> QED
    BY <1>2, <1>3, <2>1, <2>2, <2>3
<1>6. QED
  BY <1>1, <1>4, <1>5 DEF x

\* A word is known by its halves.
LEMMA WordIsHalves ==
  ASSUME NEW w \in Word, NEW hi, NEW lo, Hi(w) = hi, Lo(w) = lo
  PROVE  w = W(hi, lo)
BY HalvesOfWord

\* Halves of one bit repeated
LEMMA HalfOfOneBit ==
  ASSUME NEW w \in Word, NEW l \in {0, 16}
  PROVE  /\ (\A i \in 0 .. 15 : w[l + i] = 0) => Number(w, l) = 0
         /\ (\A i \in 0 .. 15 : w[l + i] = 1) => Number(w, l) = 65535
<1> DEFINE x(i) == w[l + i]
<1>1. x(0) = w[l]
  OBVIOUS
<1>2. Number(w, l) = x(0) + 2 * x(1) + 4 * x(2) + 8 * x(3) + 16 * x(4)
              + 32 * x(5) + 64 * x(6) + 128 * x(7) + 256 * x(8) + 512 * x(9)
              + 1024 * x(10) + 2048 * x(11) + 4096 * x(12) + 8192 * x(13)
              + 16384 * x(14) + 32768 * x(15)
  BY <1>1, NumberOfBits
<1> HIDE DEF x
<1>3. (\A i \in 0 .. 15 : x(i) = 0) => Number(w, l) = 0
  BY <1>2
<1>4. (\A i \in 0 .. 15 : x(i) = 1) => Number(w, l) = 65535
  BY <1>2
<1>5. QED
  BY <1>3, <1>4 DEF x

\* A lower half of which the upper byte repeats one bit, by its lower byte
LEMMA HalfOfByte ==
  ASSUME NEW w \in Word, NEW s \in 0 .. 1, \A i \in 8 .. 15 : w[i] = s
  PROVE  Lo(w) = (Lo(w) % 256) + 65280 * s
<1>1. \A i \in 0 .. 15 : w[i] \in 0 .. 1
  BY BitOfWord
<1>2. Number(w, 0) = w[0] + 2 * w[1] + 4 * w[2] + 8 * w[3] + 16 * w[4]
              + 32 * w[5] + 64 * w[6] + 128 * w[7] + 256 * w[8] + 512 * w[9]
              + 1024 * w[10] + 2048 * w[11] + 4096 * w[12] + 8192 * w[13]
              + 16384 * w[14] + 32768 * w[15]
  BY NumberOfBits
<1> DEFINE low == w[0] + 2 * w[1] + 4 * w[2] + 8 * w[3] + 16 * w[4]
              + 32 * w[5] + 64 * w[6] + 128 * w[7]
<1>3. /\ w[0] \in 0 .. 1 /\ w[1] \in 0 .. 1 /\ w[2] \in 0 .. 1 /\ w[3] \in 0 .. 1
      /\ w[4] \in 0 .. 1 /\ w[5] \in 0 .. 1 /\ w[6] \in 0 .. 1 /\ w[7] \in 0 .. 1
      /\ w[8] = s /\ w[9] = s /\ w[10] = s /\ w[11] = s
      /\ w[12] = s /\ w[13] = s /\ w[14] = s /\ w[15] = s
  BY <1>1
<1>4. low \in Int /\ 0 <= low /\ low < 256 /\ Number(w, 0) = low + 65280 * s
  BY <1>2, <1>3
<1> HIDE DEF low
<1>5. (low + 65280 * s) % 256 = low
  BY <1>4
<1>6. QED
  BY <1>4, <1>5 DEF Lo

\* half(w) and its extensions
LEMMA HalfExtensions ==
  ASSUME NEW w \in Word
  PROVE  /\ ZeroHalf(w) = Unsigned(Lo(w))
         /\ SignHalf(w) = Signed(Lo(w))
         /\ UpperHalf(w) = W(Lo(w), 0)
         /\ Lo(SignHalf(w)) = Lo(w)
<1>1. ZeroHalf(w) \in Word /\ SignHalf(w) \in Word /\ UpperHalf(w) \in Word
  BY WordExtensions
<1>2. \A i \in 0 .. 15 : 0 + i \in 0 .. 15 /\ 16 + i \in 16 .. 31 /\ (16 + i) - 16 = i /\ 0 + i = i
  OBVIOUS
<1>3. Lo(ZeroHalf(w)) = Lo(w) /\ Lo(SignHalf(w)) = Lo(w)
  <2>1. \A i \in 0 .. 15 : ZeroHalf(w)[0 + i] = w[0 + i] /\ SignHalf(w)[0 + i] = w[0 + i]
    BY <1>2 DEF ZeroHalf, SignHalf
  <2> QED
    BY <1>1, <2>1, HalfOrder DEF Lo
<1>4. Hi(ZeroHalf(w)) = 0
  <2>1. \A i \in 0 .. 15 : ZeroHalf(w)[16 + i] = 0
    BY <1>2 DEF ZeroHalf
  <2> QED
    BY <1>1, <2>1, HalfOfOneBit DEF Hi
<1>5. Hi(SignHalf(w)) = IF Lo(w) >= 32768 THEN 65535 ELSE 0
  <2>1. \A i \in 0 .. 15 : SignHalf(w)[16 + i] = w[15]
    BY <1>2 DEF SignHalf
  <2>2. w[15] \in 0 .. 1
    BY BitOfWord
  <2>3. Lo(w) >= 32768 <=> w[15] = 1
    <3> DEFINE A0 == Field5(w, 0)
               A1 == Field5(w, 0 + 5)
               A2 == Field5(w, 0 + 10)
               A3 == w[0 + 15]
    <3>1. /\ A0 \in 0 .. 31 /\ A1 \in 0 .. 31 /\ A2 \in 0 .. 31 /\ A3 \in 0 .. 1
          /\ Number(w, 0) = A0 + 32 * (A1 + 32 * (A2 + 32 * A3))
      BY NumberOfFields
    <3>2. A3 = w[15]
      OBVIOUS
    <3> HIDE DEF A0, A1, A2, A3
    <3>3. Number(w, 0) >= 32768 <=> A3 = 1
      BY <3>1
    <3> QED
      BY <3>2, <3>3 DEF Lo
  <2>4. CASE w[15] = 0
    BY <1>1, <2>1, <2>3, <2>4, HalfOfOneBit DEF Hi
  <2>5. CASE w[15] = 1
    BY <1>1, <2>1, <2>3, <2>5, HalfOfOneBit DEF Hi
  <2>6. QED
    BY <2>2, <2>4, <2>5
<1>6. Hi(UpperHalf(w)) = Lo(w) /\ Lo(UpperHalf(w)) = 0
  <2> DEFINE u == UpperHalf(w)
  <2>1. \A i \in 0 .. 15 : u[16 + i] = w[i] /\ u[0 + i] = 0
    BY <1>2 DEF UpperHalf
  <2>2. u \in Word
    BY <1>1
  <2> HIDE DEF u
  <2>3. Number(u, 16) = w[0] + 2 * w[1] + 4 * w[2] + 8 * w[3] + 16 * w[4]
              + 32 * w[5] + 64 * w[6] + 128 * w[7] + 256 * w[8] + 512 * w[9]
              + 1024 * w[10] + 2048 * w[11] + 4096 * w[12] + 8192 * w[13]
              + 16384 * w[14] + 32768 * w[15]
    <3>1. Number(u, 16) = u[16] + 2 * u[16 + 1] + 4 * u[16 + 2] + 8 * u[16 + 3] + 16 * u[16 + 4]
              + 32 * u[16 + 5] + 64 * u[16 + 6] + 128 * u[16 + 7] + 256 * u[16 + 8] + 512 * u[16 + 9]
              + 1024 * u[16 + 10] + 2048 * u[16 + 11] + 4096 * u[16 + 12] + 8192 * u[16 + 13]
              + 16384 * u[16 + 14] + 32768 * u[16 + 15]
      BY <2>2, NumberOfBits
    <3>2. u[16] = w[0]
      <4>1. u[16 + 0] = w[0]
        BY <2>1
      <4> QED
        BY <4>1
    <3>3. /\ u[16 + 1] = w[1] /\ u[16 + 2] = w[2] /\ u[16 + 3] = w[3] /\ u[16 + 4] = w[4]
          /\ u[16 + 5] = w[5] /\ u[16 + 6] = w[6] /\ u[16 + 7] = w[7] /\ u[16 + 8] = w[8]
          /\ u[16 + 9] = w[9] /\ u[16 + 10] = w[10] /\ u[16 + 11] = w[11] /\ u[16 + 12] = w[12]
          /\ u[16 + 13] = w[13] /\ u[16 + 14] = w[14] /\ u[16 + 15] = w[15]
      BY <2>1
    <3> QED
      BY <3>1, <3>2, <3>3
  <2>4. Number(w, 0) = Number(u, 16)
    <3>1. Number(w, 0) = w[0] + 2 * w[1] + 4 * w[2] + 8 * w[3] + 16 * w[4]
              + 32 * w[5] + 64 * w[6] + 128 * w[7] + 256 * w[8] + 512 * w[9]
              + 1024 * w[10] + 2048 * w[11] + 4096 * w[12] + 8192 * w[13]
              + 16384 * w[14] + 32768 * w[15]
      BY NumberOfBits
    <3> QED
      BY <2>3, <3>1
  <2>5. Number(u, 0) = 0
    BY <2>1, <2>2, HalfOfOneBit
  <2>6. QED
    BY <2>4, <2>5 DEF Hi, Lo, u
<1>7. QED
  BY <1>1, <1>3, <1>4, <1>5, <1>6, WordIsHalves DEF Unsigned, Signed

\* A one-bit answer, and the constant 4, as numbers
LEMMA SmallWords ==
  /\ \A p \in BOOLEAN : FromBit(high_if(p)) = Flag(p) /\ FromBit(low_if(p)) = Flag(~p)
  /\ FOUR = W(0, 4)
<1> DEFINE small(w, n) ==
             /\ \A i \in 0 .. 15 : w[16 + i] = 0
             /\ Number(w, 0) = n
<1>1. ASSUME NEW w \in Word, NEW n, small(w, n) PROVE w = W(0, n)
  <2>1. Number(w, 16) = 0
    BY <1>1, HalfOfOneBit
  <2> QED
    BY <1>1, <2>1, WordIsHalves DEF Hi, Lo
<1>2. ASSUME NEW b \in Bit PROVE FromBit(b) = W(0, b)
  <2> DEFINE w == FromBit(b)
  <2>1. w \in Word
    BY DEF FromBit, Word, Bit
  <2>2. \A i \in 0 .. 15 : w[16 + i] = 0
    BY DEF FromBit
  <2>3. /\ w[0] = b
        /\ w[0 + 1] = 0 /\ w[0 + 2] = 0 /\ w[0 + 3] = 0 /\ w[0 + 4] = 0 /\ w[0 + 5] = 0
        /\ w[0 + 6] = 0 /\ w[0 + 7] = 0 /\ w[0 + 8] = 0 /\ w[0 + 9] = 0 /\ w[0 + 10] = 0
        /\ w[0 + 11] = 0 /\ w[0 + 12] = 0 /\ w[0 + 13] = 0 /\ w[0 + 14] = 0 /\ w[0 + 15] = 0
    BY DEF FromBit
  <2> HIDE DEF w
  <2>4. Number(w, 0) = w[0] + 2 * w[0 + 1] + 4 * w[0 + 2] + 8 * w[0 + 3] + 16 * w[0 + 4]
              + 32 * w[0 + 5] + 64 * w[0 + 6] + 128 * w[0 + 7] + 256 * w[0 + 8] + 512 * w[0 + 9]
              + 1024 * w[0 + 10] + 2048 * w[0 + 11] + 4096 * w[0 + 12] + 8192 * w[0 + 13]
              + 16384 * w[0 + 14] + 32768 * w[0 + 15]
    BY <2>1, NumberOfBits
  <2>5. Number(w, 0) = b
    BY <2>3, <2>4 DEF Bit
  <2> QED
    BY <1>1, <2>1, <2>2, <2>5 DEF w
<1>3. FOUR = W(0, 4)
  <2> DEFINE w == FOUR
  <2>1. w \in Word
    BY WordConstants
  <2>2. \A i \in 0 .. 15 : w[16 + i] = 0
    BY DEF FOUR, high_if
  <2>3. /\ w[0] = 0
        /\ w[0 + 1] = 0 /\ w[0 + 2] = 1 /\ w[0 + 3] = 0 /\ w[0 + 4] = 0 /\ w[0 + 5] = 0
        /\ w[0 + 6] = 0 /\ w[0 + 7] = 0 /\ w[0 + 8] = 0 /\ w[0 + 9] = 0 /\ w[0 + 10] = 0
        /\ w[0 + 11] = 0 /\ w[0 + 12] = 0 /\ w[0 + 13] = 0 /\ w[0 + 14] = 0 /\ w[0 + 15] = 0
    BY DEF FOUR, high_if
  <2> HIDE DEF w
  <2>4. Number(w, 0) = w[0] + 2 * w[0 + 1] + 4 * w[0 + 2] + 8 * w[0 + 3] + 16 * w[0 + 4]
              + 32 * w[0 + 5] + 64 * w[0 + 6] + 128 * w[0 + 7] + 256 * w[0 + 8] + 512 * w[0 + 9]
              + 1024 * w[0 + 10] + 2048 * w[0 + 11] + 4096 * w[0 + 12] + 8192 * w[0 + 13]
              + 16384 * w[0 + 14] + 32768 * w[0 + 15]
    BY <2>1, NumberOfBits
  <2>5. Number(w, 0) = 4
    BY <2>3, <2>4
  <2> QED
    BY <1>1, <2>1, <2>2, <2>5 DEF w
<1>4. \A p \in BOOLEAN : high_if(p) \in Bit /\ low_if(p) \in Bit
  BY DEF high_if, low_if, Bit
<1>5. \A p \in BOOLEAN : W(0, high_if(p)) = Flag(p) /\ W(0, low_if(p)) = Flag(~p)
  BY DEF Flag, high_if, low_if
<1>6. QED
  BY <1>2, <1>3, <1>4, <1>5

\* The address of the next instruction
LEMMA PcPlus4IsPlus ==
  ASSUME NEW a \in Word
  PROVE  PcPlus4(a) = Plus(a, W(0, 4)) /\ PcPlus4(a) \in Word
BY SmallWords, AddIsPlus, WordConstants, WordOperators DEF PcPlus4

\* The bitwise operators are those of the bits.
LEMMA BitwiseOperators ==
  ASSUME NEW a \in Word, NEW b \in Word
  PROVE  /\ And(a, b) = Bits(a, b, BitAnd) /\ Or(a, b) = Bits(a, b, BitOr)
         /\ Xor(a, b) = Bits(a, b, BitXor) /\ Nor(a, b) = Bits(a, b, BitNor)
<1>1. \A p, q \in 0 .. 1 : /\ high_if(p = 1 /\ q = 1) = BitAnd(p, q)
                           /\ high_if(p = 1 \/ q = 1) = BitOr(p, q)
                           /\ high_if(p # q) = BitXor(p, q)
                           /\ 1 - high_if(p = 1 \/ q = 1) = BitNor(p, q)
  <2> SUFFICES ASSUME NEW p \in 0 .. 1, NEW q \in 0 .. 1
               PROVE  /\ high_if(p = 1 /\ q = 1) = BitAnd(p, q)
                      /\ high_if(p = 1 \/ q = 1) = BitOr(p, q)
                      /\ high_if(p # q) = BitXor(p, q)
                      /\ 1 - high_if(p = 1 \/ q = 1) = BitNor(p, q)
    OBVIOUS
  <2>1. p = 0 \/ p = 1
    OBVIOUS
  <2>2. q = 0 \/ q = 1
    OBVIOUS
  <2> QED
    BY <2>1, <2>2 DEF high_if, BitAnd, BitOr, BitXor, BitNor
<1>2. \A i \in 0 .. 31 : a[i] \in 0 .. 1 /\ b[i] \in 0 .. 1
  BY BitOfWord
<1>3. And(a, b) = Bits(a, b, BitAnd)
  BY <1>1, <1>2 DEF And, Bits
<1>4. Or(a, b) = Bits(a, b, BitOr)
  BY <1>1, <1>2 DEF Or, Bits
<1>5. Xor(a, b) = Bits(a, b, BitXor)
  BY <1>1, <1>2 DEF Xor, Bits
<1>6. Nor(a, b) = Bits(a, b, BitNor)
  <2>1. \A i \in 0 .. 31 : Or(a, b)[i] = high_if(a[i] = 1 \/ b[i] = 1)
    BY DEF Or
  <2> QED
    BY <1>1, <1>2, <2>1 DEF Nor, Not, Bits
<1>7. QED
  BY <1>3, <1>4, <1>5, <1>6

\* ShiftLeftImm
LEMMA ShiftLeftIsLeftBy ==
  ASSUME NEW a \in Word
  PROVE  ShiftLeft(a, 2) = LeftBy(a, 2)
BY DEF ShiftLeft, LeftBy

\* RegCaster makes of the bus's answer what the load says.
LEMMA CastIsLoaded ==
  ASSUME NEW w \in Word
  PROVE  /\ RegCaster(w, 1, "BYTE") = Loaded("lb", w) /\ RegCaster(w, 0, "BYTE") = Loaded("lbu", w)
         /\ RegCaster(w, 1, "HALF") = Loaded("lh", w) /\ RegCaster(w, 0, "HALF") = Loaded("lhu", w)
<1> DEFINE z == ZeroByte(w)
           s == SignByte(w)
<1>1. z \in Word /\ s \in Word /\ w[7] \in 0 .. 1
  BY WordExtensions, BitOfWord
<1>2. \A i \in 0 .. 7 : z[i] = w[i] /\ s[i] = w[i]
  BY DEF ZeroByte, SignByte
<1>3. \A i \in 8 .. 31 : z[i] = 0 /\ s[i] = w[7]
  BY DEF ZeroByte, SignByte
<1> DEFINE Low(v) == v[0] + 2 * v[1] + 4 * v[2] + 8 * v[3] + 16 * v[4] + 32 * v[5] + 64 * v[6]
                       + 128 * v[7]
<1>4. ASSUME NEW v \in Word
      PROVE  Lo(v) % 256 = Low(v) /\ Low(v) \in Int /\ (Low(v) >= 128 <=> v[7] = 1)
  <2>1. Number(v, 0) = v[0] + 2 * v[0 + 1] + 4 * v[0 + 2] + 8 * v[0 + 3] + 16 * v[0 + 4]
              + 32 * v[0 + 5] + 64 * v[0 + 6] + 128 * v[0 + 7] + 256 * v[0 + 8] + 512 * v[0 + 9]
              + 1024 * v[0 + 10] + 2048 * v[0 + 11] + 4096 * v[0 + 12] + 8192 * v[0 + 13]
              + 16384 * v[0 + 14] + 32768 * v[0 + 15]
    BY NumberOfBits
  <2>2. /\ v[0] \in 0 .. 1 /\ v[1] \in 0 .. 1 /\ v[2] \in 0 .. 1 /\ v[3] \in 0 .. 1
        /\ v[4] \in 0 .. 1 /\ v[5] \in 0 .. 1 /\ v[6] \in 0 .. 1 /\ v[7] \in 0 .. 1
        /\ v[8] \in 0 .. 1 /\ v[9] \in 0 .. 1 /\ v[10] \in 0 .. 1 /\ v[11] \in 0 .. 1
        /\ v[12] \in 0 .. 1 /\ v[13] \in 0 .. 1 /\ v[14] \in 0 .. 1 /\ v[15] \in 0 .. 1
    BY BitOfWord
  <2> DEFINE low == Low(v)
             high == v[8] + 2 * v[9] + 4 * v[10] + 8 * v[11] + 16 * v[12] + 32 * v[13]
                       + 64 * v[14] + 128 * v[15]
  <2>3. low \in Int /\ 0 <= low /\ low < 256 /\ high \in Int /\ (low >= 128 <=> v[7] = 1)
    <3> DEFINE seven == v[0] + 2 * v[1] + 4 * v[2] + 8 * v[3] + 16 * v[4] + 32 * v[5] + 64 * v[6]
    <3>1. seven \in Int /\ 0 <= seven /\ seven < 128
      BY <2>2
    <3>2. low = seven + 128 * v[7]
      OBVIOUS
    <3>3. high \in Int
      BY <2>2
    <3> HIDE DEF seven, low, high
    <3> QED
      BY <2>2, <3>1, <3>2, <3>3
  <2>4. Number(v, 0) = low + 256 * high
    <3>1. 256 * high = 256 * v[8] + 512 * v[9] + 1024 * v[10] + 2048 * v[11] + 4096 * v[12]
                         + 8192 * v[13] + 16384 * v[14] + 32768 * v[15]
      BY <2>2
    <3>2. high \in Int /\ low \in Int
      BY <2>3
    <3>3. Number(v, 0) = low + 256 * v[8] + 512 * v[9] + 1024 * v[10] + 2048 * v[11]
                           + 4096 * v[12] + 8192 * v[13] + 16384 * v[14] + 32768 * v[15]
      BY <2>1
    <3> HIDE DEF high, low
    <3>4. /\ v[8] \in Int /\ v[9] \in Int /\ v[10] \in Int /\ v[11] \in Int
          /\ v[12] \in Int /\ v[13] \in Int /\ v[14] \in Int /\ v[15] \in Int
      BY <2>2
    <3>5. low + 256 * v[8] + 512 * v[9] + 1024 * v[10] + 2048 * v[11]
                           + 4096 * v[12] + 8192 * v[13] + 16384 * v[14] + 32768 * v[15]
            = low + 256 * high
      BY <3>1, <3>2, <3>4
    <3> QED
      BY <3>3, <3>5
  <2> HIDE DEF low, high
  <2>5. (low + 256 * high) % 256 = low
    BY <2>3
  <2> QED
    BY <2>3, <2>4, <2>5 DEF Lo, low
<1>5. Low(z) = Low(w) /\ Low(s) = Low(w)
  BY <1>2
<1>6. Lo(z) = Low(w) + 65280 * 0 /\ Lo(s) = Low(w) + 65280 * w[7]
  <2>1. Lo(z) = (Lo(z) % 256) + 65280 * 0
    <3>1. \A i \in 8 .. 15 : z[i] = 0
      BY <1>3
    <3> HIDE DEF z
    <3> QED
      BY <3>1, <1>1, HalfOfByte
  <2>2. Lo(s) = (Lo(s) % 256) + 65280 * w[7]
    <3>1. \A i \in 8 .. 15 : s[i] = w[7]
      BY <1>3
    <3> HIDE DEF s
    <3> QED
      BY <3>1, <1>1, HalfOfByte
  <2> HIDE DEF z, s, Low
  <2> QED
    BY <2>1, <2>2, <1>1, <1>4, <1>5
<1>7. Hi(z) = 0 /\ Hi(s) = IF w[7] = 1 THEN 65535 ELSE 0
  <2>1. \A i \in 0 .. 15 : z[16 + i] = 0 /\ s[16 + i] = w[7]
    <3>1. \A i \in 0 .. 15 : 16 + i \in 8 .. 31
      OBVIOUS
    <3> QED
      BY <3>1, <1>3
  <2> HIDE DEF z, s
  <2> QED
    BY <2>1, <1>1, HalfOfOneBit DEF Hi
<1> DEFINE byte == Lo(w) % 256
<1>8. byte = Low(w) /\ byte \in Int /\ (byte >= 128 <=> w[7] = 1)
  BY <1>4
<1> HIDE DEF z, s, Low, byte
<1>9. z = W(0, byte)
  <2>1. Lo(z) = byte
    BY <1>6, <1>8
  <2> QED
    BY <2>1, <1>1, <1>7, WordIsHalves
<1>10. s = IF byte >= 128 THEN W(65535, 65280 + byte) ELSE W(0, byte)
  <2>1. CASE w[7] = 1
    <3>1. Lo(s) = 65280 + byte
      BY <1>6, <1>8, <2>1
    <3> QED
      BY <3>1, <2>1, <1>1, <1>7, <1>8, WordIsHalves
  <2>2. CASE w[7] = 0
    <3>1. Lo(s) = byte
      BY <1>6, <1>8, <2>2
    <3> QED
      BY <3>1, <2>2, <1>1, <1>7, <1>8, WordIsHalves
  <2>3. QED
    BY <2>1, <2>2, <1>1
<1>11. RegCaster(w, 1, "BYTE") = s /\ RegCaster(w, 0, "BYTE") = z
  BY DEF RegCaster, s, z
<1>12. RegCaster(w, 1, "HALF") = SignHalf(w) /\ RegCaster(w, 0, "HALF") = ZeroHalf(w)
  BY DEF RegCaster
<1>13. /\ Loaded("lb", w) = IF byte >= 128 THEN W(65535, 65280 + byte) ELSE W(0, byte)
       /\ Loaded("lbu", w) = W(0, byte)
       /\ Loaded("lh", w) = Signed(Lo(w)) /\ Loaded("lhu", w) = Unsigned(Lo(w))
  BY DEF Loaded, byte
<1>14. QED
  BY <1>9, <1>10, <1>11, <1>12, <1>13, HalfExtensions

-----------------------------------------------------------------------------
(* The fields of an encoded instruction.                                   *)

\* The opcode and the first two registers, cut out of the upper half
LEMMA UpperParts ==
  ASSUME NEW w \in Word
  PROVE  /\ op(w) \in 0 .. 63 /\ rs(w) \in 0 .. 31 /\ rt(w) \in 0 .. 31
         /\ Hi(w) = op(w) * 1024 + rs(w) * 32 + rt(w)
<1> DEFINE A0 == Field5(w, 16)
           A1 == Field5(w, 16 + 5)
           A2 == Field5(w, 16 + 10)
           A3 == w[16 + 15]
<1>1. /\ A0 \in 0 .. 31 /\ A1 \in 0 .. 31 /\ A2 \in 0 .. 31 /\ A3 \in 0 .. 1
      /\ Number(w, 16) = A0 + 32 * (A1 + 32 * (A2 + 32 * A3))
  BY NumberOfFields
<1>2. rt(w) = A0 /\ rs(w) = A1 /\ op(w) = A2 + 32 * A3
  BY DEF rt, rs, op, Field6
<1> HIDE DEF A0, A1, A2, A3
<1>3. A2 + 32 * A3 \in 0 .. 63
  BY <1>1
<1>4. A0 + 32 * (A1 + 32 * (A2 + 32 * A3)) = (A2 + 32 * A3) * 1024 + A1 * 32 + A0
  BY <1>1
<1>5. QED
  BY <1>1, <1>2, <1>3, <1>4 DEF Hi

\* The same put together
Upper(o, s, t) == o * 1024 + s * 32 + t

\* A word with an upper half put together from fields has these fields.
LEMMA UpperFields ==
  ASSUME NEW w \in Word, NEW o \in 0 .. 63, NEW s \in 0 .. 31, NEW t \in 0 .. 31,
         Hi(w) = Upper(o, s, t)
  PROVE  op(w) = o /\ rs(w) = s /\ rt(w) = t
<1> DEFINE a == op(w)
           b == rs(w)
           c == rt(w)
<1>1. a \in 0 .. 63 /\ b \in 0 .. 31 /\ c \in 0 .. 31 /\ a * 1024 + b * 32 + c = o * 1024 + s * 32 + t
  BY UpperParts DEF Upper
<1> HIDE DEF a, b, c
<1>2. a = o /\ b = s /\ c = t
  BY <1>1
<1>3. QED
  BY <1>2 DEF a, b, c

\* The destination register and the function, cut out of the lower half
LEMMA LowerParts ==
  ASSUME NEW w \in Word
  PROVE  /\ func(w) \in 0 .. 63 /\ rd(w) \in 0 .. 31
         /\ \E shamt \in 0 .. 31 : Lo(w) = func(w) + 64 * shamt + 2048 * rd(w)
<1>1. Number(w, 0) = w[0] + 2 * w[0 + 1] + 4 * w[0 + 2] + 8 * w[0 + 3] + 16 * w[0 + 4]
              + 32 * w[0 + 5] + 64 * w[0 + 6] + 128 * w[0 + 7] + 256 * w[0 + 8] + 512 * w[0 + 9]
              + 1024 * w[0 + 10] + 2048 * w[0 + 11] + 4096 * w[0 + 12] + 8192 * w[0 + 13]
              + 16384 * w[0 + 14] + 32768 * w[0 + 15]
  BY NumberOfBits
<1>2. /\ w[0] \in 0 .. 1 /\ w[1] \in 0 .. 1 /\ w[2] \in 0 .. 1 /\ w[3] \in 0 .. 1
      /\ w[4] \in 0 .. 1 /\ w[5] \in 0 .. 1 /\ w[6] \in 0 .. 1 /\ w[7] \in 0 .. 1
      /\ w[8] \in 0 .. 1 /\ w[9] \in 0 .. 1 /\ w[10] \in 0 .. 1 /\ w[11] \in 0 .. 1
      /\ w[12] \in 0 .. 1 /\ w[13] \in 0 .. 1 /\ w[14] \in 0 .. 1 /\ w[15] \in 0 .. 1
  BY BitOfWord
<1> DEFINE low == w[0] + 2 * w[1] + 4 * w[2] + 8 * w[3] + 16 * w[4] + 32 * w[5]
           mid == w[6] + 2 * w[7] + 4 * w[8] + 8 * w[9] + 16 * w[10]
           high == w[11] + 2 * w[12] + 4 * w[13] + 8 * w[14] + 16 * w[15]
<1>3. low \in 0 .. 63 /\ mid \in 0 .. 31 /\ high \in 0 .. 31
  BY <1>2
<1>4. rd(w) = high /\ func(w) = low
  <2>1. Field5(w, 11) = w[11] + 2 * w[11 + 1] + 4 * w[11 + 2] + 8 * w[11 + 3] + 16 * w[11 + 4]
    BY DEF Field5
  <2>2. Field6(w, 0) = w[0] + 2 * w[0 + 1] + 4 * w[0 + 2] + 8 * w[0 + 3] + 16 * w[0 + 4]
                         + 32 * w[0 + 5]
    BY DEF Field6, Field5
  <2> QED
    BY <2>1, <2>2 DEF rd, func
<1>5. Number(w, 0) = low + 64 * mid + 2048 * high
  <2>1. Number(w, 0) = low + 64 * w[6] + 128 * w[7] + 256 * w[8] + 512 * w[9] + 1024 * w[10]
                         + 2048 * w[11] + 4096 * w[12] + 8192 * w[13] + 16384 * w[14] + 32768 * w[15]
    BY <1>1
  <2>2. ASSUME NEW n \in Int, NEW a \in Int, NEW b \in Int, NEW c \in Int, NEW g \in Int, NEW h \in Int
        PROVE  /\ n + 64 * a + 128 * b + 256 * c + 512 * g + 1024 * h
                    = n + 64 * (a + 2 * b + 4 * c + 8 * g + 16 * h)
               /\ n + 2048 * a + 4096 * b + 8192 * c + 16384 * g + 32768 * h
                    = n + 2048 * (a + 2 * b + 4 * c + 8 * g + 16 * h)
    OBVIOUS
  <2>3. low \in Int /\ mid \in Int /\ high \in Int
    BY <1>3
  <2>4. /\ w[6] \in Int /\ w[7] \in Int /\ w[8] \in Int /\ w[9] \in Int /\ w[10] \in Int
        /\ w[11] \in Int /\ w[12] \in Int /\ w[13] \in Int /\ w[14] \in Int /\ w[15] \in Int
    BY <1>2
  <2> HIDE DEF low
  <2>5. low + 64 * w[6] + 128 * w[7] + 256 * w[8] + 512 * w[9] + 1024 * w[10] = low + 64 * mid
    BY <2>2, <2>3, <2>4
  <2> DEFINE lower == low + 64 * mid
  <2>6. lower \in Int
    BY <2>3
  <2>7. Number(w, 0) = lower + 2048 * w[11] + 4096 * w[12] + 8192 * w[13] + 16384 * w[14]
                         + 32768 * w[15]
    BY <2>1, <2>5
  <2> HIDE DEF lower
  <2>8. lower + 2048 * w[11] + 4096 * w[12] + 8192 * w[13] + 16384 * w[14] + 32768 * w[15]
          = lower + 2048 * high
    BY <2>2, <2>4, <2>6
  <2>9. Number(w, 0) = lower + 2048 * high
    BY <2>7, <2>8
  <2> QED
    BY <2>9 DEF lower
<1>6. QED
  BY <1>3, <1>4, <1>5 DEF Lo

\* The same put together
Lower(d, sh, f) == d * 2048 + sh * 64 + f

\* A word with a lower half put together from fields has these fields.
LEMMA LowerFields ==
  ASSUME NEW w \in Word, NEW d \in 0 .. 31, NEW sh \in 0 .. 31, NEW f \in 0 .. 63,
         Lo(w) = Lower(d, sh, f)
  PROVE  rd(w) = d /\ func(w) = f
<1>1. PICK mid \in 0 .. 31 : Lo(w) = func(w) + 64 * mid + 2048 * rd(w)
  BY LowerParts
<1> DEFINE low == func(w)
           high == rd(w)
<1>2. low \in 0 .. 63 /\ high \in 0 .. 31
  BY LowerParts
<1>3. low + 64 * mid + 2048 * high = d * 2048 + sh * 64 + f
  BY <1>1 DEF Lower
<1> HIDE DEF low, high
<1>4. low = f /\ high = d
  BY <1>2, <1>3
<1>5. QED
  BY <1>4 DEF low, high

\* Fields of two and three bits
Field2(w, lo) == w[lo] + 2 * w[lo + 1]
Field3(w, lo) == Field2(w, lo) + 4 * w[lo + 2]

\* A register field is put together from a field of two and one of three bits.
LEMMA FieldSplits ==
  ASSUME NEW w \in Word, NEW l \in 0 .. 27
  PROVE  /\ Field2(w, l) \in 0 .. 3 /\ Field3(w, l) \in 0 .. 7
         /\ Field2(w, l + 3) \in 0 .. 3 /\ Field3(w, l + 2) \in 0 .. 7
         /\ Field5(w, l) = Field3(w, l) + 8 * Field2(w, l + 3)
         /\ Field5(w, l) = Field2(w, l) + 4 * Field3(w, l + 2)
<1> DEFINE x(i) == w[l + i]
<1>1. x(0) \in 0 .. 1 /\ x(1) \in 0 .. 1 /\ x(2) \in 0 .. 1 /\ x(3) \in 0 .. 1 /\ x(4) \in 0 .. 1
  BY BitOfWord
<1>2. /\ Field2(w, l) = x(0) + 2 * x(1) /\ Field3(w, l) = x(0) + 2 * x(1) + 4 * x(2)
      /\ Field2(w, l + 3) = x(3) + 2 * x(4) /\ Field3(w, l + 2) = x(2) + 2 * x(3) + 4 * x(4)
      /\ Field5(w, l) = x(0) + 2 * x(1) + 4 * x(2) + 8 * x(3) + 16 * x(4)
  <2>1. l + 0 = l /\ (l + 3) + 1 = l + 4 /\ (l + 2) + 1 = l + 3 /\ (l + 2) + 2 = l + 4
    OBVIOUS
  <2> QED
    BY <2>1 DEF Field2, Field3, Field5
<1> HIDE DEF x
<1>3. QED
  BY <1>1, <1>2

\* The fourteen bits at the bottom of a word, the twelve at the bottom of its
\* upper half, and the four at its top
Fourteen(w) == Field3(w, 0) + 8 * Field2(w, 3) + 32 * Field3(w, 5) + 256 * Field2(w, 8)
                 + 1024 * Field3(w, 10) + 8192 * w[13]
Twelve(w)   == Field5(w, 16) + 32 * Field5(w, 21) + 1024 * Field2(w, 26)
Region(w)   == Field3(w, 28) + 8 * w[31]

\* A jump's target keeps the region of the following instruction and appends
\* "00" to the twenty-six bits of the instruction.
LEMMA JumpParts ==
  ASSUME NEW w \in Word, NEW pc \in Word
  PROVE  /\ JumpAddr(pc, w) \in Word
         /\ Fourteen(w) \in 0 .. 16383 /\ Field2(w, 14) \in 0 .. 3
         /\ Twelve(pc) \in 0 .. 4095 /\ Region(pc) \in 0 .. 15
         /\ Lo(w) = Fourteen(w) + 16384 * Field2(w, 14)
         /\ Hi(pc) = Twelve(pc) + 4096 * Region(pc)
         /\ Lo(JumpAddr(pc, w)) = 4 * Fourteen(w)
         /\ Hi(JumpAddr(pc, w)) = Field2(w, 14) + 4 * rt(w) + 128 * rs(w) + 4096 * Region(pc)
<1> DEFINE J == JumpAddr(pc, w)
<1>1. J \in Word
  BY DEF JumpAddr, Word, Bit
<1>2. /\ \A i \in 2 .. 27 : J[i] = w[i - 2]
      /\ \A i \in 28 .. 31 : J[i] = pc[i]
      /\ J[0] = 0 /\ J[1] = 0
  BY DEF JumpAddr
<1> HIDE DEF J
<1>3. /\ Field5(J, 0) = 4 * Field3(w, 0) /\ Field5(J, 5) = Field5(w, 3) /\ Field5(J, 10) = Field5(w, 8)
      /\ J[15] = w[13]
      /\ Field5(J, 16) = Field2(w, 14) + 4 * Field3(w, 16) /\ Field5(J, 21) = Field5(w, 19)
      /\ Field5(J, 26) = Field2(w, 24) + 4 * Field3(pc, 28) /\ J[31] = pc[31]
  <2>1. \A i \in 0 .. 31 : w[i] \in 0 .. 1 /\ pc[i] \in 0 .. 1
    BY BitOfWord
  <2>2. Field5(J, 0) = 4 * Field3(w, 0)
    <3>1. J[2] = w[0] /\ J[3] = w[1] /\ J[4] = w[2]
      BY <1>2
    <3>2. w[0] \in 0 .. 1 /\ w[1] \in 0 .. 1 /\ w[2] \in 0 .. 1
      BY <2>1
    <3> QED
      BY <3>1, <3>2, <1>2 DEF Field5, Field3, Field2
  <2>3. Field5(J, 5) = Field5(w, 3) /\ Field5(J, 10) = Field5(w, 8) /\ Field5(J, 21) = Field5(w, 19)
    BY <1>2 DEF Field5
  <2>4. Field5(J, 16) = Field2(w, 14) + 4 * Field3(w, 16)
    <3>1. J[16] = w[14] /\ J[17] = w[15] /\ J[18] = w[16] /\ J[19] = w[17] /\ J[20] = w[18]
      BY <1>2
    <3>2. w[14] \in 0 .. 1 /\ w[15] \in 0 .. 1 /\ w[16] \in 0 .. 1 /\ w[17] \in 0 .. 1 /\ w[18] \in 0 .. 1
      BY <2>1
    <3> QED
      BY <3>1, <3>2 DEF Field5, Field3, Field2
  <2>5. Field5(J, 26) = Field2(w, 24) + 4 * Field3(pc, 28)
    <3>1. J[26] = w[24] /\ J[27] = w[25] /\ J[28] = pc[28] /\ J[29] = pc[29] /\ J[30] = pc[30]
      BY <1>2
    <3>2. w[24] \in 0 .. 1 /\ w[25] \in 0 .. 1 /\ pc[28] \in 0 .. 1 /\ pc[29] \in 0 .. 1 /\ pc[30] \in 0 .. 1
      BY <2>1
    <3> QED
      BY <3>1, <3>2 DEF Field5, Field3, Field2
  <2>6. J[15] = w[13] /\ J[31] = pc[31]
    BY <1>2
  <2> QED
    BY <2>2, <2>3, <2>4, <2>5, <2>6
<1> DEFINE low == Field3(w, 0) + 8 * Field2(w, 3) + 32 * Field3(w, 5) + 256 * Field2(w, 8)
                    + 1024 * Field3(w, 10) + 8192 * w[13]
           two == Field2(w, 14)
           rest == Field5(pc, 16) + 32 * Field5(pc, 21) + 1024 * Field2(pc, 26)
           top == Field3(pc, 28) + 8 * pc[31]
<1>4. /\ low \in 0 .. 16383 /\ Lo(w) = low + 16384 * two /\ Lo(J) = 4 * low
  <2>1. ASSUME NEW a \in Int, NEW b \in Int, NEW c \in Int, NEW d \in Int, NEW e \in Int,
               NEW f \in Int, NEW g \in Int, NEW h \in Int
        PROVE  /\ (a + 8 * b) + 32 * ((c + 8 * d) + 32 * ((e + 8 * (f + 2 * g)) + 32 * h))
                    = (a + 8 * b + 32 * c + 256 * d + 1024 * e + 8192 * f) + 16384 * (g + 2 * h)
               /\ 4 * a + 32 * ((b + 4 * c) + 32 * ((d + 4 * e) + 32 * f))
                    = 4 * (a + 8 * b + 32 * c + 256 * d + 1024 * e + 8192 * f)
    OBVIOUS
  <2>2. /\ Field3(w, 0) \in 0 .. 7 /\ Field2(w, 3) \in 0 .. 3 /\ Field3(w, 5) \in 0 .. 7
        /\ Field2(w, 8) \in 0 .. 3 /\ Field3(w, 10) \in 0 .. 7
        /\ Field5(w, 0) = Field3(w, 0) + 8 * Field2(w, 3)
        /\ Field5(w, 5) = Field3(w, 5) + 8 * Field2(w, 8)
        /\ Field5(w, 10) = Field3(w, 10) + 8 * Field2(w, 13)
        /\ Field5(w, 3) = Field2(w, 3) + 4 * Field3(w, 5)
        /\ Field5(w, 8) = Field2(w, 8) + 4 * Field3(w, 10)
    BY FieldSplits
  <2>3. w[13] \in 0 .. 1 /\ w[14] \in 0 .. 1 /\ w[15] \in 0 .. 1
    BY BitOfWord
  <2>4. Field2(w, 13) = w[13] + 2 * w[14] /\ two = w[14] + 2 * w[15]
    BY DEF Field2
  <2>5. Lo(w) = Field5(w, 0) + 32 * (Field5(w, 5) + 32 * (Field5(w, 10) + 32 * w[15]))
    BY NumberOfFields DEF Lo
  <2>6. Lo(J) = Field5(J, 0) + 32 * (Field5(J, 5) + 32 * (Field5(J, 10) + 32 * J[15]))
    BY <1>1, NumberOfFields DEF Lo
  <2>7. Lo(w) = (Field3(w, 0) + 8 * Field2(w, 3))
                  + 32 * ((Field3(w, 5) + 8 * Field2(w, 8))
                       + 32 * ((Field3(w, 10) + 8 * (w[13] + 2 * w[14])) + 32 * w[15]))
    BY <2>2, <2>4, <2>5
  <2>8. Lo(J) = 4 * Field3(w, 0)
                  + 32 * ((Field2(w, 3) + 4 * Field3(w, 5))
                       + 32 * ((Field2(w, 8) + 4 * Field3(w, 10)) + 32 * w[13]))
    BY <1>3, <2>2, <2>6
  <2>9. low \in Int /\ 0 <= low /\ low <= 16383
    <3> DEFINE a == Field3(w, 0)
               b == Field2(w, 3)
               c == Field3(w, 5)
               d == Field2(w, 8)
               e == Field3(w, 10)
               f == w[13]
    <3>1. /\ a \in 0 .. 7 /\ b \in 0 .. 3 /\ c \in 0 .. 7 /\ d \in 0 .. 3 /\ e \in 0 .. 7 /\ f \in 0 .. 1
          /\ low = a + 8 * b + 32 * c + 256 * d + 1024 * e + 8192 * f
      BY <2>2, <2>3
    <3> HIDE DEF a, b, c, d, e, f, low
    <3> QED
      BY <3>1
  <2>12. /\ Field3(w, 0) \in Int /\ Field2(w, 3) \in Int /\ Field3(w, 5) \in Int
         /\ Field2(w, 8) \in Int /\ Field3(w, 10) \in Int
         /\ w[13] \in Int /\ w[14] \in Int /\ w[15] \in Int
    BY <2>2, <2>3
  <2>10. Lo(w) = low + 16384 * two
    BY <2>1, <2>4, <2>7, <2>12
  <2>11. Lo(J) = 4 * low
    BY <2>1, <2>8, <2>12
  <2> HIDE DEF low, two
  <2> QED
    BY <2>9, <2>10, <2>11
<1>5. rest \in 0 .. 4095 /\ two \in 0 .. 3 /\ top \in 0 .. 15
  <2>1. /\ Field5(pc, 16) \in 0 .. 31 /\ Field5(pc, 21) \in 0 .. 31
    BY Fields DEF Reg
  <2>2. Field2(pc, 26) \in 0 .. 3 /\ two \in 0 .. 3
    BY FieldSplits
  <2>3. Field3(pc, 28) \in 0 .. 7
    <3>1. Field3(pc, 26 + 2) \in 0 .. 7
      BY FieldSplits
    <3> QED
      BY <3>1
  <2>4. pc[31] \in 0 .. 1
    BY BitOfWord
  <2> QED
    BY <2>1, <2>2, <2>3, <2>4
<1>6. Hi(pc) = rest + 4096 * top
  <2>1. Hi(pc) = Field5(pc, 16) + 32 * (Field5(pc, 21) + 32 * (Field5(pc, 26) + 32 * pc[31]))
    BY NumberOfFields DEF Hi
  <2>2. Field5(pc, 26) = Field2(pc, 26) + 4 * Field3(pc, 28)
    BY FieldSplits
  <2>3. ASSUME NEW a \in Int, NEW b \in Int, NEW c \in Int, NEW d \in Int, NEW e \in Int
        PROVE  a + 32 * (b + 32 * ((c + 4 * d) + 32 * e))
                 = (a + 32 * b + 1024 * c) + 4096 * (d + 8 * e)
    OBVIOUS
  <2>4. Field5(pc, 16) \in Int /\ Field5(pc, 21) \in Int
    BY Fields DEF Reg
  <2>5. Field2(pc, 26) \in Int /\ Field3(pc, 26 + 2) \in Int
    BY FieldSplits
  <2>6. pc[31] \in Int
    BY BitOfWord
  <2> QED
    BY <2>1, <2>2, <2>3, <2>4, <2>5, <2>6
<1>7. Hi(J) = two + 4 * rt(w) + 128 * rs(w) + 4096 * top
  <2>1. Hi(J) = Field5(J, 16) + 32 * (Field5(J, 21) + 32 * (Field5(J, 26) + 32 * J[31]))
    BY <1>1, NumberOfFields DEF Hi
  <2>2. /\ Field5(w, 19) = Field2(w, 19) + 4 * Field3(w, 21)
        /\ rt(w) = Field3(w, 16) + 8 * Field2(w, 19)
        /\ rs(w) = Field3(w, 21) + 8 * Field2(w, 24)
        /\ Field3(w, 16) \in Int /\ Field2(w, 19) \in Int /\ Field3(w, 21) \in Int
        /\ Field2(w, 24) \in Int /\ two \in Int
    BY FieldSplits DEF rt, rs
  <2>3. Field3(pc, 26 + 2) \in Int
    BY FieldSplits
  <2>4. pc[31] \in Int
    BY BitOfWord
  <2>5. ASSUME NEW a \in Int, NEW b \in Int, NEW c \in Int, NEW d \in Int, NEW e \in Int,
               NEW f \in Int, NEW g \in Int
        PROVE  (a + 4 * b) + 32 * ((c + 4 * d) + 32 * ((e + 4 * f) + 32 * g))
                 = a + 4 * (b + 8 * c) + 128 * (d + 8 * e) + 4096 * (f + 8 * g)
    OBVIOUS
  <2>6. Hi(J) = (two + 4 * Field3(w, 16))
                  + 32 * ((Field2(w, 19) + 4 * Field3(w, 21))
                       + 32 * ((Field2(w, 24) + 4 * Field3(pc, 28)) + 32 * pc[31]))
    BY <1>3, <2>1, <2>2
  <2>7. Hi(J) = two + 4 * (Field3(w, 16) + 8 * Field2(w, 19)) + 128 * (Field3(w, 21) + 8 * Field2(w, 24))
                  + 4096 * top
    BY <2>2, <2>3, <2>4, <2>5, <2>6
  <2> HIDE DEF two, top
  <2> QED
    BY <2>2, <2>7
<1> HIDE DEF low, two, rest, top
<1>8. /\ Fourteen(w) = low /\ Field2(w, 14) = two /\ Twelve(pc) = rest /\ Region(pc) = top
  BY DEF Fourteen, Twelve, Region, low, two, rest, top
<1>9. QED
  BY <1>1, <1>4, <1>5, <1>6, <1>7, <1>8 DEF J

\* The word a jump to "target" goes to, by its halves
LEMMA JumpTarget ==
  ASSUME NEW w \in Word, NEW pc \in Word, NEW o \in 0 .. 63, NEW target \in Nat,
         target \div 65536 < 1024,
         Hi(w) = o * 1024 + target \div 65536, Lo(w) = target % 65536
  PROVE  /\ op(w) = o
         /\ JumpAddr(pc, w) = W((Hi(pc) \div 4096) * 4096 + target \div 16384, (target % 16384) * 4)
<1> DEFINE high == target \div 65536
           low == target % 65536
<1>1. high \in 0 .. 1023 /\ low \in Nat /\ target = 65536 * high + low
  OBVIOUS
<1> HIDE DEF high, low
<1> DEFINE a == op(w)
           s == rs(w)
           t == rt(w)
<1>2. /\ a \in 0 .. 63 /\ s \in 0 .. 31 /\ t \in 0 .. 31
      /\ a * 1024 + s * 32 + t = o * 1024 + high
  BY UpperParts DEF high
<1>3. Lo(w) = low
  BY DEF low
<1> HIDE DEF a, s, t
<1>4. a = o /\ high = s * 32 + t
  BY <1>1, <1>2
<1> DEFINE bits == Fourteen(w)
           two == Field2(w, 14)
           rest == Twelve(pc)
           top == Region(pc)
<1>5. /\ JumpAddr(pc, w) \in Word
      /\ bits \in 0 .. 16383 /\ two \in 0 .. 3 /\ rest \in 0 .. 4095 /\ top \in 0 .. 15
      /\ low = bits + 16384 * two /\ Hi(pc) = rest + 4096 * top
      /\ Lo(JumpAddr(pc, w)) = 4 * bits
      /\ Hi(JumpAddr(pc, w)) = two + 4 * t + 128 * s + 4096 * top
  BY <1>3, JumpParts DEF s, t
<1> HIDE DEF bits, two, rest, top
<1>6. target = bits + 16384 * (two + 4 * high)
  BY <1>1, <1>5
<1>7. target \div 16384 = two + 4 * high /\ target % 16384 = bits
  <2> DEFINE k == two + 4 * high
  <2>1. k \in Nat /\ target = bits + 16384 * k
    BY <1>1, <1>5, <1>6
  <2> HIDE DEF k
  <2>2. target \div 16384 = k /\ target % 16384 = bits
    BY <2>1, <1>5
  <2> QED
    BY <2>2 DEF k
<1>8. (Hi(pc) \div 4096) * 4096 = 4096 * top
  BY <1>5
<1>9. Hi(JumpAddr(pc, w)) = (Hi(pc) \div 4096) * 4096 + target \div 16384
  BY <1>1, <1>2, <1>4, <1>5, <1>7, <1>8
<1>10. Lo(JumpAddr(pc, w)) = (target % 16384) * 4
  BY <1>5, <1>7
<1>11. QED
  BY <1>4, <1>5, <1>9, <1>10, WordIsHalves DEF a

\* The values of an opcode or a function field
SixBits == 0 .. 63

\* An instruction's word has the fields it was put together from: with three
\* registers,
LEMMA RTypeFields ==
  ASSUME NEW s \in Reg, NEW t \in Reg, NEW d \in Reg, NEW sh \in Reg, NEW f \in SixBits
  PROVE  LET w == RType(s, t, d, sh, f)
         IN  /\ w \in Word
             /\ op(w) = 0 /\ rs(w) = s /\ rt(w) = t /\ rd(w) = d /\ func(w) = f
<1> DEFINE hi == s * 32 + t
           lo == d * 2048 + sh * 64 + f
           w == W(hi, lo)
<1>1. hi \in Numbers /\ lo \in Numbers
  BY DEF Numbers, Reg, SixBits
<1>2. hi = Upper(0, s, t) /\ lo = Lower(d, sh, f)
  BY DEF Upper, Lower, Reg
<1>3. w \in Word /\ Hi(w) = Upper(0, s, t) /\ Lo(w) = Lower(d, sh, f)
  BY <1>1, <1>2, WordOfHalves
<1> HIDE DEF w
<1>4. op(w) = 0 /\ rs(w) = s /\ rt(w) = t /\ rd(w) = d /\ func(w) = f
  <2>1. 0 \in 0 .. 63
    OBVIOUS
  <2>2. op(w) = 0 /\ rs(w) = s /\ rt(w) = t
    BY <1>3, <2>1, UpperFields DEF Reg
  <2>3. rd(w) = d /\ func(w) = f
    BY <1>3, LowerFields DEF Reg, SixBits
  <2> QED
    BY <2>2, <2>3
<1>5. RType(s, t, d, sh, f) = w
  BY DEF RType, w
<1>6. QED
  BY <1>3, <1>4, <1>5

\* with an immediate:
LEMMA ITypeFields ==
  ASSUME NEW o \in SixBits, NEW s \in Reg, NEW t \in Reg, NEW imm \in Numbers
  PROVE  LET w == IType(o, s, t, imm)
         IN  w \in Word /\ op(w) = o /\ rs(w) = s /\ rt(w) = t /\ Lo(w) = imm
<1> DEFINE hi == o * 1024 + s * 32 + t
           w == W(hi, imm)
<1>1. hi \in Numbers
  BY DEF Numbers, Reg, SixBits
<1>2. hi = Upper(o, s, t)
  BY DEF Upper
<1>3. w \in Word /\ Hi(w) = Upper(o, s, t) /\ Lo(w) = imm
  BY <1>1, <1>2, WordOfHalves
<1> HIDE DEF w
<1>4. op(w) = o /\ rs(w) = s /\ rt(w) = t
  BY <1>3, UpperFields DEF Reg, SixBits
<1>5. IType(o, s, t, imm) = w
  BY DEF IType, w
<1>6. QED
  BY <1>3, <1>4, <1>5

\* The numbers of twenty-six bits
Targets == {n \in Nat : n \div 65536 < 1024}

\* and with a target.
LEMMA JTypeFields ==
  ASSUME NEW o \in SixBits, NEW target \in Targets, NEW pc \in Word
  PROVE  LET w == JType(o, target)
         IN  /\ w \in Word /\ op(w) = o /\ JumpAddr(pc, w) = TargetWord(pc, target)
<1> DEFINE hi == o * 1024 + target \div 65536
           lo == target % 65536
           w == W(hi, lo)
<1>1. hi \in Numbers /\ lo \in Numbers
  <2> DEFINE q == target \div 65536
  <2>1. q \in 0 .. 1023
    BY DEF Targets
  <2> HIDE DEF q
  <2>2. o * 1024 + q \in Numbers
    BY <2>1 DEF Numbers, SixBits
  <2>3. lo \in Numbers
    BY DEF Numbers, Targets
  <2> QED
    BY <2>2, <2>3 DEF q
<1>2. w \in Word /\ Hi(w) = hi /\ Lo(w) = lo
  BY <1>1, WordOfHalves
<1>3. JType(o, target) = w
  BY DEF JType
<1> HIDE DEF w
<1>4. QED
  BY <1>2, <1>3, JumpTarget DEF SixBits, Targets, TargetWord

-----------------------------------------------------------------------------
(* One instruction through the datapath.                                   *)

\* What the ID registers receive of the word w
Decoded(w, at) == InstructionDecode(w, PcPlus4(at.pc), MainDec(w, at.latch))

\* What MEM and WB make of it, the ALU having left st
Finished(id, st, at) ==
  LET pc4 == PcPlus4(at.pc)
      req == BusRequest(id, at.reg, st)
  IN  [reg |-> Commit(id, at.reg, st, pc4, at.answer), hi |-> st.hi, lo |-> st.lo,
       pc  |-> NextPc(id, at.reg, st, pc4),
       req |-> IF req.size # WIDTH_NONE /\ req.wr = 0
               THEN [size |-> req.size, wr |-> 0, addr |-> req.addr] ELSE req]

\* What the ALU process holds before: the latched result is any word.
AluBefore(at) == [result |-> at.answer, hi |-> at.hi, lo |-> at.lo]

\* Conformance's Outcome is this decoder, the ALU, and these muxes.
LEMMA OutcomeIsFinished ==
  ASSUME NEW i, NEW at
  PROVE  LET id == Decoded(Encode(i), at)
         IN  Outcome(i, at) = Finished(id, Execute(id, at.reg, AluBefore(at)), at)
BY DEF Outcome, Finished, Decoded, AluBefore

\* The ID registers, by the control vector and the fields
LEMMA DecodedIs ==
  ASSUME NEW w, NEW at
  PROVE  LET id == Decoded(w, at)
             c  == Ctrl(w, at.latch.ctrl)
             width == MemWidthOf(w, at.latch.memwidth)
         IN  /\ id.regwrite = c["regwrite"] /\ id.link = c["link"]
             /\ id.jumpreg = c["jumpreg"] /\ id.jumpdir = c["jumpdirect"]
             /\ id.branch = c["branch"] /\ id.memtoreg = c["memtoreg"]
             /\ id.memsex = c["memsex"] /\ id.shift = c["shift"] /\ id.alusrc = c["alusrc"]
             /\ id.memread = IF c["memread"] = 1 THEN width ELSE WIDTH_NONE
             /\ id.memwrite = IF c["memwrite"] = 1 THEN width ELSE WIDTH_NONE
             /\ id.aluop = AluOpOf(w, at.latch.aluop)
             /\ id.readreg1 = rs(w) /\ id.readreg2 = rt(w)
             /\ id.writereg = WriteReg(w, c)
             /\ id.jump_addr = JumpAddr(PcPlus4(at.pc), w)
             /\ id.sexed = sexed(w)
BY DEF Decoded, InstructionDecode, MainDec

\* A write of the register file
LEMMA WriteIsSet ==
  ASSUME NEW reg \in RegFile, NEW r, NEW data
  PROVE  /\ WriteRegFile(reg, 1, r, data) = Set(reg, r, data)
         /\ WriteRegFile(reg, 0, r, data) = reg
<1>1. DOMAIN reg = Reg /\ reg = [n \in Reg |-> reg[n]]
  BY DEF RegFile
<1>2. CASE r # 0
  <2>1. WriteRegFile(reg, 1, r, data) = [reg EXCEPT ![r] = data]
    BY <1>2 DEF WriteRegFile
  <2>2. [reg EXCEPT ![r] = data] = [n \in Reg |-> IF n = r THEN data ELSE reg[n]]
    BY <1>1
  <2>3. Set(reg, r, data) = [n \in Reg |-> IF n = r THEN data ELSE reg[n]]
    BY <1>1, <1>2 DEF Set
  <2> QED
    BY <2>1, <2>2, <2>3 DEF WriteRegFile
<1>3. CASE r = 0
  <2>1. WriteRegFile(reg, 1, r, data) = reg
    BY <1>3 DEF WriteRegFile
  <2>2. Set(reg, r, data) = [n \in Reg |-> reg[n]]
    BY <1>1, <1>3 DEF Set
  <2> QED
    BY <1>1, <2>1, <2>2 DEF WriteRegFile
<1>4. QED
  BY <1>2, <1>3

\* Instructions that only write what the ALU computes
LEMMA FinishedComputing ==
  ASSUME NEW at \in Situation, NEW id, NEW st,
         id.regwrite = 1, id.link = 0, id.jumpreg = 0, id.jumpdir = 0, id.branch = 0,
         id.memtoreg = 0, id.memread = WIDTH_NONE, id.memwrite = WIDTH_NONE
  PROVE  Finished(id, st, at)
           = [reg |-> Set(at.reg, id.writereg, st.result), hi |-> st.hi, lo |-> st.lo,
              pc |-> Plus(at.pc, W(0, 4)), req |-> [size |-> "NONE"]]
<1>1. at.reg \in RegFile /\ at.pc \in Word
  BY DEF Situation
<1>2. Commit(id, at.reg, st, PcPlus4(at.pc), at.answer) = Set(at.reg, id.writereg, st.result)
  BY <1>1, WriteIsSet DEF Commit, RegWriteData
<1>3. NextPc(id, at.reg, st, PcPlus4(at.pc)) = Plus(at.pc, W(0, 4))
  BY <1>1, PcPlus4IsPlus DEF NextPc, NewPc, TakeBranch, high_if
<1>4. BusRequest(id, at.reg, st) = [size |-> "NONE"]
  BY DEF BusRequest, AccessSize, WidthOr, Idle, WIDTH_NONE
<1>5. QED
  BY <1>2, <1>3, <1>4 DEF Finished, WIDTH_NONE

\* No access to the bus
NoRequest == [size |-> "NONE"]

\* mthi: an instruction that writes no register and asks nothing of the bus
LEMMA FinishedMoving ==
  ASSUME NEW at \in Situation, NEW id, NEW st,
         id.regwrite = 0, id.jumpreg = 0, id.jumpdir = 0, id.branch = 0,
         id.memread = WIDTH_NONE, id.memwrite = WIDTH_NONE
  PROVE  Finished(id, st, at)
           = [reg |-> at.reg, hi |-> st.hi, lo |-> st.lo,
              pc |-> Plus(at.pc, W(0, 4)), req |-> NoRequest]
<1>1. at.reg \in RegFile /\ at.pc \in Word
  BY DEF Situation
<1>2. Commit(id, at.reg, st, PcPlus4(at.pc), at.answer) = at.reg
  BY <1>1, WriteIsSet DEF Commit
<1>3. NextPc(id, at.reg, st, PcPlus4(at.pc)) = Plus(at.pc, W(0, 4))
  BY <1>1, PcPlus4IsPlus DEF NextPc, NewPc, TakeBranch, high_if
<1>4. BusRequest(id, at.reg, st) = [size |-> "NONE"]
  BY DEF BusRequest, AccessSize, WidthOr, Idle, WIDTH_NONE
<1>5. QED
  BY <1>2, <1>3, <1>4 DEF Finished, WIDTH_NONE, NoRequest

\* Loads: the register named by rt receives what RegCaster makes of the answer.
LEMMA FinishedLoading ==
  ASSUME NEW at \in Situation, NEW id, NEW st,
         id.regwrite = 1, id.link = 0, id.jumpreg = 0, id.jumpdir = 0, id.branch = 0,
         id.memtoreg = 1, id.memread # WIDTH_NONE, id.memwrite = WIDTH_NONE
  PROVE  Finished(id, st, at)
           = [reg |-> Set(at.reg, id.writereg, RegCaster(at.answer, id.memsex, id.memread)),
              hi |-> st.hi, lo |-> st.lo, pc |-> Plus(at.pc, W(0, 4)),
              req |-> [size |-> id.memread, wr |-> 0, addr |-> st.result]]
<1>1. at.reg \in RegFile /\ at.pc \in Word
  BY DEF Situation
<1>2. Commit(id, at.reg, st, PcPlus4(at.pc), at.answer)
        = Set(at.reg, id.writereg, RegCaster(at.answer, id.memsex, id.memread))
  BY <1>1, WriteIsSet DEF Commit, RegWriteData, MemReadData, AccessSize, WidthOr
<1>3. NextPc(id, at.reg, st, PcPlus4(at.pc)) = Plus(at.pc, W(0, 4))
  BY <1>1, PcPlus4IsPlus DEF NextPc, NewPc, TakeBranch, high_if
<1>4. BusRequest(id, at.reg, st) = [size |-> id.memread, wr |-> 0, addr |-> st.result,
                                    din |-> at.reg[id.readreg2]]
  BY DEF BusRequest, AccessSize, WidthOr, high_if
<1>5. QED
  BY <1>2, <1>3, <1>4 DEF Finished

\* Stores: the register named by rt goes out at the sum's address.
LEMMA FinishedStoring ==
  ASSUME NEW at \in Situation, NEW id, NEW st,
         id.regwrite = 0, id.jumpreg = 0, id.jumpdir = 0, id.branch = 0,
         id.memread = WIDTH_NONE, id.memwrite # WIDTH_NONE
  PROVE  Finished(id, st, at)
           = [reg |-> at.reg, hi |-> st.hi, lo |-> st.lo, pc |-> Plus(at.pc, W(0, 4)),
              req |-> [size |-> id.memwrite, wr |-> 1, addr |-> st.result,
                       din |-> at.reg[id.readreg2]]]
<1>1. at.reg \in RegFile /\ at.pc \in Word
  BY DEF Situation
<1>2. Commit(id, at.reg, st, PcPlus4(at.pc), at.answer) = at.reg
  BY <1>1, WriteIsSet DEF Commit
<1>3. NextPc(id, at.reg, st, PcPlus4(at.pc)) = Plus(at.pc, W(0, 4))
  BY <1>1, PcPlus4IsPlus DEF NextPc, NewPc, TakeBranch, high_if
<1>4. BusRequest(id, at.reg, st) = [size |-> id.memwrite, wr |-> 1, addr |-> st.result,
                                    din |-> at.reg[id.readreg2]]
  BY DEF BusRequest, AccessSize, WidthOr, high_if
<1>5. QED
  BY <1>2, <1>3, <1>4 DEF Finished

\* Branches without a link: the ALU's answer is a word that is zero where the
\* branch is taken.
LEMMA FinishedBranching ==
  ASSUME NEW at \in Situation, NEW id, NEW st, NEW p \in BOOLEAN,
         id.regwrite = 0, id.jumpreg = 0, id.jumpdir = 0, id.branch = 1,
         id.memread = WIDTH_NONE, id.memwrite = WIDTH_NONE,
         id.sexed \in Word, st.result = FromBit(low_if(p))
  PROVE  Finished(id, st, at)
           = [reg |-> at.reg, hi |-> st.hi, lo |-> st.lo,
              pc |-> IF p THEN Plus(Plus(at.pc, W(0, 4)), LeftBy(id.sexed, 2))
                          ELSE Plus(at.pc, W(0, 4)),
              req |-> NoRequest]
<1>1. at.reg \in RegFile /\ at.pc \in Word
  BY DEF Situation
<1>2. Commit(id, at.reg, st, PcPlus4(at.pc), at.answer) = at.reg
  BY <1>1, WriteIsSet DEF Commit
<1>3. p <=> st.result = ZERO
  <2>1. FromBit(low_if(p))[0] = IF p THEN 0 ELSE 1
    BY DEF FromBit, low_if
  <2>2. ZERO[0] = 0
    BY DEF ZERO
  <2>3. p => FromBit(low_if(p)) = ZERO
    BY DEF FromBit, low_if, ZERO
  <2> QED
    BY <2>1, <2>2, <2>3
<1>4. BranchAddr(PcPlus4(at.pc), id) = Plus(Plus(at.pc, W(0, 4)), LeftBy(id.sexed, 2))
  <2>1. PcPlus4(at.pc) \in Word /\ PcPlus4(at.pc) = Plus(at.pc, W(0, 4))
    BY <1>1, PcPlus4IsPlus
  <2>2. ShiftLeft(id.sexed, 2) \in Word /\ ShiftLeft(id.sexed, 2) = LeftBy(id.sexed, 2)
    BY WordShifts, ShiftLeftIsLeftBy
  <2> QED
    BY <2>1, <2>2, AddIsPlus DEF BranchAddr
<1>5. NextPc(id, at.reg, st, PcPlus4(at.pc))
        = IF p THEN Plus(Plus(at.pc, W(0, 4)), LeftBy(id.sexed, 2)) ELSE Plus(at.pc, W(0, 4))
  <2>1. NextPc(id, at.reg, st, PcPlus4(at.pc))
          = IF st.result = ZERO THEN BranchAddr(PcPlus4(at.pc), id) ELSE PcPlus4(at.pc)
    BY DEF NextPc, NewPc, TakeBranch, high_if, isZero
  <2> QED
    BY <2>1, <1>1, <1>3, <1>4, PcPlus4IsPlus
<1>6. BusRequest(id, at.reg, st) = [size |-> "NONE"]
  BY DEF BusRequest, AccessSize, WidthOr, Idle, WIDTH_NONE
<1>7. QED
  BY <1>2, <1>5, <1>6 DEF Finished, WIDTH_NONE, NoRequest

\* Jumps: a register's contents before the instruction's target, and the link
LEMMA FinishedJumping ==
  ASSUME NEW at \in Situation, NEW id, NEW st,
         id.jumpreg = 1 \/ (id.jumpreg = 0 /\ id.jumpdir = 1),
         id.regwrite = 0 \/ (id.regwrite = 1 /\ id.link = 1),
         id.memread = WIDTH_NONE, id.memwrite = WIDTH_NONE
  PROVE  Finished(id, st, at)
           = [reg |-> IF id.regwrite = 1 THEN Set(at.reg, id.writereg, Plus(at.pc, W(0, 4)))
                                         ELSE at.reg,
              hi |-> st.hi, lo |-> st.lo,
              pc |-> IF id.jumpreg = 1 THEN at.reg[id.readreg1] ELSE id.jump_addr,
              req |-> NoRequest]
<1>1. at.reg \in RegFile /\ at.pc \in Word
  BY DEF Situation
<1>2. Commit(id, at.reg, st, PcPlus4(at.pc), at.answer)
        = IF id.regwrite = 1 THEN Set(at.reg, id.writereg, Plus(at.pc, W(0, 4))) ELSE at.reg
  BY <1>1, WriteIsSet, PcPlus4IsPlus DEF Commit, RegWriteData
<1>3. NextPc(id, at.reg, st, PcPlus4(at.pc))
        = IF id.jumpreg = 1 THEN at.reg[id.readreg1] ELSE id.jump_addr
  BY DEF NextPc, NewPc
<1>4. BusRequest(id, at.reg, st) = [size |-> "NONE"]
  BY DEF BusRequest, AccessSize, WidthOr, Idle, WIDTH_NONE
<1>5. QED
  BY <1>2, <1>3, <1>4 DEF Finished, WIDTH_NONE, NoRequest

\* The fields of an instruction, by their types
LEMMA InstructionFields ==
  ASSUME NEW i \in Instruction
  PROVE  /\ i.m \in Mnemonics
         /\ i.s \in Reg /\ i.t \in Reg /\ i.d \in Reg /\ i.sh \in Reg
         /\ i.imm \in Targets
         /\ i.m \notin DOMAIN TargetOf => i.imm \in Numbers
<1>1. i.imm \in Nat /\ i.imm \div 65536 < 1024
      /\ (i.m \notin DOMAIN TargetOf => i.imm \div 65536 < 1)
  BY DEF Instruction
<1>2. i.m \notin DOMAIN TargetOf => i.imm < 65536
  BY <1>1
<1>3. QED
  BY <1>1, <1>2 DEF Instruction, Numbers, Targets

\* The codes of the mnemonics fit their fields, and no mnemonic has two.
LEMMA Codes ==
  /\ \A m \in DOMAIN FuncOf : FuncOf[m] \in SixBits
  /\ \A m \in DOMAIN OpcodeOf : OpcodeOf[m] \in SixBits /\ m \notin DOMAIN FuncOf \cup DOMAIN TargetOf
  /\ \A m \in DOMAIN RegImmOf : RegImmOf[m] \in Reg
                                 /\ m \notin DOMAIN FuncOf \cup DOMAIN OpcodeOf \cup DOMAIN TargetOf
  /\ \A m \in DOMAIN TargetOf : TargetOf[m] \in SixBits
                                 /\ m \notin DOMAIN FuncOf \cup DOMAIN OpcodeOf \cup DOMAIN RegImmOf
<1>1. \A m \in DOMAIN FuncOf : FuncOf[m] \in SixBits /\ m \notin DOMAIN TargetOf
  BY DEF FuncOf, TargetOf, SixBits
<1>2. \A m \in DOMAIN OpcodeOf : OpcodeOf[m] \in SixBits /\ m \notin DOMAIN FuncOf \cup DOMAIN TargetOf
  BY DEF OpcodeOf, FuncOf, TargetOf, SixBits
<1>3. \A m \in DOMAIN RegImmOf : RegImmOf[m] \in Reg
                                 /\ m \notin DOMAIN FuncOf \cup DOMAIN OpcodeOf \cup DOMAIN TargetOf
  BY DEF OpcodeOf, FuncOf, TargetOf, RegImmOf, SixBits, Reg
<1>4. \A m \in DOMAIN TargetOf : TargetOf[m] \in SixBits
                                 /\ m \notin DOMAIN FuncOf \cup DOMAIN OpcodeOf \cup DOMAIN RegImmOf
  BY DEF OpcodeOf, FuncOf, TargetOf, RegImmOf, SixBits, Reg
<1>5. QED
  BY <1>1, <1>2, <1>3, <1>4

\* The fields of an encoded instruction
LEMMA EncodedFields ==
  ASSUME NEW i \in Instruction
  PROVE  LET w == Encode(i)
         IN  /\ i.m \in DOMAIN FuncOf =>
                  /\ w \in Word /\ op(w) = 0 /\ func(w) = FuncOf[i.m]
                  /\ rs(w) = i.s /\ rt(w) = i.t /\ rd(w) = i.d
             /\ i.m \in DOMAIN OpcodeOf =>
                  /\ w \in Word /\ op(w) = OpcodeOf[i.m]
                  /\ rs(w) = i.s /\ rt(w) = i.t /\ Lo(w) = i.imm
             /\ i.m \in DOMAIN RegImmOf =>
                  /\ w \in Word /\ op(w) = 1 /\ rt(w) = RegImmOf[i.m]
                  /\ rs(w) = i.s /\ Lo(w) = i.imm
             /\ i.m \in DOMAIN TargetOf =>
                  /\ w \in Word /\ op(w) = TargetOf[i.m]
                  /\ \A pc \in Word : JumpAddr(pc, w) = TargetWord(pc, i.imm)
<1>1. ASSUME i.m \in DOMAIN FuncOf
      PROVE  LET w == Encode(i)
             IN  /\ w \in Word /\ op(w) = 0 /\ func(w) = FuncOf[i.m]
                 /\ rs(w) = i.s /\ rt(w) = i.t /\ rd(w) = i.d
  <2>1. Encode(i) = RType(i.s, i.t, i.d, i.sh, FuncOf[i.m])
    BY <1>1, Codes DEF Encode
  <2> DEFINE f == FuncOf[i.m]
  <2>2. /\ f \in SixBits /\ i.s \in Reg /\ i.t \in Reg /\ i.d \in Reg
        /\ i.sh \in Reg
    BY <1>1, Codes, InstructionFields
  <2> HIDE DEF f
  <2>3. LET w == RType(i.s, i.t, i.d, i.sh, f)
        IN  /\ w \in Word
            /\ op(w) = 0 /\ rs(w) = i.s /\ rt(w) = i.t /\ rd(w) = i.d /\ func(w) = f
    BY <2>2, RTypeFields
  <2> QED
    BY <2>1, <2>3 DEF f
<1>2. ASSUME i.m \in DOMAIN OpcodeOf
      PROVE  LET w == Encode(i)
             IN  /\ w \in Word /\ op(w) = OpcodeOf[i.m]
                 /\ rs(w) = i.s /\ rt(w) = i.t /\ Lo(w) = i.imm
  <2>1. Encode(i) = IType(OpcodeOf[i.m], i.s, i.t, i.imm)
    BY <1>2, Codes DEF Encode
  <2> DEFINE o == OpcodeOf[i.m]
  <2>2. o \in SixBits /\ i.s \in Reg /\ i.t \in Reg /\ i.imm \in Numbers
    BY <1>2, Codes, InstructionFields
  <2> HIDE DEF o
  <2>3. LET w == IType(o, i.s, i.t, i.imm)
        IN  /\ w \in Word /\ op(w) = o /\ rs(w) = i.s /\ rt(w) = i.t /\ Lo(w) = i.imm
    BY <2>2, ITypeFields
  <2> QED
    BY <2>1, <2>3 DEF o
<1>3. ASSUME i.m \in DOMAIN RegImmOf
      PROVE  LET w == Encode(i)
             IN  /\ w \in Word /\ op(w) = 1 /\ rt(w) = RegImmOf[i.m]
                 /\ rs(w) = i.s /\ Lo(w) = i.imm
  <2>1. Encode(i) = IType(1, i.s, RegImmOf[i.m], i.imm)
    BY <1>3, Codes DEF Encode
  <2> DEFINE t == RegImmOf[i.m]
  <2>2. t \in Reg /\ i.s \in Reg /\ i.imm \in Numbers /\ 1 \in SixBits
    BY <1>3, Codes, InstructionFields DEF SixBits
  <2> HIDE DEF t
  <2>3. LET w == IType(1, i.s, t, i.imm)
        IN  /\ w \in Word /\ op(w) = 1 /\ rs(w) = i.s /\ rt(w) = t /\ Lo(w) = i.imm
    BY <2>2, ITypeFields
  <2> QED
    BY <2>1, <2>3 DEF t
<1>4. ASSUME i.m \in DOMAIN TargetOf
      PROVE  LET w == Encode(i)
             IN  /\ w \in Word /\ op(w) = TargetOf[i.m]
                 /\ \A pc \in Word : JumpAddr(pc, w) = TargetWord(pc, i.imm)
  <2>1. Encode(i) = JType(TargetOf[i.m], i.imm)
    BY <1>4, Codes DEF Encode
  <2> DEFINE o == TargetOf[i.m]
  <2>2. o \in SixBits /\ i.imm \in Targets
    BY <1>4, Codes, InstructionFields
  <2> HIDE DEF o
  <2>3. ASSUME NEW pc \in Word
        PROVE  LET w == JType(o, i.imm)
               IN  /\ w \in Word /\ op(w) = o
                   /\ JumpAddr(pc, w) = TargetWord(pc, i.imm)
    BY <2>2, JTypeFields
  <2>4. JType(o, i.imm) \in Word /\ op(JType(o, i.imm)) = o
    BY <2>3, WordConstants
  <2> QED
    BY <2>1, <2>3, <2>4 DEF o
<1>5. QED
  BY <1>1, <1>2, <1>3, <1>4

\* The ID registers of an instruction that writes what the ALU computes
Computing(id) == /\ id.regwrite = 1 /\ id.link = 0 /\ id.jumpreg = 0 /\ id.jumpdir = 0
                 /\ id.branch = 0 /\ id.memtoreg = 0 /\ id.shift = 0
                 /\ id.memread = WIDTH_NONE /\ id.memwrite = WIDTH_NONE

\* The decoder on arithmetic and logic between two registers, and on mfhi and mflo
LEMMA DecodedRegisters ==
  ASSUME NEW i \in Instruction, NEW at \in Situation, i.m \in ThreeRegisters \cup FromHiLo
  PROVE  LET id == Decoded(Encode(i), at)
         IN  /\ Computing(id) /\ id.alusrc = 0
             /\ id.writereg = i.d /\ id.readreg1 = i.s /\ id.readreg2 = i.t
             /\ id.aluop = AluOpR(FuncOf[i.m], at.latch.aluop)
<1> DEFINE w == Encode(i)
           c == Ctrl(w, at.latch.ctrl)
<1>1. i.m \in DOMAIN FuncOf /\ FuncOf[i.m] \notin {0, 2, 3, 8, 9, 17, 19}
  BY DEF FuncOf, ThreeRegisters, FromHiLo
<1>2. /\ w \in Word /\ op(w) = 0 /\ func(w) = FuncOf[i.m]
      /\ rs(w) = i.s /\ rt(w) = i.t /\ rd(w) = i.d
  BY <1>1, EncodedFields
<1> HIDE DEF w
<1>3. c = Row({"regwrite", "regdst"}, {})
  BY <1>1, <1>2 DEF Ctrl, CtrlR
<1>4. /\ c["regwrite"] = 1 /\ c["regdst"] = 1 /\ c["link"] = 0 /\ c["jumpreg"] = 0
      /\ c["jumpdirect"] = 0 /\ c["branch"] = 0 /\ c["memread"] = 0 /\ c["memtoreg"] = 0
      /\ c["memwrite"] = 0 /\ c["shift"] = 0 /\ c["alusrc"] = 0
  BY <1>3 DEF Row, CtrlSignal
<1> HIDE DEF c
<1>5. WriteReg(w, c) = i.d
  BY <1>2, <1>4 DEF WriteReg
<1>6. AluOpOf(w, at.latch.aluop) = AluOpR(FuncOf[i.m], at.latch.aluop)
  BY <1>2 DEF AluOpOf
<1> DEFINE id == Decoded(w, at)
<1>7. /\ id.regwrite = c["regwrite"] /\ id.link = c["link"]
      /\ id.jumpreg = c["jumpreg"] /\ id.jumpdir = c["jumpdirect"]
      /\ id.branch = c["branch"] /\ id.memtoreg = c["memtoreg"]
      /\ id.shift = c["shift"] /\ id.alusrc = c["alusrc"]
      /\ c["memread"] = 0 => id.memread = WIDTH_NONE
      /\ c["memwrite"] = 0 => id.memwrite = WIDTH_NONE
      /\ id.aluop = AluOpOf(w, at.latch.aluop)
      /\ id.readreg1 = rs(w) /\ id.readreg2 = rt(w)
      /\ id.writereg = WriteReg(w, c)
  BY DecodedIs DEF c
<1> HIDE DEF id
<1>8. Computing(id) /\ id.alusrc = 0
      /\ id.writereg = i.d /\ id.readreg1 = i.s /\ id.readreg2 = i.t
      /\ id.aluop = AluOpR(FuncOf[i.m], at.latch.aluop)
  BY <1>2, <1>4, <1>5, <1>6, <1>7 DEF Computing
<1>9. QED
  BY <1>8 DEF id, w

\* The ALU operation the decoder picks computes what the mnemonic says.
LEMMA RegistersComputed ==
  ASSUME NEW i \in Instruction, i.m \in ThreeRegisters \cup FromHiLo,
         NEW x \in Word, NEW y \in Word, NEW st, NEW old
  PROVE  LET o == AluOpR(FuncOf[i.m], old)
         IN  /\ AluResult(o, x, y, 0, st) = Computed(i, x, y, st.hi, st.lo)
             /\ o \notin {"MTHI", "MTLO"}
<1>1. /\ Add(x, y) = Plus(x, y) /\ Sub(x, y) = Minus(x, y)
      /\ FromBit(high_if(SLess(x, y))) = Flag(Less(x, y))
      /\ FromBit(high_if(ULess(x, y))) = Flag(Below(x, y))
  <2>1. SLess(x, y) \in BOOLEAN /\ ULess(x, y) \in BOOLEAN /\ (SLess(x, y) <=> Less(x, y))
        /\ (ULess(x, y) <=> Below(x, y))
    BY SLessIsLess, ULessIsBelow DEF SLess, ULess
  <2>2. FromBit(high_if(SLess(x, y))) = Flag(Less(x, y)) /\ FromBit(high_if(ULess(x, y))) = Flag(Below(x, y))
    BY <2>1, SmallWords DEF Flag
  <2>3. QED
    BY <2>2, AddIsPlus, SubIsMinus
<1> DEFINE o == AluOpR(FuncOf[i.m], old)
<1>2. /\ (i.m = "add" => o = "ADD") /\ (i.m = "addu" => o = "ADDU")
      /\ (i.m = "sub" => o = "SUB") /\ (i.m = "subu" => o = "SUBU")
      /\ (i.m = "and" => o = "AND") /\ (i.m = "or" => o = "OR")
      /\ (i.m = "xor" => o = "XOR") /\ (i.m = "nor" => o = "NOR")
      /\ (i.m = "slt" => o = "SLT") /\ (i.m = "sltu" => o = "SLTU")
      /\ (i.m = "mfhi" => o = "MFHI") /\ (i.m = "mflo" => o = "MFLO")
  <2>1. /\ FuncOf["add"] = 32 /\ FuncOf["addu"] = 33 /\ FuncOf["sub"] = 34
        /\ FuncOf["subu"] = 35 /\ FuncOf["and"] = 36 /\ FuncOf["or"] = 37
        /\ FuncOf["xor"] = 38 /\ FuncOf["nor"] = 39 /\ FuncOf["slt"] = 42
        /\ FuncOf["sltu"] = 43 /\ FuncOf["mfhi"] = 16 /\ FuncOf["mflo"] = 18
    BY DEF FuncOf
  <2>2. /\ AluOpR(32, old) = "ADD" /\ AluOpR(33, old) = "ADDU" /\ AluOpR(34, old) = "SUB"
        /\ AluOpR(35, old) = "SUBU" /\ AluOpR(36, old) = "AND" /\ AluOpR(37, old) = "OR"
        /\ AluOpR(38, old) = "XOR" /\ AluOpR(39, old) = "NOR" /\ AluOpR(42, old) = "SLT"
        /\ AluOpR(43, old) = "SLTU" /\ AluOpR(16, old) = "MFHI" /\ AluOpR(18, old) = "MFLO"
    BY DEF AluOpR
  <2> QED
    BY <2>1, <2>2
<1> HIDE DEF o
<1> DEFINE v == Computed(i, x, y, st.hi, st.lo)
<1>3. /\ i.m \in {"add", "addu"} => v = Plus(x, y)
      /\ i.m \in {"sub", "subu"} => v = Minus(x, y)
      /\ i.m = "slt" => v = Flag(Less(x, y))
      /\ i.m = "sltu" => v = Flag(Below(x, y))
      /\ i.m = "mfhi" => v = st.hi
      /\ i.m = "mflo" => v = st.lo
  BY DEF Computed
<1>4. /\ i.m = "and" => v = And(x, y)
      /\ i.m = "or" => v = Or(x, y)
      /\ i.m = "xor" => v = Xor(x, y)
      /\ i.m = "nor" => v = Nor(x, y)
  BY BitwiseOperators DEF Computed
<1> HIDE DEF v
<1> DEFINE r == AluResult(o, x, y, 0, st)
<1>5. /\ o \in {"ADD", "ADDU"} => r = Add(x, y)
      /\ o \in {"SUB", "SUBU"} => r = Sub(x, y)
      /\ o = "AND" => r = And(x, y)
      /\ o = "OR" => r = Or(x, y)
      /\ o = "XOR" => r = Xor(x, y)
      /\ o = "NOR" => r = Nor(x, y)
      /\ o = "SLT" => r = FromBit(high_if(SLess(x, y)))
      /\ o = "SLTU" => r = FromBit(high_if(ULess(x, y)))
      /\ o = "MFHI" => r = st.hi
      /\ o = "MFLO" => r = st.lo
  BY DEF AluResult, immediately_correct
<1> HIDE DEF r
<1>6. i.m \in {"add", "addu", "sub", "subu", "and", "or", "xor", "nor", "slt", "sltu", "mfhi", "mflo"}
  BY DEF ThreeRegisters, FromHiLo
<1>7. r = v /\ o \notin {"MTHI", "MTLO"}
  <2>1. CASE i.m \in {"add", "addu", "sub", "subu"}
    BY <1>1, <1>2, <1>3, <1>5, <2>1
  <2>2. CASE i.m \in {"and", "or", "xor", "nor"}
    BY <1>2, <1>4, <1>5, <2>2
  <2>3. CASE i.m \in {"slt", "sltu"}
    BY <1>1, <1>2, <1>3, <1>5, <2>3
  <2>4. CASE i.m \in {"mfhi", "mflo"}
    BY <1>2, <1>3, <1>5, <2>4
  <2> QED
    BY <1>6, <2>1, <2>2, <2>3, <2>4
<1>8. QED
  BY <1>7 DEF r, v, o

\* What the ALU is started with
LEMMA SituationType ==
  ASSUME NEW at \in Situation
  PROVE  /\ at.pc \in Word /\ at.reg \in RegFile /\ at.hi \in Word /\ at.lo \in Word
         /\ at.answer \in Word /\ AluBefore(at).result = at.answer
         /\ AluBefore(at).hi = at.hi /\ AluBefore(at).lo = at.lo
         /\ PcPlus4(at.pc) \in Word /\ PcPlus4(at.pc) = Plus(at.pc, W(0, 4))
         /\ \A r \in Reg : at.reg[r] \in Word
<1>1. /\ at.pc \in Word /\ at.reg \in RegFile /\ at.hi \in Word /\ at.lo \in Word
      /\ at.answer \in Word
  BY DEF Situation
<1>2. AluBefore(at).result = at.answer /\ AluBefore(at).hi = at.hi /\ AluBefore(at).lo = at.lo
  BY DEF AluBefore
<1>3. \A r \in Reg : at.reg[r] \in Word
  BY <1>1 DEF RegFile
<1>4. QED
  BY <1>1, <1>2, <1>3, PcPlus4IsPlus

\* What the ALU leaves, unless it moves to HI or LO
LEMMA Executed ==
  ASSUME NEW at \in Situation, NEW id, id.shift = 0
  PROVE  LET st == Execute(id, at.reg, AluBefore(at))
         IN  /\ st.result = AluResult(id.aluop, at.reg[id.readreg1], Src2(id, at.reg), id.alusrc,
                                      AluBefore(at))
             /\ st.hi = IF id.aluop = "MTHI" THEN at.reg[id.readreg1] ELSE at.hi
             /\ st.lo = IF id.aluop = "MTLO" THEN Src2(id, at.reg) ELSE at.lo
BY SituationType DEF Execute, Alu, Src1

\* Arithmetic and logic between registers, mfhi and mflo do what they mean.
LEMMA RegistersRight ==
  ASSUME NEW i \in Instruction, NEW at \in Situation, i.m \in ThreeRegisters \cup FromHiLo
  PROVE  Outcome(i, at) = Expected(i, at)
<1> DEFINE w == Encode(i)
           id == Decoded(w, at)
           x == at.reg[i.s]
           y == at.reg[i.t]
           o == AluOpR(FuncOf[i.m], at.latch.aluop)
           st == Execute(id, at.reg, AluBefore(at))
           v == Computed(i, x, y, at.hi, at.lo)
<1>1. /\ Computing(id) /\ id.alusrc = 0
      /\ id.writereg = i.d /\ id.readreg1 = i.s /\ id.readreg2 = i.t /\ id.aluop = o
  BY DecodedRegisters
<1>2. x \in Word /\ y \in Word
  BY SituationType, InstructionFields
<1>3. AluResult(o, x, y, 0, AluBefore(at)) = v /\ o \notin {"MTHI", "MTLO"}
  <2> DEFINE before == AluBefore(at)
  <2>1. before.hi = at.hi /\ before.lo = at.lo
    BY SituationType
  <2> HIDE DEF before, x, y
  <2>2. LET p == AluOpR(FuncOf[i.m], at.latch.aluop)
        IN  /\ AluResult(p, x, y, 0, before) = Computed(i, x, y, before.hi, before.lo)
            /\ p \notin {"MTHI", "MTLO"}
    BY <1>2, RegistersComputed
  <2> QED
    BY <2>1, <2>2 DEF before
<1> HIDE DEF w, id, o
<1>4. st.result = v /\ st.hi = at.hi /\ st.lo = at.lo
  BY <1>1, <1>3, Executed DEF Src2, Computing
<1> HIDE DEF st
<1>5. Outcome(i, at) = Finished(id, st, at)
  BY OutcomeIsFinished DEF id, st, w
<1>6. Finished(id, st, at)
        = [reg |-> Set(at.reg, id.writereg, st.result), hi |-> st.hi, lo |-> st.lo,
              pc |-> Plus(at.pc, W(0, 4)), req |-> [size |-> "NONE"]]
  BY <1>1, FinishedComputing DEF Computing
<1> HIDE DEF v
<1>7. Outcome(i, at) = [reg |-> Set(at.reg, i.d, v), hi |-> at.hi, lo |-> at.lo,
                        pc |-> Plus(at.pc, W(0, 4)), req |-> [size |-> "NONE"]]
  BY <1>1, <1>4, <1>5, <1>6
<1>8. Expected(i, at) = [reg |-> Set(at.reg, i.d, v), hi |-> at.hi, lo |-> at.lo,
                         pc |-> Plus(at.pc, W(0, 4)), req |-> [size |-> "NONE"]]
  <2>1. /\ i.m \in ThreeRegisters \cup Shifts \cup FromHiLo
        /\ i.m \notin {"mthi", "mtlo", "jr", "jalr", "j", "jal"}
        /\ i.m \notin Branches /\ i.m \notin Loads /\ i.m \notin Stores
        /\ i.m \notin Immediates /\ i.m \notin Linking
    BY DEF ThreeRegisters, FromHiLo, Branches, Loads, Stores, RegImmOf, Immediates, Linking
  <2>2. RegAfter(i, at.pc, at.reg, at.hi, at.lo, at.answer) = Set(at.reg, i.d, v)
    BY <2>1 DEF RegAfter, v
  <2>3. PcAfter(i, at.pc, at.reg) = Plus(at.pc, W(0, 4)) /\ Access(i, at.reg) = [size |-> "NONE"]
    BY <2>1 DEF PcAfter, Access
  <2> QED
    BY <2>1, <2>2, <2>3 DEF Expected, Meaning
<1>9. QED
  BY <1>7, <1>8

\* The immediate operand
LEMMA ImmediateOperand ==
  ASSUME NEW w \in Word, NEW imm, Lo(w) = imm
  PROVE  /\ sexed(w) \in Word /\ sexed(w) = Signed(imm)
         /\ ZeroHalf(sexed(w)) = Unsigned(imm) /\ UpperHalf(sexed(w)) = W(imm, 0)
<1> DEFINE s == SignHalf(w)
<1>1. s \in Word /\ s = Signed(imm) /\ Lo(s) = imm
  BY WordExtensions, HalfExtensions
<1> HIDE DEF s
<1>2. ZeroHalf(s) = Unsigned(imm) /\ UpperHalf(s) = W(imm, 0)
  BY <1>1, HalfExtensions
<1>3. QED
  BY <1>1, <1>2 DEF sexed, s

\* The decoder on arithmetic and logic with an immediate
LEMMA DecodedImmediates ==
  ASSUME NEW i \in Instruction, NEW at \in Situation, i.m \in Immediates
  PROVE  LET id == Decoded(Encode(i), at)
         IN  /\ Computing(id) /\ id.alusrc = 1
             /\ id.writereg = i.t /\ id.readreg1 = i.s
             /\ id.sexed = sexed(Encode(i)) /\ Encode(i) \in Word /\ Lo(Encode(i)) = i.imm
             /\ id.aluop = AluOpOf(Encode(i), at.latch.aluop)
             /\ op(Encode(i)) = OpcodeOf[i.m]
<1> DEFINE w == Encode(i)
           c == Ctrl(w, at.latch.ctrl)
<1>1. i.m \in DOMAIN OpcodeOf /\ OpcodeOf[i.m] \in 8 .. 15
  BY DEF OpcodeOf, Immediates
<1>2. /\ w \in Word /\ op(w) = OpcodeOf[i.m] /\ rs(w) = i.s /\ rt(w) = i.t /\ Lo(w) = i.imm
  BY <1>1, EncodedFields
<1> HIDE DEF w
<1>3. c = Row({"regwrite", "alusrc"}, {})
  <2> DEFINE o == op(w)
  <2>1. o \in 8 .. 15
    BY <1>1, <1>2
  <2> HIDE DEF o
  <2>2. o \notin {0, 1, 2, 3, 4, 5, 6, 7, 32, 33, 35, 36, 37, 40, 41, 43}
    BY <2>1
  <2> QED
    BY <2>1, <2>2 DEF Ctrl, o
<1>4. /\ c["regwrite"] = 1 /\ c["regdst"] = 0 /\ c["link"] = 0 /\ c["jumpreg"] = 0
      /\ c["jumpdirect"] = 0 /\ c["branch"] = 0 /\ c["memread"] = 0 /\ c["memtoreg"] = 0
      /\ c["memwrite"] = 0 /\ c["shift"] = 0 /\ c["alusrc"] = 1
  BY <1>3 DEF Row, CtrlSignal
<1> HIDE DEF c
<1>5. WriteReg(w, c) = i.t
  BY <1>2, <1>4 DEF WriteReg
<1> DEFINE id == Decoded(w, at)
<1>6. /\ id.regwrite = c["regwrite"] /\ id.link = c["link"]
      /\ id.jumpreg = c["jumpreg"] /\ id.jumpdir = c["jumpdirect"]
      /\ id.branch = c["branch"] /\ id.memtoreg = c["memtoreg"]
      /\ id.shift = c["shift"] /\ id.alusrc = c["alusrc"]
      /\ c["memread"] = 0 => id.memread = WIDTH_NONE
      /\ c["memwrite"] = 0 => id.memwrite = WIDTH_NONE
      /\ id.aluop = AluOpOf(w, at.latch.aluop)
      /\ id.readreg1 = rs(w) /\ id.sexed = sexed(w)
      /\ id.writereg = WriteReg(w, c)
  BY DecodedIs DEF c
<1> HIDE DEF id
<1>7. Computing(id) /\ id.alusrc = 1 /\ id.writereg = i.t /\ id.readreg1 = i.s
  BY <1>2, <1>4, <1>5, <1>6 DEF Computing
<1>8. QED
  BY <1>2, <1>6, <1>7 DEF id, w

\* The same for an immediate, which the operand mux delivers sign-extended
\* and the logical operations of the ALU extend again with zeros
LEMMA ImmediatesComputed ==
  ASSUME NEW i \in Instruction, i.m \in Immediates, NEW x \in Word, NEW y, NEW w \in Word,
         op(w) = OpcodeOf[i.m], Lo(w) = i.imm, NEW st, NEW old, NEW hi, NEW lo
  PROVE  LET o == AluOpOf(w, old)
         IN  /\ AluResult(o, x, sexed(w), 1, st) = Computed(i, x, y, hi, lo)
             /\ o \notin {"MTHI", "MTLO"}
<1> DEFINE s == sexed(w)
           z == Unsigned(i.imm)
<1>1. s \in Word /\ s = Signed(i.imm) /\ ZeroHalf(s) = z /\ UpperHalf(s) = W(i.imm, 0) /\ z \in Word
  BY ImmediateOperand, WordExtensions
<1> HIDE DEF s
<1>2. /\ Add(x, s) = Plus(x, s)
      /\ FromBit(high_if(SLess(x, s))) = Flag(Less(x, s))
      /\ FromBit(high_if(ULess(x, s))) = Flag(Below(x, s))
  <2>1. SLess(x, s) \in BOOLEAN /\ ULess(x, s) \in BOOLEAN /\ (SLess(x, s) <=> Less(x, s))
        /\ (ULess(x, s) <=> Below(x, s))
    BY <1>1, SLessIsLess, ULessIsBelow DEF SLess, ULess
  <2>2. FromBit(high_if(SLess(x, s))) = Flag(Less(x, s)) /\ FromBit(high_if(ULess(x, s))) = Flag(Below(x, s))
    BY <2>1, SmallWords DEF Flag
  <2>3. QED
    BY <1>1, <2>2, AddIsPlus
<1> DEFINE o == AluOpOf(w, old)
<1>3. /\ i.m = "addi" => o = "ADD"
      /\ i.m = "addiu" => o = "ADDU"
      /\ i.m = "slti" => o = "SLT"
      /\ i.m = "sltiu" => o = "SLTU"
      /\ i.m = "andi" => o = "AND"
      /\ i.m = "ori" => o = "OR"
      /\ i.m = "xori" => o = "XOR"
      /\ i.m = "lui" => o = "LU"
  <2>1. /\ OpcodeOf["addi"] = 8 /\ OpcodeOf["addiu"] = 9 /\ OpcodeOf["slti"] = 10
        /\ OpcodeOf["sltiu"] = 11 /\ OpcodeOf["andi"] = 12 /\ OpcodeOf["ori"] = 13
        /\ OpcodeOf["xori"] = 14 /\ OpcodeOf["lui"] = 15
    BY DEF OpcodeOf
  <2>2. /\ op(w) = 8 => o = "ADD"
        /\ op(w) = 9 => o = "ADDU"
        /\ op(w) = 10 => o = "SLT"
        /\ op(w) = 11 => o = "SLTU"
        /\ op(w) = 12 => o = "AND"
        /\ op(w) = 13 => o = "OR"
        /\ op(w) = 14 => o = "XOR"
        /\ op(w) = 15 => o = "LU"
    BY DEF AluOpOf
  <2> HIDE DEF o
  <2> QED
    BY <2>1, <2>2
<1> HIDE DEF o
<1> DEFINE v == Computed(i, x, y, hi, lo)
<1>4. /\ i.m \in {"addi", "addiu"} => v = Plus(x, s)
      /\ i.m = "slti" => v = Flag(Less(x, s))
      /\ i.m = "sltiu" => v = Flag(Below(x, s))
      /\ i.m = "lui" => v = W(i.imm, 0)
  BY <1>1 DEF Computed
<1>5. /\ i.m = "andi" => v = And(x, z)
      /\ i.m = "ori" => v = Or(x, z)
      /\ i.m = "xori" => v = Xor(x, z)
  BY <1>1, BitwiseOperators DEF Computed
<1> HIDE DEF v
<1> DEFINE r == AluResult(o, x, s, 1, st)
<1>6. /\ o \in {"ADD", "ADDU"} => r = Add(x, s)
      /\ o = "AND" => r = And(x, z)
      /\ o = "OR" => r = Or(x, z)
      /\ o = "XOR" => r = Xor(x, z)
      /\ o = "SLT" => r = FromBit(high_if(SLess(x, s)))
      /\ o = "SLTU" => r = FromBit(high_if(ULess(x, s)))
      /\ o = "LU" => r = W(i.imm, 0)
  BY <1>1 DEF AluResult, immediately_correct
<1> HIDE DEF r
<1>7. i.m \in {"addi", "addiu", "slti", "sltiu", "andi", "ori", "xori", "lui"}
  BY DEF Immediates
<1>8. r = v /\ o \notin {"MTHI", "MTLO"}
  <2>1. CASE i.m \in {"addi", "addiu"}
    BY <1>2, <1>3, <1>4, <1>6, <2>1
  <2>2. CASE i.m \in {"andi", "ori", "xori"}
    BY <1>3, <1>5, <1>6, <2>2
  <2>3. CASE i.m \in {"slti", "sltiu"}
    BY <1>2, <1>3, <1>4, <1>6, <2>3
  <2>4. CASE i.m = "lui"
    BY <1>3, <1>4, <1>6, <2>4
  <2> QED
    BY <1>7, <2>1, <2>2, <2>3, <2>4
<1>9. QED
  BY <1>8 DEF r, v, o, s

\* Arithmetic and logic with an immediate do what they mean.
LEMMA ImmediatesRight ==
  ASSUME NEW i \in Instruction, NEW at \in Situation, i.m \in Immediates
  PROVE  Outcome(i, at) = Expected(i, at)
<1> DEFINE w == Encode(i)
           id == Decoded(w, at)
           x == at.reg[i.s]
           y == at.reg[i.t]
           o == AluOpOf(w, at.latch.aluop)
           before == AluBefore(at)
           st == Execute(id, at.reg, before)
           v == Computed(i, x, y, at.hi, at.lo)
<1>1. /\ Computing(id) /\ id.alusrc = 1
      /\ id.writereg = i.t /\ id.readreg1 = i.s /\ id.aluop = o /\ id.sexed = sexed(w)
      /\ w \in Word /\ Lo(w) = i.imm /\ op(w) = OpcodeOf[i.m]
  BY DecodedImmediates
<1>2. x \in Word
  BY SituationType, InstructionFields
<1> HIDE DEF w, x, y, before
<1>3. AluResult(o, x, sexed(w), 1, before) = v /\ o \notin {"MTHI", "MTLO"}
  BY <1>1, <1>2, ImmediatesComputed
<1> HIDE DEF id, o
<1>4. st.result = v /\ st.hi = at.hi /\ st.lo = at.lo
  BY <1>1, <1>3, Executed DEF Src2, Computing, before, x
<1> HIDE DEF st
<1>5. Outcome(i, at) = Finished(id, st, at)
  BY OutcomeIsFinished DEF id, st, w, before
<1>6. Finished(id, st, at)
        = [reg |-> Set(at.reg, id.writereg, st.result), hi |-> st.hi, lo |-> st.lo,
              pc |-> Plus(at.pc, W(0, 4)), req |-> [size |-> "NONE"]]
  BY <1>1, FinishedComputing DEF Computing
<1> HIDE DEF v
<1>7. Outcome(i, at) = [reg |-> Set(at.reg, i.t, v), hi |-> at.hi, lo |-> at.lo,
                        pc |-> Plus(at.pc, W(0, 4)), req |-> [size |-> "NONE"]]
  BY <1>1, <1>4, <1>5, <1>6
<1>8. Expected(i, at) = [reg |-> Set(at.reg, i.t, v), hi |-> at.hi, lo |-> at.lo,
                         pc |-> Plus(at.pc, W(0, 4)), req |-> [size |-> "NONE"]]
  <2>1. /\ i.m \notin ThreeRegisters \cup Shifts \cup FromHiLo
        /\ i.m \notin {"mthi", "mtlo", "jr", "jalr", "j", "jal"}
        /\ i.m \notin Branches /\ i.m \notin Loads /\ i.m \notin Stores
        /\ i.m \notin Linking
    BY DEF ThreeRegisters, Shifts, FromHiLo, Branches, Loads, Stores, RegImmOf, Immediates, Linking
  <2>2. RegAfter(i, at.pc, at.reg, at.hi, at.lo, at.answer) = Set(at.reg, i.t, v)
    BY <2>1 DEF RegAfter, v, x, y
  <2>3. PcAfter(i, at.pc, at.reg) = Plus(at.pc, W(0, 4)) /\ Access(i, at.reg) = [size |-> "NONE"]
    BY <2>1 DEF PcAfter, Access
  <2> QED
    BY <2>1, <2>2, <2>3 DEF Expected, Meaning
<1>9. QED
  BY <1>7, <1>8

\* mthi does what it means.
LEMMA MoveToHiRight ==
  ASSUME NEW i \in Instruction, NEW at \in Situation, i.m = "mthi"
  PROVE  Outcome(i, at) = Expected(i, at)
<1> DEFINE w == Encode(i)
           c == Ctrl(w, at.latch.ctrl)
           id == Decoded(w, at)
           x == at.reg[i.s]
           before == AluBefore(at)
           st == Execute(id, at.reg, before)
<1>1. i.m \in DOMAIN FuncOf /\ FuncOf[i.m] = 17
  BY DEF FuncOf
<1>2. op(w) = 0 /\ func(w) = 17 /\ rs(w) = i.s
  BY <1>1, EncodedFields
<1> HIDE DEF w
<1>3. c = Row({}, {"regdst", "alusrc"})
  BY <1>2 DEF Ctrl, CtrlR
<1>4. /\ c["regwrite"] = 0 /\ c["jumpreg"] = 0 /\ c["jumpdirect"] = 0 /\ c["branch"] = 0
      /\ c["memread"] = 0 /\ c["memwrite"] = 0 /\ c["shift"] = 0
  BY <1>3 DEF Row, CtrlSignal
<1> HIDE DEF c
<1>5. AluOpOf(w, at.latch.aluop) = "MTHI"
  BY <1>2 DEF AluOpOf, AluOpR
<1>6. /\ id.regwrite = 0 /\ id.jumpreg = 0 /\ id.jumpdir = 0 /\ id.branch = 0 /\ id.shift = 0
      /\ id.memread = WIDTH_NONE /\ id.memwrite = WIDTH_NONE
      /\ id.aluop = "MTHI" /\ id.readreg1 = i.s
  BY <1>2, <1>4, <1>5, DecodedIs DEF c
<1> HIDE DEF id
<1>7. st.hi = x /\ st.lo = at.lo
  BY <1>6, Executed DEF before
<1> HIDE DEF st, x
<1>8. Outcome(i, at) = Finished(id, st, at)
  BY OutcomeIsFinished DEF id, st, w, before
<1>9. Finished(id, st, at) = [reg |-> at.reg, hi |-> x, lo |-> at.lo,
                              pc |-> Plus(at.pc, W(0, 4)), req |-> NoRequest]
  BY <1>6, <1>7, FinishedMoving
<1>10. Expected(i, at) = [reg |-> at.reg, hi |-> x, lo |-> at.lo,
                          pc |-> Plus(at.pc, W(0, 4)), req |-> NoRequest]
  <2>1. /\ i.m \notin ThreeRegisters \cup Shifts \cup FromHiLo
        /\ i.m \notin {"mtlo", "jr", "jalr", "j", "jal"}
        /\ i.m \notin Branches /\ i.m \notin Loads /\ i.m \notin Stores
        /\ i.m \notin Linking /\ i.m \notin Immediates
    BY DEF ThreeRegisters, Shifts, FromHiLo, Branches, Loads, Stores, RegImmOf, Immediates, Linking
  <2>2. RegAfter(i, at.pc, at.reg, at.hi, at.lo, at.answer) = at.reg
    BY <2>1 DEF RegAfter
  <2>3. PcAfter(i, at.pc, at.reg) = Plus(at.pc, W(0, 4)) /\ Access(i, at.reg) = NoRequest
    BY <2>1 DEF PcAfter, Access, NoRequest
  <2> QED
    BY <2>1, <2>2, <2>3 DEF Expected, Meaning, x
<1>11. QED
  BY <1>8, <1>9, <1>10

\* The decoder on loads and stores: the ALU adds the offset, the access has
\* the mnemonic's width, and a load's extension is the mnemonic's.
LEMMA DecodedAccesses ==
  ASSUME NEW i \in Instruction, NEW at \in Situation, i.m \in (Loads \ {"lw"}) \cup Stores
  PROVE  LET id == Decoded(Encode(i), at)
         IN  /\ id.jumpreg = 0 /\ id.jumpdir = 0 /\ id.branch = 0 /\ id.shift = 0
             /\ id.alusrc = 1 /\ id.aluop = "ADD"
             /\ id.readreg1 = i.s /\ id.readreg2 = i.t
             /\ id.sexed \in Word /\ id.sexed = Signed(i.imm)
             /\ i.m \in Loads => /\ id.regwrite = 1 /\ id.link = 0 /\ id.memtoreg = 1
                                 /\ id.memread = WidthOf(i.m) /\ id.memwrite = WIDTH_NONE
                                 /\ id.memsex = IF i.m \in {"lb", "lh"} THEN 1 ELSE 0
                                 /\ id.writereg = i.t
             /\ i.m \in Stores => /\ id.regwrite = 0
                                  /\ id.memread = WIDTH_NONE /\ id.memwrite = WidthOf(i.m)
<1> DEFINE w == Encode(i)
           c == Ctrl(w, at.latch.ctrl)
           width == MemWidthOf(w, at.latch.memwidth)
           id == Decoded(w, at)
<1>1. i.m \in {"lb", "lbu", "lh", "lhu", "sb", "sh", "sw"}
  BY DEF Loads, Stores
<1>2. /\ OpcodeOf["lb"] = 32 /\ OpcodeOf["lh"] = 33 /\ OpcodeOf["lbu"] = 36
      /\ OpcodeOf["lhu"] = 37 /\ OpcodeOf["sb"] = 40 /\ OpcodeOf["sh"] = 41 /\ OpcodeOf["sw"] = 43
      /\ i.m \in DOMAIN OpcodeOf
  BY <1>1 DEF OpcodeOf
<1>3. /\ w \in Word /\ op(w) = OpcodeOf[i.m] /\ rs(w) = i.s /\ rt(w) = i.t /\ Lo(w) = i.imm
  BY <1>2, EncodedFields
<1> HIDE DEF w
<1>4. /\ op(w) \in {32, 33} => c = Row({"regwrite", "memread", "memtoreg", "memsex", "alusrc"}, {})
      /\ op(w) \in {36, 37} => c = Row({"regwrite", "memread", "memtoreg", "alusrc"}, {})
      /\ op(w) \in {40, 41, 43} => c = Row({"memwrite", "alusrc"}, {"memsex"})
  BY DEF Ctrl
<1>5. /\ op(w) \in {32, 36, 40} => width = "BYTE"
      /\ op(w) \in {33, 37, 41} => width = "HALF"
      /\ op(w) = 43 => width = "WORD"
  BY DEF MemWidthOf
<1>6. op(w) \in {32, 33, 36, 37, 40, 41, 43} => AluOpOf(w, at.latch.aluop) = "ADD"
  BY DEF AluOpOf
<1> HIDE DEF c, width
<1>7. op(w) \in {32, 33, 36, 37, 40, 41, 43}
  BY <1>1, <1>2, <1>3
<1>8. /\ c["link"] = 0 /\ c["jumpreg"] = 0 /\ c["jumpdirect"] = 0 /\ c["branch"] = 0
      /\ c["shift"] = 0 /\ c["alusrc"] = 1 /\ c["regdst"] = 0
  BY <1>4, <1>7 DEF Row, CtrlSignal
<1>9. /\ op(w) \in {32, 33, 36, 37} => /\ c["regwrite"] = 1 /\ c["memread"] = 1 /\ c["memtoreg"] = 1
                                       /\ c["memwrite"] = 0
                                       /\ c["memsex"] = IF op(w) \in {32, 33} THEN 1 ELSE 0
      /\ op(w) \in {40, 41, 43} => c["regwrite"] = 0 /\ c["memread"] = 0 /\ c["memwrite"] = 1
  BY <1>4 DEF Row, CtrlSignal
<1>10. /\ id.regwrite = c["regwrite"] /\ id.link = c["link"]
       /\ id.jumpreg = c["jumpreg"] /\ id.jumpdir = c["jumpdirect"]
       /\ id.branch = c["branch"] /\ id.memtoreg = c["memtoreg"] /\ id.memsex = c["memsex"]
       /\ id.shift = c["shift"] /\ id.alusrc = c["alusrc"]
       /\ id.memread = IF c["memread"] = 1 THEN width ELSE WIDTH_NONE
       /\ id.memwrite = IF c["memwrite"] = 1 THEN width ELSE WIDTH_NONE
       /\ id.aluop = AluOpOf(w, at.latch.aluop)
       /\ id.readreg1 = rs(w) /\ id.readreg2 = rt(w) /\ id.sexed = sexed(w)
       /\ id.writereg = WriteReg(w, c)
  BY DecodedIs DEF c, width
<1> HIDE DEF id
<1>11. WriteReg(w, c) = i.t
  BY <1>3, <1>8 DEF WriteReg
<1>12. width = WidthOf(i.m)
  <2>1. CASE i.m \in {"lb", "lbu", "sb"}
    BY <1>2, <1>3, <1>5, <2>1 DEF WidthOf
  <2>2. CASE i.m \in {"lh", "lhu", "sh"}
    BY <1>2, <1>3, <1>5, <2>2 DEF WidthOf
  <2>3. CASE i.m = "sw"
    BY <1>2, <1>3, <1>5, <2>3 DEF WidthOf
  <2> QED
    BY <1>1, <2>1, <2>2, <2>3
<1>13. id.sexed \in Word /\ id.sexed = Signed(i.imm)
  BY <1>3, <1>10, ImmediateOperand
<1>14. ASSUME i.m \in Loads
       PROVE  /\ id.regwrite = 1 /\ id.link = 0 /\ id.memtoreg = 1
              /\ id.memread = WidthOf(i.m) /\ id.memwrite = WIDTH_NONE
              /\ id.memsex = IF i.m \in {"lb", "lh"} THEN 1 ELSE 0
              /\ id.writereg = i.t
  <2>1. i.m \in {"lb", "lbu", "lh", "lhu"}
    BY <1>1, <1>14 DEF Loads
  <2>2. op(w) \in {32, 33, 36, 37} /\ (op(w) \in {32, 33} <=> i.m \in {"lb", "lh"})
    BY <1>2, <1>3, <2>1
  <2>3. c["memsex"] = IF i.m \in {"lb", "lh"} THEN 1 ELSE 0
    <3>1. c["memsex"] = IF op(w) \in {32, 33} THEN 1 ELSE 0
      BY <1>9, <2>2
    <3> QED
      BY <2>2, <3>1
  <2>4. c["regwrite"] = 1 /\ c["memread"] = 1 /\ c["memtoreg"] = 1 /\ c["memwrite"] = 0
    BY <1>9, <2>2
  <2> QED
    BY <1>8, <1>10, <1>11, <1>12, <2>3, <2>4
<1>15. ASSUME i.m \in Stores
       PROVE  id.regwrite = 0 /\ id.memread = WIDTH_NONE /\ id.memwrite = WidthOf(i.m)
  <2>1. i.m \in {"sb", "sh", "sw"}
    BY <1>15 DEF Stores
  <2>2. op(w) \in {40, 41, 43}
    BY <1>2, <1>3, <2>1
  <2> QED
    BY <1>9, <1>10, <1>12, <2>2
<1>16. /\ id.jumpreg = 0 /\ id.jumpdir = 0 /\ id.branch = 0 /\ id.shift = 0
       /\ id.alusrc = 1 /\ id.aluop = "ADD" /\ id.readreg1 = i.s /\ id.readreg2 = i.t
  BY <1>3, <1>6, <1>7, <1>8, <1>10
<1>17. QED
  BY <1>13, <1>14, <1>15, <1>16 DEF id, w

\* Loads of bytes and halves and all stores do what they mean.
LEMMA AccessesAreRight ==
  ASSUME NEW i \in Instruction, NEW at \in Situation, i.m \in (Loads \ {"lw"}) \cup Stores
  PROVE  Outcome(i, at) = Expected(i, at)
<1> DEFINE w == Encode(i)
           id == Decoded(w, at)
           x == at.reg[i.s]
           before == AluBefore(at)
           st == Execute(id, at.reg, before)
           there == Plus(x, Signed(i.imm))
<1>1. /\ id.jumpreg = 0 /\ id.jumpdir = 0 /\ id.branch = 0 /\ id.shift = 0
      /\ id.alusrc = 1 /\ id.aluop = "ADD"
      /\ id.readreg1 = i.s /\ id.readreg2 = i.t
      /\ id.sexed \in Word /\ id.sexed = Signed(i.imm)
  BY DecodedAccesses
<1>2. x \in Word
  BY SituationType, InstructionFields
<1>3. i.m \in Loads => /\ id.regwrite = 1 /\ id.link = 0 /\ id.memtoreg = 1
                       /\ id.memread = WidthOf(i.m) /\ id.memwrite = WIDTH_NONE
                       /\ id.memsex = IF i.m \in {"lb", "lh"} THEN 1 ELSE 0
                       /\ id.writereg = i.t
  BY DecodedAccesses
<1>4. i.m \in Stores => /\ id.regwrite = 0
                        /\ id.memread = WIDTH_NONE /\ id.memwrite = WidthOf(i.m)
  BY DecodedAccesses
<1> HIDE DEF id, w
<1>5. st.result = there /\ st.hi = at.hi /\ st.lo = at.lo
  <2>1. /\ st.result = AluResult("ADD", x, id.sexed, 1, before)
        /\ st.hi = at.hi /\ st.lo = at.lo
    BY <1>1, Executed DEF Src2
  <2>2. AluResult("ADD", x, id.sexed, 1, before) = Add(x, id.sexed)
    BY DEF AluResult
  <2> HIDE DEF x
  <2>3. Add(x, id.sexed) = there
    BY <1>1, <1>2, AddIsPlus
  <2> QED
    BY <2>1, <2>2, <2>3
<1> HIDE DEF st
<1>6. Outcome(i, at) = Finished(id, st, at)
  BY OutcomeIsFinished DEF id, st, w
<1> HIDE DEF there
<1>7. WidthOf(i.m) # WIDTH_NONE
  BY DEF WidthOf, WIDTH_NONE, Loads, Stores
<1>8. CASE i.m \in Loads
  <2>1. i.m \in {"lb", "lbu", "lh", "lhu"}
    BY <1>8 DEF Loads, Stores
  <2> DEFINE answer == Loaded(i.m, at.answer)
  <2>2. RegCaster(at.answer, id.memsex, id.memread) = answer
    <3>1. at.answer \in Word
      BY SituationType
    <3>2. CASE i.m = "lb"
      BY <1>3, <1>8, <3>1, <3>2, CastIsLoaded DEF WidthOf
    <3>3. CASE i.m = "lbu"
      BY <1>3, <1>8, <3>1, <3>3, CastIsLoaded DEF WidthOf
    <3>4. CASE i.m = "lh"
      BY <1>3, <1>8, <3>1, <3>4, CastIsLoaded DEF WidthOf
    <3>5. CASE i.m = "lhu"
      BY <1>3, <1>8, <3>1, <3>5, CastIsLoaded DEF WidthOf
    <3> QED
      BY <2>1, <3>2, <3>3, <3>4, <3>5
  <2> HIDE DEF answer
  <2>3. Finished(id, st, at)
          = [reg |-> Set(at.reg, i.t, answer), hi |-> at.hi, lo |-> at.lo,
             pc |-> Plus(at.pc, W(0, 4)), req |-> [size |-> WidthOf(i.m), wr |-> 0, addr |-> there]]
    BY <1>1, <1>3, <1>5, <1>7, <1>8, <2>2, FinishedLoading
  <2>4. Expected(i, at)
          = [reg |-> Set(at.reg, i.t, answer), hi |-> at.hi, lo |-> at.lo,
             pc |-> Plus(at.pc, W(0, 4)), req |-> [size |-> WidthOf(i.m), wr |-> 0, addr |-> there]]
    <3>1. /\ i.m \notin ThreeRegisters \cup Shifts \cup FromHiLo
          /\ i.m \notin {"mthi", "mtlo", "jr", "jalr", "j", "jal"}
          /\ i.m \notin Branches /\ i.m \notin Stores
          /\ i.m \notin Linking /\ i.m \notin Immediates
      BY <2>1 DEF ThreeRegisters, Shifts, FromHiLo, Branches, Stores, RegImmOf, Immediates, Linking
    <3>2. RegAfter(i, at.pc, at.reg, at.hi, at.lo, at.answer) = Set(at.reg, i.t, answer)
      BY <1>8, <3>1 DEF RegAfter, answer
    <3>3. PcAfter(i, at.pc, at.reg) = Plus(at.pc, W(0, 4))
      BY <3>1 DEF PcAfter
    <3>4. Access(i, at.reg) = [size |-> WidthOf(i.m), wr |-> 0, addr |-> there]
      BY <1>8, <3>1 DEF Access, there
    <3> QED
      BY <3>1, <3>2, <3>3, <3>4 DEF Expected, Meaning
  <2> QED
    BY <1>6, <2>3, <2>4
<1>9. CASE i.m \in Stores
  <2>1. Finished(id, st, at)
          = [reg |-> at.reg, hi |-> at.hi, lo |-> at.lo, pc |-> Plus(at.pc, W(0, 4)),
             req |-> [size |-> WidthOf(i.m), wr |-> 1, addr |-> there, din |-> at.reg[i.t]]]
    BY <1>1, <1>4, <1>5, <1>7, <1>9, FinishedStoring
  <2>2. Expected(i, at)
          = [reg |-> at.reg, hi |-> at.hi, lo |-> at.lo, pc |-> Plus(at.pc, W(0, 4)),
             req |-> [size |-> WidthOf(i.m), wr |-> 1, addr |-> there, din |-> at.reg[i.t]]]
    <3>1. /\ i.m \notin ThreeRegisters \cup Shifts \cup FromHiLo
          /\ i.m \notin {"mthi", "mtlo", "jr", "jalr", "j", "jal"}
          /\ i.m \notin Branches /\ i.m \notin Loads
          /\ i.m \notin Linking /\ i.m \notin Immediates
      BY <1>9 DEF ThreeRegisters, Shifts, FromHiLo, Branches, Loads, Stores, RegImmOf, Immediates,
                  Linking
    <3>2. RegAfter(i, at.pc, at.reg, at.hi, at.lo, at.answer) = at.reg
      BY <3>1 DEF RegAfter
    <3>3. PcAfter(i, at.pc, at.reg) = Plus(at.pc, W(0, 4))
      BY <3>1 DEF PcAfter
    <3>4. Access(i, at.reg) = [size |-> WidthOf(i.m), wr |-> 1, addr |-> there, din |-> at.reg[i.t]]
      BY <1>9, <3>1 DEF Access, there
    <3> QED
      BY <3>1, <3>2, <3>3, <3>4 DEF Expected, Meaning
  <2> QED
    BY <1>6, <2>1, <2>2
<1>10. QED
  BY <1>8, <1>9

\* The branches that do not link, and the comparison each asks of the ALU
PlainBranches == {"beq", "bne", "blez", "bgtz", "bltz", "bgez"}

BranchOp == [beq |-> "EQ", bne |-> "NE", blez |-> "LEZ", bgtz |-> "GTZ",
             bltz |-> "LTZ", bgez |-> "GEZ"]

\* The decoder on branches that do not link
LEMMA DecodedBranches ==
  ASSUME NEW i \in Instruction, NEW at \in Situation, i.m \in PlainBranches
  PROVE  LET id == Decoded(Encode(i), at)
         IN  /\ id.regwrite = 0 /\ id.jumpreg = 0 /\ id.jumpdir = 0 /\ id.branch = 1
             /\ id.shift = 0 /\ id.alusrc = 0
             /\ id.memread = WIDTH_NONE /\ id.memwrite = WIDTH_NONE
             /\ id.aluop = BranchOp[i.m] /\ id.readreg1 = i.s
             /\ i.m \in {"beq", "bne"} => id.readreg2 = i.t
             /\ id.sexed \in Word /\ id.sexed = Signed(i.imm)
<1> DEFINE w == Encode(i)
           c == Ctrl(w, at.latch.ctrl)
           id == Decoded(w, at)
<1>1. /\ w \in Word /\ rs(w) = i.s /\ Lo(w) = i.imm
      /\ AluOpOf(w, at.latch.aluop) = BranchOp[i.m]
      /\ i.m \in {"beq", "bne"} => rt(w) = i.t
      /\ c \in {Row({"branch"}, {}), Row({"branch"}, {"regdst"})}
  <2>1. CASE i.m \in {"beq", "bne", "blez", "bgtz"}
    <3>1. /\ OpcodeOf["beq"] = 4 /\ OpcodeOf["bne"] = 5 /\ OpcodeOf["blez"] = 6
          /\ OpcodeOf["bgtz"] = 7 /\ i.m \in DOMAIN OpcodeOf
      BY <2>1 DEF OpcodeOf
    <3>2. /\ w \in Word /\ op(w) = OpcodeOf[i.m] /\ rs(w) = i.s /\ rt(w) = i.t /\ Lo(w) = i.imm
      BY <3>1, EncodedFields
    <3> HIDE DEF w
    <3>3. /\ op(w) = 4 => AluOpOf(w, at.latch.aluop) = "EQ"
          /\ op(w) = 5 => AluOpOf(w, at.latch.aluop) = "NE"
          /\ op(w) = 6 => AluOpOf(w, at.latch.aluop) = "LEZ"
          /\ op(w) = 7 => AluOpOf(w, at.latch.aluop) = "GTZ"
      BY DEF AluOpOf
    <3>4. op(w) \in {4, 5, 6, 7} => c \in {Row({"branch"}, {}), Row({"branch"}, {"regdst"})}
      BY DEF Ctrl
    <3> HIDE DEF c
    <3>5. AluOpOf(w, at.latch.aluop) = BranchOp[i.m] /\ op(w) \in {4, 5, 6, 7}
      BY <2>1, <3>1, <3>2, <3>3 DEF BranchOp
    <3> QED
      BY <3>2, <3>4, <3>5
  <2>2. CASE i.m \in {"bltz", "bgez"}
    <3>1. RegImmOf["bltz"] = 0 /\ RegImmOf["bgez"] = 1 /\ i.m \in DOMAIN RegImmOf
      BY <2>2 DEF RegImmOf
    <3>2. /\ w \in Word /\ op(w) = 1 /\ rt(w) = RegImmOf[i.m] /\ rs(w) = i.s /\ Lo(w) = i.imm
      BY <3>1, EncodedFields
    <3> HIDE DEF w
    <3>3. /\ rt(w) = 0 => AluOpOf(w, at.latch.aluop) = "LTZ"
          /\ rt(w) = 1 => AluOpOf(w, at.latch.aluop) = "GEZ"
      BY <3>2 DEF AluOpOf
    <3>4. rt(w) \in {0, 1} => c = Row({"branch"}, {})
      BY <3>2 DEF Ctrl, CtrlRegImm
    <3> HIDE DEF c
    <3>5. AluOpOf(w, at.latch.aluop) = BranchOp[i.m] /\ rt(w) \in {0, 1}
      BY <2>2, <3>1, <3>2, <3>3 DEF BranchOp
    <3> QED
      BY <2>2, <3>2, <3>4, <3>5
  <2> QED
    BY <2>1, <2>2 DEF PlainBranches
<1> HIDE DEF w
<1>2. /\ c["regwrite"] = 0 /\ c["jumpreg"] = 0 /\ c["jumpdirect"] = 0 /\ c["branch"] = 1
      /\ c["memread"] = 0 /\ c["memwrite"] = 0 /\ c["shift"] = 0 /\ c["alusrc"] = 0
  <2> HIDE DEF c
  <2> QED
    BY <1>1 DEF Row, CtrlSignal
<1> HIDE DEF c
<1>3. /\ id.regwrite = 0 /\ id.jumpreg = 0 /\ id.jumpdir = 0 /\ id.branch = 1
      /\ id.shift = 0 /\ id.alusrc = 0
      /\ id.memread = WIDTH_NONE /\ id.memwrite = WIDTH_NONE
      /\ id.aluop = AluOpOf(w, at.latch.aluop) /\ id.readreg1 = rs(w) /\ id.readreg2 = rt(w)
      /\ id.sexed = sexed(w)
  BY <1>2, DecodedIs DEF c
<1> HIDE DEF id
<1>4. id.sexed \in Word /\ id.sexed = Signed(i.imm)
  BY <1>1, <1>3, ImmediateOperand
<1>5. QED
  BY <1>1, <1>3, <1>4 DEF id, w

\* The ALU answers zero where the branch is taken.
LEMMA BranchDecided ==
  ASSUME NEW m \in PlainBranches, NEW x \in Word, NEW y \in Word, NEW z, NEW st,
         m \in {"beq", "bne"} => z = y
  PROVE  /\ Taken(m, x, y) \in BOOLEAN
         /\ AluResult(BranchOp[m], x, z, 0, st) = FromBit(low_if(Taken(m, x, y)))
<1>1. SNegative(x) \in BOOLEAN /\ Negative(x) \in BOOLEAN /\ (SNegative(x) <=> Negative(x))
  BY SNegativeIsNegative DEF SNegative, Negative
<1>2. CASE m = "beq"
  <2>1. AluResult(BranchOp[m], x, z, 0, st) = FromBit(low_if(x = y))
    BY <1>2 DEF AluResult, BranchOp
  <2>2. Taken(m, x, y) = (x = y)
    BY <1>2 DEF Taken
  <2> QED
    BY <2>1, <2>2 DEF low_if
<1>3. CASE m = "bne"
  <2>1. AluResult(BranchOp[m], x, z, 0, st) = FromBit(low_if(x # y))
    BY <1>3 DEF AluResult, BranchOp
  <2>2. Taken(m, x, y) = (x # y)
    BY <1>3 DEF Taken
  <2> QED
    BY <2>1, <2>2 DEF low_if
<1>4. CASE m = "blez"
  <2>1. AluResult(BranchOp[m], x, z, 0, st) = FromBit(low_if(SNegative(x) \/ x = ZERO))
    BY <1>4 DEF AluResult, BranchOp
  <2>2. Taken(m, x, y) = (Negative(x) \/ x = ZERO)
    BY <1>4 DEF Taken
  <2> QED
    BY <1>1, <2>1, <2>2 DEF low_if
<1>5. CASE m = "bgtz"
  <2>1. AluResult(BranchOp[m], x, z, 0, st) = FromBit(low_if(~SNegative(x) /\ x # ZERO))
    BY <1>5 DEF AluResult, BranchOp
  <2>2. Taken(m, x, y) = (~Negative(x) /\ x # ZERO)
    BY <1>5 DEF Taken
  <2> QED
    BY <1>1, <2>1, <2>2 DEF low_if
<1>6. CASE m = "bltz"
  <2>1. AluResult(BranchOp[m], x, z, 0, st) = FromBit(low_if(SNegative(x)))
    BY <1>6 DEF AluResult, BranchOp
  <2>2. Taken(m, x, y) = Negative(x)
    BY <1>6 DEF Taken
  <2> QED
    BY <1>1, <2>1, <2>2 DEF low_if
<1>7. CASE m = "bgez"
  <2>1. AluResult(BranchOp[m], x, z, 0, st) = FromBit(low_if(~SNegative(x)))
    BY <1>7 DEF AluResult, BranchOp
  <2>2. Taken(m, x, y) = ~Negative(x)
    BY <1>7 DEF Taken
  <2> QED
    BY <1>1, <2>1, <2>2 DEF low_if
<1>8. QED
  BY <1>2, <1>3, <1>4, <1>5, <1>6, <1>7 DEF PlainBranches

\* Branches that do not link do what they mean.
LEMMA BranchesRight ==
  ASSUME NEW i \in Instruction, NEW at \in Situation, i.m \in PlainBranches
  PROVE  Outcome(i, at) = Expected(i, at)
<1> DEFINE w == Encode(i)
           id == Decoded(w, at)
           x == at.reg[i.s]
           y == at.reg[i.t]
           before == AluBefore(at)
           st == Execute(id, at.reg, before)
           next == Plus(at.pc, W(0, 4))
           target == Plus(next, LeftBy(Signed(i.imm), 2))
           p == Taken(i.m, x, y)
<1>1. /\ id.regwrite = 0 /\ id.jumpreg = 0 /\ id.jumpdir = 0 /\ id.branch = 1
      /\ id.shift = 0 /\ id.alusrc = 0
      /\ id.memread = WIDTH_NONE /\ id.memwrite = WIDTH_NONE
      /\ id.aluop = BranchOp[i.m] /\ id.readreg1 = i.s
      /\ i.m \in {"beq", "bne"} => id.readreg2 = i.t
      /\ id.sexed \in Word /\ id.sexed = Signed(i.imm)
  BY DecodedBranches
<1> HIDE DEF id, w
<1>2. x \in Word /\ y \in Word
  BY SituationType, InstructionFields
<1>3. BranchOp[i.m] \notin {"MTHI", "MTLO"}
  BY DEF BranchOp, PlainBranches
<1>4. st.result = FromBit(low_if(p)) /\ p \in BOOLEAN /\ st.hi = at.hi /\ st.lo = at.lo
  <2> DEFINE z == Src2(id, at.reg)
  <2>1. /\ st.result = AluResult(BranchOp[i.m], x, z, 0, before)
        /\ st.hi = at.hi /\ st.lo = at.lo
    BY <1>1, <1>3, Executed
  <2>2. i.m \in {"beq", "bne"} => z = y
    BY <1>1 DEF Src2
  <2> HIDE DEF x, y, z, before
  <2>3. p \in BOOLEAN /\ AluResult(BranchOp[i.m], x, z, 0, before) = FromBit(low_if(p))
    BY <1>2, <2>2, BranchDecided
  <2> QED
    BY <2>1, <2>3
<1> HIDE DEF st, p
<1>5. Outcome(i, at) = Finished(id, st, at)
  BY OutcomeIsFinished DEF id, st, w
<1>6. Finished(id, st, at) = [reg |-> at.reg, hi |-> at.hi, lo |-> at.lo,
                              pc |-> IF p THEN target ELSE next, req |-> NoRequest]
  BY <1>1, <1>4, FinishedBranching
<1>7. Expected(i, at) = [reg |-> at.reg, hi |-> at.hi, lo |-> at.lo,
                         pc |-> IF p THEN target ELSE next, req |-> NoRequest]
  <2>1. /\ i.m \notin ThreeRegisters \cup Shifts \cup FromHiLo
        /\ i.m \notin {"mthi", "mtlo", "jr", "jalr", "j", "jal"}
        /\ i.m \in Branches /\ i.m \notin Loads /\ i.m \notin Stores
        /\ i.m \notin Linking /\ i.m \notin Immediates
    BY DEF ThreeRegisters, Shifts, FromHiLo, Branches, Loads, Stores, RegImmOf, Immediates,
           Linking, PlainBranches
  <2>2. RegAfter(i, at.pc, at.reg, at.hi, at.lo, at.answer) = at.reg
    BY <2>1 DEF RegAfter
  <2>3. PcAfter(i, at.pc, at.reg) = IF p THEN target ELSE next
    BY <1>4, <2>1 DEF PcAfter, p
  <2>4. Access(i, at.reg) = NoRequest
    BY <2>1 DEF Access, NoRequest
  <2> QED
    BY <2>1, <2>2, <2>3, <2>4 DEF Expected, Meaning
<1>8. QED
  BY <1>5, <1>6, <1>7

\* The decoder on jumps: whatever the build made of the open control bits, the
\* jump mux that decides is set, and the ALU operation is the one before.
LEMMA DecodedJumps ==
  ASSUME NEW i \in Instruction, NEW at \in Situation, i.m \in Jumps
  PROVE  LET id == Decoded(Encode(i), at)
         IN  /\ id.shift = 0 /\ id.memread = WIDTH_NONE /\ id.memwrite = WIDTH_NONE
             /\ id.aluop = at.latch.aluop
             /\ i.m \in {"jr", "jalr"} => id.jumpreg = 1 /\ id.readreg1 = i.s
             /\ i.m \in {"j", "jal"} =>
                  /\ id.jumpreg = 0 /\ id.jumpdir = 1
                  /\ id.jump_addr = TargetWord(Plus(at.pc, W(0, 4)), i.imm)
             /\ i.m \in {"j", "jr"} => id.regwrite = 0
             /\ i.m \in {"jal", "jalr"} => id.regwrite = 1 /\ id.link = 1
             /\ i.m = "jal" => id.writereg = 31
             /\ i.m = "jalr" => id.writereg = i.d
<1> DEFINE w == Encode(i)
           c == Ctrl(w, at.latch.ctrl)
           id == Decoded(w, at)
<1>1. /\ id.regwrite = c["regwrite"] /\ id.link = c["link"]
      /\ id.jumpreg = c["jumpreg"] /\ id.jumpdir = c["jumpdirect"] /\ id.shift = c["shift"]
      /\ c["memread"] = 0 => id.memread = WIDTH_NONE
      /\ c["memwrite"] = 0 => id.memwrite = WIDTH_NONE
      /\ id.aluop = AluOpOf(w, at.latch.aluop) /\ id.readreg1 = rs(w)
      /\ id.writereg = WriteReg(w, c)
      /\ id.jump_addr = JumpAddr(PcPlus4(at.pc), w)
  BY DecodedIs
<1>2. /\ FuncOf["jr"] = 8 /\ FuncOf["jalr"] = 9 /\ TargetOf["j"] = 2 /\ TargetOf["jal"] = 3
      /\ i.m \in {"jr", "jalr"} => i.m \in DOMAIN FuncOf
      /\ i.m \in {"j", "jal"} => i.m \in DOMAIN TargetOf
  BY DEF FuncOf, TargetOf
<1>3. CASE i.m \in {"j", "jal"}
  <2>1. /\ w \in Word /\ op(w) = TargetOf[i.m]
        /\ JumpAddr(PcPlus4(at.pc), w) = TargetWord(PcPlus4(at.pc), i.imm)
    BY <1>2, <1>3, EncodedFields, SituationType
  <2> HIDE DEF w, id
  <2>2. /\ op(w) = 2 => c = Row({"jumpdirect"}, JumpOpen \cup {"link"})
        /\ op(w) = 3 => c = Row({"regwrite", "link", "jumpdirect"}, JumpOpen)
        /\ op(w) \in {2, 3} => AluOpOf(w, at.latch.aluop) = at.latch.aluop
    BY DEF Ctrl, AluOpOf
  <2> HIDE DEF c
  <2>3. op(w) \in {2, 3} /\ (i.m = "j" <=> op(w) = 2)
    BY <1>2, <1>3, <2>1
  <2>4. /\ c["jumpreg"] = 0 /\ c["jumpdirect"] = 1 /\ c["shift"] = 0
        /\ c["memread"] = 0 /\ c["memwrite"] = 0
        /\ op(w) = 2 => c["regwrite"] = 0
        /\ op(w) = 3 => c["regwrite"] = 1 /\ c["link"] = 1
    BY <2>2, <2>3 DEF Row, CtrlSignal, JumpOpen
  <2>5. op(w) = 3 => WriteReg(w, c) = 31
    BY <2>4 DEF WriteReg
  <2>6. TargetWord(PcPlus4(at.pc), i.imm) = TargetWord(Plus(at.pc, W(0, 4)), i.imm)
    BY SituationType
  <2>7. id.jump_addr = TargetWord(Plus(at.pc, W(0, 4)), i.imm)
    BY <1>1, <2>1, <2>6
  <2> QED
    BY <1>1, <1>3, <2>2, <2>3, <2>4, <2>5, <2>7 DEF id, w
<1>4. CASE i.m \in {"jr", "jalr"}
  <2>1. /\ w \in Word /\ op(w) = 0 /\ func(w) = FuncOf[i.m] /\ rs(w) = i.s /\ rd(w) = i.d
    BY <1>2, <1>4, EncodedFields
  <2> HIDE DEF w, id
  <2>2. /\ func(w) = 8 => c = Row({"jumpreg"}, {"regdst", "link", "jumpdirect", "branch", "memtoreg",
                                                "memsex", "alusrc"})
        /\ func(w) = 9 => c = Row({"regwrite", "regdst", "link", "jumpreg"},
                                  {"memtoreg", "memsex", "alusrc"})
        /\ func(w) \in {8, 9} => AluOpOf(w, at.latch.aluop) = at.latch.aluop
    BY <2>1 DEF Ctrl, CtrlR, AluOpOf, AluOpR
  <2> HIDE DEF c
  <2>3. func(w) \in {8, 9} /\ (i.m = "jr" <=> func(w) = 8)
    BY <1>2, <1>4, <2>1
  <2>4. /\ c["jumpreg"] = 1 /\ c["shift"] = 0 /\ c["memread"] = 0 /\ c["memwrite"] = 0
        /\ func(w) = 8 => c["regwrite"] = 0
        /\ func(w) = 9 => /\ c["regwrite"] = 1 /\ c["link"] = 1 /\ c["branch"] = 0
                          /\ c["jumpdirect"] = 0 /\ c["regdst"] = 1
    BY <2>2, <2>3 DEF Row, CtrlSignal
  <2>5. func(w) = 9 => WriteReg(w, c) = i.d
    BY <2>1, <2>4 DEF WriteReg
  <2> QED
    BY <1>1, <1>4, <2>1, <2>2, <2>3, <2>4, <2>5 DEF id, w
<1>5. QED
  BY <1>3, <1>4 DEF Jumps

\* Jumps do what they mean, unless the ALU still moves to HI or LO.
LEMMA JumpsRight ==
  ASSUME NEW i \in Instruction, NEW at \in Situation, i.m \in Jumps,
         at.latch.aluop \notin {"MTHI", "MTLO"}
  PROVE  Outcome(i, at) = Expected(i, at)
<1> DEFINE w == Encode(i)
           id == Decoded(w, at)
           before == AluBefore(at)
           st == Execute(id, at.reg, before)
           next == Plus(at.pc, W(0, 4))
<1>1. /\ id.shift = 0 /\ id.memread = WIDTH_NONE /\ id.memwrite = WIDTH_NONE
      /\ id.aluop = at.latch.aluop
  BY DecodedJumps
<1>2. /\ i.m \in {"jr", "jalr"} => id.jumpreg = 1 /\ id.readreg1 = i.s
      /\ i.m \in {"j", "jal"} => /\ id.jumpreg = 0 /\ id.jumpdir = 1
                                 /\ id.jump_addr = TargetWord(next, i.imm)
      /\ i.m \in {"j", "jr"} => id.regwrite = 0
      /\ i.m \in {"jal", "jalr"} => id.regwrite = 1 /\ id.link = 1
      /\ i.m = "jal" => id.writereg = 31
      /\ i.m = "jalr" => id.writereg = i.d
  BY DecodedJumps
<1> HIDE DEF id, w
<1>3. st.hi = at.hi /\ st.lo = at.lo
  BY <1>1, Executed
<1> HIDE DEF st
<1>4. Outcome(i, at) = Finished(id, st, at)
  BY OutcomeIsFinished DEF id, st, w
<1>5. Finished(id, st, at)
        = [reg |-> IF id.regwrite = 1 THEN Set(at.reg, id.writereg, next) ELSE at.reg,
           hi |-> at.hi, lo |-> at.lo,
           pc |-> IF id.jumpreg = 1 THEN at.reg[id.readreg1] ELSE id.jump_addr,
           req |-> NoRequest]
  BY <1>1, <1>2, <1>3, FinishedJumping DEF Jumps
<1> HIDE DEF next
<1>6. /\ i.m \notin ThreeRegisters \cup Shifts \cup FromHiLo
      /\ i.m \notin {"mthi", "mtlo"}
      /\ i.m \notin Branches /\ i.m \notin Loads /\ i.m \notin Stores /\ i.m \notin Immediates
      /\ i.m \in Linking <=> i.m \in {"jal", "jalr"}
  BY DEF ThreeRegisters, Shifts, FromHiLo, Branches, Loads, Stores, RegImmOf, Immediates, Linking,
         Jumps
<1>7. Access(i, at.reg) = NoRequest
  BY <1>6 DEF Access, NoRequest
<1>8. RegAfter(i, at.pc, at.reg, at.hi, at.lo, at.answer)
        = IF id.regwrite = 1 THEN Set(at.reg, id.writereg, next) ELSE at.reg
  <2>1. CASE i.m \in {"j", "jr"}
    BY <1>2, <1>6, <2>1 DEF RegAfter
  <2>2. CASE i.m = "jal"
    BY <1>2, <1>6, <2>2 DEF RegAfter, next
  <2>3. CASE i.m = "jalr"
    BY <1>2, <1>6, <2>3 DEF RegAfter, next
  <2> QED
    BY <2>1, <2>2, <2>3 DEF Jumps
<1>9. PcAfter(i, at.pc, at.reg) = IF id.jumpreg = 1 THEN at.reg[id.readreg1] ELSE id.jump_addr
  <2>1. CASE i.m \in {"j", "jal"}
    BY <1>2, <1>6, <2>1 DEF PcAfter, next
  <2>2. CASE i.m \in {"jr", "jalr"}
    BY <1>2, <1>6, <2>2 DEF PcAfter
  <2> QED
    BY <2>1, <2>2 DEF Jumps
<1>10. Expected(i, at)
         = [reg |-> IF id.regwrite = 1 THEN Set(at.reg, id.writereg, next) ELSE at.reg,
            hi |-> at.hi, lo |-> at.lo,
            pc |-> IF id.jumpreg = 1 THEN at.reg[id.readreg1] ELSE id.jump_addr,
            req |-> NoRequest]
  BY <1>6, <1>7, <1>8, <1>9 DEF Expected, Meaning
<1>11. QED
  BY <1>4, <1>5, <1>10

-----------------------------------------------------------------------------
(* The specification.                                                      *)

\* A case stays what it was chosen to be, and its outcome is the datapath's.
OutcomeOfCase == /\ case.i \in Instruction /\ case.at \in Situation
                 /\ outcome \in {<<>>, <<Outcome(case.i, case.at)>>}

\* OutcomeOfCase is an invariant of the specification.
LEMMA OutcomeOfCaseHolds == Spec => []OutcomeOfCase
<1>1. Init => OutcomeOfCase
  <2> SUFFICES ASSUME Init PROVE OutcomeOfCase
    OBVIOUS
  <2>1. case.i \in Instructions /\ case.at \in Situations /\ outcome = <<>>
    BY DEF Init
  <2> QED
    BY <2>1, CasesAssumption DEF OutcomeOfCase
<1>2. OutcomeOfCase /\ [Execution]_vars => OutcomeOfCase'
  BY DEF OutcomeOfCase, Execution, vars
<1>3. QED
  BY <1>1, <1>2, PTL DEF Spec

\* For every instruction of these mnemonics, whatever its fields, every
\* register file, HI, LO, address and bus answer, every state of the decoder's
\* latches and every resolution of the open control bits: the datapath computes
\* what the instruction means, writes it where it says, and changes nothing else.
THEOREM ComputesRightHolds == Spec => []ComputesRight
<1>1. OutcomeOfCase => ComputesRight
  <2> SUFFICES ASSUME OutcomeOfCase,
                      Ran(ThreeRegisters \cup Immediates \cup FromHiLo \cup {"mthi"})
               PROVE  Conforms
    BY DEF ComputesRight
  <2>1. case.i \in Instruction /\ case.at \in Situation
        /\ outcome = <<Outcome(case.i, case.at)>>
        /\ case.i.m \in ThreeRegisters \cup Immediates \cup FromHiLo \cup {"mthi"}
    BY DEF OutcomeOfCase, Ran
  <2>2. Outcome(case.i, case.at) = Expected(case.i, case.at)
    BY <2>1, RegistersRight, ImmediatesRight, MoveToHiRight
  <2> QED
    BY <2>1, <2>2 DEF Conforms
<1>2. QED
  BY <1>1, OutcomeOfCaseHolds, PTL

\* The same for memory accesses: the request on the bus and what becomes of
\* the answer
THEOREM AccessesRightHolds == Spec => []AccessesRight
<1>1. OutcomeOfCase => AccessesRight
  <2> SUFFICES ASSUME OutcomeOfCase, Ran((Loads \ {"lw"}) \cup Stores)
               PROVE  Conforms
    BY DEF AccessesRight
  <2>1. case.i \in Instruction /\ case.at \in Situation
        /\ outcome = <<Outcome(case.i, case.at)>>
        /\ case.i.m \in (Loads \ {"lw"}) \cup Stores
    BY DEF OutcomeOfCase, Ran
  <2>2. Outcome(case.i, case.at) = Expected(case.i, case.at)
    BY <2>1, AccessesAreRight
  <2> QED
    BY <2>1, <2>2 DEF Conforms
<1>2. QED
  BY <1>1, OutcomeOfCaseHolds, PTL

\* The same for branches and jumps: the address the program continues at and
\* the link, but for a jump behind mthi or mtlo
THEOREM ContinuesRightHolds == Spec => []ContinuesRight
<1>1. OutcomeOfCase => ContinuesRight
  <2> SUFFICES ASSUME OutcomeOfCase,
                      Ran(PlainBranches) \/ (Ran(Jumps) /\ ~Moving)
               PROVE  Conforms
    BY DEF ContinuesRight, PlainBranches
  <2>1. case.i \in Instruction /\ case.at \in Situation
        /\ outcome = <<Outcome(case.i, case.at)>>
    BY DEF OutcomeOfCase, Ran
  <2>2. \/ case.i.m \in PlainBranches
        \/ case.i.m \in Jumps /\ case.at.latch.aluop \notin {"MTHI", "MTLO"}
    BY DEF Ran, Moving
  <2>3. Outcome(case.i, case.at) = Expected(case.i, case.at)
    BY <2>1, <2>2, BranchesRight, JumpsRight
  <2> QED
    BY <2>1, <2>3 DEF Conforms
<1>2. QED
  BY <1>1, OutcomeOfCaseHolds, PTL

=============================================================================
