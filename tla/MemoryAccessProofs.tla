------------------------- MODULE MemoryAccessProofs -------------------------
(***************************************************************************)
(* Lemmas about MemoryAccess, for every byte, page and memory size: what   *)
(* one access leaves, whoever makes it.                                    *)
(***************************************************************************)
EXTENDS MemoryAccess, ValuesProofs

-----------------------------------------------------------------------------
(* Bytes.                                                                  *)

LEMMA WeightType == \A i \in 1 .. 8 : Weight[i] \in Nat /\ Weight[i] > 0
<1>1. BYTE \in Nat /\ BYTE > 0 /\ M32 \in Nat /\ M32 > 0
  BY Moduli
<1>2. \A a, b \in Nat : a > 0 /\ b > 0 => a * b \in Nat /\ a * b > 0
  BY PositiveProduct
<1>3. /\ BYTE * BYTE \in Nat /\ BYTE * BYTE > 0
      /\ M32 * BYTE \in Nat /\ M32 * BYTE > 0
  BY <1>1, <1>2
<1>4. /\ BYTE * BYTE * BYTE \in Nat /\ BYTE * BYTE * BYTE > 0
      /\ M32 * BYTE * BYTE \in Nat /\ M32 * BYTE * BYTE > 0
  BY <1>1, <1>2, <1>3
<1>5. M32 * BYTE * BYTE * BYTE \in Nat /\ M32 * BYTE * BYTE * BYTE > 0
  BY <1>1, <1>2, <1>4
<1> QED
  BY <1>1, <1>3, <1>4, <1>5 DEF Weight

\* to_le_bytes gives bytes.
LEMMA ToBytes ==
  ASSUME NEW w \in Word, NEW n \in 1 .. 8, NEW i \in 1 .. n
  PROVE  to_le_bytes(w, n)[i] \in Byte
<1>1. w \in Nat
  BY Moduli DEF Word
<1>2. Weight[i] \in Nat /\ Weight[i] > 0
  BY WeightType
<1>3. w \div Weight[i] \in Int
  BY <1>1, <1>2
<1>4. (w \div Weight[i]) % BYTE \in 0 .. BYTE - 1
  BY <1>3, Moduli, Remainder
<1> QED
  BY <1>4 DEF to_le_bytes, Byte

\* Quotient and remainder of a number written as q * p + r.
LEMMA Quotient ==
  ASSUME NEW p \in Nat, p > 0, NEW q \in Nat, NEW r \in Nat, r < p
  PROVE  (q * p + r) \div p = q /\ (q * p + r) % p = r
  OBVIOUS

\* The byte b of weight p in a number, with lo below it and h above it.
LEMMA DigitAt ==
  \A p, lo, h \in Nat : \A b \in 0 .. BYTE - 1 :
    p > 0 /\ lo < p => ((lo + b * p + h * (p * BYTE)) \div p) % BYTE = b
<1> TAKE p, lo, h \in Nat
<1> TAKE b \in 0 .. BYTE - 1
<1> HAVE p > 0 /\ lo < p
<1> DEFINE w == lo + b * p + h * (p * BYTE)
<1>1. BYTE \in Nat /\ BYTE > 0 /\ b \in Nat /\ b < BYTE
  BY Moduli
<1>2. w = (h * BYTE + b) * p + lo
  BY <1>1
<1>3. h * BYTE \in Nat /\ h * BYTE + b \in Nat
  BY <1>1, Product
<1>4. w \div p = h * BYTE + b
  BY <1>2, <1>3, Quotient
<1>5. (h * BYTE + b) % BYTE = b
  BY <1>1, Quotient
<1> QED
  BY <1>4, <1>5

\* The weights are the powers of BYTE: each is BYTE times the one before.
LEMMA Weights ==
  /\ Weight[1] = 1 /\ Weight[2] = Weight[1] * BYTE
  /\ Weight[3] = Weight[2] * BYTE /\ Weight[4] = Weight[3] * BYTE
  /\ Weight[5] = Weight[4] * BYTE /\ Weight[6] = Weight[5] * BYTE
  /\ Weight[7] = Weight[6] * BYTE /\ Weight[8] = Weight[7] * BYTE
  /\ M64 = Weight[8] * BYTE
<1>1. /\ Weight[1] = 1 /\ Weight[2] = BYTE /\ Weight[3] = BYTE * BYTE
      /\ Weight[4] = BYTE * BYTE * BYTE /\ Weight[5] = M32
      /\ Weight[6] = M32 * BYTE /\ Weight[7] = M32 * BYTE * BYTE
      /\ Weight[8] = M32 * BYTE * BYTE * BYTE
  BY DEF Weight
<1>2. M32 * BYTE * BYTE * BYTE * BYTE = M32 * (BYTE * BYTE * BYTE * BYTE)
  BY Moduli
<1>3. 1 * BYTE = BYTE
  BY Moduli
<1> QED
  BY <1>1, <1>2, <1>3 DEF M32, M64

\* A number that is the sum of eight weighted bytes, seen from each of them.
LEMMA Positional ==
  ASSUME NEW d \in [1 .. 8 -> 0 .. BYTE - 1],
         NEW x, x = d[1] * Weight[1] + d[2] * Weight[2] + d[3] * Weight[3]
                      + d[4] * Weight[4] + d[5] * Weight[5] + d[6] * Weight[6]
                      + d[7] * Weight[7] + d[8] * Weight[8]
  PROVE  /\ x \in Nat /\ x < M64
         /\ \A n \in {1, 2, 4} :
              (\A i \in 1 .. 8 : i > n => d[i] = 0) => x < Weight[n + 1]
         /\ \A i \in 1 .. 8 : \E lo, h \in Nat :
              /\ lo < Weight[i]
              /\ x = lo + d[i] * Weight[i] + h * (Weight[i] * BYTE)
<1> DEFINE t(i) == d[i] * Weight[i]
           l2 == t(1)     l3 == l2 + t(2)  l4 == l3 + t(3)  l5 == l4 + t(4)
           l6 == l5 + t(5)  l7 == l6 + t(6)  l8 == l7 + t(7)
           h7 == d[8]     h6 == d[7] + h7 * BYTE  h5 == d[6] + h6 * BYTE
           h4 == d[5] + h5 * BYTE  h3 == d[4] + h4 * BYTE
           h2 == d[3] + h3 * BYTE  h1 == d[2] + h2 * BYTE
<1>1. /\ BYTE \in Nat /\ BYTE > 0
      /\ \A i \in 1 .. 8 : Weight[i] \in Nat /\ d[i] \in Nat /\ d[i] < BYTE
  BY Moduli, WeightType
<1>2. \A i \in 1 .. 8 : t(i) \in Nat
  BY <1>1, Product
<1>3. ASSUME NEW i \in 1 .. 8, NEW l \in Nat, l < Weight[i]
      PROVE  l + t(i) \in Nat /\ l + t(i) < Weight[i] * BYTE
  BY <1>1, <1>3, Digit
<1>4. ASSUME NEW i \in 1 .. 8, NEW h \in Nat
      PROVE  d[i] + h * BYTE \in Nat
  BY <1>1, Product
<1>5. ASSUME NEW i \in 1 .. 8, NEW h \in Nat
      PROVE  (d[i] + h * BYTE) * Weight[i] = t(i) + h * (Weight[i] * BYTE)
  <2>1. \A a, b, c, w \in Nat : (a + b * c) * w = a * w + b * (w * c)
    OBVIOUS
  <2> QED
    BY <1>1, <2>1
<1> HIDE DEF t
<1>6. /\ l2 \in Nat /\ l2 < Weight[2] /\ l3 \in Nat /\ l3 < Weight[3]
      /\ l4 \in Nat /\ l4 < Weight[4] /\ l5 \in Nat /\ l5 < Weight[5]
      /\ l6 \in Nat /\ l6 < Weight[6] /\ l7 \in Nat /\ l7 < Weight[7]
      /\ l8 \in Nat /\ l8 < Weight[8]
  <2>1. l2 \in Nat /\ l2 < Weight[2]
    BY <1>1, Weights DEF t
  <2> HIDE DEF l2
  <2>2. l3 \in Nat /\ l3 < Weight[3]
    BY <1>3, <2>1, Weights
  <2> HIDE DEF l3
  <2>3. l4 \in Nat /\ l4 < Weight[4]
    BY <1>3, <2>2, Weights
  <2> HIDE DEF l4
  <2>4. l5 \in Nat /\ l5 < Weight[5]
    BY <1>3, <2>3, Weights
  <2> HIDE DEF l5
  <2>5. l6 \in Nat /\ l6 < Weight[6]
    BY <1>3, <2>4, Weights
  <2> HIDE DEF l6
  <2>6. l7 \in Nat /\ l7 < Weight[7]
    BY <1>3, <2>5, Weights
  <2> HIDE DEF l7
  <2>7. l8 \in Nat /\ l8 < Weight[8]
    BY <1>3, <2>6, Weights
  <2> QED
    BY <2>1, <2>2, <2>3, <2>4, <2>5, <2>6, <2>7
<1>7. /\ h7 \in Nat /\ h7 * Weight[8] = t(8)
      /\ h6 \in Nat /\ h6 * Weight[7] = t(7) + t(8)
      /\ h5 \in Nat /\ h5 * Weight[6] = t(6) + t(7) + t(8)
      /\ h4 \in Nat /\ h4 * Weight[5] = t(5) + t(6) + t(7) + t(8)
      /\ h3 \in Nat /\ h3 * Weight[4] = t(4) + t(5) + t(6) + t(7) + t(8)
      /\ h2 \in Nat /\ h2 * Weight[3] = t(3) + t(4) + t(5) + t(6) + t(7) + t(8)
      /\ h1 \in Nat
      /\ h1 * Weight[2] = t(2) + t(3) + t(4) + t(5) + t(6) + t(7) + t(8)
  <2>1. h7 \in Nat /\ h7 * Weight[8] = t(8)
    BY <1>1 DEF t
  <2> HIDE DEF h7
  <2>2. h6 \in Nat /\ h6 * Weight[7] = t(7) + t(8)
    <3>1. h6 * Weight[7] = t(7) + h7 * (Weight[7] * BYTE)
      BY <1>5, <2>1
    <3>2. Weight[8] = Weight[7] * BYTE
      BY Weights
    <3>3. h6 \in Nat
      BY <1>1, <1>4, <2>1
    <3> QED
      BY <1>2, <2>1, <3>1, <3>2, <3>3
  <2> HIDE DEF h6
  <2>3. h5 \in Nat /\ h5 * Weight[6] = t(6) + t(7) + t(8)
    <3>1. h5 * Weight[6] = t(6) + h6 * (Weight[6] * BYTE)
      BY <1>5, <2>2
    <3>2. Weight[7] = Weight[6] * BYTE
      BY Weights
    <3>3. h5 \in Nat
      BY <1>1, <1>4, <2>2
    <3> QED
      BY <1>2, <2>2, <3>1, <3>2, <3>3
  <2> HIDE DEF h5
  <2>4. h4 \in Nat /\ h4 * Weight[5] = t(5) + t(6) + t(7) + t(8)
    <3>1. h4 * Weight[5] = t(5) + h5 * (Weight[5] * BYTE)
      BY <1>5, <2>3
    <3>2. Weight[6] = Weight[5] * BYTE
      BY Weights
    <3>3. h4 \in Nat
      BY <1>1, <1>4, <2>3
    <3> QED
      BY <1>2, <2>3, <3>1, <3>2, <3>3
  <2> HIDE DEF h4
  <2>5. h3 \in Nat /\ h3 * Weight[4] = t(4) + t(5) + t(6) + t(7) + t(8)
    <3>1. h3 * Weight[4] = t(4) + h4 * (Weight[4] * BYTE)
      BY <1>5, <2>4
    <3>2. Weight[5] = Weight[4] * BYTE
      BY Weights
    <3>3. h3 \in Nat
      BY <1>1, <1>4, <2>4
    <3> QED
      BY <1>2, <2>4, <3>1, <3>2, <3>3
  <2> HIDE DEF h3
  <2>6. h2 \in Nat /\ h2 * Weight[3] = t(3) + t(4) + t(5) + t(6) + t(7) + t(8)
    <3>1. h2 * Weight[3] = t(3) + h3 * (Weight[3] * BYTE)
      BY <1>5, <2>5
    <3>2. Weight[4] = Weight[3] * BYTE
      BY Weights
    <3>3. h2 \in Nat
      BY <1>1, <1>4, <2>5
    <3> QED
      BY <1>2, <2>5, <3>1, <3>2, <3>3
  <2> HIDE DEF h2
  <2>7. /\ h1 \in Nat
        /\ h1 * Weight[2] = t(2) + t(3) + t(4) + t(5) + t(6) + t(7) + t(8)
    <3>1. h1 * Weight[2] = t(2) + h2 * (Weight[2] * BYTE)
      BY <1>5, <2>6
    <3>2. Weight[3] = Weight[2] * BYTE
      BY Weights
    <3>3. h1 \in Nat
      BY <1>1, <1>4, <2>6
    <3> QED
      BY <1>2, <2>6, <3>1, <3>2, <3>3
  <2> HIDE DEF h1
  <2> QED
    BY <2>1, <2>2, <2>3, <2>4, <2>5, <2>6, <2>7
<1>8. x = t(1) + t(2) + t(3) + t(4) + t(5) + t(6) + t(7) + t(8)
  BY DEF t
<1> DEFINE Seen(i) == \E lo, h \in Nat :
             lo < Weight[i] /\ x = lo + t(i) + h * (Weight[i] * BYTE)
<1>9. Seen(1) /\ Seen(2) /\ Seen(3) /\ Seen(4)
  <2>1. x = 0 + t(1) + h1 * Weight[2] /\ 0 < Weight[1]
    BY <1>2, <1>7, <1>8, Weights
  <2>2. x = l2 + t(2) + h2 * Weight[3]
    BY <1>2, <1>7, <1>8
  <2>3. x = l3 + t(3) + h3 * Weight[4]
    BY <1>2, <1>7, <1>8
  <2>4. x = l4 + t(4) + h4 * Weight[5]
    BY <1>2, <1>7, <1>8
  <2> HIDE DEF l2, l3, l4, h1, h2, h3, h4
  <2> QED
    BY <1>6, <1>7, <2>1, <2>2, <2>3, <2>4, Weights
<1>10. Seen(5) /\ Seen(6) /\ Seen(7) /\ Seen(8)
  <2>1. x = l5 + t(5) + h5 * Weight[6]
    BY <1>2, <1>7, <1>8
  <2>2. x = l6 + t(6) + h6 * Weight[7]
    BY <1>2, <1>7, <1>8
  <2>3. x = l7 + t(7) + h7 * Weight[8]
    BY <1>2, <1>7, <1>8
  <2>4. x = l8 + t(8) + 0 * (Weight[8] * BYTE)
    BY <1>1, <1>2, <1>8, Product
  <2> HIDE DEF l5, l6, l7, l8, h5, h6, h7
  <2> QED
    BY <1>6, <1>7, <2>1, <2>2, <2>3, <2>4, Weights
<1>11. x \in Nat /\ x < M64
  <2>1. l8 + t(8) \in Nat /\ l8 + t(8) < Weight[8] * BYTE
    BY <1>3, <1>6
  <2> QED
    BY <1>8, <2>1, Weights
<1>12. ASSUME NEW n \in {1, 2, 4}, \A i \in 1 .. 8 : i > n => d[i] = 0
       PROVE  x < Weight[n + 1]
  <2>1. ASSUME NEW i \in 1 .. 8, i > n PROVE t(i) = 0
    BY <1>1, <1>12, <2>1 DEF t
  <2>2. CASE n = 1
    BY <1>2, <1>6, <1>8, <2>1, <2>2
  <2>3. CASE n = 2
    BY <1>2, <1>6, <1>8, <2>1, <2>3
  <2>4. CASE n = 4
    BY <1>2, <1>6, <1>8, <2>1, <2>4
  <2> QED
    BY <2>2, <2>3, <2>4
<1>13. \A i \in 1 .. 8 : Seen(i)
  BY <1>9, <1>10
<1> QED
  BY <1>11, <1>12, <1>13 DEF t

\* Up to eight bytes make a word, in which each stands at its weight; what n
\* bytes make is less than the weight of the next one.
LEMMA FromBytes ==
  ASSUME NEW bs \in Seq(Byte), Len(bs) <= 8
  PROVE  /\ from_le_bytes(bs) \in Word
         /\ Len(bs) \in {1, 2, 4} => from_le_bytes(bs) < Weight[Len(bs) + 1]
         /\ \A i \in 1 .. Len(bs) : \E lo, h \in Nat :
              /\ lo < Weight[i]
              /\ from_le_bytes(bs)
                   = lo + bs[i] * Weight[i] + h * (Weight[i] * BYTE)
<1> DEFINE d == [i \in 1 .. 8 |-> IF i <= Len(bs) THEN bs[i] ELSE 0]
           x == from_le_bytes(bs)
<1>1. \A i \in 1 .. 8 : d[i] \in 0 .. BYTE - 1
  <2> TAKE i \in 1 .. 8
  <2>1. CASE i <= Len(bs)
    <3>1. bs[i] \in Byte
      BY <2>1
    <3> QED
      BY <2>1, <3>1 DEF Byte
  <2>2. CASE ~ (i <= Len(bs))
    BY <2>2, Moduli
  <2> QED
    BY <2>1, <2>2
<1>2. \A i \in 1 .. 8 :
        (IF i <= Len(bs) THEN bs[i] * Weight[i] ELSE 0)
          = d[i] * Weight[i]
  <2> TAKE i \in 1 .. 8
  <2>0. \A w \in Nat : 0 * w = 0
    OBVIOUS
  <2>1. Weight[i] \in Nat /\ 0 * Weight[i] = 0
    <3>1. Weight[i] \in Nat
      BY WeightType
    <3> QED
      BY <2>0, <3>1
  <2>2. CASE i <= Len(bs)
    BY <2>2
  <2>3. CASE ~ (i <= Len(bs))
    BY <2>1, <2>3
  <2> QED
    BY <2>2, <2>3
<1>3. x = d[1] * Weight[1] + d[2] * Weight[2] + d[3] * Weight[3]
            + d[4] * Weight[4] + d[5] * Weight[5] + d[6] * Weight[6]
            + d[7] * Weight[7] + d[8] * Weight[8]
  BY <1>2 DEF from_le_bytes
<1>4. d \in [1 .. 8 -> 0 .. BYTE - 1]
  BY <1>1
<1>5. Len(bs) \in Nat /\ \A i \in 1 .. Len(bs) : i \in 1 .. 8 /\ d[i] = bs[i]
  OBVIOUS
<1>6. \A i \in 1 .. 8 : i > Len(bs) => d[i] = 0
  BY <1>5
<1> HIDE DEF d, x
<1>7. /\ x \in Nat /\ x < M64
      /\ \A n \in {1, 2, 4} :
           (\A i \in 1 .. 8 : i > n => d[i] = 0) => x < Weight[n + 1]
      /\ \A i \in 1 .. 8 : \E lo, h \in Nat :
           lo < Weight[i] /\ x = lo + d[i] * Weight[i] + h * (Weight[i] * BYTE)
  BY <1>3, <1>4, Positional
<1>8. x \in Word
  BY <1>7, Moduli DEF Word
<1> QED
  BY <1>5, <1>6, <1>7, <1>8 DEF x

\* The value a load pushes is a word.
LEMMA ExtendType ==
  ASSUME NEW x \in Word, NEW a \in Access
  PROVE  Extend(x, a) \in Word
<1>1. x \in Int /\ M64 \in Nat /\ M64 > 0
  BY Moduli DEF Word
<1>2. (IF a.n = 8 THEN M64 ELSE Weight[a.n + 1]) \in Int
  BY WeightType, Moduli DEF Access
<1>3. Signed(x, IF a.n = 8 THEN M64 ELSE Weight[a.n + 1]) \in Int
  BY <1>1, <1>2 DEF Signed
<1>4. Signed(x, IF a.n = 8 THEN M64 ELSE Weight[a.n + 1]) % M64 \in Word
  BY <1>1, <1>3, Remainder DEF Word
<1> QED
  BY <1>4 DEF Extend

\* How many numbers n bytes can hold; every such count divides the next ones.
Span(n) == IF n = 8 THEN M64 ELSE Weight[n + 1]
Divides(u, v) == \E c \in Nat : c > 0 /\ v = c * u

LEMMA SpanType ==
  ASSUME NEW n \in 1 .. 8
  PROVE  Span(n) \in Nat /\ Span(n) > 0 /\ Span(n) = Weight[n] * BYTE
<1>1. n < 8 => n + 1 \in 1 .. 8
  OBVIOUS
<1>2. Span(n) = Weight[n] * BYTE
  BY Weights DEF Span
<1> QED
  BY <1>1, <1>2, WeightType, Moduli DEF Span

LEMMA SpanDivides ==
  /\ \A n \in 1 .. 8 : Divides(Span(n), M64)
  /\ \A n \in {1, 2, 4, 8} : \A i \in 1 .. n : Divides(Span(i), Span(n))
<1>1. ASSUME NEW u \in Nat, NEW v \in Nat, NEW w \in Nat, Divides(u, v),
             Divides(v, w)
      PROVE  Divides(u, w)
  <2>1. PICK b \in Nat : b > 0 /\ v = b * u
    BY <1>1 DEF Divides
  <2>2. PICK c \in Nat : c > 0 /\ w = c * v
    BY <1>1 DEF Divides
  <2>3. c * b \in Nat /\ c * b > 0
    BY <2>1, <2>2, PositiveProduct
  <2>4. w = (c * b) * u
    BY <2>1, <2>2
  <2> QED
    BY <2>3, <2>4 DEF Divides
<1>2. ASSUME NEW u \in Nat PROVE Divides(u, u)
  <2>1. u = 1 * u
    OBVIOUS
  <2> QED
    BY <2>1 DEF Divides
<1>3. ASSUME NEW n \in 1 .. 7 PROVE Divides(Span(n), Span(n + 1))
  <2>1. Span(n + 1) = BYTE * Span(n)
    <3>1. Span(n) = Weight[n + 1] /\ n + 1 \in 1 .. 8
      BY DEF Span
    <3>2. Span(n + 1) = Weight[n + 1] * BYTE
      BY <3>1, SpanType
    <3> QED
      BY <3>1, <3>2, WeightType, Moduli
  <2> QED
    BY <2>1, Moduli DEF Divides
<1>4. \A n \in 1 .. 8 : Span(n) \in Nat
  BY SpanType
<1>5. /\ Divides(Span(1), Span(1)) /\ Divides(Span(2), Span(2))
      /\ Divides(Span(4), Span(4)) /\ Divides(Span(8), Span(8))
      /\ Divides(Span(1), Span(2)) /\ Divides(Span(2), Span(3))
      /\ Divides(Span(3), Span(4)) /\ Divides(Span(4), Span(5))
      /\ Divides(Span(5), Span(6)) /\ Divides(Span(6), Span(7))
      /\ Divides(Span(7), Span(8))
  BY <1>2, <1>3, <1>4
<1>6. Divides(Span(2), Span(4)) /\ Divides(Span(1), Span(4))
  BY <1>1, <1>4, <1>5
<1>7. Divides(Span(6), Span(8)) /\ Divides(Span(5), Span(8))
  BY <1>1, <1>4, <1>5
<1>8. Divides(Span(4), Span(8)) /\ Divides(Span(3), Span(8))
  BY <1>1, <1>4, <1>5, <1>7
<1>9. Divides(Span(2), Span(8)) /\ Divides(Span(1), Span(8))
  BY <1>1, <1>4, <1>5, <1>8
<1>10. M64 = Span(8)
  BY DEF Span
<1> QED
  BY <1>5, <1>6, <1>7, <1>8, <1>9, <1>10

\* The word a load pushes has the bytes it read at its low end, and is what
\* they make, with its sign if the load extends it.
LEMMA Extension ==
  ASSUME NEW a \in Access, NEW bs \in Seq(Byte), Len(bs) = a.n,
         NEW x, x = from_le_bytes(bs), NEW w, w = Extend(x, a)
  PROVE  /\ w \in Word
         /\ \A i \in 1 .. a.n : (w \div Weight[i]) % BYTE = bs[i]
         /\ w % Span(a.n) = x
         /\ w = IF a.signed /\ 2 * x >= Span(a.n) THEN (x - Span(a.n)) % M64
                                                 ELSE x
<1> DEFINE m == Span(a.n)
<1>1. a.n \in 1 .. 8 /\ a.n \in {1, 2, 4, 8} /\ a.signed \in BOOLEAN
  BY DEF Access
<1>2. m \in Nat /\ m > 0 /\ M64 \in Nat /\ M64 > 0
  BY <1>1, SpanType, Moduli
<1>3. x \in Nat /\ x < m
  <2>1. Len(bs) <= 8
    BY <1>1
  <2>2. x \in Word /\ (Len(bs) \in {1, 2, 4} => x < Weight[Len(bs) + 1])
    BY <2>1, FromBytes
  <2> QED
    BY <1>1, <1>2, <2>2 DEF Span, Word
<1>4. PICK k \in Nat : k > 0 /\ M64 = k * m
  BY <1>1, SpanDivides DEF Divides
<1>5. w = IF a.signed THEN Signed(x, m) % M64 ELSE x
  BY DEF Extend, Span
<1> HIDE DEF m
<1>6. m <= M64
  BY <1>2, <1>4
<1>7. x % M64 = x
  BY <1>2, <1>3, <1>6, SmallRemainder
<1>8. w = IF a.signed /\ 2 * x >= m THEN (x - m) % M64 ELSE x
  <2>1. CASE a.signed
    <3>1. w = Signed(x, m) % M64
      BY <1>5, <2>1
    <3>2. Signed(x, m) = IF 2 * x >= m THEN x - m ELSE x
      BY <1>2, <1>3 DEF Signed
    <3> QED
      BY <1>7, <2>1, <3>1, <3>2
  <2>2. CASE ~ a.signed
    BY <1>5, <2>2
  <2> QED
    BY <2>1, <2>2
<1>9. PICK e \in Nat : w = x + e * m
  <2>1. CASE a.signed /\ 2 * x >= m
    <3>1. x - m < 0 /\ 0 <= M64 + (x - m) /\ x - m \in Int
      BY <1>2, <1>3, <1>6
    <3>2. (x - m) % M64 = M64 + (x - m)
      BY <1>2, <3>1
    <3>3. M64 + (x - m) = x + (k - 1) * m
      BY <1>2, <1>3, <1>4
    <3>4. k - 1 \in Nat
      BY <1>4
    <3> QED
      BY <1>8, <2>1, <3>2, <3>3, <3>4
  <2>2. CASE ~ (a.signed /\ 2 * x >= m)
    <3>1. w = x + 0 * m
      BY <1>2, <1>3, <1>8, <2>2
    <3> QED
      BY <3>1
  <2> QED
    BY <2>1, <2>2
<1>10. w % m = x
  <2>1. w = e * m + x
    BY <1>2, <1>3, <1>9
  <2> QED
    BY <1>2, <1>3, <2>1, Quotient
<1>11. ASSUME NEW i \in 1 .. a.n PROVE (w \div Weight[i]) % BYTE = bs[i]
  <2>1. i \in 1 .. 8 /\ i \in 1 .. Len(bs)
    BY <1>1
  <2>2. PICK lo \in Nat, h \in Nat :
          lo < Weight[i] /\ x = lo + bs[i] * Weight[i] + h * (Weight[i] * BYTE)
    BY <1>1, <2>1, FromBytes
  <2>3. PICK c \in Nat : m = c * (Weight[i] * BYTE)
    BY <1>1, <2>1, SpanDivides, SpanType DEF Divides, m
  <2>4. Weight[i] \in Nat /\ Weight[i] > 0 /\ BYTE \in Nat
    BY <2>1, WeightType, Moduli
  <2>5. bs[i] \in 0 .. BYTE - 1
    <3>1. bs[i] \in Byte
      BY <2>1
    <3> QED
      BY <3>1 DEF Byte
  <2>6. /\ Weight[i] * BYTE \in Nat
        /\ \A u \in Nat : h * u + e * (c * u) = (h + e * c) * u
    BY <2>4, Product
  <2>7. bs[i] * Weight[i] \in Nat /\ h * (Weight[i] * BYTE) \in Nat
    BY <2>4, <2>5, <2>6, Product
  <2>8. w = lo + bs[i] * Weight[i] + (h + e * c) * (Weight[i] * BYTE)
    <3> DEFINE u == Weight[i] * BYTE
               v == bs[i] * Weight[i]
    <3>1. w = lo + v + h * u + e * (c * u)
      BY <1>9, <2>2, <2>3
    <3>2. h * u + e * (c * u) = (h + e * c) * u
      BY <2>6
    <3>3. e * (c * u) \in Nat /\ h * u \in Nat /\ v \in Nat
      BY <2>6, <2>7, Product
    <3> HIDE DEF u, v
    <3>4. w = lo + v + (h * u + e * (c * u))
      BY <3>1, <3>3
    <3> QED
      BY <3>2, <3>4 DEF u, v
  <2> DEFINE g == h + e * c
             p == Weight[i]
             b == bs[i]
  <2>9. /\ p \in Nat /\ p > 0 /\ lo \in Nat /\ lo < p /\ g \in Nat
        /\ b \in 0 .. BYTE - 1 /\ w = lo + b * p + g * (p * BYTE)
    <3>1. g \in Nat
      BY Product
    <3> QED
      BY <2>2, <2>4, <2>5, <2>8, <3>1
  <2> HIDE DEF g, p, b
  <2>10. (w \div p) % BYTE = b
    BY <2>9, DigitAt
  <2> QED
    BY <2>10 DEF p, b
<1>12. w \in Word
  <2>1. x \in Word
    BY <1>2, <1>3, <1>6 DEF Word
  <2> QED
    BY <2>1, ExtendType
<1> QED
  BY <1>8, <1>10, <1>11, <1>12 DEF m

-----------------------------------------------------------------------------
(* Memories.                                                               *)

\* n zero bytes.
LEMMA ZeroBytes ==
  ASSUME NEW n \in Nat
  PROVE  /\ [i \in 1 .. n |-> 0] \in Seq(Byte)
         /\ Len([i \in 1 .. n |-> 0]) = n
<1>1. 0 \in Byte
  BY Moduli DEF Byte
<1> QED
  BY <1>1

\* adjust_memarg gives a usize.
LEMMA AddressType ==
  ASSUME NEW a \in Access
  PROVE  Address(a) \in Nat
<1>1. a.offset \in Int /\ a.base \in Int
  BY PayloadCases DEF Access
<1>2. a.base % M64 \in 0 .. M64 - 1
  BY <1>1, Moduli, Remainder
<1>3. Sum(a) \in Int
  BY <1>1, <1>2, Moduli DEF Sum
<1>4. Sum(a) % M64 \in 0 .. M64 - 1
  BY <1>3, Moduli, Remainder
<1> QED
  BY <1>4, Moduli DEF Address

\* A store keeps the size, and its bytes are bytes.
LEMMA StoredType ==
  ASSUME data \in Seq(Byte), NEW a \in Access
  PROVE  Stored(a) \in Seq(Byte) /\ Len(Stored(a)) = Len(data)
<1>1. a.n \in 1 .. 8 /\ a.value \in Word
  BY DEF Access
<1>2. Address(a) \in Nat
  BY AddressType
<1>3. \A i \in 1 .. Len(data) :
        (IF i \in Address(a) + 1 .. Address(a) + a.n
         THEN to_le_bytes(a.value, a.n)[i - Address(a)] ELSE data[i]) \in Byte
  <2> TAKE i \in 1 .. Len(data)
  <2>1. CASE i \in Address(a) + 1 .. Address(a) + a.n
    <3>1. i - Address(a) \in 1 .. a.n
      BY <1>1, <1>2, <2>1
    <3>2. to_le_bytes(a.value, a.n)[i - Address(a)] \in Byte
      BY <1>1, <3>1, ToBytes
    <3> QED
      BY <2>1, <3>2
  <2>2. CASE i \notin Address(a) + 1 .. Address(a) + a.n
    BY <2>2
  <2> QED
    BY <2>1, <2>2
<1>4. Len(data) \in Nat
  OBVIOUS
<1> QED
  BY <1>3, <1>4 DEF Stored

\* An access that neither aborts nor is out of bounds reads n bytes.
LEMMA SliceType ==
  ASSUME data \in Seq(Byte), NEW a \in Access, ~ Aborts(a), ~ OutOfBounds(a)
  PROVE  /\ Slice(a) \in Seq(Byte) /\ Len(Slice(a)) = a.n /\ a.n <= 8
         /\ \A i \in 1 .. a.n : Slice(a)[i] = data[Address(a) + i]
<1>1. a.n \in 1 .. 8
  BY DEF Access
<1>2. Address(a) \in Nat
  BY AddressType
<1>3. Address(a) + a.n <= Len(data)
  BY <1>1, <1>2 DEF Aborts
<1> DEFINE lo == Address(a) + 1  hi == Address(a) + a.n
<1>4. lo \in 1 .. Len(data) + 1 /\ hi \in 0 .. Len(data)
  BY <1>1, <1>2, <1>3
<1>5. /\ SubSeq(data, lo, hi) \in Seq(Byte)
      /\ Len(SubSeq(data, lo, hi)) = a.n
      /\ \A i \in 1 .. a.n : SubSeq(data, lo, hi)[i] = data[Address(a) + i]
  <2>1. \A i \in lo .. hi : data[i] \in Byte
    BY <1>4
  <2>2. /\ SubSeq(data, lo, hi) \in Seq(Byte)
        /\ Len(SubSeq(data, lo, hi)) = IF lo <= hi THEN hi - lo + 1 ELSE 0
        /\ \A i \in 1 .. hi - lo + 1 : SubSeq(data, lo, hi)[i] = data[lo + i - 1]
    BY <1>1, <1>2, <2>1, SubSeqProperties
  <2>3. /\ lo <= hi /\ hi - lo + 1 = a.n
        /\ \A i \in 1 .. a.n : lo + i - 1 = Address(a) + i
    <3>1. \A k \in Nat, n \in 1 .. 8 :
            /\ k + 1 <= k + n /\ (k + n) - (k + 1) + 1 = n
            /\ \A i \in 1 .. n : k + 1 + i - 1 = k + i
      OBVIOUS
    <3> QED
      BY <1>1, <1>2, <3>1
  <2> HIDE DEF lo, hi
  <2> QED
    BY <2>2, <2>3
<1> DEFINE s == SubSeq(data, lo, hi)
<1>6. Slice(a) = s
  BY DEF Slice
<1>7. /\ s \in Seq(Byte) /\ Len(s) = a.n
      /\ \A i \in 1 .. a.n : s[i] = data[Address(a) + i]
  BY <1>5
<1> HIDE DEF s, lo, hi
<1> QED
  BY <1>1, <1>6, <1>7

-----------------------------------------------------------------------------
(* Accesses.                                                               *)

\* What a step changes stays well typed: data is a memory whenever it is one
\* before, and the reply is a word or a fault.
LEMMA AnswerType ==
  /\ \A w \in Word :
       Answer(w) \in [kind : {"word", "MemoryOutOfBounds"}, w : Word]
  /\ Fault \in [kind : {"word", "MemoryOutOfBounds"}, w : Word]
  BY Moduli DEF Answer, Fault, Word

LEMMA PagesType == data \in Seq(Byte) => Pages \in Int
  BY MemoryAssumption DEF Pages

\* A grow that is not refused appends delta pages of zeros.
LEMMA Grown ==
  ASSUME data \in Seq(Byte), NEW delta \in Nat,
         NEW d, d = data \o [i \in 1 .. delta * PAGE |-> 0]
  PROVE  /\ d \in Seq(Byte)
         /\ Len(d) = Len(data) + delta * PAGE
         /\ delta * PAGE \in Nat
         /\ SubSeq(d, 1, Len(data)) = data
         /\ \A i \in Len(data) + 1 .. Len(d) : d[i] = 0
<1> DEFINE z == [i \in 1 .. delta * PAGE |-> 0]
<1>1. delta * PAGE \in Nat
  BY MemoryAssumption, Product
<1>2. z \in Seq(Byte) /\ Len(z) = delta * PAGE
  BY <1>1, ZeroBytes
<1>3. \A i \in 1 .. Len(z) : z[i] = 0
  BY <1>1, <1>2
<1> HIDE DEF z
<1>4. d = data \o z
  BY DEF z
<1>5. d \in Seq(Byte) /\ Len(d) = Len(data) + Len(z)
  BY <1>2, <1>4, ConcatProperties
<1>6. SubSeq(data \o z, 1, Len(data)) = SubSeq(data, 1, Len(data))
  BY <1>2, SubSeqOfConcat1
<1>7. SubSeq(data, 1, Len(data)) = data
  BY SubSeqFull
<1>8. \A i \in Len(data) + 1 .. Len(d) : d[i] = 0
  <2> TAKE i \in Len(data) + 1 .. Len(d)
  <2>1. i - Len(data) \in 1 .. Len(z)
    BY <1>2, <1>5
  <2>2. d[i] = z[i - Len(data)]
    BY <1>2, <1>4, <2>1
  <2> QED
    BY <1>3, <2>1, <2>2
<1> QED
  BY <1>1, <1>2, <1>4, <1>5, <1>6, <1>7, <1>8

\* An access whose base is not negative as an i32, or so negative that the sum
\* with the offset and the width stays below the top of the address space.
Unwrapped(a) == a.base >= 0 \/ a.base + a.offset + a.n < 0

\* No addition of such an access overflows, and the bounds check sees its end.
LEMMA UnwrappedAccess ==
  ASSUME NEW a \in Access, a.offset < M32, Unwrapped(a), data \in Seq(Byte)
  PROVE  /\ ~ Aborts(a)
         /\ Address(a) = a.base + a.offset + (IF a.base >= 0 THEN 0 ELSE M64)
         /\ OutOfBounds(a) <=> Address(a) + a.n > Len(data)
<1> DEFINE n == a.n
           o == a.offset
           b == a.base
           u == b + (IF b >= 0 THEN 0 ELSE M64)
<1>1. n \in 1 .. 8 /\ o \in Nat /\ b \in Int /\ 2 * b < M32 /\ -M32 <= 2 * b
  BY PayloadCases DEF Access
<1>2. M64 \in Nat /\ M32 \in Nat /\ 16 <= M32 /\ 16 * M32 <= M64
  BY Widths
<1>3. o < M32 /\ (b >= 0 \/ b + o + n < 0)
  BY DEF Unwrapped
<1> HIDE DEF n, o, b
<1>4. u \in Nat /\ u < M64 /\ o + u + n < M64 /\ o + u \in Nat
  BY <1>1, <1>2, <1>3
<1>5. b % M64 = u
  <2>1. CASE b >= 0
    <3>1. u = b
      BY <1>1, <2>1
    <3> QED
      BY <1>2, <1>4, <3>1, SmallRemainder
  <2>2. CASE b < 0
    <3>1. \A x \in Int : x < 0 /\ 0 <= M64 + x => x % M64 = M64 + x
      BY <1>2
    <3>2. u = M64 + b
      BY <1>1, <1>2, <2>2
    <3> QED
      BY <1>1, <1>4, <2>2, <3>1, <3>2
  <2> QED
    BY <1>1, <2>1, <2>2
<1>6. Sum(a) = o + u
  BY <1>5 DEF Sum, o, b
<1>7. Address(a) = o + u
  <2>1. o + u < M64
    BY <1>1, <1>2, <1>4
  <2>2. (o + u) % M64 = o + u
    BY <1>2, <1>4, <2>1, SmallRemainder
  <2> QED
    BY <1>6, <2>2 DEF Address
<1>8. (o + u + n) % M64 = o + u + n /\ o + u + n \in Nat
  <2>1. o + u + n \in Nat
    BY <1>1, <1>4
  <2> QED
    BY <1>2, <1>4, <2>1, SmallRemainder
<1>9. End(a) = o + u + n
  <2>1. End(a) = IF n = 1 THEN o + u + 1 ELSE (o + u + n) % M64
    BY <1>7 DEF End, n
  <2> QED
    BY <1>8, <2>1
<1>10. Address(a) + a.n = o + u + n
  BY <1>7 DEF n
<1>11. Len(data) \in Nat
  OBVIOUS
<1>12. OutOfBounds(a) <=> Address(a) + a.n > Len(data)
  BY <1>9, <1>10 DEF OutOfBounds
<1>13. ~ Aborts(a)
  BY <1>1, <1>2, <1>4, <1>6, <1>8, <1>10, <1>12 DEF Aborts
<1>14. o + u = a.base + a.offset + (IF a.base >= 0 THEN 0 ELSE M64)
  BY <1>1, <1>2 DEF o, b
<1> QED
  BY <1>7, <1>12, <1>13, <1>14

-----------------------------------------------------------------------------
(* One lemma for each kind of access.                                      *)

LEMMA LoadOK ==
  ASSUME MemoryTypeOK, NEW a \in Access, Load(a)
  PROVE  MemoryTypeOK' /\ UNCHANGED <<data, max, growable>>
<1>1. CASE Aborts(a)
  BY <1>1 DEF Load, Abort, MemoryTypeOK
<1>2. CASE ~ Aborts(a) /\ OutOfBounds(a)
  BY <1>2, AnswerType DEF Load, MemoryTypeOK
<1>3. CASE ~ Aborts(a) /\ ~ OutOfBounds(a)
  <2>1. Extend(from_le_bytes(Slice(a)), a) \in Word
    BY <1>3, SliceType, FromBytes, ExtendType DEF MemoryTypeOK
  <2> QED
    BY <1>3, <2>1, AnswerType DEF Load, MemoryTypeOK
<1> QED
  BY <1>1, <1>2, <1>3

LEMMA StoreOK ==
  ASSUME MemoryTypeOK, NEW a \in Access, Store(a)
  PROVE  MemoryTypeOK' /\ Len(data') = Len(data) /\ UNCHANGED <<max, growable>>
<1>0. 0 \in Word
  BY Moduli DEF Word
<1>1. CASE Aborts(a)
  BY <1>1 DEF Store, Abort, MemoryTypeOK
<1>2. CASE ~ Aborts(a) /\ OutOfBounds(a)
  BY <1>2, AnswerType DEF Store, MemoryTypeOK
<1>3. CASE ~ Aborts(a) /\ ~ OutOfBounds(a)
  BY <1>0, <1>3, AnswerType, StoredType DEF Store, MemoryTypeOK
<1> QED
  BY <1>1, <1>2, <1>3

LEMMA SizeOK ==
  ASSUME MemoryTypeOK, MemorySize
  PROVE  MemoryTypeOK' /\ UNCHANGED <<data, max, growable>>
<1>1. Pages % M32 \in 0 .. M32 - 1
  BY PagesType, Moduli, Remainder DEF MemoryTypeOK
<1>2. M32 <= M64
  BY Moduli DEF M64
<1>3. Pages % M32 \in Word
  BY <1>1, <1>2, Moduli DEF Word
<1> QED
  BY <1>3, AnswerType DEF MemorySize, MemoryTypeOK

\* A grow is refused and changes nothing, or it stays below both limits and
\* appends pages of zeros.
LEMMA GrowOK ==
  ASSUME MemoryTypeOK, NEW delta \in Int, MemoryGrow(delta)
  PROVE  /\ MemoryTypeOK' /\ UNCHANGED <<max, growable>> /\ OnlyGrows
         /\ \/ UNCHANGED data
            \/ Len(data') <= LIMIT /\ (max # NoMax => Len(data') <= max)
<1> DEFINE new_size == Len(data) + delta * PAGE
<1>0. data \in Seq(Byte) /\ max \in Nat \cup {NoMax} /\ Len(data) \in Nat
  BY DEF MemoryTypeOK
<1>1. CASE delta < 0 \/ CannotGrow(new_size)
  <2>1. M64 - 1 \in Word
    BY Moduli DEF Word
  <2> QED
    BY <1>1, <2>1, AnswerType DEF MemoryGrow, MemoryTypeOK, OnlyGrows
<1>2. CASE ~ (delta < 0 \/ CannotGrow(new_size))
  <2>1. delta \in Nat
    BY <1>2
  <2>2. data' = data \o [i \in 1 .. delta * PAGE |-> 0]
    BY <1>2 DEF MemoryGrow
  <2>3. /\ data' \in Seq(Byte)
        /\ Len(data') = new_size
        /\ delta * PAGE \in Nat
        /\ SubSeq(data', 1, Len(data)) = data
        /\ \A i \in Len(data) + 1 .. Len(data') : data'[i] = 0
    BY <1>0, <2>1, <2>2, Grown
  <2>4. Signed(Pages % M32, M32) \in Int
    BY <1>0, PagesType, Moduli, Remainder DEF Signed
  <2>5. Signed(Pages % M32, M32) % M64 \in Word
    BY <2>4, Moduli, Remainder DEF Word
  <2>6. MemoryTypeOK' /\ UNCHANGED <<max, growable>>
    BY <1>2, <2>3, <2>5, AnswerType DEF MemoryGrow, MemoryTypeOK
  <2>7. (delta * PAGE) % PAGE = 0
    BY <2>1, MemoryAssumption, MultipleRemainder
  <2>8. OnlyGrows
    BY <1>0, <2>3, <2>7 DEF OnlyGrows
  <2>9. Len(data') <= LIMIT /\ (max # NoMax => Len(data') <= max)
    <3>1. new_size \in Nat
      BY <1>0, <2>3
    <3> HIDE DEF new_size
    <3> QED
      BY <1>0, <1>2, <2>3, <3>1, MemoryAssumption DEF CannotGrow
  <2> QED
    BY <2>6, <2>8, <2>9
<1> QED
  BY <1>1, <1>2
=============================================================================
