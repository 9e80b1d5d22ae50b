---------------------------- MODULE ValuesProofs ----------------------------
(***************************************************************************)
(* Lemmas about words, values and the operand stack, for every BYTE.       *)
(***************************************************************************)
EXTENDS Values, SequenceTheorems, TLAPS

-----------------------------------------------------------------------------
(* Arithmetic.                                                             *)

\* A product of naturals is a natural, and grows with its factors.
LEMMA Product ==
  ASSUME NEW a \in Nat, NEW b \in Nat
  PROVE  a * b \in Nat
  OBVIOUS

LEMMA ProductMonotone ==
  ASSUME NEW a \in Nat, NEW b \in Nat, NEW c \in Nat, a <= b
  PROVE  a * c <= b * c
  OBVIOUS

LEMMA PositiveProduct ==
  \A a, b \in Nat : a > 0 /\ b > 0 => a * b \in Nat /\ a * b > 0
  OBVIOUS

\* A byte b of weight w above the bytes x below it.
LEMMA Digit ==
  ASSUME NEW w \in Nat, NEW x \in Nat, x < w, NEW b \in 0 .. BYTE - 1
  PROVE  /\ b * w \in Nat
         /\ x + b * w \in Nat
         /\ x + b * w < w * BYTE
<1>1. BYTE \in Nat /\ b \in Nat /\ b <= BYTE - 1 /\ BYTE - 1 \in Nat
  BY ByteAssumption
<1>2. b * w \in Nat
  BY <1>1, Product
<1>3. b * w <= (BYTE - 1) * w
  BY <1>1, ProductMonotone
<1>4. (BYTE - 1) * w = w * BYTE - w
  BY <1>1
<1>5. w * BYTE \in Nat
  BY <1>1
<1> QED
  BY <1>2, <1>3, <1>4, <1>5

\* The remainder by a positive number.
LEMMA Remainder ==
  ASSUME NEW x \in Int, NEW m \in Nat, m > 0
  PROVE  x % m \in 0 .. m - 1
  OBVIOUS

LEMMA MultipleRemainder ==
  ASSUME NEW k \in Nat, NEW m \in Nat, m > 0
  PROVE  (k * m) % m = 0
  OBVIOUS

LEMMA Moduli ==
  /\ BYTE \in Nat /\ BYTE > 0
  /\ M32 \in Nat /\ M32 > 0
  /\ M64 \in Nat /\ M64 > 0
<1>1. BYTE \in Nat /\ BYTE > 0
  BY ByteAssumption
<1>2. \A a, b \in Nat : a > 0 /\ b > 0 => a * b \in Nat /\ a * b > 0
  BY PositiveProduct
<1>3. BYTE * BYTE \in Nat /\ BYTE * BYTE > 0
  BY <1>1, <1>2
<1>4. BYTE * BYTE * BYTE \in Nat /\ BYTE * BYTE * BYTE > 0
  BY <1>1, <1>2, <1>3
<1>5. M32 \in Nat /\ M32 > 0
  BY <1>1, <1>2, <1>4 DEF M32
<1>6. M64 \in Nat /\ M64 > 0
  BY <1>2, <1>5 DEF M64
<1> QED
  BY <1>1, <1>5, <1>6

LEMMA SmallRemainder ==
  ASSUME NEW x \in Nat, NEW m \in Nat, x < m
  PROVE  x % m = x
  OBVIOUS

\* An i32 has at least 4 bits, and an i64 at least 16 times as many values.
LEMMA Widths == M64 \in Nat /\ M32 \in Nat /\ 16 <= M32 /\ 16 * M32 <= M64
<1>1. BYTE \in Nat /\ 2 <= BYTE
  BY ByteAssumption
<1>2. 2 * 2 <= BYTE * BYTE /\ BYTE * BYTE \in Nat
  <2>1. 2 * BYTE <= BYTE * BYTE
    BY <1>1, ProductMonotone
  <2> QED
    BY <1>1, <2>1, Product
<1>3. 2 * 4 <= BYTE * BYTE * BYTE /\ BYTE * BYTE * BYTE \in Nat
  <2>1. 4 * BYTE <= (BYTE * BYTE) * BYTE
    BY <1>1, <1>2, ProductMonotone
  <2> QED
    BY <1>1, <1>2, <2>1, Product
<1>4. 16 <= M32 /\ M32 \in Nat
  <2>1. 8 * BYTE <= (BYTE * BYTE * BYTE) * BYTE
    BY <1>1, <1>3, ProductMonotone
  <2> QED
    BY <1>1, <1>3, <2>1, Product DEF M32
<1>5. 16 * M32 <= M32 * M32 /\ M32 * M32 \in Nat
  BY <1>4, ProductMonotone, Product
<1> QED
  BY <1>4, <1>5 DEF M64

-----------------------------------------------------------------------------
(* Payloads.                                                               *)

LEMMA PayloadCases ==
  /\ Payload("I32") = {x \in Int : -M32 <= 2 * x /\ 2 * x < M32}
  /\ Payload("I64") = {x \in Int : -M64 <= 2 * x /\ 2 * x < M64}
  /\ Payload("F32") = 0 .. M32 - 1
  /\ Payload("F64") = Word
  /\ \A ty \in RefTypes : Payload(ty) = 0 .. M32 - 1 \cup {NoRef}
  BY DEF Payload, RefTypes

LEMMA PayloadInt ==
  ASSUME NEW ty \in ValTypes, NEW x \in Payload(ty)
  PROVE  x \in Int
  BY PayloadCases, Moduli DEF ValTypes, RefTypes, NoRef, Word

\* A value is a type with a payload of that type.
LEMMA ValType ==
  ASSUME NEW ty \in ValTypes, NEW x \in Payload(ty)
  PROVE  Val(ty, x) \in Value /\ Val(ty, x).ty = ty
<1>1. x \in Int
  BY PayloadInt
<1> QED
  BY <1>1 DEF Val, Value

LEMMA ValueFields ==
  ASSUME NEW val \in Value
  PROVE  val.ty \in ValTypes /\ val.v \in Payload(val.ty) /\ val.v \in Int
  BY DEF Value

\* The cast "as iN" gives a number in range.
LEMMA SignedRange ==
  ASSUME NEW m \in Nat, NEW x \in Int, 0 <= x, x < m
  PROVE  Signed(x, m) \in {y \in Int : -m <= 2 * y /\ 2 * y < m}
  BY DEF Signed

LEMMA ZeroType ==
  ASSUME NEW ty \in ValTypes
  PROVE  Zero(ty) \in Value /\ Zero(ty).ty = ty
<1>1. CASE ty \in RefTypes
  <2>1. NoRef \in Payload(ty)
    BY <1>1, PayloadCases
  <2> QED
    BY <1>1, <2>1, ValType DEF Zero
<1>2. CASE ty \notin RefTypes
  <2>1. 0 \in Payload(ty)
    BY <1>2, PayloadCases, Moduli DEF ValTypes, Word
  <2> QED
    BY <1>2, <2>1, ValType DEF Zero
<1> QED
  BY <1>1, <1>2

-----------------------------------------------------------------------------
(* Words.                                                                  *)

\* Every push puts a 64-bit word on the stack.
LEMMA PushWord ==
  ASSUME NEW val \in Value
  PROVE  push_to(val) \in Word
<1>1. val.v % M64 \in Word
  BY ValueFields, Moduli, Remainder DEF Word
<1>2. NullWord \in Word
  BY Widths DEF NullWord, Word
<1> QED
  BY <1>1, <1>2 DEF push_to

\* Every pop makes a value of the type it is asked for, whatever the word.
LEMMA PopValue ==
  ASSUME NEW ty \in ValTypes, NEW w \in Word
  PROVE  pop_from(ty, w) \in Value /\ pop_from(ty, w).ty = ty
<1>1. w \in Int /\ 0 <= w /\ w < M64 /\ M64 \in Nat
  BY Moduli DEF Word
<1>2. /\ w % M32 \in Int /\ 0 <= w % M32 /\ w % M32 < M32 /\ M32 \in Nat
      /\ w % M32 \in 0 .. M32 - 1
  BY <1>1, Moduli, Remainder
<1>3. CASE ty = "I32"
  <2>1. Signed(w % M32, M32) \in Payload(ty)
    BY <1>3, <1>2, SignedRange, PayloadCases
  <2>2. pop_from(ty, w) = Val(ty, Signed(w % M32, M32))
    BY <1>3 DEF pop_from, RefTypes
  <2> QED
    BY <1>3, <2>1, <2>2, ValType
<1>4. CASE ty = "I64"
  <2>1. Signed(w, M64) \in Payload(ty)
    BY <1>4, <1>1, SignedRange, PayloadCases
  <2>2. pop_from(ty, w) = Val(ty, Signed(w, M64))
    BY <1>4 DEF pop_from, RefTypes
  <2> QED
    BY <1>4, <2>1, <2>2, ValType
<1>5. CASE ty = "F32"
  <2>1. w % M32 \in Payload(ty)
    BY <1>5, <1>2, PayloadCases
  <2>2. pop_from(ty, w) = Val(ty, w % M32)
    BY <1>5 DEF pop_from, RefTypes
  <2> QED
    BY <1>5, <2>1, <2>2, ValType
<1>6. CASE ty = "F64"
  <2>1. w \in Payload(ty)
    BY <1>6, PayloadCases
  <2>2. pop_from(ty, w) = Val(ty, w)
    BY <1>6 DEF pop_from, RefTypes
  <2> QED
    BY <1>6, <2>1, <2>2, ValType
<1>7. CASE ty \in RefTypes
  <2>1. (IF w = NullWord THEN NoRef ELSE w % M32) \in Payload(ty)
    BY <1>2, <1>7, PayloadCases
  <2>2. pop_from(ty, w)
          = Val(ty, IF w = NullWord THEN NoRef ELSE w % M32)
    BY <1>7 DEF pop_from, RefTypes
  <2> QED
    BY <1>7, <2>1, <2>2, ValType
<1> QED
  BY <1>3, <1>4, <1>5, <1>6, <1>7 DEF ValTypes

LEMMA TopValue ==
  ASSUME NEW ty \in ValTypes, NEW w \in Word
  PROVE  top_of(ty, w) \in Value /\ top_of(ty, w).ty = ty
<1>1. CASE ty \in RefTypes
  <2>1. w % M32 \in 0 .. M32 - 1
    BY Moduli, Remainder DEF Word
  <2>2. w % M32 \in Payload(ty)
    BY <1>1, <2>1, PayloadCases
  <2> QED
    BY <1>1, <2>2, ValType DEF top_of
<1>2. CASE ty \notin RefTypes
  BY <1>2, PopValue DEF top_of
<1> QED
  BY <1>1, <1>2

-----------------------------------------------------------------------------
(* Sequences and the operand stack.                                        *)

LEMMA DropTopType ==
  ASSUME NEW S, NEW s \in Seq(S), NEW n \in Nat, n <= Len(s)
  PROVE  /\ DropTop(s, n) \in Seq(S)
         /\ Len(DropTop(s, n)) = Len(s) - n
         /\ \A i \in 1 .. Len(s) - n : DropTop(s, n)[i] = s[i]
<1>1. \A i \in 1 .. Len(s) - n : s[i] \in S
  OBVIOUS
<1>2. Len(s) - n \in Nat
  OBVIOUS
<1> QED
  BY <1>1, <1>2, SubSeqProperties DEF DropTop

LEMMA ShrinkType ==
  ASSUME NEW S, NEW s \in Seq(S), NEW width \in Nat
  PROVE  shrink_to(s, width) \in Seq(S)
<1> DEFINE n == IF width < Len(s) THEN width ELSE Len(s)
<1>1. n \in Nat /\ n <= Len(s)
  OBVIOUS
<1>2. \A i \in 1 .. n : s[i] \in S
  BY <1>1
<1>3. SubSeq(s, 1, n) \in Seq(S)
  BY <1>1, <1>2, SubSeqProperties
<1> QED
  BY <1>3 DEF shrink_to

LEMMA PopValuesType ==
  ASSUME NEW s \in Seq(Word), NEW tys \in Seq(ValTypes), CanPop(s, tys)
  PROVE  /\ PopValues(s, tys) \in Seq(Value)
         /\ Len(PopValues(s, tys)) = Len(tys)
         /\ \A i \in 1 .. Len(tys) : PopValues(s, tys)[i].ty = tys[i]
<1>1. Len(tys) \in Nat /\ Len(s) \in Nat /\ Len(tys) <= Len(s)
  BY DEF CanPop
<1>2. \A i \in 1 .. Len(tys) :
        /\ pop_from(tys[i], s[Len(s) - Len(tys) + i]) \in Value
        /\ pop_from(tys[i], s[Len(s) - Len(tys) + i]).ty = tys[i]
  <2> TAKE i \in 1 .. Len(tys)
  <2>1. tys[i] \in ValTypes
    OBVIOUS
  <2>2. Len(s) - Len(tys) + i \in 1 .. Len(s)
    BY <1>1
  <2>3. s[Len(s) - Len(tys) + i] \in Word
    BY <2>2
  <2> QED
    BY <2>1, <2>3, PopValue
<1> QED
  BY <1>1, <1>2 DEF PopValues

LEMMA PushValuesType ==
  ASSUME NEW s \in Seq(Word), NEW vals \in Seq(Value)
  PROVE  /\ PushValues(s, vals) \in Seq(Word)
         /\ Len(PushValues(s, vals)) = Len(s) + Len(vals)
         /\ \A i \in 1 .. Len(s) : PushValues(s, vals)[i] = s[i]
<1> DEFINE ws == [i \in 1 .. Len(vals) |-> push_to(vals[i])]
<1>1. \A i \in 1 .. Len(vals) : push_to(vals[i]) \in Word
  BY PushWord
<1>2. ws \in Seq(Word) /\ Len(ws) = Len(vals)
  BY <1>1
<1> HIDE DEF ws
<1>3. /\ s \o ws \in Seq(Word) /\ Len(s \o ws) = Len(s) + Len(ws)
      /\ \A i \in 1 .. Len(s) : (s \o ws)[i] = s[i]
  <2>1. Len(s) \in Nat /\ Len(ws) \in Nat
    BY <1>2
  <2>2. /\ s \o ws \in Seq(Word) /\ Len(s \o ws) = Len(s) + Len(ws)
        /\ \A i \in 1 .. Len(s) + Len(ws) :
             (s \o ws)[i] = IF i <= Len(s) THEN s[i] ELSE ws[i - Len(s)]
    BY <1>2, ConcatProperties
  <2> QED
    BY <2>1, <2>2
<1> QED
  BY <1>2, <1>3 DEF PushValues, ws
=============================================================================
