----------------------------- MODULE MCNumeric -----------------------------
(***************************************************************************)
(* Checks modules Numeric and Floats against the operations of the         *)
(* WebAssembly specification, over every pair of stack words and every     *)
(* pair of floats of two small formats.  The reference below is written on *)
(* bits, on signed numbers and on sets of floats, independently of them.   *)
(* The same words, cut into bytes, are the inputs of the LEB128 reader.    *)
(***************************************************************************)
EXTENDS Floats, Leb128

\* 3 and 5 bits of significand, around the 4 bits of an i32.
MCF32 == [p |-> 3, low |-> 1, top |-> 12]
MCF64 == [p |-> 5, low |-> 0, top |-> 13]

VARIABLES
  type,   \* what the operands are: "Int" words, or floats "F32" or "F64"
  x, y    \* the two operands, y on top

vars == <<type, x, y>>

Format(t) == IF t = "F32" THEN F32 ELSE F64

\* The magnitudes of a format, and those with an even significand; 2^top
\* stands for what is too large.
Grid ==
  [f \in {F32, F64} |->
     {k * 2 ^ e : k \in 0 .. 2 ^ f.p - 1, e \in f.low .. f.top}
       \cap 0 .. 2 ^ f.top]
EvenGrid ==
  [f \in {F32, F64} |->
     {k * 2 ^ e : k \in 0 .. 2 ^ (f.p - 1) - 1, e \in f.low + 1 .. f.top}
       \cap 0 .. 2 ^ f.top]

\* Every operand of a type, and the first that y takes.
Operands ==
  [Int |-> Word] @@
  [t \in {"F32", "F64"} |->
     [nan : {TRUE}, neg : BOOLEAN, mag : {0}]
       \cup [nan : {FALSE}, neg : BOOLEAN,
             mag : (Grid[Format(t)] \ {2 ^ Format(t).top}) \cup {INF}]]
First(t) == IF t = "Int" THEN 0 ELSE NaN(FALSE)

BitOf(w, i) == (w \div 2 ^ i) % 2

\* The bits a bitwise operation gives at position i.
RefBit(name, u, w, i, n) ==
  LET k == w % n
  IN CASE name = "And" -> BitOf(u, i) * BitOf(w, i)
       [] name = "Or" -> IF BitOf(u, i) + BitOf(w, i) > 0 THEN 1 ELSE 0
       [] name = "Xor" -> IF BitOf(u, i) # BitOf(w, i) THEN 1 ELSE 0
       [] name = "Shl" -> IF i < k THEN 0 ELSE BitOf(u, i - k)
       [] name = "ShrU" -> IF i + k < n THEN BitOf(u, i + k) ELSE 0
       [] name = "ShrS" -> BitOf(u, IF i + k < n THEN i + k ELSE n - 1)
       [] name = "Rotl" -> BitOf(u, (i - k) % n)
       [] name = "Rotr" -> BitOf(u, (i + k) % n)
       [] name = "Extend8S" -> BitOf(u, IF i < BITS THEN i ELSE BITS - 1)
       [] name = "Extend16S" ->
            BitOf(u, IF i < 2 * BITS THEN i ELSE 2 * BITS - 1)
       [] name = "Extend32S" ->
            BitOf(u, IF i < 4 * BITS THEN i ELSE 4 * BITS - 1)

BitwiseNames == {"And", "Or", "Xor", "Shl", "ShrU", "ShrS", "Rotl", "Rotr",
                 "Extend8S", "Extend16S", "Extend32S"}

\* r is the unsigned result of name on the unsigned u, w of n bits.
RefHolds(name, u, w, r, m, n) ==
  LET a == Signed(u, m)
      b == Signed(w, m)
      s == Signed(r, m)
      truth(P) == r = IF P THEN 1 ELSE 0
  IN CASE name \in BitwiseNames ->
            \A i \in 0 .. n - 1 : BitOf(r, i) = RefBit(name, u, w, i, n)
       [] name = "Eqz" -> truth(u = 0)
       [] name = "Eq" -> truth(u = w)
       [] name = "Ne" -> truth(u # w)
       [] name = "LtS" -> truth(a < b)
       [] name = "LtU" -> truth(u < w)
       [] name = "GtS" -> truth(a > b)
       [] name = "GtU" -> truth(u > w)
       [] name = "LeS" -> truth(a <= b)
       [] name = "LeU" -> truth(u <= w)
       [] name = "GeS" -> truth(a >= b)
       [] name = "GeU" -> truth(u >= w)
       [] name = "Clz" -> /\ \A i \in n - r .. n - 1 : BitOf(u, i) = 0
                          /\ r < n => BitOf(u, n - r - 1) = 1
       [] name = "Ctz" -> /\ \A i \in 0 .. r - 1 : BitOf(u, i) = 0
                          /\ r < n => BitOf(u, r) = 1
       [] name = "Popcnt" ->
            r = Cardinality({i \in 0 .. n - 1 : BitOf(u, i) = 1})
       [] name = "Add" -> (a + b - s) % m = 0
       [] name = "Sub" -> (a - b - s) % m = 0
       [] name = "Mul" -> (a * b - s) % m = 0
       [] name = "DivU" -> \E d \in 0 .. w - 1 : u = r * w + d
       [] name = "RemU" -> r < w /\ \E q \in 0 .. u : u = q * w + r
       [] name = "DivS" -> \E d \in - Abs(b) + 1 .. Abs(b) - 1 :
                             a = s * b + d /\ (d = 0 \/ (d < 0) = (a < 0))
       [] name = "RemS" -> /\ Abs(s) < Abs(b) /\ (s = 0 \/ (s < 0) = (a < 0))
                           /\ (a - s) % Abs(b) = 0

\* When the specification says that name traps, and how.
RefTrap(name, u, w, m) ==
  IF name \in {"DivS", "DivU", "RemS", "RemU"} /\ w = 0
  THEN "IntegerDivisionByZero"
  ELSE IF name = "DivS" /\ 2 * u = m /\ w = m - 1 THEN "IntegerOverflow"
  ELSE "None"

\* The reply of an operation of modulus m with n bits on the words u and w.
Agrees(name, reply, u, w, m, n) ==
  /\ reply.fault = RefTrap(name, u % m, w % m, m)
  /\ reply.w \in Word
  /\ reply.fault = "None" => RefHolds(name, u % m, w % m, reply.w % m, m, n)

\* Every integer operation of the execute loop computes, or traps, as the
\* WebAssembly specification says, on every pair of operand words; an i32
\* operation does so whichever extension its operands were pushed with.
IntegersCorrect ==
  type = "Int" =>
  /\ \A o \in DOMAIN I32Ops :
       Agrees(I32Ops[o], Eval(o, <<x, y>>), x, y, M32, 4 * BITS)
  /\ \A o \in DOMAIN I64Ops :
       Agrees(I64Ops[o], Eval(o, <<x, y>>), x, y, M64, 8 * BITS)

\* A conversion keeps the number: wrapping and extending commute with reading
\* the word as the type on either side, and a reinterpretation keeps the bits.
ConversionsCorrect ==
  LET low(o) == Eval(o, <<x>>).w % M32
      whole(o) == pop_from("I64", Eval(o, <<x>>).w).v
  IN type = "Int" =>
     /\ low("I32WrapI64") = x % M32
     /\ whole("I64ExtendI32S") = pop_from("I32", x).v
     /\ whole("I64ExtendI32U") = x % M32
     /\ low("I32ReinterpretF32") = x % M32
     /\ low("F32ReinterpretI32") = x % M32
     /\ pop_from("F32", Eval("F32ReinterpretI32", <<x>>).w)
          = pop_from("F32", x)
     /\ Eval("I64ReinterpretF64", <<x>>).w = x
     /\ Eval("F64ReinterpretI64", <<x>>).w = x

-----------------------------------------------------------------------------
(* The LEB128 reader.                                                      *)

\* The two words as four bytes, and every truncation of them.
Stream(n) ==
  SubSeq(<<x % (2 * Payloads), x \div (2 * Payloads),
           y % (2 * Payloads), y \div (2 * Payloads)>>, 1, n)

\* The length of the encoding at the start of s, beyond s if it is cut off.
Encoded(s) ==
  CHOOSE n \in 1 .. Len(s) + 1 :
    /\ n <= Len(s) => ~ More(s[n])
    /\ \A i \in 1 .. n - 1 : More(s[i])

Weighted(s, n) ==
  LET sum[i \in 0 .. n] ==
        IF i = 0 THEN 0 ELSE sum[i - 1] + Low(s[i]) * Payloads ^ (i - 1)
  IN sum[n]

\* r is the reading of the whole encoding as a number from lo to hi, or an
\* error if it is cut off, too long, or stands for another number.
ReadsAs(r, s, number, w, lo, hi) ==
  LET n == Encoded(s)
      accepted == n <= Len(s) /\ n <= MaxBytes(w) /\ lo <= number /\ number < hi
  IN IF accepted THEN r = Got(number, n) ELSE r.err = "MalformedMemory"

\* A LEB128 number, signed or unsigned, of either width, is read as the number
\* WebAssembly's grammar gives it and no byte further, or is refused: when it
\* is cut off, takes more bytes than its width allows, or sets bits beyond it.
LebCorrect ==
  type = "Int" =>
  \A cut \in 0 .. 4, w \in {W32, W64} :
    LET s == Stream(cut)
        n == Encoded(s)
        u == IF n <= cut THEN Weighted(s, n) ELSE 0
        i == IF n <= cut /\ Negative(s[n]) THEN u - Payloads ^ n ELSE u
    IN /\ ReadsAs(load_imm_varuint(s, 0, w), s, u, w, 0, 2 ^ w)
       /\ ReadsAs(load_imm_signed_varint(s, 0, w), s, i, w,
                  - (2 ^ (w - 1)), 2 ^ (w - 1))

-----------------------------------------------------------------------------
(* Floats.                                                                 *)

\* The whole number t is x without its fraction.
IsTrunc(x1, t) ==
  /\ Abs(t) * UNIT <= x1.mag /\ x1.mag < (Abs(t) + 1) * UNIT
  /\ t # 0 => x1.neg = (t < 0)

\* The number of n bits that a pushed word stands for.
ReadBack(w, n, signed) ==
  IF signed THEN Signed(w % 2 ^ n, 2 ^ n) ELSE w % 2 ^ n

\* A float is truncated to an integer exactly when the integer exists in its
\* type, for all eight range checks, whose bounds are floats just outside the
\* range; it traps otherwise, and the saturating form gives the nearer end.
TruncationsCorrect ==
  (type # "Int" /\ y = First(type)) =>
  \A n \in {4 * BITS, 8 * BITS}, signed \in BOOLEAN :
    LET lo == IF signed THEN - (2 ^ (n - 1)) ELSE 0
        hi == lo + 2 ^ n - 1
        traps == trunc_to(x, Format(type), n, signed)
        sat == TruncSat(x, Format(type), n, signed)
        fits == {t \in lo .. hi : ~ x.nan /\ IsTrunc(x, t)}
        end == IF x.nan THEN 0 ELSE IF x.neg THEN lo ELSE hi
    IN /\ {traps.w, sat.w} \subseteq Word /\ sat.fault = "None"
       /\ IF fits # {}
          THEN /\ traps.fault = "None"
               /\ fits = {ReadBack(traps.w, n, signed)}
               /\ fits = {ReadBack(sat.w, n, signed)}
          ELSE /\ traps.fault = IF x.nan THEN "InvalidConversion"
                                ELSE "IntegerOverflow"
               /\ ReadBack(sat.w, n, signed) = end

\* r is the float of format f nearest to the magnitude mag.
IsNearest(f, r, mag) ==
  LET near == IF r.mag = INF THEN 2 ^ f.top ELSE r.mag
  IN /\ near \in Grid[f]
     /\ \A m \in Grid[f] \ {near} :
          \/ Abs(m - mag) > Abs(near - mag)
          \/ Abs(m - mag) = Abs(near - mag) /\ near \in EvenGrid[f]

\* An integer of either width becomes the nearest float, f64 keeps every i32.
ConvertsToNearest ==
  \A f \in {F32, F64}, n \in {4 * BITS, 8 * BITS}, signed \in BOOLEAN :
    LET i == ReadBack(x, n, signed)
        r == Convert(f, x, n, signed)
    IN /\ ~ r.nan /\ r.neg = (i < 0)
       /\ IsNearest(f, r, Abs(i) * UNIT)

\* r is x rounded to a whole number, as name says.
RoundsTo(name, r) ==
  LET d == Real(r) - Real(x)
  IN /\ r.nan = x.nan /\ r.neg = x.neg
     /\ r.mag % UNIT = 0 /\ r.mag \in Grid[Format(type)] \cup {INF}
     /\ CASE name = "Ceil" -> d \in 0 .. UNIT - 1
          [] name = "Floor" -> -d \in 0 .. UNIT - 1
          [] name = "Trunc" -> x.mag - r.mag \in 0 .. UNIT - 1
          [] name = "Nearest" -> \/ 2 * Abs(d) < UNIT
                                 \/ /\ 2 * Abs(d) = UNIT
                                    /\ r.mag % (2 * UNIT) = 0

\* What min and max may return; of two zeros either (see ZeroSigns).
Extremes(least) ==
  LET other == IF least THEN FloatMax(x, y) ELSE FloatMin(x, y)
      this == IF least THEN FloatMin(x, y) ELSE FloatMax(x, y)
  IN IF x.nan \/ y.nan THEN this = {NaN(FALSE)}
     ELSE /\ this # {} /\ this \subseteq {x, y}
          /\ \A r \in this, z \in {x, y} :
               IF least THEN Compare("Le", r, z) = 1 ELSE Compare("Ge", r, z) = 1
          /\ this \cup other = {x, y}
          /\ x.mag + y.mag > 0 => Cardinality(this) = 1

Unordered == x.nan \/ y.nan

\* Floats are compared, rounded, cast and negated as IEEE 754 and WebAssembly
\* say: a NaN is unordered, roundings keep the sign and what is representable,
\* casts go to the nearest.  min and max pass a NaN on and give an operand that
\* no other is below, or above; which of two zeros is not part of this.
FloatsCorrect ==
  IF type = "Int" THEN y = First(type) => ConvertsToNearest
  ELSE
  /\ \A o \in {"Eq", "Lt", "Gt", "Le", "Ge"} :
       Unordered => Compare(o, x, y) = 0
  /\ Compare("Ne", x, y) = 1 - Compare("Eq", x, y)
  /\ ~ Unordered =>
       /\ Compare("Lt", x, y) + Compare("Eq", x, y) + Compare("Gt", x, y) = 1
       /\ Compare("Le", x, y) = 1 - Compare("Gt", x, y)
       /\ Compare("Ge", x, y) = 1 - Compare("Lt", x, y)
  /\ \A name \in {"Ceil", "Floor", "Trunc", "Nearest"} :
       RoundsTo(name, Integral(name, x))
  /\ Extremes(TRUE) /\ Extremes(FALSE)
  /\ Copysign(FloatNeg(x), x) = x /\ FloatAbs(x) = Copysign(x, FloatAbs(y))
  /\ y = First(type) => LET r == Cast(F32, x)
                        IN /\ r.nan = x.nan /\ r.neg = x.neg
                           /\ x.mag < INF => IsNearest(F32, r, x.mag)
                           /\ x.mag = INF => r = x
  /\ type = "F32" => Cast(F64, x) = x

IsZero(z) == ~ z.nan /\ z.mag = 0

\* Of two zeros min gives the negative one, if one is, and max the positive
\* one, as WebAssembly and minimum and maximum of IEEE 754 have it; the code
\* leaves the choice to Rust's min and max.
ZeroSigns ==
  type # "Int" /\ IsZero(x) /\ IsZero(y) =>
    /\ \A r \in FloatMin(x, y) : r.neg = (x.neg \/ y.neg)
    /\ \A r \in FloatMax(x, y) : r.neg = (x.neg /\ y.neg)

-----------------------------------------------------------------------------
Init == \E t \in {"Int", "F32", "F64"} :
          type = t /\ x \in Operands[t] /\ y = First(t)

\* y runs through every operand.
Sweep ==
  /\ y' \in IF y = First(type) THEN Operands[type] ELSE {First(type)}
  /\ UNCHANGED <<type, x>>

Next == Sweep

Spec == Init /\ [][Next]_vars
=============================================================================
