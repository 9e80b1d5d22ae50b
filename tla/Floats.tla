------------------------------- MODULE Floats -------------------------------
(***************************************************************************)
(* The float operations of the execute loop (exec.rs) that do not compute  *)
(* a new significand: comparisons, signs, roundings to whole numbers, the  *)
(* minimum and maximum, and the conversions to and from integers with      *)
(* their range checks.  A float is a sign and a magnitude, a multiple of   *)
(* the smallest one; integers are words of the operand stack.              *)
(* add, sub, mul, div and sqrt are one operation of the hardware each and  *)
(* are left out, and so are the payloads of NaNs.                          *)
(***************************************************************************)
EXTENDS Numeric

CONSTANTS
  F32, F64,   \* the formats: p bits of significand, magnitudes that are
              \* multiples of 2^low and less than 2^top
  UNIT        \* the magnitude of 1.0

\* The integers lie between the formats: 24 < 32 < 53 < 64 in the program.
ASSUME FormatAssumption ==
  /\ {F32, F64} \subseteq [p : Nat \ {0}, low : Nat, top : Nat]
  /\ F32.p < 4 * BITS /\ 4 * BITS < F64.p /\ F64.p < 8 * BITS
  /\ F64.low <= F32.low /\ F32.top <= F64.top
  /\ UNIT \in Nat \ {0} /\ UNIT * M64 < 2 ^ F32.top

INF == 2 ^ F64.top   \* the magnitude of an infinity

Number(neg, mag) == [nan |-> FALSE, neg |-> neg, mag |-> mag]
NaN(neg) == [nan |-> TRUE, neg |-> neg, mag |-> 0]
Real(x) == IF x.neg THEN - x.mag ELSE x.mag

-----------------------------------------------------------------------------
(* Rust's casts to a float: to the nearest, of two to the even one.        *)

\* The distance of the floats of format f around a magnitude.
Gap(f, mag) ==
  2 ^ CHOOSE e \in f.low .. f.top :
        mag < 2 ^ (f.p + e) /\ (e = f.low \/ mag >= 2 ^ (f.p + e - 1))

ToEven(mag, gap) ==
  LET r == mag % gap
  IN IF 2 * r > gap \/ (2 * r = gap /\ (mag \div gap) % 2 = 1)
     THEN mag - r + gap ELSE mag - r

as_float(f, neg, mag) ==
  LET near == ToEven(mag, Gap(f, mag))
  IN Number(neg, IF near >= 2 ^ f.top THEN INF ELSE near)

\* F32ConvertI32S to F64ConvertI64U: the low n bits of a word, as a number.
Convert(f, w, n, signed) ==
  LET i == IF signed THEN Signed(w % 2 ^ n, 2 ^ n) ELSE w % 2 ^ n
  IN as_float(f, i < 0, Abs(i) * UNIT)

\* F32DemoteF64 and F64PromoteF32.
Cast(f, x) == IF x.nan THEN x ELSE as_float(f, x.neg, x.mag)

-----------------------------------------------------------------------------
(* Truncation to an integer of n bits.                                     *)

\* Mutant: the range is open at the least integer itself.
Lowest_at_min(f, n, signed) == IF signed THEN - (2 ^ (n - 1)) ELSE -1

\* The bounds of trunc_f32_to_i32 and its siblings, both excluded: the lower
\* one is the float, or the integer, just below the least integer.
Lowest(f, n, signed) ==
  IF signed THEN - (2 ^ (n - 1) + (IF f.p < n THEN 2 ^ (n - f.p) ELSE 1))
  ELSE -1
Highest(n, signed) == IF signed THEN 2 ^ (n - 1) ELSE 2 ^ n

Whole(x) == LET t == x.mag \div UNIT IN IF x.neg THEN - t ELSE t

trunc_to(x, f, n, signed) ==
  IF x.nan THEN Fails("InvalidConversion")
  ELSE IF \/ x.mag = INF
          \/ Real(x) <= Lowest(f, n, signed) * UNIT
          \/ Real(x) >= Highest(n, signed) * UNIT
  THEN Fails("IntegerOverflow")
  ELSE Pushed(Done(Whole(x)))

\* I32TruncSatF32S and its siblings: the limits are cast to the format first.
TruncSat(x, f, n, signed) ==
  LET lo == IF signed THEN - (2 ^ (n - 1)) ELSE 0
      hi == Highest(n, signed) - 1
      limit(i) == Real(as_float(f, i < 0, Abs(i) * UNIT))
      low == IF signed THEN Real(x) <= limit(lo) ELSE Real(x) < 0
  IN Pushed(Done(IF x.nan THEN 0 ELSE IF low THEN lo
                 ELSE IF Real(x) >= limit(hi) THEN hi ELSE Whole(x)))

-----------------------------------------------------------------------------
\* Mutant: ceil rounds away from zero.
Integral_ceil_away(name, x) ==
  LET down == x.mag - (x.mag % UNIT)
      up == IF x.mag % UNIT = 0 THEN x.mag ELSE down + UNIT
  IN [x EXCEPT !.mag =
        CASE name = "Trunc" -> down
          [] name = "Ceil" -> up
          [] name = "Floor" -> IF x.neg THEN up ELSE down
          [] name = "Nearest" -> ToEven(x.mag, UNIT)]

\* Ceil, Floor, Trunc and Nearest keep the sign, also of a zero.
Integral(name, x) ==
  LET down == x.mag - (x.mag % UNIT)
      up == IF x.mag % UNIT = 0 THEN x.mag ELSE down + UNIT
  IN [x EXCEPT !.mag =
        CASE name = "Trunc" -> down
          [] name = "Ceil" -> IF x.neg THEN down ELSE up
          [] name = "Floor" -> IF x.neg THEN up ELSE down
          [] name = "Nearest" -> ToEven(x.mag, UNIT)]

FloatAbs(x) == [x EXCEPT !.neg = FALSE]
FloatNeg(x) == [x EXCEPT !.neg = ~ @]
Copysign(x, y) == [x EXCEPT !.neg = y.neg]

\* Rust's min and max may return either of two zeros: the outcomes.
FloatMin(x, y) ==
  IF x.nan \/ y.nan THEN {NaN(FALSE)}
  ELSE {z \in {x, y} : Real(z) <= Real(x) /\ Real(z) <= Real(y)}
FloatMax(x, y) ==
  IF x.nan \/ y.nan THEN {NaN(FALSE)}
  ELSE {z \in {x, y} : Real(z) >= Real(x) /\ Real(z) >= Real(y)}

\* Comparisons, pushed as 0 or 1.
Compare(name, x, y) ==
  LET ordered == ~ x.nan /\ ~ y.nan
      a == Real(x)
      b == Real(y)
  IN Flag(CASE name = "Eq" -> ordered /\ a = b
            [] name = "Ne" -> ~ (ordered /\ a = b)
            [] name = "Lt" -> ordered /\ a < b
            [] name = "Gt" -> ordered /\ a > b
            [] name = "Le" -> ordered /\ a <= b
            [] name = "Ge" -> ordered /\ a >= b)
=============================================================================
