------------------------------ MODULE Numeric ------------------------------
(***************************************************************************)
(* The integer operations of the execute loop (exec.rs) as functions on    *)
(* the raw words of the operand stack: what an operation reads of each     *)
(* word, the fault it may raise, and the word it pushes.  An i32 result is *)
(* pushed sign-extended (push_i32) by some operations and zero-extended    *)
(* (push_u32) by others, so one i32 has two words.                         *)
(***************************************************************************)
EXTENDS Values, Bitwise, FiniteSets, TLC

CONSTANT BITS   \* bits of a byte: 8 in the program

ASSUME BitsAssumption == BITS \in Nat /\ BYTE = 2 ^ BITS

Done(w) == [fault |-> "None", w |-> w]
Fails(fault) == [fault |-> fault, w |-> 0]

\* Op::I32* and Op::I64* by the operation they share.
I32Ops ==
  [I32Eqz |-> "Eqz", I32Eq |-> "Eq", I32Ne |-> "Ne", I32LtS |-> "LtS",
   I32LtU |-> "LtU", I32GtS |-> "GtS", I32GtU |-> "GtU", I32LeS |-> "LeS",
   I32LeU |-> "LeU", I32GeS |-> "GeS", I32GeU |-> "GeU", I32Clz |-> "Clz",
   I32Ctz |-> "Ctz", I32Popcnt |-> "Popcnt", I32Add |-> "Add",
   I32Sub |-> "Sub", I32Mul |-> "Mul", I32DivS |-> "DivS", I32DivU |-> "DivU",
   I32RemS |-> "RemS", I32RemU |-> "RemU", I32And |-> "And", I32Or |-> "Or",
   I32Xor |-> "Xor", I32Shl |-> "Shl", I32ShrS |-> "ShrS", I32ShrU |-> "ShrU",
   I32Rotl |-> "Rotl", I32Rotr |-> "Rotr", I32Extend8S |-> "Extend8S",
   I32Extend16S |-> "Extend16S"]
I64Ops ==
  [I64Eqz |-> "Eqz", I64Eq |-> "Eq", I64Ne |-> "Ne", I64LtS |-> "LtS",
   I64LtU |-> "LtU", I64GtS |-> "GtS", I64GtU |-> "GtU", I64LeS |-> "LeS",
   I64LeU |-> "LeU", I64GeS |-> "GeS", I64GeU |-> "GeU", I64Clz |-> "Clz",
   I64Ctz |-> "Ctz", I64Popcnt |-> "Popcnt", I64Add |-> "Add",
   I64Sub |-> "Sub", I64Mul |-> "Mul", I64DivS |-> "DivS", I64DivU |-> "DivU",
   I64RemS |-> "RemS", I64RemU |-> "RemU", I64And |-> "And", I64Or |-> "Or",
   I64Xor |-> "Xor", I64Shl |-> "Shl", I64ShrS |-> "ShrS", I64ShrU |-> "ShrU",
   I64Rotl |-> "Rotl", I64Rotr |-> "Rotr", I64Extend8S |-> "Extend8S",
   I64Extend16S |-> "Extend16S", I64Extend32S |-> "Extend32S"]
Conversions ==
  {"I32WrapI64", "I64ExtendI32S", "I64ExtendI32U", "I32ReinterpretF32",
   "I64ReinterpretF64", "F32ReinterpretI32", "F64ReinterpretI64"}

Unary == {"Eqz", "Clz", "Ctz", "Popcnt", "Extend8S", "Extend16S", "Extend32S"}
AllNumericOps == DOMAIN I32Ops \cup DOMAIN I64Ops \cup Conversions

\* How many operands an operation pops.
ArityOf(o) ==
  IF o \in Conversions THEN 1
  ELSE IF (I32Ops @@ I64Ops)[o] \in Unary THEN 1 ELSE 2

Abs(x) == IF x < 0 THEN -x ELSE x
Flag(b) == IF b THEN 1 ELSE 0

\* Mutant: division rounds down.
Quot_floor(a, b) == IF b > 0 THEN a \div b ELSE (-a) \div (-b)

\* Rust's division truncates towards zero, TLA+'s rounds down.
Quot(a, b) ==
  IF (a < 0) = (b < 0) THEN Abs(a) \div Abs(b) ELSE - (Abs(a) \div Abs(b))
Rem(a, b) == a - b * Quot(a, b)

leading_zeros(x, n) == CHOOSE k \in 0 .. n :
                         x < 2 ^ (n - k) /\ (k < n => x >= 2 ^ (n - k - 1))
trailing_zeros(x, n) == CHOOSE k \in 0 .. n :
                          x % 2 ^ k = 0 /\ (k < n => x % 2 ^ (k + 1) # 0)
count_ones(x, n) == Cardinality({i \in 0 .. n - 1 : (x \div 2 ^ i) % 2 = 1})
rotate_left(x, k, m, n) == ((x * 2 ^ k) % m) + (x \div 2 ^ (n - k))

\* Integers of modulus m with n bits: x and y are the operands as unsigned
\* numbers, a and b the same as signed ones.  The reply is the value pushed.
IntOp(name, x, y, m, n) ==
  LET a == Signed(x, m)
      b == Signed(y, m)
      k == (y % M32) % n
      narrow(w) == Signed(x % w, w)
  IN CASE name = "Eqz" -> Done(Flag(a = 0))
       [] name = "Eq"  -> Done(Flag(a = b))
       [] name = "Ne"  -> Done(Flag(a # b))
       [] name = "LtS" -> Done(Flag(a < b))
       [] name = "LtU" -> Done(Flag(x < y))
       [] name = "GtS" -> Done(Flag(a > b))
       [] name = "GtU" -> Done(Flag(x > y))
       [] name = "LeS" -> Done(Flag(a <= b))
       [] name = "LeU" -> Done(Flag(x <= y))
       [] name = "GeS" -> Done(Flag(a >= b))
       [] name = "GeU" -> Done(Flag(x >= y))
       [] name = "Clz" -> Done(leading_zeros(x, n))
       [] name = "Ctz" -> Done(trailing_zeros(x, n))
       [] name = "Popcnt" -> Done(count_ones(x, n))
       [] name = "Add" -> Done(Signed((x + y) % m, m))
       [] name = "Sub" -> Done(Signed((x - y) % m, m))
       [] name = "Mul" -> Done(Signed((x * y) % m, m))
       [] name = "DivS" -> IF b = 0 THEN Fails("IntegerDivisionByZero")
                           ELSE IF 2 * Quot(a, b) >= m
                           THEN Fails("IntegerOverflow")
                           ELSE Done(Quot(a, b))
       [] name = "DivU" -> IF y = 0 THEN Fails("IntegerDivisionByZero")
                           ELSE Done(x \div y)
       [] name = "RemS" -> IF b = 0 THEN Fails("IntegerDivisionByZero")
                           ELSE IF 2 * Quot(a, b) >= m THEN Done(0)
                           ELSE Done(Rem(a, b))
       [] name = "RemU" -> IF y = 0 THEN Fails("IntegerDivisionByZero")
                           ELSE Done(x % y)
       [] name = "And" -> Done(Signed(x & y, m))
       [] name = "Or"  -> Done(Signed(x | y, m))
       [] name = "Xor" -> Done(Signed(x ^^ y, m))
       [] name = "Shl" -> Done(Signed((x * 2 ^ k) % m, m))
       [] name = "ShrS" -> Done(a \div 2 ^ k)
       [] name = "ShrU" -> Done(x \div 2 ^ k)
       [] name = "Rotl" -> Done(Signed(rotate_left(x, k, m, n), m))
       [] name = "Rotr" -> Done(Signed(rotate_left(x, (n - k) % n, m, n), m))
       [] name = "Extend8S" -> Done(narrow(BYTE))
       [] name = "Extend16S" -> Done(narrow(BYTE * BYTE))
       [] name = "Extend32S" -> Done(narrow(M32))

\* The value is pushed as a word: a negative one by push_i32 or push_i64, whose
\* casts sign-extend, a natural one by any of the pushes.
Pushed(reply) == [reply EXCEPT !.w = @ % M64]

I32Op(name, u, w) == Pushed(IntOp(name, u % M32, w % M32, M32, 4 * BITS))
I64Op(name, u, w) == Pushed(IntOp(name, u, w, M64, 8 * BITS))

\* Mutant: i64.extend_i32_u extends the sign.
Conversion_signed(o, w) ==
  Pushed(Done(CASE o \in {"I32WrapI64", "I64ExtendI32S", "I64ExtendI32U"} ->
                     Signed(w % M32, M32)
                [] o \in {"I32ReinterpretF32", "F32ReinterpretI32"} -> w % M32
                [] OTHER -> w))

Conversion(o, w) ==
  Pushed(CASE o = "I32WrapI64" -> Done(Signed(w % M32, M32))
           [] o = "I64ExtendI32S" -> Done(Signed(w % M32, M32))
           [] o = "I64ExtendI32U" -> Done(w % M32)
           [] o \in {"I32ReinterpretF32", "F32ReinterpretI32"} ->
                Done(w % M32)
           [] o \in {"I64ReinterpretF64", "F64ReinterpretI64"} -> Done(w))

\* One arithmetic operation on its operands, the first pushed first.
Eval(o, args) ==
  LET second == args[Len(args)]
  IN IF o \in DOMAIN I32Ops THEN I32Op(I32Ops[o], args[1], second)
     ELSE IF o \in DOMAIN I64Ops THEN I64Op(I64Ops[o], args[1], second)
     ELSE Conversion(o, args[1])
=============================================================================
