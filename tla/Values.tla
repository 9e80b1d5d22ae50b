------------------------------- MODULE Values -------------------------------
(***************************************************************************)
(* Values and the raw 64-bit words of the operand stack (stack.rs and      *)
(* `impl Value` of exec.rs).  A Value is typed; the operand stack holds    *)
(* untyped words, so every push is an encoding and every pop a decoding.   *)
(* Integers keep their width: arithmetic is modulo M32 = 2^32 and          *)
(* M64 = 2^64, built from the number BYTE of values of one byte (256 in    *)
(* the program, 2 in the checked instances, where i32 has 4 bits and i64   *)
(* has 8).  Floats are their bit patterns.  V128 and Unit values are left  *)
(* out: they are the only ones that do not take exactly one word.          *)
(***************************************************************************)
EXTENDS Integers, Sequences

CONSTANT BYTE

ASSUME ByteAssumption == BYTE \in Nat /\ BYTE > 1 /\ BYTE % 2 = 0

M32 == BYTE * BYTE * BYTE * BYTE
M64 == M32 * M32

Word == 0 .. M64 - 1

RefTypes == {"FuncRef", "ExternRef"}
ValTypes == {"I32", "I64", "F32", "F64"} \cup RefTypes

\* Option<u32>::None of a reference.
NoRef == -1
\* u32::MAX, the word that stands for a null reference on the stack.
NullWord == M32 - 1

\* Two's complement reading of x \in 0 .. m - 1: the cast "as iN".
Signed(x, m) == IF 2 * x < m THEN x ELSE x - m

\* The payloads a value of type ty can have.
Payload(ty) ==
  CASE ty = "I32" -> {x \in Int : -M32 <= 2 * x /\ 2 * x < M32}
    [] ty = "I64" -> {x \in Int : -M64 <= 2 * x /\ 2 * x < M64}
    [] ty = "F32" -> 0 .. M32 - 1
    [] ty = "F64" -> Word
    [] ty \in RefTypes -> 0 .. M32 - 1 \cup {NoRef}

Value == {x \in [ty : ValTypes, v : Int] : x.v \in Payload(x.ty)}

Val(ty, x) == [ty |-> ty, v |-> x]

\* The zero value a local starts with.
Zero(ty) == Val(ty, IF ty \in RefTypes THEN NoRef ELSE 0)

\* Value::push_to: the word pushed for a value; i32 is sign-extended.
push_to(val) ==
  IF val.ty \in RefTypes /\ val.v = NoRef THEN NullWord ELSE val.v % M64

\* Mutant: an i32 is read without its sign.
pop_from_unsigned(ty, w) ==
  Val(ty, CASE ty \in {"I32", "F32"} -> w % M32
            [] ty = "I64" -> Signed(w, M64)
            [] ty = "F64" -> w
            [] ty \in RefTypes -> IF w = NullWord THEN NoRef ELSE w % M32)

\* Value::pop_from: the value a popped word stands for at type ty.
pop_from(ty, w) ==
  Val(ty, CASE ty = "I32" -> Signed(w % M32, M32)
            [] ty = "I64" -> Signed(w, M64)
            [] ty = "F32" -> w % M32
            [] ty = "F64" -> w
            [] ty \in RefTypes -> IF w = NullWord THEN NoRef ELSE w % M32)

\* Value::top_of: as pop_from, but a reference is never read as null.
top_of(ty, w) ==
  IF ty \in RefTypes THEN Val(ty, w % M32) ELSE pop_from(ty, w)

-----------------------------------------------------------------------------
(* The operand stack, a sequence of words with its top at the end.         *)

Top(s) == s[Len(s)]
DropTop(s, n) == SubSeq(s, 1, Len(s) - n)

\* Stack::shrink_to, which can only truncate.
shrink_to(s, width) == SubSeq(s, 1, IF width < Len(s) THEN width ELSE Len(s))

\* Popping one value per entry of tys, the last one first.  A stack that is
\* too short is emptied by the attempt.
CanPop(s, tys) == Len(tys) <= Len(s)
\* Mutant of PopValues: the first entry is popped first.
PopValues_in_order(s, tys) ==
  [i \in 1 .. Len(tys) |-> pop_from(tys[i], s[Len(s) - i + 1])]
PopValues(s, tys) ==
  [i \in 1 .. Len(tys) |-> pop_from(tys[i], s[Len(s) - Len(tys) + i])]
PushValues(s, vals) == s \o [i \in 1 .. Len(vals) |-> push_to(vals[i])]
=============================================================================
