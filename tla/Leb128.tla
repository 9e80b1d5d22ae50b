------------------------------- MODULE Leb128 -------------------------------
(***************************************************************************)
(* The reader of module/leb128.rs: a cursor over a slice of bytes, and the *)
(* numbers, names and byte ranges it reads.  A read is an operator on the  *)
(* slice s and the position pos (0-based, as in the source) that returns   *)
(* the position behind what it read, the value, and the error, which is    *)
(* "None" when the read succeeded and "Panic" when it aborts.              *)
(*                                                                         *)
(* A byte has GROUP payload bits and a continuation bit (7 and 1 in the    *)
(* program); W32 and W64 are the widths of the integers (32 and 64).       *)
(***************************************************************************)
EXTENDS Integers, Sequences

CONSTANTS GROUP, W32, W64

ASSUME LebAssumption ==
  /\ GROUP \in Nat \ {0} /\ W32 \in Nat \ {0} /\ W64 \in Nat
  /\ W32 <= W64

Payloads == 2 ^ GROUP
Low(b) == b % Payloads             \* byte & 0x7F
More(b) == b >= Payloads           \* byte & 0x80 != 0
Negative(b) == 2 * Low(b) >= Payloads   \* byte & 0x40 != 0

\* The most bytes a number of w bits may take: 5 for 32, 10 for 64.
MaxBytes(w) == (w + GROUP - 1) \div GROUP

Got(v, pos) == [err |-> "None", pos |-> pos, v |-> v]
Failed(err, pos) == [err |-> err, pos |-> pos, v |-> <<>>]

\* The ? operator: an error is handed on, and a value goes to what follows.
Try(r, follow(_)) == IF r.err # "None" THEN r ELSE follow(r)

\* A position can lie beyond the end: advance() only adds.
remaining(s, pos) == Len(s) - pos

read_byte(s, pos) ==
  IF remaining(s, pos) > 0 THEN Got(s[pos + 1], pos + 1)
                           ELSE Failed("MalformedMemory", pos)

\* Mutant: a last byte with bits beyond the width is accepted.
load_imm_varuint_unchecked(s, pos, w) ==
  LET loop[k \in 0 .. MaxBytes(w), result \in Nat] ==
        LET shift == GROUP * k
            last(b) == Got((result + Low(b.v) * 2 ^ shift) % 2 ^ w, b.pos)
            byte(b) ==
              IF ~ More(b.v) THEN last(b)
              ELSE IF shift + GROUP >= w THEN Failed("MalformedMemory", b.pos)
              ELSE loop[k + 1, result + Low(b.v) * 2 ^ shift]
        IN Try(read_byte(s, pos + k), byte)
  IN loop[0, 0]

\* The rounds of the loop: shift bits have been read, they make result.
varuint[s \in Seq(Nat), pos \in Nat, w \in Nat, shift \in Nat, result \in Nat] ==
  LET left == w - shift
      byte(b) ==
        IF More(b.v)
        THEN IF GROUP >= left THEN Failed("MalformedMemory", b.pos)
             ELSE varuint[s, b.pos, w, shift + GROUP, result + Low(b.v) * 2 ^ shift]
        ELSE IF left < GROUP /\ Low(b.v) > 2 ^ left - 1
        THEN Failed("MalformedMemory", b.pos)
        ELSE Got(result + Low(b.v) * 2 ^ shift, b.pos)
  IN Try(read_byte(s, pos), byte)

\* load_imm_varuint32 and load_imm_varuint64.
load_imm_varuint(s, pos, w) == varuint[s, pos, w, 0, 0]

\* The number a w-bit pattern stands for: the cast "as i32".
AsSigned(x, w) == IF 2 * x < 2 ^ w THEN x ELSE x - 2 ^ w

\* The bits of the last byte that do not fit must repeat the sign bit.
SignRepeated(low, left) ==
  LET sign == (low \div 2 ^ (left - 1)) % 2
  IN low \div 2 ^ left = IF sign = 1 THEN 2 ^ (GROUP - left) - 1 ELSE 0

\* A last byte with the sign bit set fills the bits above it.
signed_varint[s \in Seq(Nat), pos \in Nat, w \in Nat, shift \in Nat, result \in Nat] ==
  LET left == w - shift
      extend(b) == IF Negative(b.v) /\ GROUP < left
                   THEN 2 ^ w - 2 ^ (shift + GROUP) ELSE 0
      byte(b) ==
        IF More(b.v)
        THEN IF GROUP >= left THEN Failed("MalformedMemory", b.pos)
             ELSE signed_varint[s, b.pos, w, shift + GROUP,
                                result + Low(b.v) * 2 ^ shift]
        ELSE IF left < GROUP /\ ~ SignRepeated(Low(b.v), left)
        THEN Failed("MalformedMemory", b.pos)
        ELSE Got(AsSigned((result + Low(b.v) * 2 ^ shift + extend(b)) % 2 ^ w, w),
                 b.pos)
  IN Try(read_byte(s, pos), byte)

\* load_imm_signed_varint32 and load_imm_signed_varint64.
load_imm_signed_varint(s, pos, w) == signed_varint[s, pos, w, 0, 0]

load_imm_varuint32(s, pos) == load_imm_varuint(s, pos, W32)

\* An unsigned number, cast.
load_imm_varint32(s, pos) ==
  Try(load_imm_varuint32(s, pos), LAMBDA r : Got(AsSigned(r.v, W32), r.pos))

\* Mutant: the bytes of a number are not counted before they are read.
load_imm_f32_unchecked(s, pos) == Got(0, pos + 4)

\* load_imm_f32 and load_imm_f64: only the first reports that bytes are
\* missing, the second unwraps.  The bits of the number are left out.
load_imm_f32(s, pos) ==
  IF remaining(s, pos) >= 4 THEN Got(0, pos + 4)
                            ELSE Failed("MalformedMemory", pos)
load_imm_f64(s, pos) ==
  IF remaining(s, pos) >= 8 THEN Got(0, pos + 8) ELSE Failed("Panic", pos)

\* String::from_utf8, of which only the one-byte characters are modelled.
Utf8(s) == \A i \in 1 .. Len(s) : ~ More(s[i])

load_string(s, pos) ==
  LET name(length) == SubSeq(s, length.pos + 1, length.pos + length.v)
      read(length) ==
        IF length.pos + length.v > Len(s) \/ ~ Utf8(name(length))
        THEN Failed("MalformedMemory", length.pos + length.v)
        ELSE Got(name(length), length.pos + length.v)
  IN Try(load_imm_varuint32(s, pos), read)

\* A byte range, not compared with the end of the slice.
load_data(s, pos) ==
  Try(load_imm_varuint32(s, pos), LAMBDA length :
    Got(<<length.pos, length.pos + length.v>>, length.pos + length.v))
=============================================================================
