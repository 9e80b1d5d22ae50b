----------------------------- MODULE MemorySpec -----------------------------
(***************************************************************************)
(* What a linear memory promises, after the WebAssembly specification: an  *)
(* access at the unsigned 32-bit base plus the offset, computed without    *)
(* wrapping, traps exactly when it touches a byte that does not exist;     *)
(* otherwise it reads or writes the n bytes there, little-endian.  The     *)
(* memory grows by whole pages of zeros, within its maximum, or not at     *)
(* all, and never shrinks.                                                 *)
(***************************************************************************)
EXTENDS Values

CONSTANTS Loads, Stores, Deltas, PAGE, NoMax

VARIABLES
  mem,      \* the bytes
  top,      \* the declared maximum in bytes, or NoMax
  request,  \* the last operation
  reply     \* what it answered

Byte == 0 .. BYTE - 1

Answered(w) == [kind |-> "word", w |-> w]
Trapped == [kind |-> "MemoryOutOfBounds", w |-> 0]

\* The first byte an access touches, as a mathematical number.
Effective(a) == (a.base % M32) + a.offset
InBounds(a) == Effective(a) + a.n <= Len(mem)

\* BYTE to the power of i, up to the number of 64-bit words.
Power(i) ==
  <<1, BYTE, BYTE * BYTE, BYTE * BYTE * BYTE, M32, M32 * BYTE,
    M32 * BYTE * BYTE, M32 * BYTE * BYTE * BYTE, M64>>[i + 1]

\* w is the number whose n low bytes stand at ea, extended to 64 bits.
Holds(bytes, ea, w, n) ==
  \A i \in 1 .. n : bytes[ea + i] = (w \div Power(i - 1)) % BYTE
Extended(w, a) ==
  LET m == Power(a.n)
      x == w % m
  IN w = IF a.signed /\ 2 * x >= m THEN (x - m) % M64 ELSE x

SLoad(a) ==
  /\ \/ ~ InBounds(a) /\ reply' = Trapped
     \/ /\ InBounds(a)
        /\ \E w \in Word : /\ Holds(mem, Effective(a), w, a.n)
                           /\ Extended(w, a)
                           /\ reply' = Answered(w)
  /\ UNCHANGED <<mem, top>>

SStore(a) ==
  /\ \/ ~ InBounds(a) /\ reply' = Trapped /\ UNCHANGED mem
     \/ /\ InBounds(a)
        /\ \A i \in 1 .. Len(mem) :
             i \notin Effective(a) + 1 .. Effective(a) + a.n =>
               mem'[i] = mem[i]
        /\ Len(mem') = Len(mem)
        /\ Holds(mem', Effective(a), a.value, a.n)
        /\ reply' = Answered(0)
  /\ UNCHANGED top

\* The number of pages before, or -1 as an i32.
SGrow(delta) ==
  /\ \/ /\ mem' = mem \o [i \in 1 .. (delta % M32) * PAGE |-> 0]
        /\ top # NoMax => Len(mem') <= top
        /\ reply' = Answered(Len(mem) \div PAGE)
     \/ reply' = Answered(M64 - 1) /\ UNCHANGED mem
  /\ UNCHANGED top

SSize == reply' = Answered(Len(mem) \div PAGE) /\ UNCHANGED <<mem, top>>

SInit ==
  /\ \A i \in 1 .. Len(mem) : mem[i] = 0
  /\ request = <<"size">> /\ reply = Answered(0)

SNext ==
  \/ \E a \in Loads : request' = <<"load", a>> /\ SLoad(a)
  \/ \E a \in Stores : request' = <<"store", a>> /\ SStore(a)
  \/ \E delta \in Deltas : request' = <<"grow", delta>> /\ SGrow(delta)
  \/ request' = <<"size">> /\ SSize

SSpec == SInit /\ [][SNext]_<<mem, top, request, reply>>
=============================================================================
