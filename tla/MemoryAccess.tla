---------------------------- MODULE MemoryAccess ----------------------------
(***************************************************************************)
(* The memory an Execution works on (memory/) and what the operations that *)
(* use it do with it (exec.rs): loads and stores of 1, 2, 4 or 8 bytes,    *)
(* memory.size and memory.grow.  Addresses are usize, 64 bits wide: an     *)
(* addition that does not fit aborts a debug build and wraps in a release  *)
(* build.                                                                  *)
(***************************************************************************)
EXTENDS Values

CONSTANTS
  PAGE,            \* WASM_PAGE_SIZE
  LIMIT,           \* the 1 GB VectorMemory::grow refuses to exceed
  NoMax,           \* max_bounds of a memory without a maximum
  OverflowChecks   \* a build that aborts on arithmetic overflow

VARIABLES
  data,            \* the bytes
  max,             \* VectorMemory.max_bounds
  growable,        \* a VectorMemory, not a SliceMemory
  request,         \* the last operation that did not abort
  reply,           \* the word it pushed, or its fault
  panicked

memoryVars == <<data, max, growable, request, reply, panicked>>

Byte == 0 .. BYTE - 1

\* An access: n bytes at base (an i32) plus the immediate offset; signed for
\* a load that extends the sign; value for a store.
Access == [n : {1, 2, 4, 8}, base : Payload("I32"), offset : Nat,
           signed : BOOLEAN, value : Word]

ASSUME MemoryAssumption ==
  /\ PAGE \in Nat \ {0} /\ LIMIT \in Nat
  /\ NoMax \notin Nat
  /\ OverflowChecks \in BOOLEAN

-----------------------------------------------------------------------------
\* What each byte of a word weighs, the lowest first.
Weight ==
  <<1, BYTE, BYTE * BYTE, BYTE * BYTE * BYTE, M32, M32 * BYTE,
    M32 * BYTE * BYTE, M32 * BYTE * BYTE * BYTE>>

\* Mutant: the bytes are not cut to their width.
to_le_bytes_uncut(w, n) == [i \in 1 .. n |-> w \div Weight[i]]

\* to_le_bytes and from_le_bytes of the low n bytes.
to_le_bytes(w, n) == [i \in 1 .. n |-> (w \div Weight[i]) % BYTE]
from_le_bytes(bs) ==
  LET b(i) == IF i <= Len(bs) THEN bs[i] * Weight[i] ELSE 0
  IN b(1) + b(2) + b(3) + b(4) + b(5) + b(6) + b(7) + b(8)

\* Signed loads of n bytes are pushed sign-extended, others zero-extended.
Extend(x, a) ==
  LET m == IF a.n = 8 THEN M64 ELSE Weight[a.n + 1]
  IN IF a.signed THEN Signed(x, m) % M64 ELSE x

\* adjust_memarg: the base is sign-extended to usize before the addition.
Sum(a) == a.offset + (a.base % M64)
Address(a) == Sum(a) % M64

\* Mutant: every access compares its address only.
End_of_first(a) == Address(a) + 1

\* The bounds check of the accessors: a byte compares its address, wider ones
\* compare the end of the access.
End(a) == IF a.n = 1 THEN Address(a) + 1 ELSE (Address(a) + a.n) % M64
\* Mutant of OutOfBounds: the last bytes are out of reach.
OutOfBounds_early(a) == End(a) >= Len(data)
OutOfBounds(a) == End(a) > Len(data)

\* An addition that overflows aborts a debug build; in a release build a check
\* that was passed with a wrapped end leaves the slice index to abort.
Aborts(a) ==
  \/ OverflowChecks /\ (Sum(a) >= M64
                         \/ (a.n > 1 /\ Address(a) + a.n >= M64))
  \/ ~ OutOfBounds(a) /\ Address(a) + a.n > Len(data)

Answer(w) == [kind |-> "word", w |-> w]
Fault == [kind |-> "MemoryOutOfBounds", w |-> 0]

Abort == panicked' = TRUE /\ UNCHANGED <<data, max, growable, request, reply>>

Slice(a) == SubSeq(data, Address(a) + 1, Address(a) + a.n)

Load(a) ==
  /\ ~ panicked
  /\ IF Aborts(a) THEN Abort
     ELSE /\ request' = <<"load", a>>
          /\ reply' = IF OutOfBounds(a) THEN Fault
                      ELSE Answer(Extend(from_le_bytes(Slice(a)), a))
          /\ UNCHANGED <<data, max, growable, panicked>>

Stored(a) ==
  [i \in 1 .. Len(data) |->
     IF i \in Address(a) + 1 .. Address(a) + a.n
     THEN to_le_bytes(a.value, a.n)[i - Address(a)] ELSE data[i]]

Store(a) ==
  /\ ~ panicked
  /\ IF Aborts(a) THEN Abort
     ELSE /\ request' = <<"store", a>>
          /\ IF OutOfBounds(a) THEN reply' = Fault /\ UNCHANGED data
             ELSE reply' = Answer(0) /\ data' = Stored(a)
          /\ UNCHANGED <<max, growable, panicked>>

\* Mutant: the declared maximum may be reached by one page too many.
CannotGrow_late(new_size) ==
  \/ ~ growable
  \/ max # NoMax /\ new_size > max + PAGE
  \/ new_size > LIMIT

\* SliceMemory::grow refuses every size.
Fixed == ~ growable

\* Memory::grow to new_size bytes is refused.
CannotGrow(new_size) ==
  \/ Fixed
  \/ max # NoMax /\ new_size > max
  \/ new_size > LIMIT

\* The size in pages; memory.grow pushes it as an i32, memory.size as a u32.
Pages == Len(data) \div PAGE

\* Mutant of MemoryGrow: a new vector takes the place of the old one.
MemoryGrow_fresh(delta) ==
  LET new_size == Len(data) + delta * PAGE
  IN /\ ~ panicked
     /\ IF delta < 0 \/ CannotGrow(new_size)
        THEN reply' = Answer(M64 - 1) /\ UNCHANGED data
        ELSE /\ data' = [i \in 1 .. new_size |-> 0]
             /\ reply' = Answer(Signed(Pages % M32, M32) % M64)
     /\ request' = <<"grow", delta>>
     /\ UNCHANGED <<max, growable, panicked>>

MemoryGrow(delta) ==
  LET new_size == Len(data) + delta * PAGE
  IN /\ ~ panicked
     /\ IF delta < 0 \/ CannotGrow(new_size)
        THEN reply' = Answer(M64 - 1) /\ UNCHANGED data
        ELSE /\ data' = data \o [i \in 1 .. delta * PAGE |-> 0]
             /\ reply' = Answer(Signed(Pages % M32, M32) % M64)
     /\ request' = <<"grow", delta>>
     /\ UNCHANGED <<max, growable, panicked>>

MemorySize ==
  /\ ~ panicked
  /\ request' = <<"size">>
  /\ reply' = Answer(Pages % M32)
  /\ UNCHANGED <<data, max, growable, panicked>>

-----------------------------------------------------------------------------
(* What holds of the memory, whoever uses it.                              *)

\* The memory is a sequence of bytes; the reply is a word or a fault.
MemoryTypeOK ==
  /\ data \in Seq(Byte)
  /\ max \in Nat \cup {NoMax}
  /\ growable \in BOOLEAN
  /\ reply \in [kind : {"word", "MemoryOutOfBounds"}, w : Word]
  /\ panicked \in BOOLEAN

\* A step changes the size only by appending whole pages of zeros to the bytes
\* that are there: no sequence of stores and grows loses or invents a byte.
OnlyGrows ==
  Len(data') # Len(data) =>
    /\ Len(data') > Len(data)
    /\ (Len(data') - Len(data)) % PAGE = 0
    /\ SubSeq(data', 1, Len(data)) = data
    /\ \A i \in Len(data) + 1 .. Len(data') : data'[i] = 0
GrowPreservesData == [][OnlyGrows]_memoryVars
=============================================================================
