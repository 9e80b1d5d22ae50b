------------------------- MODULE LinearMemoryProofs -------------------------
(***************************************************************************)
(* Proofs about LinearMemory, for every byte, page and memory size and     *)
(* every set of accesses.                                                  *)
(***************************************************************************)
EXTENDS LinearMemory, MemoryAccessProofs

\* Loads and stores have the operands of an access, memory.grow an i32.
LEMMA Operands ==
  /\ Loads \subseteq Access /\ Stores \subseteq Access
  /\ \A delta \in Deltas : delta \in Int
  BY OperandsAssumption, PayloadCases

LEMMA InitType == Init => MemoryTypeOK
<1> SUFFICES ASSUME Init PROVE MemoryTypeOK
  OBVIOUS
<1>1. data \in Seq(Byte)
  BY OperandsAssumption, ZeroBytes DEF Init
<1>2. reply \in [kind : {"word", "MemoryOutOfBounds"}, w : Word]
  BY AnswerType, Moduli DEF Init, Word
<1> QED
  BY <1>1, <1>2, OperandsAssumption DEF Init, MemoryTypeOK

\* What every step does: it is typed, and leaves the size alone or grows it.
LEMMA StepOK ==
  ASSUME MemoryTypeOK, [Next]_memoryVars
  PROVE  /\ MemoryTypeOK' /\ max' = max /\ OnlyGrows
         /\ \/ Len(data') = Len(data)
            \/ Len(data') <= LIMIT /\ (max # NoMax => Len(data') <= max)
<1>1. ASSUME NEW a \in Loads, Load(a)
      PROVE  MemoryTypeOK' /\ max' = max /\ Len(data') = Len(data)
  BY <1>1, Operands, LoadOK
<1>2. ASSUME NEW a \in Stores, Store(a)
      PROVE  MemoryTypeOK' /\ max' = max /\ Len(data') = Len(data)
  BY <1>2, Operands, StoreOK
<1>3. ASSUME MemorySize
      PROVE  MemoryTypeOK' /\ max' = max /\ Len(data') = Len(data)
  BY <1>3, SizeOK
<1>4. ASSUME UNCHANGED memoryVars
      PROVE  MemoryTypeOK' /\ max' = max /\ Len(data') = Len(data)
  BY <1>4 DEF memoryVars, MemoryTypeOK
<1>5. ASSUME NEW delta \in Deltas, MemoryGrow(delta)
      PROVE  /\ MemoryTypeOK' /\ max' = max /\ OnlyGrows
             /\ \/ Len(data') = Len(data)
                \/ Len(data') <= LIMIT /\ (max # NoMax => Len(data') <= max)
  <2>1. delta \in Int
    BY Operands
  <2> QED
    BY <1>5, <2>1, GrowOK
<1>6. Len(data') = Len(data) => OnlyGrows
  BY DEF OnlyGrows
<1> QED
  BY <1>1, <1>2, <1>3, <1>4, <1>5, <1>6 DEF Next

\* The memory stays a sequence of bytes and every answer is a 64-bit word or a
\* fault, for every access a module can make, whichever way the build treats
\* overflow.
THEOREM MemoryTypeCorrect == Spec => []MemoryTypeOK
<1>1. MemoryTypeOK /\ [Next]_memoryVars => MemoryTypeOK'
  BY StepOK
<1> QED
  BY <1>1, InitType, PTL DEF Spec

\* No sequence of grows takes a memory beyond its declared maximum, or beyond
\* the safety limit of VectorMemory::grow unless it was created so large.
THEOREM MemorySizeWithinLimits == Spec => []SizeWithinLimits
<1>1. Init => SizeWithinLimits
  <2> SUFFICES ASSUME Init PROVE SizeWithinLimits
    OBVIOUS
  <2>1. PICK s \in Sizes : data = [i \in 1 .. s |-> 0]
    BY DEF Init
  <2>2. Len(data) = s
    BY <2>1, OperandsAssumption, ZeroBytes
  <2> QED
    BY <2>2 DEF Init, SizeWithinLimits
<1>2. MemoryTypeOK /\ SizeWithinLimits /\ [Next]_memoryVars => SizeWithinLimits'
  <2> SUFFICES ASSUME MemoryTypeOK, SizeWithinLimits, [Next]_memoryVars
               PROVE  SizeWithinLimits'
    OBVIOUS
  <2>1. /\ max' = max
        /\ \/ Len(data') = Len(data)
           \/ Len(data') <= LIMIT /\ (max # NoMax => Len(data') <= max)
    BY StepOK
  <2> QED
    BY <2>1 DEF SizeWithinLimits
<1> QED
  BY <1>1, <1>2, MemoryTypeCorrect, PTL DEF Spec

\* A memory changes its size only by growing, and growing keeps every byte
\* that is there and adds whole pages of zeros.
THEOREM MemoryGrowPreservesData == Spec => GrowPreservesData
<1>1. MemoryTypeOK /\ [Next]_memoryVars => OnlyGrows
  BY StepOK
<1> QED
  BY <1>1, MemoryTypeCorrect, PTL DEF Spec, GrowPreservesData

\* If no address wraps around, no access ever aborts the host, in a debug or in
\* a release build: beyond the end there is only the fault.
THEOREM MemoryNeverAborts ==
  ASSUME \A a \in Loads \cup Stores : Unwrapped(a)
  PROVE  Spec => []NoAbort
<1>1. ASSUME MemoryTypeOK, NoAbort, [Next]_memoryVars PROVE NoAbort'
  <2>1. \A a \in Loads \cup Stores : ~ Aborts(a)
    BY <1>1, OperandsAssumption, UnwrappedAccess DEF MemoryTypeOK
  <2> QED
    BY <1>1, <2>1
       DEF NoAbort, Next, Load, Store, MemoryGrow, MemorySize, memoryVars
<1>2. Init => NoAbort
  BY DEF Init, NoAbort
<1> QED
  BY <1>1, <1>2, MemoryTypeCorrect, PTL DEF Spec
-----------------------------------------------------------------------------
(* The memory implements the one WebAssembly promises.  The two differ     *)
(* where an address is computed: by usize arithmetic on the sign-extended  *)
(* base here, by unbounded arithmetic on the unsigned base there.  They    *)
(* agree for the accesses that do not wrap, as long as the bytes above the *)
(* 2 GB mark, which a negative base means there, do not exist.             *)

\* The sizes a memory can have: those it may be created with, and below LIMIT.
SmallPages == \A s \in Sizes \cup {LIMIT} : 2 * (s \div PAGE) < M32
SmallBytes == \A s \in Sizes \cup {LIMIT} : 2 * s <= M32

LEMMA SameNumbers ==
  /\ Abstract!M32 = M32 /\ Abstract!M64 = M64
  /\ Abstract!Word = Word
  /\ \A i \in 1 .. 8 : Abstract!Power(i - 1) = Weight[i]
  /\ \A n \in {1, 2, 4, 8} : Abstract!Power(n) = Span(n)
  /\ \A w : Abstract!Answered(w) = Answer(w)
  /\ Abstract!Trapped = Fault
<1>1. Abstract!M32 = M32
  BY DEF Abstract!M32, M32
<1>2. Abstract!M64 = M64
  BY <1>1 DEF Abstract!M64, M64
<1>3. Abstract!Word = Word
  BY <1>2 DEF Abstract!Word, Word
<1>4. \A i \in 1 .. 8 : Abstract!Power(i - 1) = Weight[i]
  BY <1>1, <1>2 DEF Abstract!Power, Weight
<1>5. \A n \in {1, 2, 4, 8} : Abstract!Power(n) = Span(n)
  BY <1>1, <1>2 DEF Abstract!Power, Weight, Span
<1>6. /\ \A w : Abstract!Answered(w) = Answer(w)
      /\ Abstract!Trapped = Fault
  BY DEF Abstract!Answered, Abstract!Trapped, Answer, Fault
<1> QED
  BY <1>1, <1>2, <1>3, <1>4, <1>5, <1>6
LEMMA SmallMemory ==
  ASSUME MemoryTypeOK, SizeWithinLimits
  PROVE  /\ Len(data) \in Nat /\ Pages \in Nat
         /\ SmallPages => 2 * Pages < M32
         /\ SmallBytes => 2 * Len(data) <= M32
<1>1. Len(data) \in Nat /\ PAGE \in Nat /\ PAGE > 0 /\ LIMIT \in Nat
  BY MemoryAssumption DEF MemoryTypeOK
<1>2. M32 \in Nat
  BY Moduli
<1>3. PICK s \in Sizes \cup {LIMIT} : s \in Nat /\ Len(data) <= s
  BY <1>1, OperandsAssumption DEF SizeWithinLimits
<1>4. \A x, y \in Nat : x <= y => x \div PAGE \in Nat /\ y \div PAGE \in Nat
                                 /\ x \div PAGE <= y \div PAGE
  BY <1>1
<1>5. Pages \in Nat /\ s \div PAGE \in Nat /\ Pages <= s \div PAGE
  BY <1>1, <1>3, <1>4 DEF Pages
<1>6. SmallPages => 2 * Pages < M32
  BY <1>2, <1>5 DEF SmallPages
<1>7. SmallBytes => 2 * Len(data) <= M32
  BY <1>1, <1>2, <1>3 DEF SmallBytes
<1> QED
  BY <1>1, <1>5, <1>6, <1>7

\* Both memories trap the same accesses, and take the others at one address.
LEMMA SameBounds ==
  ASSUME data \in Seq(Byte), NEW a \in Access, a.offset < M32, Unwrapped(a),
         a.base < 0 => 2 * Len(data) <= M32
  PROVE  /\ Abstract!InBounds(a) <=> ~ OutOfBounds(a)
         /\ ~ OutOfBounds(a) => Abstract!Effective(a) = Address(a)
<1> DEFINE n == a.n
           o == a.offset
           b == a.base
           len == Len(data)
<1>1. n \in 1 .. 8 /\ o \in Nat /\ b \in Int /\ 2 * b < M32 /\ -M32 <= 2 * b
  BY PayloadCases DEF Access
<1>2. M64 \in Nat /\ M32 \in Nat /\ 16 <= M32 /\ 16 * M32 <= M64
  BY Widths
<1>3. len \in Nat /\ (b < 0 => 2 * len <= M32)
  OBVIOUS
<1>4. /\ Address(a) = b + o + (IF b >= 0 THEN 0 ELSE M64)
      /\ OutOfBounds(a) <=> Address(a) + n > len
  BY UnwrappedAccess
<1>5. Abstract!Effective(a) = (b % M32) + o
  BY SameNumbers DEF Abstract!Effective
<1>6. Abstract!InBounds(a) <=> Abstract!Effective(a) + n <= len
  BY DEF Abstract!InBounds
<1> HIDE DEF n, o, b, len
<1>7. CASE b >= 0
  <2>1. b % M32 = b
    <3>1. b \in Nat /\ b < M32
      BY <1>1, <1>2, <1>7
    <3> QED
      BY <1>2, <3>1, SmallRemainder
  <2>2. Abstract!Effective(a) = Address(a) /\ Address(a) \in Nat
    BY <1>1, <1>4, <1>5, <1>7, <2>1
  <2>3. Address(a) + n <= len <=> ~ (Address(a) + n > len)
    BY <1>1, <1>3, <2>2
  <2> QED
    BY <1>4, <1>6, <2>2, <2>3
<1>8. CASE b < 0
  <2>1. b % M32 = M32 + b
    <3>1. \A x \in Int : x < 0 /\ 0 <= M32 + x => x % M32 = M32 + x
      BY <1>2
    <3> QED
      BY <1>1, <1>2, <1>8, <3>1
  <2>2. Address(a) + n > len
    BY <1>1, <1>2, <1>3, <1>4, <1>8
  <2>3. Abstract!Effective(a) + n > len /\ Abstract!Effective(a) \in Int
    BY <1>1, <1>2, <1>3, <1>5, <1>8, <2>1
  <2>4. ~ (Abstract!Effective(a) + n <= len)
    BY <1>1, <1>3, <2>3
  <2> QED
    BY <1>4, <1>6, <2>2, <2>4
<1> QED
  BY <1>1, <1>7, <1>8

\* The word of a load is the one whose low bytes stand at its address.
LEMMA LoadRefines ==
  ASSUME data \in Seq(Byte), NEW a \in Access, a.offset < M32, Unwrapped(a),
         a.base < 0 => 2 * Len(data) <= M32, Load(a)
  PROVE  request' = <<"load", a>> /\ Abstract!SLoad(a)
<1>1. ~ Aborts(a)
  BY UnwrappedAccess
<1>2. /\ request' = <<"load", a>> /\ data' = data /\ max' = max
      /\ reply' = IF OutOfBounds(a) THEN Fault
                  ELSE Answer(Extend(from_le_bytes(Slice(a)), a))
  BY <1>1 DEF Load
<1>3. CASE OutOfBounds(a)
  BY <1>2, <1>3, SameBounds, SameNumbers DEF Abstract!SLoad
<1>4. CASE ~ OutOfBounds(a)
  <2> DEFINE ea == Address(a)
             x == from_le_bytes(Slice(a))
             w == Extend(x, a)
  <2>1. Abstract!InBounds(a) /\ Abstract!Effective(a) = ea
    BY <1>4, SameBounds
  <2>2. a.n \in 1 .. 8 /\ a.n \in {1, 2, 4, 8} /\ ea \in Nat
    BY AddressType DEF Access
  <2>3. /\ Slice(a) \in Seq(Byte) /\ Len(Slice(a)) = a.n
        /\ \A i \in 1 .. a.n : Slice(a)[i] = data[ea + i]
    BY <1>1, <1>4, SliceType
  <2>4. /\ w \in Word
        /\ \A i \in 1 .. a.n : (w \div Weight[i]) % BYTE = Slice(a)[i]
        /\ w % Span(a.n) = x
        /\ w = IF a.signed /\ 2 * x >= Span(a.n) THEN (x - Span(a.n)) % M64
                                                 ELSE x
    BY <2>3, Extension
  <2> HIDE DEF w, x, ea
  <2>5. Abstract!Holds(data, ea, w, a.n)
    <3>1. \A i \in 1 .. a.n : data[ea + i] = (w \div Weight[i]) % BYTE
      BY <2>3, <2>4
    <3>2. \A i \in 1 .. a.n : Abstract!Power(i - 1) = Weight[i]
      BY <2>2, SameNumbers
    <3> QED
      BY <3>1, <3>2 DEF Abstract!Holds
  <2>6. Abstract!Extended(w, a)
    BY <2>2, <2>4, SameNumbers DEF Abstract!Extended
  <2>7. reply' = Abstract!Answered(w)
    BY <1>2, <1>4, SameNumbers DEF w, x
  <2> QED
    BY <1>2, <2>1, <2>4, <2>5, <2>6, <2>7, SameNumbers DEF Abstract!SLoad
<1> QED
  BY <1>3, <1>4

\* A store writes the low bytes of its operand at its address, and no other.
LEMMA StoreRefines ==
  ASSUME data \in Seq(Byte), NEW a \in Access, a.offset < M32, Unwrapped(a),
         a.base < 0 => 2 * Len(data) <= M32, Store(a)
  PROVE  request' = <<"store", a>> /\ Abstract!SStore(a)
<1>1. ~ Aborts(a)
  BY UnwrappedAccess
<1>2. /\ request' = <<"store", a>> /\ max' = max
      /\ OutOfBounds(a) => reply' = Fault /\ data' = data
      /\ ~ OutOfBounds(a) => reply' = Answer(0) /\ data' = Stored(a)
  BY <1>1 DEF Store
<1>3. CASE OutOfBounds(a)
  BY <1>2, <1>3, SameBounds, SameNumbers DEF Abstract!SStore
<1>4. CASE ~ OutOfBounds(a)
  <2> DEFINE ea == Address(a)
  <2>1. Abstract!InBounds(a) /\ Abstract!Effective(a) = ea
    BY <1>4, SameBounds
  <2>2. /\ a.n \in 1 .. 8 /\ a.n \in {1, 2, 4, 8} /\ ea \in Nat
        /\ Len(data) \in Nat /\ ea + a.n <= Len(data)
    BY <1>4, AddressType, UnwrappedAccess DEF Access
  <2>3. Len(data') = Len(data)
    BY <1>2, <1>4, StoredType
  <2>4. \A i \in 1 .. Len(data) :
          data'[i] = IF i \in ea + 1 .. ea + a.n
                     THEN to_le_bytes(a.value, a.n)[i - ea] ELSE data[i]
    BY <1>2, <1>4 DEF Stored
  <2> HIDE DEF ea
  <2>5. \A i \in 1 .. Len(data) : i \notin ea + 1 .. ea + a.n => data'[i] = data[i]
    BY <2>4
  <2>6. \A i \in 1 .. a.n : data'[ea + i] = (a.value \div Weight[i]) % BYTE
    <3> TAKE i \in 1 .. a.n
    <3>1. /\ ea + i \in 1 .. Len(data) /\ ea + i \in ea + 1 .. ea + a.n
          /\ (ea + i) - ea = i
      BY <2>2
    <3>2. data'[ea + i] = to_le_bytes(a.value, a.n)[i]
      BY <2>4, <3>1
    <3> QED
      BY <3>2 DEF to_le_bytes
  <2>7. Abstract!Holds(data', ea, a.value, a.n)
    BY <2>2, <2>6, SameNumbers DEF Abstract!Holds
  <2> QED
    BY <1>2, <1>4, <2>1, <2>3, <2>5, <2>7, SameNumbers DEF Abstract!SStore
<1> QED
  BY <1>3, <1>4
\* memory.grow appends the pages it is asked for and answers the old size, or
\* does nothing and answers -1; memory.size answers the size.
LEMMA GrowRefines ==
  ASSUME MemoryTypeOK, SizeWithinLimits, SmallPages, NEW delta \in Deltas,
         MemoryGrow(delta)
  PROVE  request' = <<"grow", delta>> /\ Abstract!SGrow(delta)
<1> DEFINE new_size == Len(data) + delta * PAGE
<1>1. delta \in Int /\ 2 * delta < M32
  BY OperandsAssumption, PayloadCases
<1>2. M64 \in Nat /\ M32 \in Nat /\ M32 <= M64
  BY Widths
<1>3. Pages \in Nat /\ 2 * Pages < M32
  BY SmallMemory
<1>4. request' = <<"grow", delta>> /\ max' = max
  BY DEF MemoryGrow
<1>5. CASE delta < 0 \/ CannotGrow(new_size)
  BY <1>4, <1>5, SameNumbers DEF MemoryGrow, Abstract!SGrow
<1>6. CASE ~ (delta < 0 \/ CannotGrow(new_size))
  <2>1. /\ data' = data \o [i \in 1 .. delta * PAGE |-> 0]
        /\ reply' = Answer(Signed(Pages % M32, M32) % M64)
    BY <1>6 DEF MemoryGrow
  <2>2. delta \in Nat /\ delta % M32 = delta
    BY <1>1, <1>2, <1>6, SmallRemainder
  <2>3. Signed(Pages % M32, M32) % M64 = Pages
    <3>1. Pages % M32 = Pages
      BY <1>2, <1>3, SmallRemainder
    <3>2. Signed(Pages, M32) = Pages
      BY <1>3 DEF Signed
    <3>3. Pages % M64 = Pages
      BY <1>2, <1>3, SmallRemainder
    <3> QED
      BY <3>1, <3>2, <3>3
  <2>4. max # NoMax => Len(data') <= max
    <3>1. ~ (max # NoMax /\ new_size > max)
      BY <1>6 DEF CannotGrow
    <3>2. Len(data') = new_size /\ Len(data) \in Nat /\ delta * PAGE \in Nat
      <4>1. data \in Seq(Byte)
        BY DEF MemoryTypeOK
      <4>2. delta \in Nat
        BY <2>2
      <4>3. Len(data') = new_size /\ delta * PAGE \in Nat
        BY <2>1, <4>1, <4>2, Grown
      <4> QED
        BY <4>1, <4>3
    <3>3. max # NoMax => max \in Nat
      BY DEF MemoryTypeOK
    <3> HIDE DEF new_size
    <3>4. ASSUME max \in Nat, ~ (new_size > max), new_size \in Nat
          PROVE  new_size <= max
      BY <3>4
    <3>5. new_size \in Nat
      BY <3>2 DEF new_size
    <3> QED
      BY <3>1, <3>2, <3>3, <3>4, <3>5
  <2>5. reply' = Abstract!Answered(Len(data) \div PAGE)
    BY <2>1, <2>3, SameNumbers DEF Pages
  <2>6. data' = data \o [i \in 1 .. (delta % Abstract!M32) * PAGE |-> 0]
    BY <2>1, <2>2, SameNumbers
  <2> QED
    BY <1>4, <2>4, <2>5, <2>6 DEF Abstract!SGrow
<1> QED
  BY <1>5, <1>6

LEMMA SizeRefines ==
  ASSUME MemoryTypeOK, SizeWithinLimits, SmallPages, MemorySize
  PROVE  request' = <<"size">> /\ Abstract!SSize
<1>1. M32 \in Nat /\ Pages \in Nat /\ 2 * Pages < M32
  BY SmallMemory, Moduli
<1>2. Pages % M32 = Pages
  BY <1>1, SmallRemainder
<1> QED
  BY <1>2, SameNumbers DEF MemorySize, Abstract!SSize, Pages

LEMMA InitRefines == Init => Abstract!SInit
<1> SUFFICES ASSUME Init PROVE Abstract!SInit
  OBVIOUS
<1>1. PICK s \in Sizes : data = [i \in 1 .. s |-> 0]
  BY DEF Init
<1>2. Len(data) = s
  BY <1>1, OperandsAssumption, ZeroBytes
<1>3. \A i \in 1 .. Len(data) : data[i] = 0
  BY <1>1, <1>2
<1> QED
  BY <1>3, SameNumbers DEF Init, Abstract!SInit

\* The memory of memory/mod.rs and the accesses exec.rs makes to it implement
\* the memory WebAssembly promises, for every width of access, every offset and
\* every base that does not wrap: the same accesses trap, the others read and
\* write the same bytes with the same extension, and memory.grow and
\* memory.size answer the same.  Sizes in pages fit an i32; where a base may be
\* negative, sizes in bytes are at most 2 GB, twice what grow allows.
THEOREM MemoryRefines ==
  ASSUME \A a \in Loads \cup Stores : Unwrapped(a),
         SmallPages,
         SmallBytes \/ \A a \in Loads \cup Stores : a.base >= 0
  PROVE  Spec => RefinesMemory
<1>1. ASSUME MemoryTypeOK, SizeWithinLimits, [Next]_memoryVars
      PROVE  [Abstract!SNext]_<<data, max, request, reply>>
  <2>1. ASSUME NEW a \in Loads \cup Stores
        PROVE  /\ a \in Access /\ a.offset < M32 /\ Unwrapped(a)
               /\ a.base < 0 => 2 * Len(data) <= M32
    <3>1. a \in Access /\ a.offset < M32 /\ Unwrapped(a)
      BY OperandsAssumption
    <3>2. a.base < 0 => ~ (a.base >= 0)
      BY <3>1, PayloadCases DEF Access
    <3> QED
      BY <1>1, <3>1, <3>2, SmallMemory
  <2>2. data \in Seq(Byte)
    BY <1>1 DEF MemoryTypeOK
  <2>3. ASSUME NEW a \in Loads, Load(a) PROVE Abstract!SNext
    BY <2>1, <2>2, <2>3, LoadRefines DEF Abstract!SNext
  <2>4. ASSUME NEW a \in Stores, Store(a) PROVE Abstract!SNext
    BY <2>1, <2>2, <2>4, StoreRefines DEF Abstract!SNext
  <2>5. ASSUME NEW delta \in Deltas, MemoryGrow(delta) PROVE Abstract!SNext
    BY <1>1, <2>5, GrowRefines DEF Abstract!SNext
  <2>6. ASSUME MemorySize PROVE Abstract!SNext
    BY <1>1, <2>6, SizeRefines DEF Abstract!SNext
  <2>7. ASSUME UNCHANGED memoryVars PROVE UNCHANGED <<data, max, request, reply>>
    BY <2>7 DEF memoryVars
  <2> QED
    BY <1>1, <2>3, <2>4, <2>5, <2>6, <2>7 DEF Next
<1> QED
  BY <1>1, InitRefines, MemoryTypeCorrect, MemorySizeWithinLimits, PTL
     DEF Spec, RefinesMemory, Abstract!SSpec
=============================================================================
