---------------------------- MODULE LinearMemory ----------------------------
(***************************************************************************)
(* A memory on its own: any sequence of accesses, from any of a set of     *)
(* fresh memories.  It implements the memory WebAssembly promises,         *)
(* MemorySpec; module Machine puts the same memory under the interpreter.  *)
(***************************************************************************)
EXTENDS MemoryAccess

CONSTANTS
  Sizes,           \* initial sizes in bytes
  Maxima,          \* declared maxima in bytes, NoMax for none
  Loads,           \* operands of loads
  Stores,          \* operands of stores
  Deltas           \* operands of memory.grow

ASSUME OperandsAssumption ==
  /\ Sizes \subseteq Nat
  /\ \A s \in Sizes : s < M64 \div 2
  /\ Maxima \subseteq Nat \cup {NoMax}
  /\ Loads \cup Stores \subseteq {a \in Access : a.offset < M32}
  /\ Deltas \subseteq Payload("I32")

-----------------------------------------------------------------------------
Init ==
  /\ \E s \in Sizes : data = [i \in 1 .. s |-> 0]
  /\ max \in Maxima
  /\ max # NoMax => Len(data) <= max
  /\ growable \in BOOLEAN
  /\ request = <<"size">> /\ reply = Answer(0)
  /\ panicked = FALSE

Next ==
  \/ \E a \in Loads : Load(a)
  \/ \E a \in Stores : Store(a)
  \/ \E delta \in Deltas : MemoryGrow(delta)
  \/ MemorySize

Spec == Init /\ [][Next]_memoryVars

-----------------------------------------------------------------------------
(* Properties.                                                             *)

\* Growing respects both limits at any number of attempts: the memory never
\* exceeds its declared maximum, and is above the safety limit of grow only if
\* it was created so large.
SizeWithinLimits ==
  /\ max # NoMax => Len(data) <= max
  /\ Len(data) <= LIMIT \/ Len(data) \in Sizes

\* No access aborts the host: what does not exist is a MemoryOutOfBounds fault.
NoAbort == ~ panicked

\* The memory implements the abstract one.
Abstract == INSTANCE MemorySpec WITH mem <- data, top <- max
RefinesMemory == Abstract!SSpec
=============================================================================
