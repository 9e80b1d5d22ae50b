------------------------------ MODULE MCMemory ------------------------------
(***************************************************************************)
(* Instances of LinearMemory with 1-bit bytes and pages of 2 bytes: an     *)
(* i32 has 4 bits, an address 8.                                           *)
(***************************************************************************)
EXTENDS LinearMemory, TLC

MCNoMax == -1

Reading(n, base, offset, signed) ==
  [n |-> n, base |-> base, offset |-> offset, signed |-> signed, value |-> 0]
Writing(n, base, offset, value) ==
  [n |-> n, base |-> base, offset |-> offset, signed |-> FALSE,
   value |-> value]

\* Places in every page, at the end and beyond it; at a base that is negative
\* as an i32, an address that does not wrap.
MCPlaces == {<<0, 0>>, <<1, 2>>, <<7, 0>>, <<7, 15>>, <<-8, 0>>}
MCLoads ==
  {Reading(n, p[1], p[2], s) :
     <<n, p, s>> \in {1, 2, 4} \X MCPlaces \X BOOLEAN}
    \cup {Reading(8, 0, o, FALSE) : o \in {0, 1}}
MCStores ==
  {Writing(n, p[1], p[2], 91) : <<n, p>> \in {1, 2, 4} \X MCPlaces}
    \cup {Writing(8, 0, 0, 165), Writing(1, 1, 2, 0)}

\* Accesses whose base is negative as an i32 and comes within reach of the top
\* of the address space: the address itself wraps, or only the end does.
WrappedAddress == {Reading(1, -1, 1, FALSE)}
WrappedEnd == {Reading(2, -1, 0, FALSE)}

MCDeltas == {-1, 0, 1, 2}
MCSizes == {0, 2, 8}
MCMaxima == {NoMax, 4, 8}

-----------------------------------------------------------------------------
\* An access beyond the end of the memory is answered with the fault, at every
\* address: the checks of get_u8 and its siblings refuse it, wherever
\* adjust_memarg computed the address from.
BeyondEndFaults ==
  request[1] \in {"load", "store"} /\ ~ Abstract!InBounds(request[2]) =>
    reply.kind = "MemoryOutOfBounds"
=============================================================================
