------------------------------ MODULE Machine ------------------------------
(***************************************************************************)
(* The interpreter and its memory together (exec.rs): an Execution owns a  *)
(* memory, which the loads, stores, memory.size and memory.grow of its     *)
(* code use.  A step of Execution leaves the memory alone; a step of the   *)
(* memory is part of the operation that asked for it, which pushes the     *)
(* answer, or passes on the fault to run().                                *)
(***************************************************************************)
EXTENDS Execution, MemoryAccess

CONSTANT Memories   \* the memories Execution::new may be given

VARIABLE found      \* history: the bytes the last run() found

machineVars == <<vars, memoryVars, found>>

ASSUME MemoriesAssumption ==
  Memories \subseteq [data : Seq(Byte), max : Nat \cup {NoMax},
                      growable : BOOLEAN]

-----------------------------------------------------------------------------
\* The access of a load or store: base is the word popped for the address.
AccessOf(n, signed, base, value) ==
  [n |-> n, base |-> pop_from("I32", base).v, offset |-> Arg.n,
   signed |-> signed, value |-> value]

\* What execute() does with the memory's answer: f is the frame if there is one.
Obey(f) ==
  IF panicked' THEN Panic
  ELSE IF reply'.kind = "word" THEN Continue(f)
  ELSE Trap(reply'.kind)

\* An operation that pops n operands and then does A.
Using(n, A) ==
  IF Has(n) THEN A ELSE Trap("StackUnderflow") /\ UNCHANGED memoryVars

LoadOp ==
  \E name \in DOMAIN LoadOps :
    /\ Stepping(name)
    /\ Using(1, /\ Load(AccessOf(LoadOps[name], name \notin UnsignedLoads,
                                 Operand(0), 0))
                /\ Obey(PopPush(1, reply'.w)))
    /\ UNCHANGED found

\* The value is on top, the address below it.
StoreOp ==
  \E name \in DOMAIN StoreOps :
    /\ Stepping(name)
    /\ Using(2, /\ Store(AccessOf(StoreOps[name], FALSE, Operand(1), Operand(0)))
                /\ Obey(Popped(2)))
    /\ UNCHANGED found

SizeOp ==
  /\ Stepping("MemorySize")
  /\ MemorySize
  /\ Continue(PopPush(0, reply'.w))
  /\ UNCHANGED found

GrowOp ==
  /\ Stepping("MemoryGrow")
  /\ Using(1, /\ MemoryGrow(pop_from("I32", Operand(0)).v)
              /\ Continue(PopPush(1, reply'.w)))
  /\ UNCHANGED found

MemoryStep == LoadOp \/ StoreOp \/ SizeOp \/ GrowOp

-----------------------------------------------------------------------------
\* The memory given to Execution::new holds what mk_instance wrote.
MachineInit ==
  /\ Init
  /\ \E memory \in Memories :
       data = memory.data /\ max = memory.max /\ growable = memory.growable
  /\ request = <<"size">> /\ reply = Answer(0) /\ panicked = FALSE
  /\ found = data

MachineHost ==
  \/ Run /\ found' = data /\ UNCHANGED memoryVars
  \/ HostPrepare /\ UNCHANGED <<memoryVars, found>>

MachineEngine ==
  \/ EngineStep /\ UNCHANGED <<memoryVars, found>>
  \/ MemoryStep

MachineNext == MachineHost \/ MachineEngine

MachineSpec == MachineInit /\ [][MachineNext]_machineVars

\* Once run() is called its loop goes on until it returns.
FairMachineSpec == MachineSpec /\ WF_machineVars(MachineEngine)

-----------------------------------------------------------------------------
\* A module that passes WebAssembly validation never makes the interpreter
\* run out of operands, of scopes, of locals or of types.  It aborts the host
\* in two ways only: an address that does not fit, and calls nested deeper
\* than there is memory for.
NoUnderflow ==
  /\ outcome \notin {"StackUnderflow", "ControlStackUnderflow",
                     "LocalIndexOutOfBounds", "UnresolvableTypeIndex"}
  /\ outcome = "Panic" => panicked \/ Len(frames) >= MaxFrames
=============================================================================
