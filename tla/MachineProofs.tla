--------------------------- MODULE MachineProofs ---------------------------
(***************************************************************************)
(* Proofs about Machine, for every set of modules, memories and hosts and  *)
(* every bound: type correctness, that every declared local is there, that *)
(* locals and globals keep their declared types, that the memory only      *)
(* grows, that suspended callers are left alone and that every control     *)
(* stack lists the scopes its pc is inside of; and, of validated programs  *)
(* and a disciplined host, that no operation lacks its operands.  The      *)
(* steps that do not use the memory are those of ExecutionProofs and       *)
(* OperandProofs, the accesses those of MemoryAccessProofs.                *)
(***************************************************************************)
EXTENDS Machine, OperandProofs, MemoryAccessProofs

MachineInv == IInv /\ MemoryTypeOK

-----------------------------------------------------------------------------
(* The operations that use the memory.                                     *)

\* The operands of a load or store make an access.
LEMMA AccessType ==
  ASSUME NEW n \in {1, 2, 4, 8}, NEW signed \in BOOLEAN, NEW base \in Word,
         NEW value \in Word, Arg.n \in Nat
  PROVE  AccessOf(n, signed, base, value) \in Access
<1>1. pop_from("I32", base) \in Value /\ pop_from("I32", base).ty = "I32"
  BY PopValue DEF ValTypes
<1>2. pop_from("I32", base).v \in Payload("I32")
  BY <1>1 DEF Value
<1> QED
  BY <1>2 DEF AccessOf, Access

LEMMA LoadWidths == \A name \in DOMAIN LoadOps : LoadOps[name] \in {1, 2, 4, 8}
  BY DEF LoadOps

LEMMA StoreWidths == \A name \in DOMAIN StoreOps : StoreOps[name] \in {1, 2, 4, 8}
  BY DEF StoreOps

\* The interpreter goes on with the memory's answer.
LEMMA ObeyOK ==
  ASSUME IInv, status = "running", MemoryTypeOK', NEW f,
         reply'.kind = "word" => FrameOK(mod, f), Obey(f)
  PROVE  IInv'
<1>1. CASE panicked'
  BY <1>1, PanicOK DEF Obey
<1>2. CASE ~ panicked' /\ reply'.kind = "word"
  BY <1>2, ContinueOK DEF Obey
<1>3. CASE ~ panicked' /\ reply'.kind # "word"
  <2>1. Trap("MemoryOutOfBounds")
    BY <1>3 DEF Obey, MemoryTypeOK
  <2>2. "MemoryOutOfBounds" \in Faults
    BY DEF Faults
  <2> QED
    BY <2>1, <2>2, TrapOK
<1> QED
  BY <1>1, <1>2, <1>3

\* Too few operands: the memory is not asked.
LEMMA NotAsked ==
  ASSUME MachineInv, status = "running", Trap("StackUnderflow"),
         UNCHANGED memoryVars
  PROVE  MachineInv' /\ OnlyGrows
<1>1. IInv'
  BY UnderflowOK DEF MachineInv
<1>2. MemoryTypeOK' /\ data' = data
  BY DEF MachineInv, MemoryTypeOK, memoryVars
<1> QED
  BY <1>1, <1>2 DEF MachineInv, OnlyGrows

LEMMA LoadOpOK ==
  ASSUME MachineInv, LoadOp
  PROVE  MachineInv' /\ OnlyGrows
<1>1. PICK name \in DOMAIN LoadOps :
        /\ Stepping(name)
        /\ Using(1, /\ Load(AccessOf(LoadOps[name], name \notin UnsignedLoads,
                                     Operand(0), 0))
                    /\ Obey(PopPush(1, reply'.w)))
  BY DEF LoadOp
<1>2. IInv /\ MemoryTypeOK
  BY DEF MachineInv
<1>3. status = "running" /\ Arg.n \in Nat
  BY <1>1, <1>2, FetchedOK
<1>4. CASE ~ Has(1)
  BY <1>1, <1>3, <1>4, NotAsked DEF Using
<1>5. CASE Has(1)
  <2> DEFINE a == AccessOf(LoadOps[name], name \notin UnsignedLoads, Operand(0), 0)
  <2>1. Load(a) /\ Obey(PopPush(1, reply'.w))
    BY <1>1, <1>5 DEF Using
  <2>2. Operand(0) \in Word /\ 0 \in Word
    BY <1>2, <1>3, <1>5, OperandWord, SmallWords
  <2>3. a \in Access
    BY <1>3, <2>2, LoadWidths, AccessType
  <2> HIDE DEF a
  <2>4. MemoryTypeOK' /\ data' = data
    BY <1>2, <2>1, <2>3, LoadOK
  <2>5. reply'.w \in Word
    BY <2>4 DEF MemoryTypeOK
  <2>6. FrameOK(mod, PopPush(1, reply'.w))
    BY <1>1, <1>2, <1>5, <2>5, PopPushOK
  <2>7. IInv'
    BY <1>2, <1>3, <2>1, <2>4, <2>6, ObeyOK
  <2> QED
    BY <2>4, <2>7 DEF MachineInv, OnlyGrows
<1> QED
  BY <1>4, <1>5

LEMMA StoreOpOK ==
  ASSUME MachineInv, StoreOp
  PROVE  MachineInv' /\ OnlyGrows
<1>1. PICK name \in DOMAIN StoreOps :
        /\ Stepping(name)
        /\ Using(2, /\ Store(AccessOf(StoreOps[name], FALSE, Operand(1),
                                      Operand(0)))
                    /\ Obey(Popped(2)))
  BY DEF StoreOp
<1>2. IInv /\ MemoryTypeOK
  BY DEF MachineInv
<1>3. status = "running" /\ Arg.n \in Nat
  BY <1>1, <1>2, FetchedOK
<1>4. CASE ~ Has(2)
  BY <1>1, <1>3, <1>4, NotAsked DEF Using
<1>5. CASE Has(2)
  <2> DEFINE a == AccessOf(StoreOps[name], FALSE, Operand(1), Operand(0))
  <2>1. Store(a) /\ Obey(Popped(2))
    BY <1>1, <1>5 DEF Using
  <2>2. Operand(0) \in Word /\ Operand(1) \in Word
    BY <1>2, <1>3, <1>5, OperandWord
  <2>3. a \in Access
    BY <1>3, <2>2, StoreWidths, AccessType
  <2> HIDE DEF a
  <2>4. MemoryTypeOK' /\ Len(data') = Len(data)
    BY <1>2, <2>1, <2>3, StoreOK
  <2>5. FrameOK(mod, Popped(2))
    BY <1>1, <1>2, <1>5, PoppedOK
  <2>6. IInv'
    BY <1>2, <1>3, <2>1, <2>4, <2>5, ObeyOK
  <2> QED
    BY <2>4, <2>6 DEF MachineInv, OnlyGrows
<1> QED
  BY <1>4, <1>5

LEMMA SizeOpOK ==
  ASSUME MachineInv, SizeOp
  PROVE  MachineInv' /\ OnlyGrows
<1>1. /\ Stepping("MemorySize") /\ MemorySize
      /\ Continue(PopPush(0, reply'.w))
  BY DEF SizeOp
<1>2. IInv /\ MemoryTypeOK
  BY DEF MachineInv
<1>3. status = "running"
  BY <1>1, <1>2, FetchedOK
<1>4. MemoryTypeOK' /\ data' = data
  BY <1>1, <1>2, SizeOK
<1>5. reply'.w \in Word
  BY <1>4 DEF MemoryTypeOK
<1>6. FrameOK(mod, PopPush(0, reply'.w))
  <2>1. Has(0)
    BY <1>2, <1>3, CurrentOK DEF Has
  <2> QED
    BY <1>1, <1>2, <1>5, <2>1, PopPushOK
<1>7. IInv'
  BY <1>1, <1>2, <1>3, <1>6, ContinueOK
<1> QED
  BY <1>4, <1>7 DEF MachineInv, OnlyGrows

LEMMA GrowOpOK ==
  ASSUME MachineInv, GrowOp
  PROVE  MachineInv' /\ OnlyGrows
<1>1. /\ Stepping("MemoryGrow")
      /\ Using(1, /\ MemoryGrow(pop_from("I32", Operand(0)).v)
                  /\ Continue(PopPush(1, reply'.w)))
  BY DEF GrowOp
<1>2. IInv /\ MemoryTypeOK
  BY DEF MachineInv
<1>3. status = "running"
  BY <1>1, <1>2, FetchedOK
<1>4. CASE ~ Has(1)
  BY <1>1, <1>3, <1>4, NotAsked DEF Using
<1>5. CASE Has(1)
  <2> DEFINE delta == pop_from("I32", Operand(0)).v
  <2>1. MemoryGrow(delta) /\ Continue(PopPush(1, reply'.w))
    BY <1>1, <1>5 DEF Using
  <2>2. delta \in Int
    <3>1. Operand(0) \in Word
      BY <1>2, <1>3, <1>5, OperandWord
    <3>2. pop_from("I32", Operand(0)) \in Value
      BY <3>1, PopValue DEF ValTypes
    <3> QED
      BY <3>2 DEF Value
  <2> HIDE DEF delta
  <2>3. MemoryTypeOK' /\ OnlyGrows
    BY <1>2, <2>1, <2>2, GrowOK
  <2>4. reply'.w \in Word
    BY <2>3 DEF MemoryTypeOK
  <2>5. FrameOK(mod, PopPush(1, reply'.w))
    BY <1>1, <1>2, <1>5, <2>4, PopPushOK
  <2>6. IInv'
    BY <1>2, <1>3, <2>1, <2>5, ContinueOK
  <2> QED
    BY <2>3, <2>6 DEF MachineInv
<1> QED
  BY <1>4, <1>5

-----------------------------------------------------------------------------
(* The whole.                                                              *)

LEMMA MachineInitOK == MachineInit => MachineInv
<1> SUFFICES ASSUME MachineInit PROVE MachineInv
  OBVIOUS
<1>1. IInv
  BY InitOK DEF MachineInit
<1>2. PICK memory \in Memories :
        data = memory.data /\ max = memory.max /\ growable = memory.growable
  BY DEF MachineInit
<1>3. data \in Seq(Byte) /\ max \in Nat \cup {NoMax} /\ growable \in BOOLEAN
  BY <1>2, MemoriesAssumption
<1>4. reply \in [kind : {"word", "MemoryOutOfBounds"}, w : Word]
  BY AnswerType, SmallWords DEF MachineInit
<1> QED
  BY <1>1, <1>3, <1>4 DEF MachineInit, MachineInv, MemoryTypeOK

LEMMA MachineStepOK ==
  ASSUME MachineInv, [MachineNext]_machineVars
  PROVE  MachineInv' /\ OnlyGrows
<1>1. CASE MemoryStep
  BY <1>1, LoadOpOK, StoreOpOK, SizeOpOK, GrowOpOK DEF MemoryStep
<1>2. CASE /\ Run \/ HostPrepare \/ EngineStep \/ UNCHANGED vars
           /\ UNCHANGED memoryVars
  <2>1. IInv'
    BY <1>2, StepOK DEF MachineInv
  <2>2. MemoryTypeOK' /\ data' = data
    BY <1>2 DEF MachineInv, MemoryTypeOK, memoryVars
  <2> QED
    BY <2>1, <2>2 DEF MachineInv, OnlyGrows
<1> QED
  BY <1>1, <1>2 DEF MachineNext, MachineHost, MachineEngine, machineVars

\* No operation on the memory touches a frame below the top.
LEMMA MachineStepKept ==
  ASSUME MachineInv, [MachineNext]_machineVars
  PROVE  CallersKept
<1>1. IInv
  BY DEF MachineInv
<1>2. ASSUME NEW name, Stepping(name) PROVE status = "running"
  BY <1>2 DEF Stepping
<1>3. ASSUME NEW f, Continue(f) PROVE CallersKept
  BY <1>1, <1>3, TopKept DEF Continue, Keep
<1>4. ASSUME NEW f, status = "running", Obey(f) PROVE CallersKept
  BY <1>1, <1>3, <1>4, TrapKept, SameKept DEF Obey, Panic
<1>5. CASE LoadOp \/ StoreOp
  BY <1>1, <1>2, <1>4, <1>5, TrapKept DEF LoadOp, StoreOp, Using
<1>6. CASE SizeOp \/ GrowOp
  BY <1>1, <1>2, <1>3, <1>6, TrapKept DEF SizeOp, GrowOp, Using
<1>7. CASE Run \/ HostPrepare \/ EngineStep \/ UNCHANGED vars
  BY <1>1, <1>7, StepKept
<1> QED
  BY <1>5, <1>6, <1>7
     DEF MachineNext, MachineHost, MachineEngine, MemoryStep, machineVars

\* Nor does one enter or leave a scope.
LEMMA MachineStepNests ==
  ASSUME ProgramsNest, MachineInv, FramesNest(mod, frames),
         [MachineNext]_machineVars
  PROVE  FramesNest(mod', frames')
<1> DEFINE Done == FramesNest(mod', frames')
<1>1. IInv
  BY DEF MachineInv
<1>2. ASSUME NEW name, Stepping(name), NEW g, Behind(g), Continue(g),
             name \notin {"StartScope", "EndScope"}
      PROVE  Done
  BY <1>1, <1>2, BehindNests, ContinueNests DEF Continue, Keep
<1>3. ASSUME NEW name, Stepping(name), NEW fault, Trap(fault) PROVE Done
  BY <1>1, <1>3, TrapNests DEF Stepping
<1>4. ASSUME Panic PROVE Done
  BY <1>4 DEF Panic
<1>5. ASSUME NEW name, Stepping(name), NEW g, Behind(g), Obey(g),
             name \notin {"StartScope", "EndScope"}
      PROVE  Done
  BY <1>2, <1>3, <1>4, <1>5 DEF Obey
<1>6. ASSUME NEW name, Stepping(name)
      PROVE  /\ \A n : Behind(Popped(n))
             /\ \A n, w : Behind(PopPush(n, w))
  BY <1>1, <1>6, BehindFrames
<1>7. ASSUME NEW name \in MemoryOps PROVE name \notin {"StartScope", "EndScope"}
  BY DEF MemoryOps, LoadOps, StoreOps
<1>8. /\ DOMAIN LoadOps \subseteq MemoryOps /\ DOMAIN StoreOps \subseteq MemoryOps
      /\ {"MemorySize", "MemoryGrow"} \subseteq MemoryOps
  BY DEF MemoryOps
<1> SUFFICES Done
  OBVIOUS
<1> HIDE DEF Done
<1>9. CASE LoadOp \/ StoreOp
  BY <1>3, <1>5, <1>6, <1>7, <1>8, <1>9 DEF LoadOp, StoreOp, Using
<1>10. CASE SizeOp \/ GrowOp
  BY <1>2, <1>3, <1>6, <1>7, <1>8, <1>10 DEF SizeOp, GrowOp, Using
<1>11. CASE Run \/ HostPrepare \/ EngineStep \/ UNCHANGED vars
  BY <1>1, <1>11, StepNests DEF Done
<1> QED
  BY <1>9, <1>10, <1>11
     DEF MachineNext, MachineHost, MachineEngine, MemoryStep, machineVars

LEMMA MachineInvAlways == MachineSpec => []MachineInv
<1>1. MachineInv /\ [MachineNext]_machineVars => MachineInv'
  BY MachineStepOK
<1> QED
  BY <1>1, MachineInitOK, PTL DEF MachineSpec

\* Whatever the module, the memory, the host and the order of the calls, the
\* machine never leaves its types: every operand is a 64-bit word, loads
\* included, every frame belongs to a function of the module, and run() always
\* finds the top frame it unwraps.
THEOREM TypeCorrect == MachineSpec => []TypeOK
<1>1. MachineInv => TypeOK
  BY InvariantImplies DEF MachineInv
<1> QED
  BY <1>1, MachineInvAlways, PTL

\* However many arguments the host or a call passes, frame_for_funcidx leaves
\* no declared local without a value.
THEOREM LocalsPresent == MachineSpec => []DeclaredLocalsPresent
<1>1. MachineInv => DeclaredLocalsPresent
  BY InvariantImplies DEF MachineInv
<1> QED
  BY <1>1, MachineInvAlways, PTL

\* For a module without imports and a host that passes the arity of what it
\* calls, no sequence of operations, validated or not, stores a value of
\* another type than the declared one in a local or in a global: not what it
\* loaded from memory, at whatever type it was stored, either.
THEOREM StoresKeepTypes ==
  ASSUME Disciplined, \A m \in Modules : m.imports = <<>>
  PROVE  MachineSpec => []StoresTyped
<1>1. MachineInv => StoresTyped
  BY InvariantImplies DEF MachineInv, Strict
<1> QED
  BY <1>1, MachineInvAlways, PTL

\* Whatever code runs, and however it ends, the memory of an Execution changes
\* its size only by whole pages of zeros behind the bytes that are there: a
\* trap, a return or another invocation never takes a page back.
THEOREM MachineGrowPreservesData == MachineSpec => GrowPreservesData
<1>1. MachineInv /\ [MachineNext]_machineVars => [OnlyGrows]_memoryVars
  BY MachineStepOK
<1> QED
  BY <1>1, MachineInvAlways, PTL DEF MachineSpec, GrowPreservesData

\* A call suspends its caller: whatever the callee does, and however it ends,
\* the pc, the scopes and the locals of every frame below the top are what they
\* were at the call, and its operands change only when it comes back on top,
\* by results pushed on them.
THEOREM MachineCallersUntouched == MachineSpec => CallersUntouched
<1>1. MachineInv /\ [MachineNext]_machineVars => [CallersKept]_vars
  BY MachineStepKept
<1> QED
  BY <1>1, MachineInvAlways, PTL DEF MachineSpec, CallersUntouched

\* The pc of a frame and its control stack are moved by different code: the
\* pc by scans over the decoded operations, the control stack by depths.  For
\* programs decode() accepts, in which no branch to an outer loop crosses
\* another loop, they agree in every frame, suspended callers included, however
\* many branches, skipped arms, calls, traps and runs led there: the control
\* stack lists exactly the scopes the pc is inside of.
THEOREM MachineScopesMatch ==
  ASSUME ProgramsNest
  PROVE  MachineSpec => []ScopesMatchNesting
<1> DEFINE Nested == FramesNest(mod, frames)
<1>1. MachineInit => Nested
  <2> SUFFICES ASSUME MachineInit PROVE Nested
    OBVIOUS
  <2>1. frames = <<>>
    BY DEF MachineInit, Init
  <2> QED
    BY <2>1 DEF FramesNest
<1>2. MachineInv /\ Nested /\ [MachineNext]_machineVars => Nested'
  BY MachineStepNests
<1>3. MachineInv /\ Nested => ScopesMatchNesting
  BY NestingMatches DEF MachineInv
<1> HIDE DEF Nested
<1> QED
  BY <1>1, <1>2, <1>3, MachineInvAlways, PTL DEF MachineSpec
-----------------------------------------------------------------------------
(* Validated programs.                                                     *)

\* What a step keeps, with the reasons the machine may abort for.
Kept == HInv' /\ NoUnderflow'

LEMMA GoodKept ==
  ASSUME Good
  PROVE  Kept
  BY DEF Good, HInv, NoUnderflow, Underflows, Kept

\* The answer of the memory: an abort is its own, its fault is no underflow.
LEMMA ObeyHigh ==
  ASSUME HInv, NEW f, Continue(f) => Kept,
         Trap("MemoryOutOfBounds") => Kept, MemoryTypeOK', Obey(f)
  PROVE  Kept
<1>1. CASE panicked'
  <2>1. Panic
    BY <1>1 DEF Obey
  <2>2. HInv' /\ outcome' = "Panic"
    BY <2>1, PanicHigh DEF Panic
  <2> QED
    BY <1>1, <2>2 DEF NoUnderflow, Kept
<1>2. CASE ~ panicked' /\ reply'.kind = "word"
  BY <1>2 DEF Obey
<1>3. CASE ~ panicked' /\ reply'.kind # "word"
  BY <1>3 DEF Obey, MemoryTypeOK
<1> QED
  BY <1>1, <1>2, <1>3

\* An operation on the memory takes what validation counts for it.
LEMMA MemoryOpHigh ==
  ASSUME Ready, MemoryTypeOK', MemoryStep
  PROVE  Kept
<1>1. ASSUME NEW name, Stepping(name) PROVE Facing(name)
  BY <1>1 DEF Ready, Facing
<1>2. HInv /\ "MemoryOutOfBounds" \notin Underflows \cup {"Panic"}
  BY DEF Ready, Underflows
<1>3. ASSUME NEW name, Facing(name), Straight(name)
      PROVE  /\ Has(Takes(name)) /\ (Trap("MemoryOutOfBounds") => Kept)
             /\ Leaves(name) = 1 =>
                  \A w : Continue(PopPush(Takes(name), w)) => Kept
             /\ Leaves(name) = 0 => (Continue(Popped(Takes(name))) => Kept)
  BY <1>2, <1>3, StraightSteps, GoodKept DEF Continue
<1>4. CASE LoadOp
  <2>1. PICK name \in DOMAIN LoadOps :
          /\ Stepping(name)
          /\ Using(1, /\ Load(AccessOf(LoadOps[name], name \notin UnsignedLoads,
                                       Operand(0), 0))
                      /\ Obey(PopPush(1, reply'.w)))
    BY <1>4 DEF LoadOp
  <2>2. Takes(name) = 1 /\ Leaves(name) = 1 /\ Straight(name) /\ Facing(name)
    BY <1>1, <2>1, LoadTakes
  <2>3. /\ Has(1) /\ (Trap("MemoryOutOfBounds") => Kept)
        /\ Continue(PopPush(1, reply'.w)) => Kept
    BY <1>3, <2>2
  <2>4. Obey(PopPush(1, reply'.w))
    BY <2>1, <2>3 DEF Using
  <2> QED
    BY <1>2, <2>3, <2>4, ObeyHigh
<1>5. CASE StoreOp
  <2>1. PICK name \in DOMAIN StoreOps :
          /\ Stepping(name)
          /\ Using(2, /\ Store(AccessOf(StoreOps[name], FALSE, Operand(1),
                                        Operand(0)))
                      /\ Obey(Popped(2)))
    BY <1>5 DEF StoreOp
  <2>2. Takes(name) = 2 /\ Leaves(name) = 0 /\ Straight(name) /\ Facing(name)
    BY <1>1, <2>1, StoreTakes
  <2>3. /\ Has(2) /\ (Trap("MemoryOutOfBounds") => Kept)
        /\ Continue(Popped(2)) => Kept
    BY <1>3, <2>2
  <2>4. Obey(Popped(2))
    BY <2>1, <2>3 DEF Using
  <2> QED
    BY <1>2, <2>3, <2>4, ObeyHigh
<1>6. CASE SizeOp
  <2>1. Stepping("MemorySize") /\ Continue(PopPush(0, reply'.w))
    BY <1>6 DEF SizeOp
  <2>2. /\ Takes("MemorySize") = 0 /\ Leaves("MemorySize") = 1
        /\ Straight("MemorySize") /\ Facing("MemorySize")
    BY <1>1, <2>1, DataOpTakes DEF DataTakes
  <2> QED
    BY <1>3, <2>1, <2>2
<1>7. CASE GrowOp
  <2>1. /\ Stepping("MemoryGrow")
        /\ Using(1, /\ MemoryGrow(pop_from("I32", Operand(0)).v)
                    /\ Continue(PopPush(1, reply'.w)))
    BY <1>7 DEF GrowOp
  <2>2. /\ Takes("MemoryGrow") = 1 /\ Leaves("MemoryGrow") = 1
        /\ Straight("MemoryGrow") /\ Facing("MemoryGrow")
    BY <1>1, <2>1, DataOpTakes DEF DataTakes
  <2>3. Has(1) /\ (Continue(PopPush(1, reply'.w)) => Kept)
    BY <1>3, <2>2
  <2> QED
    BY <2>1, <2>3 DEF Using
<1> QED
  BY <1>4, <1>5, <1>6, <1>7 DEF MemoryStep

LEMMA MachineStepHigh ==
  ASSUME Validated, MachineInv, FramesNest(mod, frames), HInv, NoUnderflow,
         [MachineNext]_machineVars
  PROVE  Kept
<1>1. Ready
  BY DEF Ready, MachineInv
<1>2. CASE MemoryStep
  <2>1. MemoryTypeOK'
    BY MachineStepOK DEF MachineInv
  <2> QED
    BY <1>1, <1>2, <2>1, MemoryOpHigh
<1>3. CASE Run \/ HostPrepare \/ EngineStep
  BY <1>1, <1>3, StepHigh, GoodKept
<1>4. CASE UNCHANGED machineVars
  <2>1. UNCHANGED vars /\ panicked' = panicked
    BY <1>4 DEF machineVars, memoryVars
  <2>2. HInv'
    BY <2>1, StillHigh
  <2> QED
    BY <2>1, <2>2 DEF NoUnderflow, Kept, vars
<1> QED
  BY <1>2, <1>3, <1>4 DEF MachineNext, MachineHost, MachineEngine

LEMMA MachineHighAlways ==
  ASSUME Validated
  PROVE  MachineSpec => [](HInv /\ NoUnderflow)
<1> DEFINE Nested == FramesNest(mod, frames)
           High == HInv /\ NoUnderflow
<1>1. MachineInit => Nested /\ High
  <2> SUFFICES ASSUME MachineInit PROVE Nested /\ High
    OBVIOUS
  <2>1. Init /\ frames = <<>> /\ outcome = "None"
    BY DEF MachineInit, Init
  <2>2. Nested
    BY <2>1 DEF FramesNest
  <2> QED
    BY <2>1, <2>2, InitHigh DEF NoUnderflow
<1>2. MachineInv /\ Nested /\ [MachineNext]_machineVars => Nested'
  BY MachineStepNests DEF Validated
<1>3. MachineInv /\ Nested /\ High /\ [MachineNext]_machineVars => High'
  BY MachineStepHigh DEF Kept
<1>4. High => HInv /\ NoUnderflow
  OBVIOUS
<1> HIDE DEF Nested, High
<1> QED
  BY <1>1, <1>2, <1>3, <1>4, MachineInvAlways, PTL DEF MachineSpec

\* The decoder checks no operand: the interpreter trusts that its modules are
\* validated.  For programs whose operations can be given heights, and a host
\* that starts every run with the arguments of what it calls and no frame left
\* from before, every scope keeps the operands that were there when it was
\* entered, whatever branches, skipped arms, calls and traps led to it: no
\* block uses up its parent's operands, and no suspended caller loses one.
THEOREM MachineOperandsAboveScopes ==
  ASSUME ProgramsNest, ProgramsValid, Disciplined, MaxStale = 0
  PROVE  MachineSpec => []OperandsAboveScopes
<1>1. Validated
  BY DEF Validated, FreshHost
<1>2. HInv => OperandsAboveScopes
  BY HighOperands
<1> QED
  BY <1>1, <1>2, MachineHighAlways, PTL

\* For the same programs and hosts, run() never reports that an operand, a
\* scope, a local or a type is missing, and execute() aborts the host only on
\* an address that does not fit or on calls nested without bound.
THEOREM MachineNoUnderflow ==
  ASSUME ProgramsNest, ProgramsValid, Disciplined, MaxStale = 0
  PROVE  MachineSpec => []NoUnderflow
<1>1. Validated
  BY DEF Validated, FreshHost
<1> QED
  BY <1>1, MachineHighAlways, PTL
=============================================================================
