-------------------------- MODULE ExecutionProofs --------------------------
(***************************************************************************)
(* What each step of Execution preserves, for every set of modules, every  *)
(* host and every bound: types, that every declared local is there, that   *)
(* locals and globals keep their declared types, the frames below the top, *)
(* and that the scopes of a frame are those its pc is inside of.           *)
(* MachineProofs draws the conclusions.                                    *)
(***************************************************************************)
EXTENDS Execution, NestingProofs

-----------------------------------------------------------------------------
(* The inductive invariant.  FrameOK says of one frame what the three      *)
(* properties say of all of them; each action replaces, pushes or pops one *)
(* frame, so it is what must be shown of that frame.                       *)

\* The host prepares what exists, with its arity, and nothing is imported, so
\* that function indices are indices of code.
Strict == Disciplined /\ \A m \in Modules : m.imports = <<>>

LocalsTyped(tys, locals) ==
  Len(locals) = Len(tys) /\ \A j \in 1 .. Len(tys) : locals[j].ty = tys[j]

FrameOK(m, f) ==
  /\ f \in Frame
  /\ f.fn < Len(m.code)
  /\ Len(f.locals) >= Len(LocalTypes(m, f.fn))
  /\ Strict => LocalsTyped(LocalTypes(m, f.fn), f.locals)

FramesOK(m, fs) ==
  fs \in Seq(Frame) /\ \A i \in 1 .. Len(fs) : FrameOK(m, fs[i])

GlobalsOK(m, gs) ==
  /\ gs \in Seq(Value)
  /\ Len(gs) = Len(m.globals)
  /\ \A i \in 1 .. Len(gs) : gs[i].ty = m.globals[i].ty

IInv ==
  /\ mod \in Modules
  /\ FramesOK(mod, frames)
  /\ GlobalsOK(mod, globals)
  /\ tables \in Seq(Table)
  /\ result \in [some : BOOLEAN, vals : Seq(Value)]
  /\ status \in {"idle", "prepared", "running", "panicked"}
  /\ outcome \in Replies
  /\ ticks \in Nat
  /\ invoked \in [fn : Nat, args : Seq(Value), base : Nat,
                  globals : Seq(Value), tables : Seq(Table)]
  /\ status \in {"prepared", "running"} => frames # <<>>

-----------------------------------------------------------------------------
(* Modules.                                                                *)

LEMMA ModuleType ==
  ASSUME NEW m \in Modules
  PROVE  /\ m.types \in Seq(FuncType)
         /\ m.functions \in Seq(Nat)
         /\ m.code \in Seq(Code)
         /\ m.imports \in Seq(Nat)
         /\ m.globals \in Seq(Value)
         /\ m.tables \in Seq(Table)
         /\ Len(m.code) = Len(m.functions)
         /\ \A i \in 1 .. Len(m.functions) : m.functions[i] < Len(m.types)
  BY ModulesAssumption DEF IsModule

\* What a function of a module looks like.
LEMMA FunctionType ==
  ASSUME NEW m \in Modules, NEW i \in Nat, i < Len(m.code)
  PROVE  /\ FuncTypeOf(m, i).params \in Seq(ValTypes)
         /\ ReturnTypes(m, i) \in Seq(ValTypes)
         /\ LocalTypes(m, i) \in Seq(ValTypes)
         /\ LocalTypes(m, i) = FuncTypeOf(m, i).params \o At(m.code, i).locals
         /\ At(m.code, i).locals \in Seq(ValTypes)
         /\ At(m.code, i).ops \in Seq(OpRecord)
<1>1. i + 1 \in 1 .. Len(m.functions) /\ i + 1 \in 1 .. Len(m.code)
  BY ModuleType
<1>2. m.functions[i + 1] \in Nat /\ m.functions[i + 1] < Len(m.types)
  BY <1>1, ModuleType
<1>3. m.types[m.functions[i + 1] + 1] \in FuncType
  BY <1>2, ModuleType
<1>4. FuncTypeOf(m, i) \in FuncType
  BY <1>3 DEF FuncTypeOf, At
<1>5. At(m.code, i) \in Code
  BY <1>1, ModuleType DEF At
<1>6. FuncTypeOf(m, i).params \in Seq(ValTypes)
  BY <1>4 DEF FuncType
<1>7. At(m.code, i).locals \in Seq(ValTypes) /\ At(m.code, i).ops \in Seq(OpRecord)
  BY <1>5 DEF Code
<1>8. ReturnTypes(m, i) \in Seq(ValTypes)
  BY <1>4 DEF FuncType, ReturnTypes
<1> QED
  BY <1>6, <1>7, <1>8, ConcatProperties DEF LocalTypes

\* frame_for_funcidx: the locals are the arguments and then zeros.
LEMMA NewFrameType ==
  ASSUME NEW m \in Modules, NEW i \in Nat, i < Len(m.code),
         NEW args \in Seq(Value)
  PROVE  /\ NewFrame(m, i, args) \in Frame
         /\ NewFrame(m, i, args).fn = i
         /\ Len(NewFrame(m, i, args).locals) >= Len(LocalTypes(m, i))
         /\ LocalsTyped(FuncTypeOf(m, i).params, args) =>
              LocalsTyped(LocalTypes(m, i), NewFrame(m, i, args).locals)
<1> DEFINE tys == LocalTypes(m, i)
           rest == SubSeq(tys, Len(args) + 1, Len(tys))
           zeros == [j \in 1 .. Len(rest) |-> Zero(rest[j])]
           rets == ReturnTypes(m, i)
           sig == ValueSig(IF rets = <<>> THEN "Unit" ELSE rets[1])
           bare == [fn |-> i, pc |-> 0, stack |-> <<>>, control |-> <<>>,
                    locals |-> args \o zeros]
           params == FuncTypeOf(m, i).params
<1>1. tys \in Seq(ValTypes) /\ rets \in Seq(ValTypes) /\ params \in Seq(ValTypes)
  BY FunctionType
<1>2. Len(tys) \in Nat /\ Len(args) \in Nat
  BY <1>1
<1>3. /\ rest \in Seq(ValTypes)
      /\ Len(rest) = IF Len(args) + 1 <= Len(tys) THEN Len(tys) - Len(args)
                                                  ELSE 0
      /\ \A j \in 1 .. Len(rest) : rest[j] = tys[Len(args) + j]
  <2>1. \A j \in Len(args) + 1 .. Len(tys) : tys[j] \in ValTypes
    BY <1>1, <1>2
  <2>2. /\ SubSeq(tys, Len(args) + 1, Len(tys)) \in Seq(ValTypes)
        /\ Len(SubSeq(tys, Len(args) + 1, Len(tys)))
             = IF Len(args) + 1 <= Len(tys) THEN Len(tys) - (Len(args) + 1) + 1
                                            ELSE 0
        /\ \A j \in 1 .. Len(tys) - (Len(args) + 1) + 1 :
             SubSeq(tys, Len(args) + 1, Len(tys))[j] = tys[Len(args) + 1 + j - 1]
    BY <1>2, <2>1, SubSeqProperties
  <2> HIDE DEF tys
  <2> QED
    BY <1>2, <2>2
<1>4. /\ zeros \in Seq(Value) /\ Len(zeros) = Len(rest)
      /\ \A j \in 1 .. Len(rest) : zeros[j].ty = rest[j]
  <2> HIDE DEF rest
  <2>1. \A j \in 1 .. Len(rest) : Zero(rest[j]) \in Value /\ Zero(rest[j]).ty = rest[j]
    BY <1>3, ZeroType
  <2>2. Len(rest) \in Nat
    BY <1>3
  <2> QED
    BY <2>1, <2>2
<1> HIDE DEF zeros
<1>5. /\ args \o zeros \in Seq(Value)
      /\ Len(args \o zeros) = Len(args) + Len(zeros)
      /\ \A j \in 1 .. Len(args) + Len(zeros) :
           (args \o zeros)[j] =
              IF j <= Len(args) THEN args[j] ELSE zeros[j - Len(args)]
  BY <1>4, ConcatProperties
<1>6. bare \in Frame
  BY <1>5 DEF Frame
<1>7. sig \in Signature
  <2>1. (IF rets = <<>> THEN "Unit" ELSE rets[1]) \in ValTypes \cup {"Unit"}
    BY <1>1
  <2> QED
    BY <2>1, ValueSigType
<1>8. "Function" \in ScopeTypes
  BY DEF ScopeTypes
<1>9. NewFrame(m, i, args) = push_control(bare, sig, "Function")
  BY DEF NewFrame, zeros
<1>9a. bare.fn = i /\ bare.locals = args \o zeros
  OBVIOUS
<1> HIDE DEF sig, bare
<1>10. /\ NewFrame(m, i, args) \in Frame
       /\ NewFrame(m, i, args).fn = i
       /\ NewFrame(m, i, args).locals = args \o zeros
  BY <1>6, <1>7, <1>8, <1>9, <1>9a, PushControlType
<1>11. Len(args \o zeros) >= Len(tys)
  <2> HIDE DEF tys, rest
  <2> QED
    BY <1>2, <1>3, <1>4, <1>5
<1>12. ASSUME LocalsTyped(params, args) PROVE LocalsTyped(tys, args \o zeros)
  <2>1. tys = params \o At(m.code, i).locals /\ At(m.code, i).locals \in Seq(ValTypes)
    BY FunctionType
  <2>2. /\ Len(tys) = Len(params) + Len(At(m.code, i).locals)
        /\ \A j \in 1 .. Len(params) : tys[j] = params[j]
    <3> HIDE DEF tys, params
    <3>1. Len(params) \in Nat
      BY <1>1
    <3> QED
      BY <1>1, <2>1, <3>1, ConcatProperties
  <2>3. Len(args) = Len(params) /\ \A j \in 1 .. Len(params) : args[j].ty = params[j]
    BY <1>12 DEF LocalsTyped
  <2> HIDE DEF tys, params, rest
  <2>4. Len(args) <= Len(tys)
    BY <1>2, <2>1, <2>2, <2>3
  <2>5. Len(args \o zeros) = Len(tys)
    BY <1>2, <1>3, <1>4, <1>5, <2>4
  <2>6. \A j \in 1 .. Len(tys) : (args \o zeros)[j].ty = tys[j]
    <3> TAKE j \in 1 .. Len(tys)
    <3>1. CASE j <= Len(args)
      BY <1>2, <1>5, <2>2, <2>3, <2>5, <3>1
    <3>2. CASE ~ (j <= Len(args))
      <4>1. j - Len(args) \in 1 .. Len(rest) /\ Len(args) + (j - Len(args)) = j
        BY <1>2, <1>3, <2>4, <3>2
      <4>2. (args \o zeros)[j] = zeros[j - Len(args)]
        BY <1>2, <1>4, <1>5, <2>5, <3>2
      <4> QED
        BY <1>3, <1>4, <4>1, <4>2
    <3> QED
      BY <3>1, <3>2
  <2> QED
    BY <2>5, <2>6 DEF LocalsTyped
<1> QED
  BY <1>10, <1>11, <1>12

-----------------------------------------------------------------------------
(* The frame stack: every step replaces, pushes or pops its top frame.     *)

LEMMA WithPc ==
  ASSUME NEW f \in Frame, NEW pc \in Nat
  PROVE  LET g == [f EXCEPT !.pc = pc]
         IN /\ g \in Frame /\ g.fn = f.fn /\ g.locals = f.locals
            /\ g.stack = f.stack /\ g.pc = pc
  BY DEF Frame

LEMMA WithStack ==
  ASSUME NEW f \in Frame, NEW stack \in Seq(Word)
  PROVE  LET g == [f EXCEPT !.stack = stack]
         IN /\ g \in Frame /\ g.fn = f.fn /\ g.locals = f.locals
            /\ g.stack = stack /\ g.pc = f.pc
  BY DEF Frame

LEMMA SameFunction ==
  ASSUME NEW m, NEW f, FrameOK(m, f),
         NEW g \in Frame, g.fn = f.fn, g.locals = f.locals
  PROVE  FrameOK(m, g)
  BY DEF FrameOK

LEMMA RestackedOK ==
  ASSUME NEW m, NEW f, FrameOK(m, f), NEW stack \in Seq(Word)
  PROVE  FrameOK(m, [f EXCEPT !.stack = stack])
<1> DEFINE g == [f EXCEPT !.stack = stack]
<1>1. f \in Frame
  BY DEF FrameOK
<1>2. g \in Frame /\ g.fn = f.fn /\ g.locals = f.locals
  BY <1>1, WithStack
<1> HIDE DEF g
<1>3. FrameOK(m, g)
  BY <1>2, SameFunction
<1> QED
  BY <1>3 DEF g

LEMMA ReplaceTop ==
  ASSUME NEW m, NEW fs, FramesOK(m, fs), fs # <<>>, NEW f, FrameOK(m, f)
  PROVE  /\ FramesOK(m, [fs EXCEPT ![Len(fs)] = f])
         /\ [fs EXCEPT ![Len(fs)] = f] # <<>>
<1> DEFINE gs == [fs EXCEPT ![Len(fs)] = f]
<1>1. fs \in Seq(Frame) /\ f \in Frame
  BY DEF FramesOK, FrameOK
<1>2. gs \in Seq(Frame) /\ Len(gs) = Len(fs)
  BY <1>1
<1>3. \A i \in 1 .. Len(fs) : gs[i] = f \/ gs[i] = fs[i]
  BY <1>1
<1>4. gs # <<>>
  BY <1>1, <1>2
<1> HIDE DEF gs
<1>5. \A i \in 1 .. Len(gs) : FrameOK(m, gs[i])
  BY <1>2, <1>3 DEF FramesOK
<1> QED
  BY <1>2, <1>4, <1>5 DEF FramesOK, gs

LEMMA PushFrame ==
  ASSUME NEW m, NEW fs, FramesOK(m, fs), NEW f, FrameOK(m, f)
  PROVE  FramesOK(m, Append(fs, f)) /\ Append(fs, f) # <<>>
<1>1. fs \in Seq(Frame) /\ f \in Frame
  BY DEF FramesOK, FrameOK
<1>2. /\ Append(fs, f) \in Seq(Frame)
      /\ Len(Append(fs, f)) = Len(fs) + 1
      /\ \A i \in 1 .. Len(fs) : Append(fs, f)[i] = fs[i]
      /\ Append(fs, f)[Len(fs) + 1] = f
  BY <1>1, AppendProperties
<1>3. \A i \in 1 .. Len(fs) + 1 : i \in 1 .. Len(fs) \/ i = Len(fs) + 1
  BY <1>1
<1>4. \A i \in 1 .. Len(Append(fs, f)) : FrameOK(m, Append(fs, f)[i])
  <2> TAKE i \in 1 .. Len(Append(fs, f))
  <2> QED
    BY <1>2, <1>3 DEF FramesOK
<1>5. Append(fs, f) # <<>>
  <2>1. Len(Append(fs, f)) # 0
    BY <1>1, <1>2
  <2>2. Len(<<>>) = 0
    OBVIOUS
  <2> QED
    BY <2>1, <2>2
<1> QED
  BY <1>2, <1>4, <1>5 DEF FramesOK

LEMMA PopFrame ==
  ASSUME NEW m, NEW fs, FramesOK(m, fs), fs # <<>>
  PROVE  FramesOK(m, DropTop(fs, 1))
<1>1. fs \in Seq(Frame) /\ Len(fs) \in Nat /\ 1 <= Len(fs)
  BY DEF FramesOK
<1>2. /\ DropTop(fs, 1) \in Seq(Frame)
      /\ Len(DropTop(fs, 1)) = Len(fs) - 1
      /\ \A i \in 1 .. Len(fs) - 1 : DropTop(fs, 1)[i] = fs[i]
  BY <1>1, DropTopType
<1> QED
  BY <1>1, <1>2 DEF FramesOK

-----------------------------------------------------------------------------
(* What a step of the execute loop finds.                                  *)

LEMMA CurrentOK ==
  ASSUME IInv, status = "running"
  PROVE  /\ FrameOK(mod, Current)
         /\ Current \in Frame
         /\ Current.stack \in Seq(Word)
         /\ Current.locals \in Seq(Value)
         /\ Current.fn \in Nat /\ Current.fn < Len(mod.code)
         /\ Current.pc \in Nat
         /\ Ops \in Seq(OpRecord)
         /\ mod \in Modules
<1>1. frames # <<>> /\ frames \in Seq(Frame)
  BY DEF IInv, FramesOK
<1>2. Len(frames) \in 1 .. Len(frames)
  BY <1>1
<1>3. FrameOK(mod, Current) /\ mod \in Modules
  BY <1>2 DEF IInv, FramesOK, Current
<1>4. Current \in Frame /\ Current.fn < Len(mod.code)
  BY <1>3 DEF FrameOK
<1>5. /\ Current.stack \in Seq(Word) /\ Current.locals \in Seq(Value)
      /\ Current.fn \in Nat /\ Current.pc \in Nat
  BY <1>4 DEF Frame
<1>6. Ops \in Seq(OpRecord)
  BY <1>3, <1>4, <1>5, FunctionType DEF Ops
<1> QED
  BY <1>3, <1>4, <1>5, <1>6

\* A frame that differs from the top frame in pc and operands only.
LEMMA ResumedOK ==
  ASSUME IInv, status = "running", NEW pc \in Nat, NEW stack \in Seq(Word)
  PROVE  FrameOK(mod, [Current EXCEPT !.pc = pc, !.stack = stack])
<1> DEFINE g == [Current EXCEPT !.pc = pc, !.stack = stack]
<1>1. Current \in Frame /\ FrameOK(mod, Current)
  BY CurrentOK
<1>2. g \in Frame /\ g.fn = Current.fn /\ g.locals = Current.locals
  BY <1>1 DEF Frame
<1> QED
  BY <1>1, <1>2, SameFunction

LEMMA FetchedOK ==
  ASSUME IInv, NEW name, Stepping(name)
  PROVE  /\ status = "running"
         /\ Arg \in OpRecord
         /\ Arg.n \in Nat /\ Arg.m \in Nat /\ Arg.k \in Int
         /\ Arg.scope \in ScopeTypes /\ Arg.ty \in BlockTypes
         /\ Arg.tbl \in Seq(Nat)
         /\ Fetched \in Frame
         /\ Fetched.fn = Current.fn /\ Fetched.locals = Current.locals
         /\ Fetched.stack = Current.stack
         /\ Fetched.pc = Current.pc + 1 /\ Fetched.pc \in Nat
         /\ FrameOK(mod, Fetched)
<1>1. status = "running" /\ Current.pc < Len(Ops)
  BY DEF Stepping
<1>2. /\ Current \in Frame /\ Current.pc \in Nat /\ Ops \in Seq(OpRecord)
      /\ FrameOK(mod, Current)
  BY <1>1, CurrentOK
<1>3. Arg \in OpRecord
  BY <1>1, <1>2 DEF Arg, At
<1>4. /\ Arg.n \in Nat /\ Arg.m \in Nat /\ Arg.k \in Int
      /\ Arg.scope \in ScopeTypes /\ Arg.ty \in BlockTypes
      /\ Arg.tbl \in Seq(Nat)
  BY <1>3 DEF OpRecord
<1>5. /\ Fetched \in Frame
      /\ Fetched.fn = Current.fn /\ Fetched.locals = Current.locals
      /\ Fetched.stack = Current.stack
      /\ Fetched.pc = Current.pc + 1 /\ Fetched.pc \in Nat
  <2>1. Current.pc + 1 \in Nat
    BY <1>2
  <2> QED
    BY <1>2, <2>1, WithPc DEF Fetched
<1>6. FrameOK(mod, Fetched)
  BY <1>2, <1>5, SameFunction
<1> QED
  BY <1>1, <1>3, <1>4, <1>5, <1>6

LEMMA PoppedOK ==
  ASSUME IInv, NEW name, Stepping(name), NEW n \in Nat, Has(n)
  PROVE  /\ Popped(n) \in Frame
         /\ Popped(n).fn = Current.fn /\ Popped(n).locals = Current.locals
         /\ Popped(n).pc \in Nat
         /\ FrameOK(mod, Popped(n))
<1>1. /\ status = "running" /\ Fetched \in Frame /\ FrameOK(mod, Fetched)
      /\ Fetched.fn = Current.fn /\ Fetched.locals = Current.locals
      /\ Fetched.stack = Current.stack /\ Fetched.pc \in Nat
  BY FetchedOK
<1>2. Fetched.stack \in Seq(Word) /\ n <= Len(Fetched.stack)
  BY <1>1, CurrentOK DEF Has
<1>3. DropTop(Fetched.stack, n) \in Seq(Word)
  BY <1>2, DropTopType
<1>4. /\ Popped(n) \in Frame /\ Popped(n).fn = Fetched.fn
      /\ Popped(n).locals = Fetched.locals /\ Popped(n).pc = Fetched.pc
  BY <1>1, <1>3, WithStack DEF Popped
<1> QED
  BY <1>1, <1>4, SameFunction

LEMMA PopPushOK ==
  ASSUME IInv, NEW name, Stepping(name), NEW n \in Nat, Has(n), NEW w \in Word
  PROVE  FrameOK(mod, PopPush(n, w))
<1>1. /\ status = "running" /\ Fetched \in Frame /\ FrameOK(mod, Fetched)
      /\ Fetched.stack = Current.stack
  BY FetchedOK
<1>2. Fetched.stack \in Seq(Word) /\ n <= Len(Fetched.stack)
  BY <1>1, CurrentOK DEF Has
<1>3. DropTop(Fetched.stack, n) \in Seq(Word)
  BY <1>2, DropTopType
<1>4. Append(DropTop(Fetched.stack, n), w) \in Seq(Word)
  BY <1>3
<1>5. /\ PopPush(n, w) \in Frame /\ PopPush(n, w).fn = Fetched.fn
      /\ PopPush(n, w).locals = Fetched.locals
  BY <1>1, <1>4, WithStack DEF PopPush
<1> QED
  BY <1>1, <1>5, SameFunction

LEMMA OperandWord ==
  ASSUME IInv, status = "running", NEW n \in Nat, Has(n), NEW i \in 0 .. n - 1
  PROVE  /\ Operand(i) \in Word /\ Operand(i) \in Nat
         /\ U32(Operand(i)) \in Nat /\ U32(Operand(i)) \in Word
<1>1. Current.stack \in Seq(Word) /\ n <= Len(Current.stack)
  BY CurrentOK DEF Has
<1>2. Len(Current.stack) - i \in 1 .. Len(Current.stack)
  BY <1>1
<1>3. Operand(i) \in Word
  BY <1>1, <1>2 DEF Operand
<1>4. Operand(i) \in Nat
  BY <1>3, Moduli DEF Word
<1>5. Operand(i) % M32 \in 0 .. M32 - 1
  BY <1>4, Moduli, Remainder
<1>6. M32 <= M64 /\ M32 \in Nat /\ M64 \in Nat
  BY Widths
<1> QED
  BY <1>3, <1>4, <1>5, <1>6 DEF U32, Word

-----------------------------------------------------------------------------
(* What a step of the execute loop may lead to.                            *)

LEMMA KeepOK ==
  ASSUME IInv, status = "running", NEW f, FrameOK(mod, f), Keep(f),
         GlobalsOK(mod, globals'), tables' \in Seq(Table)
  PROVE  IInv'
<1>1. /\ mod' = mod /\ result' = result /\ status' = status
      /\ outcome' = outcome /\ invoked' = invoked /\ ticks' = ticks + 1
      /\ frames' = [frames EXCEPT ![Len(frames)] = f]
  BY DEF Keep
<1>2. FramesOK(mod, frames) /\ frames # <<>> /\ ticks \in Nat
  BY DEF IInv
<1>3. FramesOK(mod, frames') /\ frames' # <<>>
  BY <1>1, <1>2, ReplaceTop
<1>4. ticks' \in Nat
  BY <1>1, <1>2
<1> QED
  BY <1>1, <1>3, <1>4 DEF IInv

LEMMA ContinueOK ==
  ASSUME IInv, status = "running", NEW f, FrameOK(mod, f), Continue(f)
  PROVE  IInv'
<1>1. Keep(f) /\ globals' = globals /\ tables' = tables
  BY DEF Continue
<1>2. GlobalsOK(mod, globals') /\ tables' \in Seq(Table)
  BY <1>1 DEF IInv
<1> QED
  BY <1>1, <1>2, KeepOK

LEMMA TrapOK ==
  ASSUME IInv, status = "running", NEW fault \in Faults, Trap(fault)
  PROVE  IInv'
<1>1. /\ mod' = mod /\ result' = result /\ globals' = globals
      /\ tables' = tables /\ invoked' = invoked
      /\ status' = "idle" /\ outcome' = fault /\ ticks' = 0
      /\ frames' = DropTop(frames, 1)
  BY DEF Trap
<1>2. FramesOK(mod, frames')
  BY <1>1, PopFrame DEF IInv
<1>3. outcome' \in Replies
  BY <1>1 DEF Replies
<1> QED
  BY <1>1, <1>2, <1>3 DEF IInv

LEMMA RunErrorOK ==
  ASSUME IInv, status = "running", NEW fault \in Faults \cup LinkErrors,
         NEW f, FrameOK(mod, f), RunError(fault, f)
  PROVE  IInv'
<1>1. /\ mod' = mod /\ result' = result /\ globals' = globals
      /\ tables' = tables /\ invoked' = invoked
      /\ status' = "idle" /\ outcome' = fault /\ ticks' = 0
      /\ frames' = [frames EXCEPT ![Len(frames)] = f]
  BY DEF RunError
<1>2. FramesOK(mod, frames')
  BY <1>1, ReplaceTop DEF IInv
<1>3. outcome' \in Replies
  BY <1>1 DEF Replies
<1> QED
  BY <1>1, <1>2, <1>3 DEF IInv

LEMMA PanicOK ==
  ASSUME IInv, Panic
  PROVE  IInv'
<1>1. /\ mod' = mod /\ result' = result /\ globals' = globals
      /\ tables' = tables /\ invoked' = invoked /\ frames' = frames
      /\ status' = "panicked" /\ outcome' = "Panic" /\ ticks' = ticks
  BY DEF Panic
<1>2. outcome' \in Replies
  BY <1>1 DEF Replies
<1> QED
  BY <1>1, <1>2 DEF IInv

LEMMA SettleOK ==
  ASSUME IInv, status = "running", NEW r, r.fault \in Faults \cup {"None"},
         r.fault = "None" => FrameOK(mod, r.frame), Settle(r)
  PROVE  IInv'
  BY ContinueOK, TrapOK DEF Settle

LEMMA FinishOK ==
  ASSUME IInv, status = "running", NEW f, FrameOK(mod, f), Finish(f)
  PROVE  IInv'
<1> DEFINE tys == ReturnTypes(mod, f.fn)
           vals == PopValues(f.stack, tys)
           below == DropTop(frames, 1)
<1>1. /\ f \in Frame /\ f.fn \in Nat /\ f.fn < Len(mod.code)
      /\ f.stack \in Seq(Word) /\ mod \in Modules
  BY DEF FrameOK, Frame, IInv
<1>2. tys \in Seq(ValTypes)
  BY <1>1, FunctionType
<1>3. FramesOK(mod, below) /\ below \in Seq(Frame)
  BY PopFrame DEF IInv, FramesOK
<1>4. CASE ~ CanPop(f.stack, tys)
  <2>1. RunError("StackUnderflow", [f EXCEPT !.stack = <<>>])
    BY <1>4 DEF Finish
  <2>2. <<>> \in Seq(Word)
    OBVIOUS
  <2>3. FrameOK(mod, [f EXCEPT !.stack = <<>>])
    BY <2>2, RestackedOK
  <2>4. "StackUnderflow" \in Faults
    BY DEF Faults
  <2> QED
    BY <2>1, <2>3, <2>4, RunErrorOK
<1>5. CASE CanPop(f.stack, tys) /\ below = <<>>
  <2>1. /\ frames' = <<>> /\ result' = [some |-> TRUE, vals |-> vals]
        /\ status' = "idle" /\ outcome' = "Ok" /\ ticks' = 0
        /\ mod' = mod /\ globals' = globals /\ tables' = tables
        /\ invoked' = invoked
    BY <1>5 DEF Finish
  <2>2. vals \in Seq(Value)
    BY <1>1, <1>2, <1>5, PopValuesType
  <2> HIDE DEF vals
  <2>3. result' \in [some : BOOLEAN, vals : Seq(Value)]
    BY <2>1, <2>2
  <2>4. FramesOK(mod, frames')
    BY <1>3, <1>5, <2>1
  <2>5. outcome' \in Replies
    BY <2>1 DEF Replies
  <2> QED
    BY <2>1, <2>3, <2>4, <2>5 DEF IInv
<1>6. CASE CanPop(f.stack, tys) /\ below # <<>>
  <2> DEFINE caller == below[Len(below)]
             resumed == [caller EXCEPT !.stack = PushValues(@, vals)]
  <2>1. /\ frames' = [below EXCEPT ![Len(below)].stack = PushValues(@, vals)]
        /\ ticks' = 0 /\ mod' = mod /\ globals' = globals /\ tables' = tables
        /\ result' = result /\ status' = status /\ outcome' = outcome
        /\ invoked' = invoked
    BY <1>6 DEF Finish
  <2>2. vals \in Seq(Value)
    BY <1>1, <1>2, <1>6, PopValuesType
  <2> HIDE DEF vals, below
  <2>3. Len(below) \in 1 .. Len(below)
    BY <1>3, <1>6
  <2>4. FrameOK(mod, caller)
    BY <1>3, <2>3 DEF FramesOK
  <2>5. caller \in Frame /\ caller.stack \in Seq(Word)
    BY <2>4 DEF FrameOK, Frame
  <2>6. PushValues(caller.stack, vals) \in Seq(Word)
    BY <2>2, <2>5, PushValuesType
  <2>7. FrameOK(mod, resumed)
    BY <2>4, <2>6, RestackedOK
  <2>8. frames' = [below EXCEPT ![Len(below)] = resumed]
    BY <2>1
  <2> HIDE DEF resumed
  <2>9. FramesOK(mod, frames') /\ frames' # <<>>
    BY <1>3, <1>6, <2>7, <2>8, ReplaceTop
  <2> QED
    BY <2>1, <2>9 DEF IInv
<1> QED
  BY <1>4, <1>5, <1>6

\* What frame_for_funcidx answers; a frame is only made for code that exists.
LEMMA LinkReply ==
  ASSUME NEW m \in Modules, NEW index \in Nat, NEW args
  PROVE  LET reply == frame_for_funcidx(m, index, args)
         IN /\ reply \in LinkErrors \cup {"Ok", "Panic"}
            /\ reply = "Ok" =>
                 /\ CodeIndex(m, index) \in Nat
                 /\ CodeIndex(m, index) < Len(m.code)
                 /\ ~ Mismatch(m, CodeIndex(m, index), args)
                 /\ m.imports = <<>> => CodeIndex(m, index) = index
<1> DEFINE reply == frame_for_funcidx(m, index, args)
<1>1. Len(m.imports) \in Nat /\ Len(m.functions) = Len(m.code) /\ Len(m.code) \in Nat
  BY ModuleType
<1>2. reply \in LinkErrors \cup {"Ok", "Panic"}
  BY DEF frame_for_funcidx, LinkErrors
<1>3. reply = "Ok" => /\ ~ Missing(m, index)
                      /\ ~ Mismatch(m, CodeIndex(m, index), args)
  BY DEF frame_for_funcidx
<1>4. ~ Missing(m, index) => /\ CodeIndex(m, index) \in Nat
                             /\ CodeIndex(m, index) < Len(m.code)
  <2> DEFINE k == Len(m.imports)
             n == Len(m.functions)
  <2>1. k \in Nat /\ n \in Nat /\ n = Len(m.code)
    BY <1>1
  <2>2. /\ ~ Missing(m, index) => ~ (index < k) /\ ~ (index - k >= n)
        /\ CodeIndex(m, index) = index - k
    BY DEF Missing, CodeIndex
  <2> HIDE DEF k, n
  <2> QED
    BY <2>1, <2>2
<1>5. m.imports = <<>> => CodeIndex(m, index) = index
  BY DEF CodeIndex
<1> QED
  BY <1>2, <1>3, <1>4, <1>5

LEMMA NewFrameOK ==
  ASSUME NEW m \in Modules, NEW i \in Nat, i < Len(m.code),
         NEW args \in Seq(Value),
         Strict => LocalsTyped(FuncTypeOf(m, i).params, args)
  PROVE  FrameOK(m, NewFrame(m, i, args))
<1> DEFINE f == NewFrame(m, i, args)
<1>1. /\ f \in Frame /\ f.fn = i /\ Len(f.locals) >= Len(LocalTypes(m, i))
      /\ LocalsTyped(FuncTypeOf(m, i).params, args) =>
           LocalsTyped(LocalTypes(m, i), f.locals)
  BY NewFrameType
<1> HIDE DEF f
<1>2. FrameOK(m, f)
  BY <1>1 DEF FrameOK
<1> QED
  BY <1>2 DEF f

LEMMA EnterCallOK ==
  ASSUME IInv, status = "running", NEW c \in Nat, NEW f, FrameOK(mod, f),
         EnterCall(c, f)
  PROVE  IInv'
<1> DEFINE params == FuncTypeOf(mod, c).params
           args == PopValues(f.stack, params)
           caller == [f EXCEPT !.stack = DropTop(@, Len(params))]
           reply == frame_for_funcidx(mod, c, args)
<1>1. mod \in Modules /\ f \in Frame /\ f.stack \in Seq(Word)
  BY DEF IInv, FrameOK, Frame
<1>2. Len(mod.functions) = Len(mod.code) /\ Len(mod.code) \in Nat
  BY <1>1, ModuleType
<1>3. {"GlobalIndexOutOfBounds", "StackUnderflow"} \subseteq Faults
  BY DEF Faults
<1>4. CASE c >= Len(mod.functions)
  <2>1. RunError("GlobalIndexOutOfBounds", f)
    BY <1>4 DEF EnterCall
  <2> QED
    BY <1>3, <2>1, RunErrorOK
<1>5. CASE c < Len(mod.functions) /\ ~ CanPop(f.stack, params)
  <2>1. RunError("StackUnderflow", [f EXCEPT !.stack = <<>>])
    BY <1>2, <1>5 DEF EnterCall
  <2>2. <<>> \in Seq(Word)
    OBVIOUS
  <2>3. FrameOK(mod, [f EXCEPT !.stack = <<>>])
    BY <2>2, RestackedOK
  <2> QED
    BY <1>3, <2>1, <2>3, RunErrorOK
<1>6. CASE c < Len(mod.functions) /\ CanPop(f.stack, params)
  <2>1. params \in Seq(ValTypes)
    BY <1>1, <1>2, <1>6, FunctionType
  <2> HIDE DEF params
  <2>1a. Len(params) \in Nat
    BY <2>1
  <2>2. /\ args \in Seq(Value) /\ Len(args) = Len(params)
        /\ \A j \in 1 .. Len(params) : args[j].ty = params[j]
    BY <1>1, <1>6, <2>1, PopValuesType
  <2>3. DropTop(f.stack, Len(params)) \in Seq(Word)
    BY <1>1, <1>6, <2>1a, DropTopType DEF CanPop
  <2>4. FrameOK(mod, caller)
    BY <2>3, RestackedOK
  <2>5. /\ reply \in LinkErrors \cup {"Ok", "Panic"}
        /\ reply = "Ok" =>
             /\ CodeIndex(mod, c) \in Nat /\ CodeIndex(mod, c) < Len(mod.code)
             /\ mod.imports = <<>> => CodeIndex(mod, c) = c
    BY <1>1, LinkReply
  <2> HIDE DEF args
  <2>6. CASE reply \in LinkErrors
    <3>1. RunError(reply, caller)
      BY <1>2, <1>6, <2>6 DEF EnterCall, params, args
    <3> HIDE DEF caller, reply
    <3> QED
      BY <2>4, <2>6, <3>1, RunErrorOK
  <2>7. CASE reply \notin LinkErrors /\ (reply = "Panic" \/ Len(frames) >= MaxFrames)
    <3>1. Panic
      BY <1>2, <1>6, <2>7 DEF EnterCall, params, args
    <3> QED
      BY <3>1, PanicOK
  <2>8. CASE reply \notin LinkErrors /\ ~ (reply = "Panic" \/ Len(frames) >= MaxFrames)
    <3> DEFINE called == NewFrame(mod, CodeIndex(mod, c), args)
    <3>1. /\ frames' = Append([frames EXCEPT ![Len(frames)] = caller], called)
          /\ ticks' = 0 /\ mod' = mod /\ globals' = globals /\ tables' = tables
          /\ result' = result /\ status' = status /\ outcome' = outcome
          /\ invoked' = invoked
      BY <1>2, <1>6, <2>8 DEF EnterCall, params, args
    <3>2. reply = "Ok"
      BY <2>5, <2>8
    <3>3. Strict => LocalsTyped(FuncTypeOf(mod, CodeIndex(mod, c)).params, args)
      BY <1>1, <2>2, <2>5, <3>2 DEF Strict, LocalsTyped, params
    <3>4. FrameOK(mod, called)
      BY <1>1, <2>2, <2>5, <3>2, <3>3, NewFrameOK
    <3> HIDE DEF caller, called, reply
    <3>5. FramesOK(mod, [frames EXCEPT ![Len(frames)] = caller])
      BY <2>4, ReplaceTop DEF IInv
    <3>6. FramesOK(mod, frames') /\ frames' # <<>>
      BY <3>1, <3>4, <3>5, PushFrame
    <3> QED
      BY <3>1, <3>6 DEF IInv
  <2> QED
    BY <2>6, <2>7, <2>8
<1>7. c >= Len(mod.functions) \/ c < Len(mod.functions)
  BY <1>2
<1> QED
  BY <1>4, <1>5, <1>6, <1>7

-----------------------------------------------------------------------------
(* Every operation preserves the invariant.                                *)

LEMMA UnderflowOK ==
  ASSUME IInv, status = "running", Trap("StackUnderflow")
  PROVE  IInv'
<1>1. "StackUnderflow" \in Faults
  BY DEF Faults
<1> QED
  BY <1>1, TrapOK

\* A block type that is resolvable resolves to a signature.
LEMMA ResolvedType ==
  ASSUME NEW m \in Modules, NEW o, o.n \in Nat, o.ty \in BlockTypes,
         Resolvable(m.types, o)
  PROVE  resolve_type(m.types, o) \in Signature
<1>1. CASE o.ty = "Index"
  <2>1. m.types \in Seq(FuncType) /\ o.n < Len(m.types)
    BY <1>1, ModuleType DEF Resolvable
  <2>2. At(m.types, o.n) \in FuncType
    BY <2>1 DEF At
  <2>3. At(m.types, o.n).results \in Seq(ValTypes)
    BY <2>2 DEF FuncType
  <2> QED
    BY <1>1, <2>3 DEF resolve_type, Signature
<1>2. CASE o.ty # "Index"
  <2>1. o.ty \in ValTypes \cup {"Unit"}
    BY <1>2 DEF BlockTypes
  <2>2. resolve_type(m.types, o) = ValueSig(o.ty)
    BY <1>2 DEF resolve_type
  <2> QED
    BY <2>1, <2>2, ValueSigType
<1> QED
  BY <1>1, <1>2

LEMMA ScopesOK ==
  ASSUME IInv, EnterScope \/ LeaveScope
  PROVE  IInv'
<1>1. CASE EnterScope
  <2>1. Stepping("StartScope") /\ mod \in Modules
    BY <1>1 DEF EnterScope, IInv
  <2>2. /\ status = "running" /\ FrameOK(mod, Fetched) /\ Fetched \in Frame
        /\ Arg.scope \in ScopeTypes /\ Arg.ty \in BlockTypes /\ Arg.n \in Nat
    BY <2>1, FetchedOK
  <2>3. CASE ~ Resolvable(mod.types, Arg)
    <3>1. Trap("UnresolvableTypeIndex") /\ "UnresolvableTypeIndex" \in Faults
      BY <1>1, <2>3 DEF EnterScope, Faults
    <3> QED
      BY <2>2, <3>1, TrapOK
  <2>4. CASE Resolvable(mod.types, Arg)
    <3> DEFINE sig == resolve_type(mod.types, Arg)
               f == push_control(Fetched, sig, Arg.scope)
    <3>1. Continue(f)
      BY <1>1, <2>4 DEF EnterScope
    <3>2. sig \in Signature
      BY <2>1, <2>2, <2>4, ResolvedType
    <3> HIDE DEF sig
    <3>3. f \in Frame /\ f.fn = Fetched.fn /\ f.locals = Fetched.locals
      BY <2>2, <3>2, PushControlType
    <3> HIDE DEF f
    <3>4. FrameOK(mod, f)
      BY <2>2, <3>3, SameFunction
    <3> QED
      BY <2>2, <3>1, <3>4, ContinueOK
  <2> QED
    BY <2>3, <2>4
<1>2. CASE LeaveScope
  <2>1. Stepping("EndScope")
    BY <1>2 DEF LeaveScope
  <2>2. status = "running" /\ FrameOK(mod, Fetched) /\ Fetched \in Frame
    BY <2>1, FetchedOK
  <2>3. CASE Arg.scope = "Program"
    <3>1. Finish(Fetched)
      BY <1>2, <2>3 DEF LeaveScope
    <3> QED
      BY <2>2, <3>1, FinishOK
  <2>4. CASE Arg.scope # "Program"
    <3> DEFINE r == end_scope(Fetched)
    <3>1. Settle(r)
      BY <1>2, <2>4 DEF LeaveScope
    <3>2. r.fault \in Faults \cup {"None"}
      BY DEF end_scope, Fine, Faulted, Faults
    <3>3. r.fault = "None" => /\ r.frame \in Frame /\ r.frame.fn = Fetched.fn
                              /\ r.frame.locals = Fetched.locals
      BY <2>2, EndScopeType
    <3> HIDE DEF r
    <3>4. r.fault = "None" => FrameOK(mod, r.frame)
      BY <2>2, <3>3, SameFunction
    <3> QED
      BY <2>2, <3>1, <3>2, <3>4, SettleOK
  <2> QED
    BY <2>3, <2>4
<1> QED
  BY <1>1, <1>2

\* A branch, from a frame of the current function.
LEMMA BranchOK ==
  ASSUME IInv, status = "running", NEW f, FrameOK(mod, f), NEW depth \in Nat,
         Settle(execute_branch(f, Ops, depth))
  PROVE  IInv'
<1> DEFINE r == execute_branch(f, Ops, depth)
<1>1. f \in Frame /\ Len(Ops) \in Nat
  BY CurrentOK DEF FrameOK
<1>2. r.fault \in Faults \cup {"None"}
  BY DEF execute_branch, Fine, Faulted, Faults
<1>3. r.fault = "None" => /\ r.frame \in Frame /\ r.frame.fn = f.fn
                          /\ r.frame.locals = f.locals
  BY <1>1, BranchType
<1> HIDE DEF r
<1>4. r.fault = "None" => FrameOK(mod, r.frame)
  BY <1>3, SameFunction
<1>5. Settle(r)
  BY DEF r
<1> QED
  BY <1>2, <1>4, <1>5, SettleOK

LEMMA BranchesOK ==
  ASSUME IInv, Br \/ BrIf \/ BrTable
  PROVE  IInv'
<1>1. CASE Br
  <2>1. Stepping("Br") /\ Settle(execute_branch(Fetched, Ops, Arg.n))
    BY <1>1 DEF Br
  <2>2. status = "running" /\ FrameOK(mod, Fetched) /\ Arg.n \in Nat
    BY <2>1, FetchedOK
  <2> QED
    BY <2>1, <2>2, BranchOK
<1>2. CASE BrIf
  <2>1. Stepping("BrIf")
    BY <1>2 DEF BrIf
  <2>2. status = "running" /\ Arg.n \in Nat
    BY <2>1, FetchedOK
  <2>3. CASE ~ Has(1)
    <3>1. Trap("StackUnderflow")
      BY <1>2, <2>3 DEF BrIf, Popping
    <3> QED
      BY <2>2, <3>1, UnderflowOK
  <2>4. CASE Has(1)
    <3>1. FrameOK(mod, Popped(1))
      BY <2>1, <2>4, PoppedOK
    <3>2. \/ Continue(Popped(1))
          \/ Settle(execute_branch(Popped(1), Ops, Arg.n))
      BY <1>2, <2>4 DEF BrIf, Popping
    <3> QED
      BY <2>2, <3>1, <3>2, ContinueOK, BranchOK
  <2> QED
    BY <2>3, <2>4
<1>3. CASE BrTable
  <2>1. Stepping("BrTable")
    BY <1>3 DEF BrTable
  <2>2. status = "running" /\ Arg.n \in Nat /\ Arg.tbl \in Seq(Nat)
    BY <2>1, FetchedOK
  <2>3. CASE ~ Has(1)
    <3>1. Trap("StackUnderflow")
      BY <1>3, <2>3 DEF BrTable, Popping
    <3> QED
      BY <2>2, <3>1, UnderflowOK
  <2>4. CASE Has(1)
    <3> DEFINE index == U32(Operand(0))
               depth == IF index < Len(Arg.tbl) THEN At(Arg.tbl, index)
                                                ELSE Arg.n
    <3>1. Settle(execute_branch(Popped(1), Ops, depth))
      BY <1>3, <2>4 DEF BrTable, Popping
    <3>2. index \in Nat
      BY <2>2, <2>4, OperandWord
    <3> HIDE DEF index
    <3>3. depth \in Nat
      BY <2>2, <3>2 DEF At
    <3> HIDE DEF depth
    <3>4. FrameOK(mod, Popped(1))
      BY <2>1, <2>4, PoppedOK
    <3> QED
      BY <2>2, <3>1, <3>3, <3>4, BranchOK
  <2> QED
    BY <2>3, <2>4
<1> QED
  BY <1>1, <1>2, <1>3

\* The scans of If and Else move the pc, and leave it a number.
LEMMA JumpedOK ==
  ASSUME NEW m, NEW f, FrameOK(m, f), NEW pc \in Nat
  PROVE  FrameOK(m, [f EXCEPT !.pc = pc])
<1> DEFINE g == [f EXCEPT !.pc = pc]
<1>1. f \in Frame
  BY DEF FrameOK
<1>2. g \in Frame /\ g.fn = f.fn /\ g.locals = f.locals
  BY <1>1, WithPc
<1> HIDE DEF g
<1>3. FrameOK(m, g)
  BY <1>2, SameFunction
<1> QED
  BY <1>3 DEF g

LEMMA ConditionsOK ==
  ASSUME IInv, If \/ Else
  PROVE  IInv'
<1>1. CASE If
  <2>1. Stepping("If")
    BY <1>1 DEF If
  <2>2. status = "running"
    BY <2>1, FetchedOK
  <2>3. Len(Ops) \in Nat
    BY <2>2, CurrentOK
  <2>4. CASE ~ Has(1)
    <3>1. Trap("StackUnderflow")
      BY <1>1, <2>4 DEF If, Popping
    <3> QED
      BY <2>2, <3>1, UnderflowOK
  <2>5. CASE Has(1)
    <3> DEFINE pc == skip_then(Ops, Popped(1).pc)
    <3>1. FrameOK(mod, Popped(1)) /\ Popped(1).pc \in Nat
      BY <2>1, <2>5, PoppedOK
    <3>2. pc \in Nat
      BY <2>3, <3>1, SkipThenPc
    <3>3. \/ Continue(Popped(1))
          \/ Continue([Popped(1) EXCEPT !.pc = pc])
      BY <1>1, <2>5 DEF If, Popping
    <3> HIDE DEF pc
    <3>4. FrameOK(mod, [Popped(1) EXCEPT !.pc = pc])
      BY <3>1, <3>2, JumpedOK
    <3> QED
      BY <2>2, <3>1, <3>3, <3>4, ContinueOK
  <2> QED
    BY <2>4, <2>5
<1>2. CASE Else
  <2> DEFINE pc == skip_else(Ops, Fetched.pc)
  <2>1. Stepping("Else") /\ Continue([Fetched EXCEPT !.pc = pc])
    BY <1>2 DEF Else
  <2>2. status = "running" /\ FrameOK(mod, Fetched) /\ Fetched.pc \in Nat
    BY <2>1, FetchedOK
  <2>3. Len(Ops) \in Nat
    BY <2>2, CurrentOK
  <2>4. pc \in Nat
    BY <2>2, <2>3, SkipElsePc
  <2> HIDE DEF pc
  <2>5. FrameOK(mod, [Fetched EXCEPT !.pc = pc])
    BY <2>2, <2>4, JumpedOK
  <2> QED
    BY <2>1, <2>2, <2>5, ContinueOK
<1> QED
  BY <1>1, <1>2

\* Calls and returns, and what stops a run.
LEMMA CallsOK ==
  ASSUME IInv,
         ProgramEnd \/ OutOfTicks \/ Nop \/ Unreachable \/ Return \/ Call
  PROVE  IInv'
<1>1. CASE ProgramEnd
  <2>1. status = "running" /\ Finish(Current)
    BY <1>1 DEF ProgramEnd
  <2>2. FrameOK(mod, Current)
    BY <2>1, CurrentOK
  <2> QED
    BY <2>1, <2>2, FinishOK
<1>2. CASE OutOfTicks
  <2>1. status = "running" /\ Trap("OutOfTicks") /\ "OutOfTicks" \in Faults
    BY <1>2 DEF OutOfTicks, Faults
  <2> QED
    BY <2>1, TrapOK
<1>3. CASE Nop
  <2>1. Stepping("Nop") /\ Continue(Fetched)
    BY <1>3 DEF Nop
  <2>2. status = "running" /\ FrameOK(mod, Fetched)
    BY <2>1, FetchedOK
  <2> QED
    BY <2>1, <2>2, ContinueOK
<1>4. CASE Unreachable
  <2>1. /\ Stepping("Unreachable") /\ Trap("Unreachable")
        /\ "Unreachable" \in Faults
    BY <1>4 DEF Unreachable, Faults
  <2> QED
    BY <2>1, FetchedOK, TrapOK
<1>5. CASE Return
  <2>1. Stepping("Return") /\ Finish(Fetched)
    BY <1>5 DEF Return
  <2>2. status = "running" /\ FrameOK(mod, Fetched)
    BY <2>1, FetchedOK
  <2> QED
    BY <2>1, <2>2, FinishOK
<1>6. CASE Call
  <2>1. Stepping("Call") /\ EnterCall(Arg.n, Fetched)
    BY <1>6 DEF Call
  <2>2. status = "running" /\ FrameOK(mod, Fetched) /\ Arg.n \in Nat
    BY <2>1, FetchedOK
  <2> QED
    BY <2>1, <2>2, EnterCallOK
<1> QED
  BY <1>1, <1>2, <1>3, <1>4, <1>5, <1>6

\* A table element that is not null holds a function index.
LEMMA ElementIndex ==
  ASSUME NEW elem \in Value \cup {NoElem}, elem # NoElem,
         elem # Val("FuncRef", NoRef), elem.ty = "FuncRef"
  PROVE  elem.v \in Nat
<1>1. elem \in [ty : ValTypes, v : Int] /\ elem \in Value
  BY DEF Value
<1>2. elem.v \in Payload("FuncRef")
  BY <1>1, ValueFields
<1>3. elem.v \in 0 .. M32 - 1 \cup {NoRef}
  BY <1>2, PayloadCases DEF RefTypes
<1>4. elem.v # NoRef
  BY <1>1 DEF Val
<1>5. M32 \in Nat
  BY Widths
<1> QED
  BY <1>3, <1>4, <1>5

\* call_indirect stops, or calls the function that the table names, which is of
\* the type the operation names.
LEMMA CallIndirectDetail ==
  ASSUME IInv, CallIndirect, Has(1)
  PROVE  \/ Trap("UndefinedElement")
         \/ Trap("UninitializedElement")
         \/ Trap("IndirectCallTypeMismatch")
         \/ Arg.n >= Len(mod.types) /\ Trap("UnresolvableTypeIndex")
         \/ \E c \in Nat : /\ c < Len(mod.functions)
                           /\ FuncTypeOf(mod, c) = At(mod.types, Arg.n)
                           /\ EnterCall(c, Popped(1))
<1> DEFINE table == At(tables, Arg.m)
           index == U32(Operand(0))
           elem == At(table.elements, index)
<1>1. Stepping("CallIndirect")
  BY DEF CallIndirect
<1>2. status = "running" /\ Arg.m \in Nat
  BY <1>1, FetchedOK
<1>3. tables \in Seq(Table) /\ Len(tables) \in Nat /\ Len(mod.functions) \in Nat
  BY ModuleType DEF IInv
<1>4. index \in Nat
  BY <1>2, OperandWord
<1>5. CASE Arg.m >= Len(tables)
  BY <1>5 DEF CallIndirect, Popping
<1>6. CASE Arg.m < Len(tables)
  <2>1. table \in Table
    BY <1>2, <1>3, <1>6 DEF At
  <2>2. table.elements \in Seq(Value \cup {NoElem}) /\ Len(table.elements) \in Nat
    BY <2>1 DEF Table
  <2>3. ~ (Arg.m >= Len(tables))
    BY <1>2, <1>3, <1>6
  <2>4. \/ Trap("UndefinedElement")
        \/ Trap("UninitializedElement")
        \/ Arg.n >= Len(mod.types) /\ Trap("UnresolvableTypeIndex")
        \/ Trap("IndirectCallTypeMismatch")
        \/ /\ ~ (index >= Len(table.elements))
           /\ ~ (elem = NoElem \/ elem = Val("FuncRef", NoRef))
           /\ ~ (elem.ty # "FuncRef" \/ elem.v >= Len(mod.functions))
           /\ ~ (At(mod.types, Arg.n) # FuncTypeOf(mod, elem.v))
           /\ EnterCall(elem.v, Popped(1))
    BY <2>3 DEF CallIndirect, Popping
  <2>5. CASE /\ ~ (index >= Len(table.elements))
             /\ ~ (elem = NoElem \/ elem = Val("FuncRef", NoRef))
             /\ ~ (elem.ty # "FuncRef" \/ elem.v >= Len(mod.functions))
             /\ ~ (At(mod.types, Arg.n) # FuncTypeOf(mod, elem.v))
             /\ EnterCall(elem.v, Popped(1))
    <3> HIDE DEF index, table
    <3>1. index < Len(table.elements)
      BY <1>4, <2>2, <2>5
    <3>2. elem \in Value \cup {NoElem}
      BY <1>4, <2>2, <3>1 DEF At
    <3> HIDE DEF elem
    <3>3. elem.v \in Nat
      BY <2>5, <3>2, ElementIndex
    <3>4. elem.v < Len(mod.functions)
      BY <1>3, <2>5, <3>3
    <3>5. FuncTypeOf(mod, elem.v) = At(mod.types, Arg.n)
      BY <2>5
    <3> QED
      BY <2>5, <3>3, <3>4, <3>5, Zenon
  <2> QED
    BY <2>4, <2>5
<1> QED
  BY <1>2, <1>3, <1>5, <1>6

LEMMA CallIndirectCases ==
  ASSUME IInv, CallIndirect
  PROVE  \/ \E fault \in Faults : Trap(fault)
         \/ Has(1) /\ \E c \in Nat : EnterCall(c, Popped(1))
<1>1. {"StackUnderflow", "UndefinedElement", "UninitializedElement",
       "UnresolvableTypeIndex", "IndirectCallTypeMismatch"} \subseteq Faults
  BY DEF Faults
<1>2. CASE ~ Has(1)
  <2>1. Trap("StackUnderflow")
    BY <1>2 DEF CallIndirect, Popping
  <2> QED
    BY <1>1, <2>1
<1>3. CASE Has(1)
  BY <1>1, <1>3, CallIndirectDetail
<1> QED
  BY <1>2, <1>3

LEMMA CallIndirectOK ==
  ASSUME IInv, CallIndirect
  PROVE  IInv'
<1>1. Stepping("CallIndirect")
  BY DEF CallIndirect
<1>2. status = "running"
  BY <1>1, FetchedOK
<1>3. Has(1) => FrameOK(mod, Popped(1))
  BY <1>1, PoppedOK
<1>4. CASE \E fault \in Faults : Trap(fault)
  BY <1>2, <1>4, TrapOK
<1>5. CASE Has(1) /\ \E c \in Nat : EnterCall(c, Popped(1))
  BY <1>2, <1>3, <1>5, EnterCallOK
<1> QED
  BY <1>4, <1>5, CallIndirectCases

\* Operations that pop and push words only.
LEMMA StackOpsOK ==
  ASSUME IInv, Drop \/ Select
  PROVE  IInv'
<1>1. CASE Drop
  <2>1. Stepping("Drop")
    BY <1>1 DEF Drop
  <2>2. status = "running"
    BY <2>1, FetchedOK
  <2>3. CASE ~ Has(1)
    <3>1. Trap("StackUnderflow")
      BY <1>1, <2>3 DEF Drop, Popping
    <3> QED
      BY <2>2, <3>1, UnderflowOK
  <2>4. CASE Has(1)
    <3>1. Continue(Popped(1))
      BY <1>1, <2>4 DEF Drop, Popping
    <3>2. FrameOK(mod, Popped(1))
      BY <2>1, <2>4, PoppedOK
    <3> QED
      BY <2>2, <3>1, <3>2, ContinueOK
  <2> QED
    BY <2>3, <2>4
<1>2. CASE Select
  <2> DEFINE w == IF U32(Operand(0)) # 0 THEN Operand(2) ELSE Operand(1)
  <2>1. PICK name : Stepping(name) /\ Popping(3, Continue(PopPush(3, w)))
    BY <1>2 DEF Select
  <2>2. status = "running"
    BY <2>1, FetchedOK
  <2>3. CASE ~ Has(3)
    <3>1. Trap("StackUnderflow")
      BY <2>1, <2>3 DEF Popping
    <3> QED
      BY <2>2, <3>1, UnderflowOK
  <2>4. CASE Has(3)
    <3>1. Continue(PopPush(3, w))
      BY <2>1, <2>4 DEF Popping
    <3>2. Operand(2) \in Word /\ Operand(1) \in Word
      BY <2>2, <2>4, OperandWord
    <3>3. w \in Word
      BY <3>2
    <3> HIDE DEF w
    <3>4. FrameOK(mod, PopPush(3, w))
      BY <2>1, <2>4, <3>3, PopPushOK
    <3> QED
      BY <2>2, <3>1, <3>4, ContinueOK
  <2> QED
    BY <2>3, <2>4
<1> QED
  BY <1>1, <1>2

\* A push without a pop.
LEMMA PushOK ==
  ASSUME IInv, NEW name, Stepping(name), NEW w \in Word,
         Continue(PopPush(0, w))
  PROVE  IInv'
<1>1. status = "running"
  BY FetchedOK
<1>2. Has(0)
  BY <1>1, CurrentOK DEF Has
<1>3. FrameOK(mod, PopPush(0, w))
  BY <1>2, PopPushOK
<1> QED
  BY <1>1, <1>3, ContinueOK

LEMMA ConstOK ==
  ASSUME IInv, ConstOp
  PROVE  IInv'
<1>1. PICK name : Stepping(name) /\ Continue(PopPush(0, Arg.k % M64))
  BY DEF ConstOp
<1>2. Arg.k \in Int
  BY <1>1, FetchedOK
<1>3. Arg.k % M64 \in Word
  BY <1>2, Moduli, Remainder DEF Word
<1> QED
  BY <1>1, <1>3, PushOK

LEMMA ReadsOK ==
  ASSUME IInv, GetLocal \/ GetGlobal
  PROVE  IInv'
<1>1. CASE GetLocal
  <2>1. Stepping("GetLocal")
    BY <1>1 DEF GetLocal
  <2>2. status = "running" /\ Arg.n \in Nat
    BY <2>1, FetchedOK
  <2>3. CASE ~ (Arg.n < Len(Current.locals))
    <3>1. Trap("LocalIndexOutOfBounds") /\ "LocalIndexOutOfBounds" \in Faults
      BY <1>1, <2>3 DEF GetLocal, Faults
    <3> QED
      BY <2>2, <3>1, TrapOK
  <2>4. CASE Arg.n < Len(Current.locals)
    <3>1. Continue(PopPush(0, push_to(At(Current.locals, Arg.n))))
      BY <1>1, <2>4 DEF GetLocal
    <3>2. Current.locals \in Seq(Value)
      BY <2>2, CurrentOK
    <3>3. At(Current.locals, Arg.n) \in Value
      BY <2>2, <2>4, <3>2 DEF At
    <3>4. push_to(At(Current.locals, Arg.n)) \in Word
      BY <3>3, PushWord
    <3> QED
      BY <2>1, <3>1, <3>4, PushOK
  <2> QED
    BY <2>3, <2>4
<1>2. CASE GetGlobal
  <2>1. Stepping("GetGlobal")
    BY <1>2 DEF GetGlobal
  <2>2. status = "running" /\ Arg.n \in Nat
    BY <2>1, FetchedOK
  <2>3. CASE ~ (Arg.n < Len(globals))
    <3>1. Trap("GlobalIndexOutOfBounds") /\ "GlobalIndexOutOfBounds" \in Faults
      BY <1>2, <2>3 DEF GetGlobal, Faults
    <3> QED
      BY <2>2, <3>1, TrapOK
  <2>4. CASE Arg.n < Len(globals)
    <3>1. Continue(PopPush(0, push_to(At(globals, Arg.n))))
      BY <1>2, <2>4 DEF GetGlobal
    <3>2. globals \in Seq(Value)
      BY DEF IInv, GlobalsOK
    <3>3. At(globals, Arg.n) \in Value
      BY <2>2, <2>4, <3>2 DEF At
    <3>4. push_to(At(globals, Arg.n)) \in Word
      BY <3>3, PushWord
    <3> QED
      BY <2>1, <3>1, <3>4, PushOK
  <2> QED
    BY <2>3, <2>4
<1> QED
  BY <1>1, <1>2

\* A declared local is overwritten with a value of its type.
LEMMA StoredLocalOK ==
  ASSUME NEW m \in Modules, NEW f, FrameOK(m, f), NEW n \in Nat,
         n < Len(f.locals), n < Len(LocalTypes(m, f.fn)),
         NEW val \in Value, val.ty = At(LocalTypes(m, f.fn), n)
  PROVE  FrameOK(m, [f EXCEPT !.locals[n + 1] = val])
<1> DEFINE tys == LocalTypes(m, f.fn)
           locals == [f.locals EXCEPT ![n + 1] = val]
           g == [f EXCEPT !.locals[n + 1] = val]
<1>1. /\ f \in Frame /\ f.locals \in Seq(Value) /\ f.fn \in Nat
      /\ f.fn < Len(m.code) /\ Len(f.locals) >= Len(tys)
      /\ Strict => LocalsTyped(tys, f.locals)
  BY DEF FrameOK, Frame
<1>2. n + 1 \in 1 .. Len(f.locals)
  BY <1>1
<1>3. /\ locals \in Seq(Value) /\ Len(locals) = Len(f.locals)
      /\ locals[n + 1] = val
      /\ \A j \in 1 .. Len(f.locals) : j # n + 1 => locals[j] = f.locals[j]
  BY <1>1, <1>2
<1>4. g = [f EXCEPT !.locals = locals]
  BY <1>1 DEF Frame
<1> HIDE DEF locals, g
<1>5. g \in Frame /\ g.fn = f.fn /\ g.locals = locals
  BY <1>1, <1>3, <1>4 DEF Frame
<1>6. tys \in Seq(ValTypes)
  BY <1>1, FunctionType
<1> HIDE DEF tys
<1>7. ASSUME Strict PROVE LocalsTyped(tys, locals)
  <2>1. /\ Len(f.locals) = Len(tys) /\ Len(tys) \in Nat
        /\ \A j \in 1 .. Len(tys) : f.locals[j].ty = tys[j]
    BY <1>1, <1>6, <1>7 DEF LocalsTyped
  <2>2. val.ty = tys[n + 1]
    BY DEF tys, At
  <2>3. \A j \in 1 .. Len(tys) : locals[j].ty = tys[j]
    BY <1>3, <2>1, <2>2
  <2> QED
    BY <1>3, <2>1, <2>3 DEF LocalsTyped
<1>8. Len(g.locals) >= Len(tys)
  BY <1>1, <1>3, <1>5
<1>9. FrameOK(m, g)
  BY <1>1, <1>5, <1>7, <1>8 DEF FrameOK, tys
<1> QED
  BY <1>9 DEF g

LEMMA LocalTrapOK ==
  ASSUME IInv, status = "running", Trap("LocalIndexOutOfBounds")
  PROVE  IInv'
<1>1. "LocalIndexOutOfBounds" \in Faults
  BY DEF Faults
<1> QED
  BY <1>1, TrapOK

LEMMA StoreLocalOK ==
  ASSUME IInv, SetLocal \/ TeeLocal
  PROVE  IInv'
<1> DEFINE tys == LocalTypes(mod, Current.fn)
           ty == At(tys, Arg.n)
<1>1. \E name : Stepping(name)
  BY DEF SetLocal, TeeLocal
<1>2. /\ status = "running" /\ Arg.n \in Nat
      /\ Fetched.fn = Current.fn /\ Fetched.locals = Current.locals
      /\ FrameOK(mod, Fetched)
  BY <1>1, FetchedOK
<1>3. /\ mod \in Modules /\ Current.locals \in Seq(Value)
      /\ tys \in Seq(ValTypes)
  BY <1>2, CurrentOK, FunctionType
<1>4. CASE Arg.n >= Len(Current.locals)
  <2>1. Trap("LocalIndexOutOfBounds")
    BY <1>4 DEF SetLocal, TeeLocal, set_local_from_stack
  <2> QED
    BY <1>2, <2>1, LocalTrapOK
<1>5. CASE ~ (Arg.n >= Len(Current.locals)) /\ Arg.n >= Len(tys)
  <2>1. Panic
    BY <1>5 DEF SetLocal, TeeLocal, set_local_from_stack
  <2> QED
    BY <2>1, PanicOK
<1>6. CASE /\ ~ (Arg.n >= Len(Current.locals)) /\ ~ (Arg.n >= Len(tys))
           /\ ~ Has(1)
  <2>1. Trap("StackUnderflow")
    BY <1>6 DEF SetLocal, TeeLocal, set_local_from_stack, Popping
  <2> QED
    BY <1>2, <2>1, UnderflowOK
<1>7. CASE /\ ~ (Arg.n >= Len(Current.locals)) /\ ~ (Arg.n >= Len(tys))
           /\ Has(1)
  <2>1. \/ Continue([Popped(1) EXCEPT
                       !.locals[Arg.n + 1] = pop_from(ty, Operand(0))])
        \/ Continue([Fetched EXCEPT
                       !.locals[Arg.n + 1] = top_of(ty, Operand(0))])
    BY <1>7 DEF SetLocal, TeeLocal, set_local_from_stack, Popping
  <2>2. /\ Popped(1).fn = Current.fn /\ Popped(1).locals = Current.locals
        /\ FrameOK(mod, Popped(1))
    BY <1>1, <1>7, PoppedOK
  <2>3. Operand(0) \in Word
    BY <1>2, <1>7, OperandWord
  <2> HIDE DEF tys
  <2>4. Arg.n < Len(Current.locals) /\ Arg.n < Len(tys)
    BY <1>2, <1>3, <1>7
  <2>5. ty \in ValTypes
    BY <1>2, <1>3, <2>4 DEF At
  <2> HIDE DEF ty
  <2>6. /\ pop_from(ty, Operand(0)) \in Value /\ pop_from(ty, Operand(0)).ty = ty
        /\ top_of(ty, Operand(0)) \in Value /\ top_of(ty, Operand(0)).ty = ty
    BY <2>3, <2>5, PopValue, TopValue
  <2>7. /\ ty = At(LocalTypes(mod, Popped(1).fn), Arg.n)
        /\ ty = At(LocalTypes(mod, Fetched.fn), Arg.n)
        /\ Arg.n < Len(Popped(1).locals) /\ Arg.n < Len(Fetched.locals)
        /\ Arg.n < Len(LocalTypes(mod, Popped(1).fn))
        /\ Arg.n < Len(LocalTypes(mod, Fetched.fn))
    BY <1>2, <2>2, <2>4 DEF ty, tys
  <2>8. FrameOK(mod, [Popped(1) EXCEPT
                        !.locals[Arg.n + 1] = pop_from(ty, Operand(0))])
    BY <1>2, <1>3, <2>2, <2>6, <2>7, StoredLocalOK
  <2>9. FrameOK(mod, [Fetched EXCEPT
                        !.locals[Arg.n + 1] = top_of(ty, Operand(0))])
    BY <1>2, <1>3, <2>6, <2>7, StoredLocalOK
  <2> QED
    BY <1>2, <2>1, <2>8, <2>9, ContinueOK
<1> QED
  BY <1>4, <1>5, <1>6, <1>7

LEMMA SetGlobalOK ==
  ASSUME IInv, SetGlobal
  PROVE  IInv'
<1> DEFINE ty == At(mod.globals, Arg.n).ty
           val == pop_from(ty, Operand(0))
<1>1. Stepping("SetGlobal")
  BY DEF SetGlobal
<1>2. status = "running" /\ Arg.n \in Nat
  BY <1>1, FetchedOK
<1>3. CASE Arg.n >= Len(globals)
  <2>1. Trap("GlobalIndexOutOfBounds") /\ "GlobalIndexOutOfBounds" \in Faults
    BY <1>3 DEF SetGlobal, Faults
  <2> QED
    BY <1>2, <2>1, TrapOK
<1>4. CASE ~ (Arg.n >= Len(globals)) /\ ~ Has(1)
  <2>1. Trap("StackUnderflow")
    BY <1>4 DEF SetGlobal, Popping
  <2> QED
    BY <1>2, <2>1, UnderflowOK
<1>5. CASE ~ (Arg.n >= Len(globals)) /\ Has(1)
  <2>1. /\ globals' = [globals EXCEPT ![Arg.n + 1] = val]
        /\ Keep(Popped(1)) /\ tables' = tables
    BY <1>5 DEF SetGlobal, Popping
  <2>2. /\ mod \in Modules /\ globals \in Seq(Value)
        /\ Len(globals) = Len(mod.globals)
        /\ \A i \in 1 .. Len(globals) : globals[i].ty = mod.globals[i].ty
        /\ tables \in Seq(Table)
    BY DEF IInv, GlobalsOK
  <2>3. mod.globals \in Seq(Value)
    BY <2>2, ModuleType
  <2>4. Arg.n + 1 \in 1 .. Len(mod.globals)
    BY <1>2, <1>5, <2>2
  <2>5. At(mod.globals, Arg.n) \in Value
    BY <2>3, <2>4 DEF At
  <2>6. ty \in ValTypes /\ ty = mod.globals[Arg.n + 1].ty
    BY <2>5, ValueFields DEF At
  <2>7. Operand(0) \in Word
    BY <1>2, <1>5, OperandWord
  <2> HIDE DEF ty
  <2>8. val \in Value /\ val.ty = ty
    BY <2>6, <2>7, PopValue
  <2> HIDE DEF val
  <2>9. /\ globals' \in Seq(Value) /\ Len(globals') = Len(globals)
        /\ globals'[Arg.n + 1] = val
        /\ \A i \in 1 .. Len(globals) : i # Arg.n + 1 => globals'[i] = globals[i]
    BY <2>1, <2>2, <2>4, <2>8
  <2>10. GlobalsOK(mod, globals')
    BY <2>2, <2>6, <2>8, <2>9 DEF GlobalsOK
  <2>11. FrameOK(mod, Popped(1)) /\ tables' \in Seq(Table)
    BY <1>1, <1>5, <2>1, <2>2, PoppedOK
  <2> QED
    BY <1>2, <2>1, <2>10, <2>11, KeepOK
<1> QED
  BY <1>3, <1>4, <1>5

LEMMA StoredElementOK ==
  ASSUME NEW ts \in Seq(Table), NEW n \in 1 .. Len(ts),
         NEW i \in 1 .. Len(ts[n].elements), NEW val \in Value
  PROVE  [ts EXCEPT ![n].elements[i] = val] \in Seq(Table)
<1> DEFINE elements == [ts[n].elements EXCEPT ![i] = val]
           table == [ts[n] EXCEPT !.elements = elements]
<1>1. ts[n] \in Table /\ ts[n].elements \in Seq(Value \cup {NoElem})
  <2>1. ts[n] \in Table
    BY ElementOfSeq
  <2> QED
    BY <2>1 DEF Table
<1>2. elements \in Seq(Value \cup {NoElem})
  <2> DEFINE S == Value \cup {NoElem}
             old == ts[n].elements
  <2>1. old \in Seq(S) /\ i \in 1 .. Len(old) /\ val \in S
    BY <1>1
  <2> HIDE DEF S, old
  <2>2. [old EXCEPT ![i] = val] \in Seq(S)
    BY <2>1
  <2> QED
    BY <2>2 DEF S, old
<1>3. [ts EXCEPT ![n].elements[i] = val] = [ts EXCEPT ![n] = table]
  BY <1>1 DEF Table
<1> HIDE DEF elements
<1>4. table \in Table
  BY <1>1, <1>2 DEF Table
<1> HIDE DEF table
<1>5. [ts EXCEPT ![n] = table] \in Seq(Table)
  BY <1>4, ExceptSeq
<1> QED
  BY <1>3, <1>5

LEMMA TablesOK ==
  ASSUME IInv, TableGet \/ TableSet
  PROVE  IInv'
<1> DEFINE table == At(tables, Arg.n)
           index == U32(Operand(0))
           elem == At(table.elements, index)
<1>1. \E name : Stepping(name)
  BY DEF TableGet, TableSet
<1>2. status = "running" /\ Arg.n \in Nat /\ tables \in Seq(Table)
  BY <1>1, FetchedOK DEF IInv
<1>3. CASE ~ Has(1)
  <2>1. Trap("StackUnderflow")
    BY <1>3 DEF TableGet, TableSet, Popping
  <2> QED
    BY <1>2, <2>1, UnderflowOK
<1>4. CASE Has(1) /\ Arg.n >= Len(tables)
  <2>1. Trap("GlobalIndexOutOfBounds") /\ "GlobalIndexOutOfBounds" \in Faults
    BY <1>4 DEF TableGet, TableSet, Popping, Faults
  <2> QED
    BY <1>2, <2>1, TrapOK
<1>5. CASE /\ Has(1) /\ ~ (Arg.n >= Len(tables))
           /\ index >= Len(table.elements)
  <2>1. Trap("MemoryOutOfBounds") /\ "MemoryOutOfBounds" \in Faults
    BY <1>5 DEF TableGet, TableSet, Popping, Faults
  <2> QED
    BY <1>2, <2>1, TrapOK
<1>6. CASE /\ Has(1) /\ ~ (Arg.n >= Len(tables))
           /\ ~ (index >= Len(table.elements))
  <2>1. index \in Nat
    BY <1>2, <1>6, OperandWord
  <2>2. Arg.n + 1 \in 1 .. Len(tables)
    BY <1>2, <1>6
  <2>3. table \in Table
    BY <1>2, <2>2 DEF At
  <2>4. table.elements \in Seq(Value \cup {NoElem}) /\ table.ref_type \in RefTypes
    BY <2>3 DEF Table
  <2>5. CASE TableGet
    <3> DEFINE w == IF elem = NoElem THEN NullWord ELSE push_to(elem)
    <3>1. Continue(PopPush(1, w))
      BY <1>6, <2>5 DEF TableGet, Popping
    <3> HIDE DEF table, index
    <3>2. elem \in Value \cup {NoElem}
      BY <1>6, <2>1, <2>4 DEF At
    <3> HIDE DEF elem
    <3>3. NullWord \in Word
      BY Widths DEF NullWord, Word
    <3>4. w \in Word
      BY <3>2, <3>3, PushWord
    <3> HIDE DEF w
    <3>5. FrameOK(mod, PopPush(1, w))
      BY <1>1, <1>6, <3>4, PopPushOK
    <3> QED
      BY <1>2, <3>1, <3>5, ContinueOK
  <2>6. CASE TableSet /\ ~ Has(2)
    <3>1. Trap("StackUnderflow")
      BY <1>6, <2>6 DEF TableSet, Popping
    <3> QED
      BY <1>2, <3>1, UnderflowOK
  <2>7. CASE TableSet /\ Has(2)
    <3> DEFINE val == pop_from(table.ref_type, Operand(1))
    <3>1. /\ tables' = [tables EXCEPT ![Arg.n + 1].elements[index + 1] = val]
          /\ Keep(Popped(2)) /\ globals' = globals
      BY <1>6, <2>7 DEF TableSet, Popping
    <3>2. Operand(1) \in Word
      BY <1>2, <2>7, OperandWord
    <3>3. table.ref_type \in ValTypes
      BY <2>4 DEF ValTypes
    <3>4. table = tables[Arg.n + 1]
      BY DEF At
    <3> HIDE DEF table
    <3>5. val \in Value
      BY <3>2, <3>3, PopValue
    <3> HIDE DEF index, val
    <3>6. index + 1 \in 1 .. Len(tables[Arg.n + 1].elements)
      <4>1. Len(table.elements) \in Nat
        BY <2>4
      <4> QED
        BY <1>6, <2>1, <3>4, <4>1
    <3>7. tables' \in Seq(Table)
      BY <1>2, <2>2, <3>1, <3>5, <3>6, StoredElementOK
    <3>8. GlobalsOK(mod, globals')
      BY <3>1 DEF IInv
    <3>9. FrameOK(mod, Popped(2))
      BY <1>1, <2>7, PoppedOK
    <3> QED
      BY <1>2, <3>1, <3>7, <3>8, <3>9, KeepOK
  <2> QED
    BY <2>5, <2>6, <2>7
<1> QED
  BY <1>3, <1>4, <1>5, <1>6

LEMMA NumericOK ==
  ASSUME IInv, NumericOp
  PROVE  IInv'
<1>1. PICK name \in NumericOps :
        /\ Stepping(name)
        /\ Popping(Arity(name),
             LET reply == Numeric(name, IF Arity(name) = 1 THEN <<Operand(0)>>
                                        ELSE <<Operand(1), Operand(0)>>)
             IN IF reply.fault = "None"
                THEN Continue(PopPush(Arity(name), reply.w))
                ELSE Trap(reply.fault))
  BY DEF NumericOp
<1> DEFINE args == IF Arity(name) = 1 THEN <<Operand(0)>>
                   ELSE <<Operand(1), Operand(0)>>
           reply == Numeric(name, args)
<1>2. status = "running"
  BY <1>1, FetchedOK
<1>3. Arity(name) \in {1, 2} /\ Arity(name) \in Nat
  BY NumericAssumption
<1>4. CASE ~ Has(Arity(name))
  <2>1. Trap("StackUnderflow")
    BY <1>1, <1>4 DEF Popping
  <2> QED
    BY <1>2, <2>1, UnderflowOK
<1>5. CASE Has(Arity(name))
  <2>1. IF reply.fault = "None" THEN Continue(PopPush(Arity(name), reply.w))
        ELSE Trap(reply.fault)
    BY <1>1, <1>5 DEF Popping
  <2>2. reply \in NumericReply
    <3>1. CASE Arity(name) = 1
      <4>1. Operand(0) \in Word
        BY <1>2, <1>5, <3>1, OperandWord
      <4> QED
        BY <3>1, <4>1, NumericAssumption
    <3>2. CASE Arity(name) = 2
      <4>1. Operand(0) \in Word /\ Operand(1) \in Word
        BY <1>2, <1>5, <3>2, OperandWord
      <4> QED
        BY <3>2, <4>1, NumericAssumption
    <3> QED
      BY <1>3, <3>1, <3>2
  <2> HIDE DEF reply
  <2>3. reply.fault \in Faults \cup {"None"} /\ reply.w \in Word
    BY <2>2 DEF NumericReply, NumericFaults, Faults
  <2>4. FrameOK(mod, PopPush(Arity(name), reply.w))
    BY <1>1, <1>3, <1>5, <2>3, PopPushOK
  <2> QED
    BY <1>2, <2>1, <2>3, <2>4, ContinueOK, TrapOK
<1> QED
  BY <1>4, <1>5

LEMMA SmallWords == 0 \in Word /\ 1 \in Word /\ NullWord \in Word
<1>1. M64 \in Nat /\ M32 \in Nat /\ 16 <= M32 /\ 16 * M32 <= M64
  BY Widths
<1> QED
  BY <1>1 DEF Word, NullWord

LEMMA RefPushesOK ==
  ASSUME IInv, RefNull \/ RefFunc
  PROVE  IInv'
<1>1. CASE RefNull
  <2>1. Stepping("RefNull")
    BY <1>1 DEF RefNull
  <2>2. status = "running"
    BY <2>1, FetchedOK
  <2>3. CASE Arg.ty \in RefTypes
    <3>1. Continue(PopPush(0, NullWord))
      BY <1>1, <2>3 DEF RefNull
    <3> QED
      BY <2>1, <3>1, SmallWords, PushOK
  <2>4. CASE Arg.ty \notin RefTypes
    <3>1. Trap("InvalidRefType") /\ "InvalidRefType" \in Faults
      BY <1>1, <2>4 DEF RefNull, Faults
    <3> QED
      BY <2>2, <3>1, TrapOK
  <2> QED
    BY <2>3, <2>4
<1>2. CASE RefFunc
  <2>1. Stepping("RefFunc") /\ Continue(PopPush(0, U32(Arg.n)))
    BY <1>2 DEF RefFunc
  <2>2. Arg.n \in Nat
    BY <2>1, FetchedOK
  <2>3. Arg.n % M32 \in 0 .. M32 - 1
    BY <2>2, Moduli, Remainder
  <2>4. M64 \in Nat /\ M32 \in Nat /\ M32 <= M64
    BY Widths
  <2>5. U32(Arg.n) \in Word
    BY <2>3, <2>4 DEF U32, Word
  <2> QED
    BY <2>1, <2>5, PushOK
<1> QED
  BY <1>1, <1>2

\* An operation that pops n words and pushes one.
LEMMA ReplaceOK ==
  ASSUME IInv, NEW name, Stepping(name), NEW n \in Nat, Has(n),
         NEW w \in Word, Continue(PopPush(n, w))
  PROVE  IInv'
<1>1. status = "running"
  BY FetchedOK
<1>2. FrameOK(mod, PopPush(n, w))
  BY PopPushOK
<1> QED
  BY <1>1, <1>2, ContinueOK

LEMMA RefTestsOK ==
  ASSUME IInv, RefIsNull \/ RefAsNonNull \/ RefEq
  PROVE  IInv'
<1>1. PICK name : Stepping(name)
  BY DEF RefIsNull, RefAsNonNull, RefEq
<1>2. status = "running"
  BY <1>1, FetchedOK
<1>4. CASE RefIsNull
  <2>1. CASE ~ Has(1)
    <3>1. Trap("StackUnderflow")
      BY <1>4, <2>1 DEF RefIsNull, Popping
    <3> QED
      BY <1>2, <3>1, UnderflowOK
  <2>2. CASE Has(1)
    <3>1. Continue(PopPush(1, Bit(Operand(0) = NullWord)))
      BY <1>4, <2>2 DEF RefIsNull, Popping
    <3>2. Bit(Operand(0) = NullWord) \in Word
      BY SmallWords DEF Bit
    <3> QED
      BY <1>1, <2>2, <3>1, <3>2, ReplaceOK
  <2> QED
    BY <2>1, <2>2
<1>5. CASE RefAsNonNull
  <2>1. CASE ~ Has(1)
    <3>1. Trap("StackUnderflow")
      BY <1>5, <2>1 DEF RefAsNonNull, Popping
    <3> QED
      BY <1>2, <3>1, UnderflowOK
  <2>2. CASE Has(1) /\ Operand(0) = NullWord
    <3>1. Trap("NullReference") /\ "NullReference" \in Faults
      BY <1>5, <2>2 DEF RefAsNonNull, Popping, Faults
    <3> QED
      BY <1>2, <3>1, TrapOK
  <2>3. CASE Has(1) /\ Operand(0) # NullWord
    <3>1. Continue(PopPush(1, U32(Operand(0))))
      BY <1>5, <2>3 DEF RefAsNonNull, Popping
    <3>2. U32(Operand(0)) \in Word
      BY <1>2, <2>3, OperandWord
    <3> QED
      BY <1>1, <2>3, <3>1, <3>2, ReplaceOK
  <2> QED
    BY <2>1, <2>2, <2>3
<1>6. CASE RefEq
  <2> DEFINE same == pop_from("ExternRef", Operand(0))
                       = pop_from("ExternRef", Operand(1))
  <2>1. CASE ~ Has(2)
    <3>1. Trap("StackUnderflow")
      BY <1>6, <2>1 DEF RefEq, Popping
    <3> QED
      BY <1>2, <3>1, UnderflowOK
  <2>2. CASE Has(2)
    <3>1. Continue(PopPush(2, Bit(same)))
      BY <1>6, <2>2 DEF RefEq, Popping
    <3>2. Bit(same) \in Word
      BY SmallWords DEF Bit
    <3> QED
      BY <1>1, <2>2, <3>1, <3>2, ReplaceOK
  <2> QED
    BY <2>1, <2>2
<1> QED
  BY <1>4, <1>5, <1>6

-----------------------------------------------------------------------------
(* The host.                                                               *)

LEMMA RunOK ==
  ASSUME IInv, Run
  PROVE  IInv'
<1>1. CASE Panic
  BY <1>1, PanicOK
<1>2. CASE /\ frames # <<>> /\ status' = "running" /\ ticks' = 0
           /\ UNCHANGED <<mod, globals, tables, frames, result, outcome,
                          invoked>>
  <2>1. /\ mod' = mod /\ globals' = globals /\ tables' = tables
        /\ frames' = frames /\ result' = result /\ outcome' = outcome
        /\ invoked' = invoked
    BY <1>2
  <2> QED
    BY <1>2, <2>1 DEF IInv
<1> QED
  BY <1>1, <1>2 DEF Run

LEMMA PrepareOK ==
  ASSUME IInv, NEW index \in HostFuncs, NEW args \in HostArgs,
         Prepare(index, args)
  PROVE  IInv'
<1> DEFINE reply == frame_for_funcidx(mod, index, args)
           i == CodeIndex(mod, index)
<1>1. index \in Nat /\ args \in Seq(Value) /\ mod \in Modules
  BY HostAssumption DEF IInv
<1>2. CASE reply = "Panic" /\ Panic
  BY <1>2, PanicOK
<1>3. CASE /\ reply \in LinkErrors /\ outcome' = reply
           /\ UNCHANGED <<mod, globals, tables, frames, result, status, ticks,
                          invoked>>
  <2>1. /\ mod' = mod /\ globals' = globals /\ tables' = tables
        /\ frames' = frames /\ result' = result /\ status' = status
        /\ ticks' = ticks /\ invoked' = invoked
    BY <1>3
  <2>2. outcome' \in Replies
    BY <1>3 DEF Replies
  <2> QED
    BY <2>1, <2>2 DEF IInv
<1>4. CASE /\ reply = "Ok"
           /\ frames' = Append(frames, NewFrame(mod, i, args))
           /\ invoked' = [fn |-> i, args |-> args, base |-> Len(frames),
                          globals |-> globals, tables |-> tables]
           /\ status' = "prepared" /\ outcome' = "Ok"
           /\ UNCHANGED <<mod, globals, tables, result, ticks>>
  <2>1. /\ mod' = mod /\ globals' = globals /\ tables' = tables
        /\ result' = result /\ ticks' = ticks
    BY <1>4
  <2>2. /\ i \in Nat /\ i < Len(mod.code) /\ ~ Mismatch(mod, i, args)
    BY <1>1, <1>4, LinkReply
  <2>3. ASSUME Strict
        PROVE  LocalsTyped(FuncTypeOf(mod, i).params, args)
    <3>1. Len(args) = Len(FuncTypeOf(mod, i).params)
      BY <2>3 DEF Prepare, HostMayPrepare, Strict
    <3>2. \A j \in 1 .. Len(FuncTypeOf(mod, i).params) :
            j <= Len(args) => args[j].ty = FuncTypeOf(mod, i).params[j]
      BY <2>2 DEF Mismatch
    <3>3. Len(args) \in Nat
      BY <1>1
    <3> QED
      BY <3>1, <3>2, <3>3 DEF LocalsTyped
  <2> HIDE DEF i
  <2>4. FrameOK(mod, NewFrame(mod, i, args))
    BY <1>1, <2>2, <2>3, NewFrameOK
  <2>5. FramesOK(mod, frames') /\ frames' # <<>>
    BY <1>4, <2>4, PushFrame DEF IInv
  <2>6. invoked' \in [fn : Nat, args : Seq(Value), base : Nat,
                      globals : Seq(Value), tables : Seq(Table)]
    <3>1. /\ globals \in Seq(Value) /\ tables \in Seq(Table)
          /\ Len(frames) \in Nat
      BY DEF IInv, GlobalsOK, FramesOK
    <3> QED
      BY <1>1, <1>4, <2>2, <3>1
  <2>7. outcome' \in Replies
    BY <1>4 DEF Replies
  <2> QED
    BY <1>4, <2>1, <2>5, <2>6, <2>7 DEF IInv
<1> QED
  BY <1>2, <1>3, <1>4 DEF Prepare

-----------------------------------------------------------------------------
(* The theorems.                                                           *)

LEMMA InitOK == Init => IInv
<1> SUFFICES ASSUME Init PROVE IInv
  OBVIOUS
<1>1. /\ mod \in Modules /\ globals = mod.globals /\ tables = mod.tables
      /\ frames = <<>> /\ result = [some |-> FALSE, vals |-> <<>>]
      /\ status = "idle" /\ outcome = "None" /\ ticks = 0
      /\ invoked = [fn |-> 0, args |-> <<>>, base |-> 0, globals |-> <<>>,
                    tables |-> <<>>]
  BY DEF Init
<1>2. FramesOK(mod, frames)
  BY <1>1 DEF FramesOK
<1>3. GlobalsOK(mod, globals) /\ tables \in Seq(Table)
  BY <1>1, ModuleType DEF GlobalsOK
<1>4. result \in [some : BOOLEAN, vals : Seq(Value)]
  BY <1>1
<1>5. invoked \in [fn : Nat, args : Seq(Value), base : Nat,
                   globals : Seq(Value), tables : Seq(Table)]
  BY <1>1
<1>6. outcome \in Replies
  BY <1>1 DEF Replies
<1> QED
  BY <1>1, <1>2, <1>3, <1>4, <1>5, <1>6 DEF IInv

\* What a step that does not use the memory leaves.
LEMMA StepOK ==
  ASSUME IInv, Run \/ HostPrepare \/ EngineStep \/ UNCHANGED vars
  PROVE  IInv'
<1>1. CASE ProgramEnd \/ OutOfTicks \/ Nop \/ Unreachable \/ Return \/ Call
  BY <1>1, CallsOK
<1>2. CASE EnterScope \/ LeaveScope
  BY <1>2, ScopesOK
<1>3. CASE If \/ Else
  BY <1>3, ConditionsOK
<1>4. CASE Br \/ BrIf \/ BrTable
  BY <1>4, BranchesOK
<1>5. CASE CallIndirect
  BY <1>5, CallIndirectOK
<1>6. CASE Drop \/ Select
  BY <1>6, StackOpsOK
<1>7. CASE GetLocal \/ GetGlobal
  BY <1>7, ReadsOK
<1>8. CASE SetLocal \/ TeeLocal
  BY <1>8, StoreLocalOK
<1>9. CASE SetGlobal
  BY <1>9, SetGlobalOK
<1>10. CASE TableGet \/ TableSet
  BY <1>10, TablesOK
<1>11. CASE ConstOp
  BY <1>11, ConstOK
<1>12. CASE NumericOp
  BY <1>12, NumericOK
<1>13. CASE RefNull \/ RefFunc
  BY <1>13, RefPushesOK
<1>14. CASE RefIsNull \/ RefAsNonNull \/ RefEq
  BY <1>14, RefTestsOK
<1>15. CASE Run
  BY <1>15, RunOK
<1>16. CASE HostPrepare
  BY <1>16, PrepareOK DEF HostPrepare
<1>17. CASE UNCHANGED vars
  <2>1. /\ mod' = mod /\ globals' = globals /\ tables' = tables
        /\ frames' = frames /\ result' = result /\ status' = status
        /\ outcome' = outcome /\ ticks' = ticks /\ invoked' = invoked
    BY <1>17 DEF vars
  <2> QED
    BY <2>1 DEF IInv
<1> QED
  BY <1>1, <1>2, <1>3, <1>4, <1>5, <1>6, <1>7, <1>8, <1>9, <1>10, <1>11, <1>12,
     <1>13, <1>14, <1>15, <1>16, <1>17 DEF EngineStep

\* What the invariant says of the three properties.
LEMMA InvariantImplies ==
  ASSUME IInv
  PROVE  TypeOK /\ DeclaredLocalsPresent /\ (Strict => StoresTyped)
<1>1. TypeOK
  BY DEF IInv, TypeOK, FramesOK, FrameOK, GlobalsOK
<1>2. DeclaredLocalsPresent
  BY DEF IInv, DeclaredLocalsPresent, FramesOK, FrameOK
<1>3. Strict => StoresTyped
  BY DEF IInv, StoresTyped, FramesOK, FrameOK, GlobalsOK, LocalsTyped
<1> QED
  BY <1>1, <1>2, <1>3

-----------------------------------------------------------------------------
(* The frames below the top.  Every step replaces, pops or covers the top  *)
(* frame; only a return touches another one, the frame it goes back to.    *)

\* The frames below the top that are still there are the same.
LowerSame ==
  \A i \in 1 .. Len(frames) - 1 : i <= Len(frames') => frames'[i] = frames[i]

LEMMA LowerSameKept ==
  ASSUME IInv, LowerSame
  PROVE  CallersKept
<1> SUFFICES ASSUME NEW i \in 1 .. Len(frames) - 1, i <= Len(frames')
             PROVE  /\ [frames'[i] EXCEPT !.stack = <<>>]
                         = [frames[i] EXCEPT !.stack = <<>>]
                    /\ Len(frames'[i].stack) >= Len(frames[i].stack)
                    /\ SubSeq(frames'[i].stack, 1, Len(frames[i].stack))
                         = frames[i].stack
                    /\ i < Len(frames') => frames'[i] = frames[i]
  BY DEF CallersKept
<1>1. frames'[i] = frames[i]
  BY DEF LowerSame
<1>2. frames[i] \in Frame
  BY DEF IInv, FramesOK
<1>3. frames[i].stack \in Seq(Word)
  BY <1>2 DEF Frame
<1>4. SubSeq(frames[i].stack, 1, Len(frames[i].stack)) = frames[i].stack
  BY <1>3, SubSeqFull
<1>5. Len(frames[i].stack) \in Nat
  BY <1>3
<1> QED
  BY <1>1, <1>4, <1>5

LEMMA TopKept ==
  ASSUME IInv, NEW f, frames' = [frames EXCEPT ![Len(frames)] = f]
  PROVE  CallersKept
<1>1. frames \in Seq(Frame)
  BY DEF IInv, FramesOK
<1>2. LowerSame
  BY <1>1 DEF LowerSame
<1> QED
  BY <1>2, LowerSameKept

LEMMA SameKept ==
  ASSUME IInv, frames' = frames
  PROVE  CallersKept
<1>1. LowerSame
  BY DEF LowerSame
<1> QED
  BY <1>1, LowerSameKept

LEMMA PushKept ==
  ASSUME IInv, NEW f, NEW g, frames' = Append([frames EXCEPT ![Len(frames)] = f], g)
  PROVE  CallersKept
<1>1. frames \in Seq(Frame)
  BY DEF IInv, FramesOK
<1>2. LowerSame
  BY <1>1 DEF LowerSame
<1> QED
  BY <1>2, LowerSameKept

LEMMA TrapKept ==
  ASSUME IInv, status = "running", NEW fault, Trap(fault)
  PROVE  CallersKept
<1>1. frames \in Seq(Frame) /\ Len(frames) >= 1
  BY DEF IInv, FramesOK
<1>2. /\ Len(DropTop(frames, 1)) = Len(frames) - 1
      /\ \A i \in 1 .. Len(frames) - 1 : DropTop(frames, 1)[i] = frames[i]
  BY <1>1, DropTopType
<1>3. LowerSame
  BY <1>2 DEF LowerSame, Trap
<1> QED
  BY <1>3, LowerSameKept

LEMMA SettleKept ==
  ASSUME IInv, status = "running", NEW r, Settle(r)
  PROVE  CallersKept
  BY TrapKept, TopKept DEF Settle, Continue, Keep

\* A return: the frame below gets the results behind its operands.
LEMMA FinishKept ==
  ASSUME IInv, status = "running", NEW f, FrameOK(mod, f), Finish(f)
  PROVE  CallersKept
<1> DEFINE tys == ReturnTypes(mod, f.fn)
           vals == PopValues(f.stack, tys)
           below == DropTop(frames, 1)
<1>1. /\ f.fn \in Nat /\ f.fn < Len(mod.code)
      /\ f.stack \in Seq(Word) /\ mod \in Modules
  BY DEF FrameOK, Frame, IInv
<1>2. frames \in Seq(Frame) /\ Len(frames) >= 1
  BY DEF IInv, FramesOK
<1>3. /\ below \in Seq(Frame)
      /\ Len(below) = Len(frames) - 1
      /\ \A i \in 1 .. Len(frames) - 1 : below[i] = frames[i]
  BY <1>2, DropTopType
<1>4. CASE ~ CanPop(f.stack, tys)
  BY <1>4, TopKept DEF Finish, RunError
<1>5. CASE CanPop(f.stack, tys) /\ below = <<>>
  <2>1. LowerSame
    BY <1>3, <1>5 DEF LowerSame
  <2> QED
    BY <2>1, LowerSameKept
<1>6. CASE CanPop(f.stack, tys) /\ below # <<>>
  <2> DEFINE k == Len(below)
             caller == below[k]
             resumed == [caller EXCEPT !.stack = PushValues(@, vals)]
  <2>1. frames' = [below EXCEPT ![k].stack = PushValues(@, vals)]
    BY <1>6 DEF Finish
  <2>2. vals \in Seq(Value)
    BY <1>1, <1>6, FunctionType, PopValuesType
  <2> HIDE DEF vals, below
  <2>3. k \in 1 .. k /\ caller = frames[k] /\ caller \in Frame
    BY <1>3, <1>6
  <2>4. caller.stack \in Seq(Word)
    BY <2>3 DEF Frame
  <2>5. frames' = [below EXCEPT ![k] = resumed]
    BY <2>1
  <2>6. /\ Len(frames') = k /\ frames'[k] = resumed
        /\ \A i \in 1 .. k : i < k => frames'[i] = frames[i]
    BY <1>3, <2>3, <2>5
  <2>7. /\ resumed.stack = PushValues(caller.stack, vals)
        /\ [resumed EXCEPT !.stack = <<>>] = [caller EXCEPT !.stack = <<>>]
    BY <2>3 DEF Frame
  <2>8. /\ Len(resumed.stack) >= Len(caller.stack)
        /\ SubSeq(resumed.stack, 1, Len(caller.stack)) = caller.stack
    <3> DEFINE s == caller.stack
               t == PushValues(s, vals)
    <3>1. /\ t \in Seq(Word) /\ Len(t) = Len(s) + Len(vals)
          /\ \A i \in 1 .. Len(s) : t[i] = s[i]
      BY <2>2, <2>4, PushValuesType
    <3> HIDE DEF t
    <3>2. Len(vals) \in Nat /\ Len(s) \in Nat /\ s \in Seq(Word)
      BY <2>2, <2>4
    <3> HIDE DEF s
    <3>3. \A i \in 1 .. Len(s) : t[i] \in Word
      BY <3>1, <3>2
    <3>4. /\ SubSeq(t, 1, Len(s)) \in Seq(Word)
          /\ Len(SubSeq(t, 1, Len(s))) = Len(s)
          /\ \A i \in 1 .. Len(s) : SubSeq(t, 1, Len(s))[i] = t[i]
      BY <3>2, <3>3, SubSeqProperties
    <3>5. SubSeq(t, 1, Len(s)) = s
      BY <3>1, <3>2, <3>4, SeqEqual
    <3> QED
      BY <2>7, <3>1, <3>2, <3>5 DEF s, t
  <2> HIDE DEF resumed
  <2>9. SUFFICES ASSUME NEW i \in 1 .. Len(frames) - 1, i <= Len(frames')
                 PROVE  /\ [frames'[i] EXCEPT !.stack = <<>>]
                             = [frames[i] EXCEPT !.stack = <<>>]
                        /\ Len(frames'[i].stack) >= Len(frames[i].stack)
                        /\ SubSeq(frames'[i].stack, 1, Len(frames[i].stack))
                             = frames[i].stack
                        /\ i < Len(frames') => frames'[i] = frames[i]
    BY DEF CallersKept
  <2>10. CASE i = k
    BY <2>3, <2>6, <2>7, <2>8, <2>10
  <2>11. CASE i # k
    <3>1. i \in 1 .. k /\ i < k
      BY <1>3, <2>6, <2>11
    <3>2. frames'[i] = frames[i]
      BY <2>6, <3>1
    <3>3. frames[i] \in Frame
      BY <1>2
    <3>4. frames[i].stack \in Seq(Word)
      BY <3>3 DEF Frame
    <3>5. SubSeq(frames[i].stack, 1, Len(frames[i].stack)) = frames[i].stack
      BY <3>4, SubSeqFull
    <3>6. Len(frames[i].stack) \in Nat
      BY <3>4
    <3> QED
      BY <3>2, <3>5, <3>6
  <2> QED
    BY <2>10, <2>11
<1> QED
  BY <1>4, <1>5, <1>6

LEMMA EnterCallKept ==
  ASSUME IInv, status = "running", NEW c, NEW f, EnterCall(c, f)
  PROVE  CallersKept
  BY TopKept, SameKept, PushKept DEF EnterCall, RunError, Panic

LEMMA StepKept ==
  ASSUME IInv, Run \/ HostPrepare \/ EngineStep \/ UNCHANGED vars
  PROVE  CallersKept
<1>1. ASSUME NEW f, Continue(f) \/ Keep(f) PROVE CallersKept
  BY <1>1, TopKept DEF Continue, Keep
<1>2. ASSUME Panic PROVE CallersKept
  BY <1>2, SameKept DEF Panic
<1>3. ASSUME NEW name, Stepping(name)
      PROVE  status = "running" /\ FrameOK(mod, Fetched)
  BY <1>3, FetchedOK
<1>4. CASE ProgramEnd \/ OutOfTicks
  BY <1>4, CurrentOK, FinishKept, TrapKept DEF ProgramEnd, OutOfTicks
<1>5. CASE Nop \/ Unreachable \/ EnterScope \/ Else
  BY <1>1, <1>3, <1>5, TrapKept DEF Nop, Unreachable, EnterScope, Else
<1>6. CASE LeaveScope \/ Return
  BY <1>3, <1>6, FinishKept, SettleKept DEF LeaveScope, Return
<1>7. CASE If \/ BrIf \/ BrTable \/ Br
  BY <1>1, <1>3, <1>7, SettleKept, TrapKept DEF If, BrIf, BrTable, Br, Popping
<1>8. CASE Call \/ CallIndirect
  BY <1>3, <1>8, EnterCallKept, TrapKept DEF Call, CallIndirect, Popping
<1>9. CASE Drop \/ Select
  BY <1>1, <1>3, <1>9, TrapKept DEF Drop, Select, Popping
<1>10. CASE GetLocal \/ GetGlobal \/ SetLocal \/ TeeLocal
  BY <1>1, <1>2, <1>3, <1>10, TrapKept
     DEF GetLocal, GetGlobal, SetLocal, TeeLocal, set_local_from_stack, Popping
<1>11. CASE SetGlobal \/ TableGet \/ TableSet
  BY <1>1, <1>3, <1>11, TrapKept DEF SetGlobal, TableGet, TableSet, Popping
<1>12. CASE ConstOp \/ NumericOp
  BY <1>1, <1>3, <1>12, TrapKept DEF ConstOp, NumericOp, Popping
<1>13. CASE RefNull \/ RefFunc \/ RefIsNull \/ RefAsNonNull \/ RefEq
  BY <1>1, <1>3, <1>13, TrapKept
     DEF RefNull, RefFunc, RefIsNull, RefAsNonNull, RefEq, Popping
<1>14. CASE Run
  BY <1>2, <1>14, SameKept DEF Run
<1>15. CASE HostPrepare
  <2>1. PICK index \in HostFuncs, args \in HostArgs : Prepare(index, args)
    BY <1>15 DEF HostPrepare
  <2>2. frames \in Seq(Frame)
    BY DEF IInv, FramesOK
  <2>3. ASSUME NEW g, frames' = Append(frames, g) PROVE CallersKept
    <3>1. LowerSame
      BY <2>2, <2>3 DEF LowerSame
    <3> QED
      BY <3>1, LowerSameKept
  <2> QED
    BY <1>2, <2>1, <2>3, SameKept DEF Prepare
<1>16. CASE UNCHANGED vars
  BY <1>16, SameKept DEF vars
<1> QED
  BY <1>4, <1>5, <1>6, <1>7, <1>8, <1>9, <1>10, <1>11, <1>12, <1>13, <1>14,
     <1>15, <1>16 DEF EngineStep

-----------------------------------------------------------------------------
(* The control stack of every frame lists the scopes its pc is inside of.  *)
(* The jumps are those of NestingProofs; here, what each step does to the  *)
(* frames.                                                                 *)

FrameNests(m, f) == Nests(m.types, At(m.code, f.fn).ops, f)
FramesNest(m, fs) == \A i \in 1 .. Len(fs) : FrameNests(m, fs[i])

LEMMA ProgramOK ==
  ASSUME ProgramsNest, NEW m \in Modules, NEW i \in Nat, i < Len(m.code)
  PROVE  LET ops == At(m.code, i).ops
         IN /\ ops \in Seq(OpRecord) /\ Len(ops) \in Nat /\ Scoped(ops)
            /\ decode_accepts(ops) /\ LoopsUncrossed(ops)
<1> DEFINE ops == At(m.code, i).ops
<1>1. ops \in Seq(OpRecord) /\ m.code \in Seq(Code)
  BY FunctionType, ModuleType
<1>2. i + 1 \in 1 .. Len(m.code)
  BY <1>1
<1>3. decode_accepts(ops) /\ LoopsUncrossed(ops)
  BY <1>2 DEF ProgramsNest, At
<1> HIDE DEF ops
<1>4. Scoped(ops)
  <2>1. ASSUME NEW j \in 0 .. Len(ops) - 1
        PROVE  At(ops, j).scope \in ScopeTypes
    <3>1. j + 1 \in 1 .. Len(ops)
      BY <1>1
    <3>2. At(ops, j) \in OpRecord
      BY <1>1, <3>1 DEF At
    <3> QED
      BY <3>2 DEF OpRecord
  <2> QED
    BY <2>1 DEF Scoped
<1> QED
  BY <1>1, <1>3, <1>4 DEF ops

LEMMA SameNests ==
  ASSUME NEW m, NEW f, FrameNests(m, f),
         NEW g, g.fn = f.fn, g.pc = f.pc, g.control = f.control
  PROVE  FrameNests(m, g)
  BY Zenon DEF FrameNests, Nests

LEMMA RestackedNests ==
  ASSUME NEW m, NEW f \in Frame, FrameNests(m, f), NEW stack
  PROVE  FrameNests(m, [f EXCEPT !.stack = stack])
<1> DEFINE g == [f EXCEPT !.stack = stack]
<1>1. g.fn = f.fn /\ g.pc = f.pc /\ g.control = f.control
  BY DEF Frame
<1> HIDE DEF g
<1>2. FrameNests(m, g)
  BY <1>1, SameNests
<1> QED
  BY <1>2 DEF g

LEMMA TopNests ==
  ASSUME NEW m, NEW fs \in Seq(Frame), FramesNest(m, fs), NEW f, FrameNests(m, f)
  PROVE  FramesNest(m, [fs EXCEPT ![Len(fs)] = f])
<1> DEFINE gs == [fs EXCEPT ![Len(fs)] = f]
<1>1. Len(gs) = Len(fs) /\ \A i \in 1 .. Len(fs) : gs[i] = fs[i] \/ gs[i] = f
  OBVIOUS
<1> HIDE DEF gs
<1>2. FramesNest(m, gs)
  BY <1>1 DEF FramesNest
<1> QED
  BY <1>2 DEF gs

LEMMA PushNests ==
  ASSUME NEW m, NEW S, NEW fs \in Seq(S), FramesNest(m, fs),
         NEW f, FrameNests(m, f)
  PROVE  FramesNest(m, Append(fs, f))
<1> DEFINE gs == Append(fs, f)
<1>1. /\ Len(gs) = Len(fs) + 1 /\ \A i \in 1 .. Len(fs) : gs[i] = fs[i]
      /\ gs[Len(fs) + 1] = f
  OBVIOUS
<1> HIDE DEF gs
<1>2. FramesNest(m, gs)
  BY <1>1 DEF FramesNest
<1> QED
  BY <1>2 DEF gs

LEMMA PopNests ==
  ASSUME NEW m, NEW fs \in Seq(Frame), fs # <<>>, FramesNest(m, fs)
  PROVE  DropTop(fs, 1) \in Seq(Frame) /\ FramesNest(m, DropTop(fs, 1))
<1> DEFINE gs == DropTop(fs, 1)
<1>1. /\ gs \in Seq(Frame) /\ Len(gs) = Len(fs) - 1
      /\ \A i \in 1 .. Len(fs) - 1 : gs[i] = fs[i]
  BY DropTopType
<1> HIDE DEF gs
<1>2. FramesNest(m, gs)
  BY <1>1 DEF FramesNest
<1> QED
  BY <1>1, <1>2 DEF gs

\* A new frame is inside of no scope but the function's.
LEMMA NewFrameNests ==
  ASSUME ProgramsNest, NEW m \in Modules, NEW i \in Nat, i < Len(m.code), NEW args
  PROVE  FrameNests(m, NewFrame(m, i, args))
<1> DEFINE ops == At(m.code, i).ops
           f == NewFrame(m, i, args)
           rets == ReturnTypes(m, i)
           sig == ValueSig(IF rets = <<>> THEN "Unit" ELSE rets[1])
           c == [scope |-> "Function", fn |-> sig.fn, results |-> sig.results,
                 width |-> 0]
<1>1. f.fn = i /\ f.pc = 0 /\ f.control = Append(<<>>, c)
  <2> HIDE DEF sig
  <2> QED
    BY DEF NewFrame, push_control, sig
<1> HIDE DEF f
<1>2. Len(f.control) = 1 /\ f.control[1] = c
  BY <1>1
<1>3. Nest(ops, 0, <<>>)
  <2>1. OpenScopes(ops, 0) = {}
    BY DEF OpenScopes
  <2> QED
    BY <2>1 DEF Nest
<1>4. Listed(m.types, ops, <<>>, f.control)
  BY <1>2 DEF Listed
<1>5. Nests(m.types, ops, f)
  BY <1>1, <1>3, <1>4 DEF Nests
<1> QED
  BY <1>1, <1>5 DEF FrameNests, f

\* What a step finds: a decoded program, and the scopes of the top frame.
LEMMA CurrentNests ==
  ASSUME ProgramsNest, IInv, FramesNest(mod, frames), NEW name, Stepping(name)
  PROVE  /\ Len(Ops) \in Nat /\ Scoped(Ops) /\ decode_accepts(Ops)
         /\ LoopsUncrossed(Ops)
         /\ Current.pc \in Nat /\ Current.pc \in 0 .. Len(Ops) - 1
         /\ Current.control \in Seq(Control)
         /\ At(Ops, Current.pc) = Arg /\ Arg.op = name
         /\ \E st : /\ Nest(Ops, Current.pc, st) /\ st \in Seq(Nat)
                    /\ Listed(mod.types, Ops, st, Current.control)
<1>1. status = "running" /\ Current.pc < Len(Ops) /\ Arg.op = name
  BY DEF Stepping, Arg
<1>2. /\ Current \in Frame /\ Current.fn \in Nat /\ Current.fn < Len(mod.code)
      /\ Current.pc \in Nat /\ mod \in Modules
  BY <1>1, CurrentOK
<1>3. /\ Len(Ops) \in Nat /\ Scoped(Ops) /\ decode_accepts(Ops)
      /\ LoopsUncrossed(Ops)
  BY <1>2, ProgramOK DEF Ops
<1>4. Current.control \in Seq(Control)
  BY <1>2 DEF Frame
<1>5. FrameNests(mod, Current)
  <2>1. frames \in Seq(Frame) /\ frames # <<>>
    BY <1>1 DEF IInv, FramesOK
  <2>2. Len(frames) \in 1 .. Len(frames)
    BY <2>1
  <2> QED
    BY <2>2 DEF FramesNest, Current
<1>6. Nests(mod.types, Ops, Current)
  BY <1>5 DEF FrameNests, Ops
<1>7. \E st : Nest(Ops, Current.pc, st)
              /\ Listed(mod.types, Ops, st, Current.control)
  BY <1>1, <1>6, Zenon DEF Nests
<1>8. \E st : /\ Nest(Ops, Current.pc, st) /\ st \in Seq(Nat)
              /\ Listed(mod.types, Ops, st, Current.control)
  BY <1>7, Zenon DEF Nest
<1>9. Current.pc \in 0 .. Len(Ops) - 1
  BY <1>1, <1>2, <1>3
<1> QED
  BY <1>1, <1>2, <1>3, <1>4, <1>8, <1>9 DEF Arg

\* The top frame behind its operation, whatever became of its operands and
\* locals.
Behind(g) ==
  g.fn = Current.fn /\ g.pc = Current.pc + 1 /\ g.control = Current.control

LEMMA BehindFrames ==
  ASSUME IInv, NEW name, Stepping(name)
  PROVE  /\ Fetched \in Frame /\ Behind(Fetched)
         /\ \A n : Behind(Popped(n))
         /\ \A n, w : Behind(PopPush(n, w))
         /\ \A i, v : Behind([Fetched EXCEPT !.locals[i] = v])
         /\ \A n, i, v : Behind([Popped(n) EXCEPT !.locals[i] = v])
<1>1. Current \in Frame /\ Current.pc \in Nat
  BY CurrentOK DEF Stepping
<1>2. Fetched \in Frame
  BY FetchedOK
<1>3. /\ Fetched.fn = Current.fn /\ Fetched.pc = Current.pc + 1
      /\ Fetched.control = Current.control
  BY <1>1 DEF Fetched, Frame
<1>4. ASSUME NEW s
      PROVE  Behind([Fetched EXCEPT !.stack = s])
  BY <1>2, <1>3 DEF Behind, Frame
<1>5. ASSUME NEW l
      PROVE  Behind([Fetched EXCEPT !.locals = l])
  BY <1>2, <1>3 DEF Behind, Frame
<1>6. ASSUME NEW s, NEW l
      PROVE  Behind([[Fetched EXCEPT !.stack = s] EXCEPT !.locals = l])
  BY <1>2, <1>3 DEF Behind, Frame
<1> QED
  BY <1>2, <1>3, <1>4, <1>5, <1>6 DEF Behind, Popped, PopPush

\* An operation that neither opens nor closes a scope goes on inside of the
\* same ones.
LEMMA BehindNests ==
  ASSUME ProgramsNest, IInv, FramesNest(mod, frames), NEW name, Stepping(name),
         name \notin {"StartScope", "EndScope"}, NEW g, Behind(g)
  PROVE  FrameNests(mod, g)
<1>1. PICK st : /\ Nest(Ops, Current.pc, st)
                /\ Listed(mod.types, Ops, st, Current.control)
  BY CurrentNests
<1>2. Current.pc \in Nat /\ At(Ops, Current.pc).op \notin {"StartScope", "EndScope"}
  BY CurrentNests
<1>3. Nest(Ops, Current.pc + 1, st)
  BY <1>1, <1>2, NestPlain
<1>4. Nest(Ops, g.pc, st) /\ Listed(mod.types, Ops, st, g.control)
  BY <1>1, <1>3 DEF Behind
<1>5. At(mod.code, g.fn).ops = Ops
  BY DEF Behind, Ops
<1> QED
  BY <1>4, <1>5, Zenon DEF FrameNests, Nests

-----------------------------------------------------------------------------
(* What a step may lead to.                                                *)

LEMMA ContinueNests ==
  ASSUME IInv, FramesNest(mod, frames), NEW f, FrameNests(mod, f),
         frames' = [frames EXCEPT ![Len(frames)] = f], mod' = mod
  PROVE  FramesNest(mod', frames')
<1>1. frames \in Seq(Frame)
  BY DEF IInv, FramesOK
<1>2. FramesNest(mod, frames')
  BY <1>1, TopNests
<1> QED
  BY <1>2

LEMMA TrapNests ==
  ASSUME IInv, status = "running", FramesNest(mod, frames), NEW fault, Trap(fault)
  PROVE  FramesNest(mod', frames')
<1>1. frames \in Seq(Frame) /\ frames # <<>>
  BY DEF IInv, FramesOK
<1>2. FramesNest(mod, DropTop(frames, 1))
  BY <1>1, PopNests
<1> QED
  BY <1>2 DEF Trap

LEMMA SettleNests ==
  ASSUME IInv, status = "running", FramesNest(mod, frames), NEW r,
         r.fault = "None" => FrameNests(mod, r.frame), Settle(r)
  PROVE  FramesNest(mod', frames')
  BY ContinueNests, TrapNests DEF Settle, Continue, Keep

\* A return: the frame below goes on where it was.
LEMMA FinishNests ==
  ASSUME IInv, status = "running", FramesNest(mod, frames), NEW f \in Frame,
         FrameNests(mod, f), Finish(f)
  PROVE  FramesNest(mod', frames')
<1> DEFINE tys == ReturnTypes(mod, f.fn)
           vals == PopValues(f.stack, tys)
           below == DropTop(frames, 1)
<1>1. frames \in Seq(Frame) /\ frames # <<>>
  BY DEF IInv, FramesOK
<1>2. below \in Seq(Frame) /\ FramesNest(mod, below)
  BY <1>1, PopNests
<1>3. CASE ~ CanPop(f.stack, tys)
  <2>1. RunError("StackUnderflow", [f EXCEPT !.stack = <<>>])
    BY <1>3 DEF Finish
  <2>2. FrameNests(mod, [f EXCEPT !.stack = <<>>])
    BY RestackedNests
  <2> QED
    BY <2>1, <2>2, ContinueNests DEF RunError
<1>4. CASE CanPop(f.stack, tys) /\ below = <<>>
  <2>1. frames' = <<>> /\ mod' = mod
    BY <1>4 DEF Finish
  <2> QED
    BY <2>1 DEF FramesNest
<1>5. CASE CanPop(f.stack, tys) /\ below # <<>>
  <2> DEFINE k == Len(below)
             resumed == [below[k] EXCEPT !.stack = PushValues(@, vals)]
  <2>1. frames' = [below EXCEPT ![k].stack = PushValues(@, vals)] /\ mod' = mod
    BY <1>5 DEF Finish
  <2> HIDE DEF vals, below
  <2>2. k \in 1 .. k /\ below[k] \in Frame
    BY <1>2, <1>5
  <2>3. FrameNests(mod, below[k])
    BY <1>2, <2>2 DEF FramesNest
  <2>4. FrameNests(mod, resumed)
    BY <2>2, <2>3, RestackedNests
  <2>5. frames' = [below EXCEPT ![k] = resumed]
    BY <2>1
  <2> HIDE DEF resumed
  <2>6. FramesNest(mod, frames')
    BY <1>2, <2>4, <2>5, TopNests
  <2> QED
    BY <2>1, <2>6
<1> QED
  BY <1>3, <1>4, <1>5

\* A call: the caller waits where it is, the called function starts.
LEMMA EnterCallNests ==
  ASSUME ProgramsNest, IInv, status = "running", FramesNest(mod, frames),
         NEW c \in Nat, NEW f \in Frame, FrameNests(mod, f), EnterCall(c, f)
  PROVE  FramesNest(mod', frames')
<1> DEFINE params == FuncTypeOf(mod, c).params
           args == PopValues(f.stack, params)
           caller == [f EXCEPT !.stack = DropTop(@, Len(params))]
           reply == frame_for_funcidx(mod, c, args)
           called == NewFrame(mod, CodeIndex(mod, c), args)
<1>1. frames \in Seq(Frame) /\ mod \in Modules
  BY DEF IInv, FramesOK
<1>2. FrameNests(mod, caller) /\ FrameNests(mod, [f EXCEPT !.stack = <<>>])
  BY RestackedNests
<1>3. \/ RunError("GlobalIndexOutOfBounds", f)
      \/ RunError("StackUnderflow", [f EXCEPT !.stack = <<>>])
      \/ RunError(reply, caller)
      \/ Panic
      \/ /\ reply \notin LinkErrors \cup {"Panic"} /\ mod' = mod
         /\ frames' = Append([frames EXCEPT ![Len(frames)] = caller], called)
  BY DEF EnterCall
<1>4. CASE \/ RunError("GlobalIndexOutOfBounds", f)
           \/ RunError("StackUnderflow", [f EXCEPT !.stack = <<>>])
           \/ RunError(reply, caller)
  <2> HIDE DEF reply, caller
  <2> QED
    BY <1>2, <1>4, ContinueNests DEF RunError
<1>5. CASE Panic
  BY <1>5 DEF Panic
<1>6. CASE /\ reply \notin LinkErrors \cup {"Panic"} /\ mod' = mod
           /\ frames' = Append([frames EXCEPT ![Len(frames)] = caller], called)
  <2>1. CodeIndex(mod, c) \in Nat /\ CodeIndex(mod, c) < Len(mod.code)
    BY <1>1, <1>6, LinkReply
  <2>2. FrameNests(mod, called)
    BY <1>1, <2>1, NewFrameNests
  <2> HIDE DEF caller, called, reply
  <2>3. [frames EXCEPT ![Len(frames)] = caller] \in Seq(Frame \cup {caller})
    <3>1. frames \in Seq(Frame \cup {caller}) /\ Len(frames) \in 1 .. Len(frames)
      BY <1>1 DEF IInv
    <3> QED
      BY <3>1
  <2>4. FramesNest(mod, [frames EXCEPT ![Len(frames)] = caller])
    BY <1>1, <1>2, TopNests
  <2> QED
    BY <1>6, <2>2, <2>3, <2>4, PushNests
<1> QED
  BY <1>3, <1>4, <1>5, <1>6

-----------------------------------------------------------------------------
(* The steps that enter and leave scopes.                                  *)

LEMMA EnterScopeNests ==
  ASSUME ProgramsNest, IInv, FramesNest(mod, frames), EnterScope
  PROVE  FramesNest(mod', frames')
<1>1. Stepping("StartScope") /\ mod \in Modules
  BY DEF EnterScope, IInv
<1>2. /\ status = "running" /\ Fetched \in Frame
      /\ Arg.scope \in ScopeTypes /\ Arg.ty \in BlockTypes /\ Arg.n \in Nat
  BY <1>1, FetchedOK
<1>3. CASE ~ Resolvable(mod.types, Arg)
  BY <1>2, <1>3, TrapNests DEF EnterScope
<1>4. CASE Resolvable(mod.types, Arg)
  <2> DEFINE sig == resolve_type(mod.types, Arg)
             f == push_control(Fetched, sig, Arg.scope)
             c == [scope |-> Arg.scope, fn |-> sig.fn, results |-> sig.results,
                   width |-> Len(Fetched.stack)]
  <2>1. Continue(f)
    BY <1>4 DEF EnterScope
  <2>2. sig \in Signature
    BY <1>1, <1>2, <1>4, ResolvedType
  <2>3. c \in Control /\ c.scope = Arg.scope /\ c.results = sig.results
    <3> HIDE DEF sig
    <3> QED
      BY <1>2, <2>2 DEF Control, Signature, Frame
  <2>4. Behind(Fetched)
    BY <1>1, BehindFrames
  <2>5. /\ f.fn = Current.fn /\ f.pc = Current.pc + 1
        /\ f.control = Append(Current.control, c)
    <3> HIDE DEF sig
    <3> QED
      BY <1>2, <2>4 DEF push_control, Frame, Behind
  <2> HIDE DEF f, c
  <2>6. PICK st : /\ Nest(Ops, Current.pc, st) /\ st \in Seq(Nat)
                  /\ Listed(mod.types, Ops, st, Current.control)
    BY <1>1, CurrentNests
  <2>7. /\ Current.pc \in Nat /\ Current.control \in Seq(Control)
        /\ At(Ops, Current.pc) = Arg /\ Arg.op = "StartScope"
    BY <1>1, CurrentNests
  <2>8. Nest(Ops, f.pc, Append(st, Current.pc))
    BY <1>2, <2>5, <2>6, <2>7, NestStart
  <2>9. Listed(mod.types, Ops, Append(st, Current.pc), f.control)
    BY <2>3, <2>5, <2>6, <2>7, ListedStart DEF sig
  <2>10. At(mod.code, f.fn).ops = Ops
    BY <2>5 DEF Ops
  <2>11. FrameNests(mod, f)
    BY <2>8, <2>9, <2>10, Zenon DEF FrameNests, Nests
  <2> QED
    BY <2>1, <2>11, ContinueNests DEF Continue, Keep
<1> QED
  BY <1>3, <1>4

LEMMA LeaveScopeNests ==
  ASSUME ProgramsNest, IInv, FramesNest(mod, frames), LeaveScope
  PROVE  FramesNest(mod', frames')
<1>1. Stepping("EndScope")
  BY DEF LeaveScope
<1>2. /\ status = "running" /\ Fetched \in Frame /\ Arg.scope \in ScopeTypes
      /\ Behind(Fetched)
  BY <1>1, FetchedOK, BehindFrames
<1>3. PICK st : /\ Nest(Ops, Current.pc, st) /\ st \in Seq(Nat)
                /\ Listed(mod.types, Ops, st, Current.control)
  BY <1>1, CurrentNests
<1>4. /\ Len(Ops) \in Nat /\ Scoped(Ops) /\ decode_accepts(Ops)
      /\ Current.pc \in Nat /\ Current.pc \in 0 .. Len(Ops) - 1
      /\ Current.control \in Seq(Control)
      /\ At(Ops, Current.pc) = Arg /\ Arg.op = "EndScope"
  BY <1>1, CurrentNests
<1>5. Nest(Ops, Current.pc + 1, IF st = <<>> THEN <<>> ELSE DropTop(st, 1))
  BY <1>2, <1>3, <1>4, NestEnd DEF IsEnd
\* The end of the function is where no other scope is open.
<1>6. st = <<>> <=> Arg.scope = "Program"
  <2>1. Arg.scope = Innermost(Ops, Current.pc)
    BY <1>4, Zenon DEF decode_accepts
  <2>2. Innermost(Ops, Current.pc) =
          IF st = <<>> THEN "Program" ELSE At(Ops, st[Len(st)]).scope
    BY <1>3, <1>4, NestInnermost
  <2>3. ASSUME st # <<>> PROVE At(Ops, st[Len(st)]).scope # "Program"
    <3>1. Len(st) \in 1 .. Len(st) /\ Current.pc \in 0 .. Len(Ops)
      BY <1>3, <1>4, <2>3
    <3>2. At(Ops, st[Len(st)]).scope \in {"Block", "Loop", "IfElse"}
      BY <1>3, <1>4, <3>1, NestOpened
    <3> QED
      BY <3>2
  <2> QED
    BY <2>1, <2>2, <2>3
<1>7. CASE Arg.scope = "Program"
  <2>1. Nest(Ops, Fetched.pc, st)
    BY <1>2, <1>5, <1>6, <1>7 DEF Behind
  <2>2. Listed(mod.types, Ops, st, Fetched.control)
    BY <1>2, <1>3 DEF Behind
  <2>3. At(mod.code, Fetched.fn).ops = Ops
    BY <1>2 DEF Behind, Ops
  <2>4. FrameNests(mod, Fetched)
    BY <2>1, <2>2, <2>3, Zenon DEF FrameNests, Nests
  <2>5. Finish(Fetched)
    BY <1>7 DEF LeaveScope
  <2> QED
    BY <1>2, <2>4, <2>5, FinishNests
<1>8. CASE Arg.scope # "Program"
  <2> DEFINE r == end_scope(Fetched)
  <2>1. Settle(r)
    BY <1>8 DEF LeaveScope
  <2>2. ASSUME r.fault = "None" PROVE FrameNests(mod, r.frame)
    <3>1. /\ r.frame.pc = Fetched.pc /\ r.frame.fn = Fetched.fn
          /\ r.frame.control = DropTop(Fetched.control, 1)
      BY <1>2, <2>2, EndScopeFields, EndScopeType
    <3> HIDE DEF r
    <3>2. Nest(Ops, r.frame.pc, DropTop(st, 1))
      BY <1>2, <1>5, <1>6, <1>8, <3>1 DEF Behind
    <3>3. 1 <= Len(st)
      BY <1>3, <1>6, <1>8
    <3>4. Listed(mod.types, Ops, DropTop(st, 1), DropTop(Current.control, 1))
      BY <1>3, <1>4, <3>3, ListedDrop
    <3>5. Listed(mod.types, Ops, DropTop(st, 1), r.frame.control)
      BY <1>2, <3>1, <3>4 DEF Behind
    <3>6. At(mod.code, r.frame.fn).ops = Ops
      BY <1>2, <3>1 DEF Behind, Ops
    <3> QED
      BY <3>2, <3>5, <3>6, Zenon DEF FrameNests, Nests
  <2> HIDE DEF r
  <2> QED
    BY <1>2, <2>1, <2>2, SettleNests
<1> QED
  BY <1>7, <1>8

\* A jump within the innermost scope.
LEMMA JumpNests ==
  ASSUME NEW st, Listed(mod.types, Ops, st, Current.control), NEW f \in Frame,
         Behind(f), NEW pc, pc < Len(Ops) => Nest(Ops, pc, st)
  PROVE  FrameNests(mod, [f EXCEPT !.pc = pc])
<1> DEFINE g == [f EXCEPT !.pc = pc]
<1>1. g.pc = pc /\ g.fn = Current.fn /\ g.control = Current.control
  BY DEF Frame, Behind
<1> HIDE DEF g
<1>2. At(mod.code, g.fn).ops = Ops
  BY <1>1 DEF Ops
<1>3. Listed(mod.types, Ops, st, g.control)
  BY <1>1
<1>4. g.pc < Len(Ops) => Nest(Ops, g.pc, st)
  BY <1>1
<1>5. FrameNests(mod, g)
  BY <1>2, <1>3, <1>4, Zenon DEF FrameNests, Nests
<1> QED
  BY <1>5 DEF g

\* An If is right behind the start of its scope, so it is inside of it.
LEMMA IfInside ==
  ASSUME NEW ops, Len(ops) \in Nat, Scoped(ops), decode_accepts(ops),
         NEW i \in 0 .. Len(ops) - 1, i \in Nat, At(ops, i).op = "If",
         NEW st, Nest(ops, i, st)
  PROVE  /\ st # <<>> /\ st[Len(st)] = i - 1
         /\ At(ops, st[Len(st)]).scope = "IfElse"
<1>1. /\ i > 0 /\ At(ops, i - 1).op = "StartScope"
      /\ At(ops, i - 1).scope = "IfElse"
  BY Zenon DEF decode_accepts
<1>2. i - 1 \in 0 .. Len(ops) /\ i - 1 \in Nat /\ (i - 1) + 1 = i
  BY <1>1
<1>3. PICK before : Nest(ops, i - 1, before)
  BY <1>2, NestAt
<1>4. "IfElse" \in ScopeTypes
  BY DEF ScopeTypes
<1>5. Nest(ops, (i - 1) + 1, Append(before, i - 1))
  BY <1>1, <1>2, <1>3, <1>4, NestStart
<1>6. Nest(ops, i, Append(before, i - 1))
  BY <1>2, <1>5
<1>7. st = Append(before, i - 1)
  BY <1>6, NestUnique
<1>8. before \in Seq(Nat)
  BY <1>3 DEF Nest
<1>9. st # <<>> /\ st[Len(st)] = i - 1
  BY <1>2, <1>7, <1>8
<1> QED
  BY <1>1, <1>9

LEMMA IfNests ==
  ASSUME ProgramsNest, IInv, FramesNest(mod, frames), If
  PROVE  FramesNest(mod', frames')
<1>1. Stepping("If")
  BY DEF If
<1>2. status = "running"
  BY <1>1, FetchedOK
<1>3. PICK st : /\ Nest(Ops, Current.pc, st) /\ st \in Seq(Nat)
                /\ Listed(mod.types, Ops, st, Current.control)
  BY <1>1, CurrentNests
<1> DEFINE i == Current.pc
<1>4. /\ Len(Ops) \in Nat /\ Scoped(Ops) /\ decode_accepts(Ops)
      /\ i \in Nat /\ i \in 0 .. Len(Ops) - 1 /\ At(Ops, i).op = "If"
  BY <1>1, CurrentNests
<1>5. st # <<>> /\ At(Ops, st[Len(st)]).scope = "IfElse"
  BY <1>3, <1>4, IfInside
<1>6. Nest(Ops, i + 1, st)
  BY <1>3, <1>4, NestPlain
<1>7. CASE ~ Has(1)
  BY <1>2, <1>7, TrapNests DEF If, Popping
<1>8. CASE Has(1)
  <2> DEFINE pc == skip_then(Ops, Popped(1).pc)
  <2>1. \/ Continue(Popped(1))
        \/ Continue([Popped(1) EXCEPT !.pc = pc])
    BY <1>8 DEF If, Popping
  <2>2. Popped(1) \in Frame /\ Behind(Popped(1))
    BY <1>1, <1>8, PoppedOK, BehindFrames
  <2>3. pc < Len(Ops) => Nest(Ops, pc, st)
    <3>1. Popped(1).pc = i + 1 /\ i + 1 \in Nat
      BY <1>4, <2>2 DEF Behind
    <3> QED
      BY <1>4, <1>5, <1>6, <3>1, SkipThenNests
  <2> HIDE DEF pc
  <2>4. FrameNests(mod, [Popped(1) EXCEPT !.pc = pc])
    BY <1>3, <2>2, <2>3, JumpNests
  <2>5. FrameNests(mod, Popped(1))
    BY <1>1, <2>2, BehindNests
  <2> QED
    BY <2>1, <2>4, <2>5, ContinueNests DEF Continue, Keep
<1> QED
  BY <1>7, <1>8

LEMMA ElseNests ==
  ASSUME ProgramsNest, IInv, FramesNest(mod, frames), Else
  PROVE  FramesNest(mod', frames')
<1> DEFINE pc == skip_else(Ops, Fetched.pc)
           i == Current.pc
<1>1. Stepping("Else") /\ Continue([Fetched EXCEPT !.pc = pc])
  BY DEF Else
<1>2. PICK st : /\ Nest(Ops, i, st) /\ st \in Seq(Nat)
                /\ Listed(mod.types, Ops, st, Current.control)
  BY <1>1, CurrentNests
<1>3. /\ Len(Ops) \in Nat /\ Scoped(Ops) /\ decode_accepts(Ops)
      /\ i \in Nat /\ i \in 0 .. Len(Ops) - 1 /\ At(Ops, i).op = "Else"
  BY <1>1, CurrentNests
<1>4. st # <<>> /\ At(Ops, st[Len(st)]).scope = "IfElse"
  <2>1. Innermost(Ops, i) = "IfElse"
    BY <1>3, Zenon DEF decode_accepts
  <2>2. Innermost(Ops, i) =
          IF st = <<>> THEN "Program" ELSE At(Ops, st[Len(st)]).scope
    BY <1>2, <1>3, NestInnermost
  <2> QED
    BY <2>1, <2>2
<1>5. Nest(Ops, i + 1, st)
  BY <1>2, <1>3, NestPlain
<1>6. Fetched \in Frame /\ Behind(Fetched)
  BY <1>1, BehindFrames
<1>7. pc < Len(Ops) => Nest(Ops, pc, st)
  <2>1. Fetched.pc = i + 1 /\ i + 1 \in Nat
    BY <1>3, <1>6 DEF Behind
  <2> QED
    BY <1>3, <1>4, <1>5, <2>1, SkipElseNests
<1> HIDE DEF pc
<1>8. FrameNests(mod, [Fetched EXCEPT !.pc = pc])
  BY <1>2, <1>6, <1>7, JumpNests
<1> QED
  BY <1>1, <1>8, ContinueNests DEF Continue, Keep

\* A branch out of as many scopes as the operation says.
LEMMA TakenNests ==
  ASSUME ProgramsNest, IInv, FramesNest(mod, frames), NEW name, Stepping(name),
         name \notin {"StartScope", "EndScope"}, NEW f \in Frame, Behind(f),
         NEW depth \in Nat, depth \in Depths(Arg),
         Settle(execute_branch(f, Ops, depth))
  PROVE  FramesNest(mod', frames')
<1> DEFINE r == execute_branch(f, Ops, depth)
<1>1. status = "running"
  BY FetchedOK
<1>2. ASSUME r.fault = "None" PROVE FrameNests(mod, r.frame)
  <2> DEFINE i == Current.pc
  <2>1. PICK st : /\ Nest(Ops, i, st) /\ st \in Seq(Nat)
                  /\ Listed(mod.types, Ops, st, Current.control)
    BY CurrentNests
  <2>2. /\ Len(Ops) \in Nat /\ Scoped(Ops) /\ decode_accepts(Ops)
        /\ LoopsUncrossed(Ops) /\ i \in 0 .. Len(Ops) - 1
        /\ At(Ops, i) = Arg /\ At(Ops, i).op \notin {"StartScope", "EndScope"}
    BY CurrentNests
  <2>3. f.pc = i + 1 /\ Listed(mod.types, Ops, st, f.control)
    BY <2>1 DEF Behind
  <2>4. depth \in Depths(At(Ops, i))
    BY <2>2
  <2>5. Nests(mod.types, Ops, r.frame)
    BY <1>2, <2>1, <2>2, <2>3, <2>4, BranchNests
  <2>6. r.frame.fn = f.fn
    BY <1>2, <2>2, BranchType
  <2> HIDE DEF r
  <2> QED
    BY <2>5, <2>6 DEF FrameNests, Behind, Ops
<1>3. Settle(r)
  OBVIOUS
<1> HIDE DEF r
<1> QED
  BY <1>1, <1>2, <1>3, SettleNests

LEMMA BranchesNest ==
  ASSUME ProgramsNest, IInv, FramesNest(mod, frames), Br \/ BrIf \/ BrTable
  PROVE  FramesNest(mod', frames')
<1>1. ASSUME NEW name, Stepping(name)
      PROVE  /\ status = "running" /\ Arg.op = name /\ Arg.n \in Nat
             /\ Arg.tbl \in Seq(Nat) /\ Fetched \in Frame /\ Behind(Fetched)
             /\ Has(1) => Popped(1) \in Frame /\ Behind(Popped(1))
  BY <1>1, FetchedOK, CurrentNests, PoppedOK, BehindFrames
<1>2. CASE Br
  <2>1. Stepping("Br") /\ Settle(execute_branch(Fetched, Ops, Arg.n))
    BY <1>2 DEF Br
  <2>2. Arg.n \in Depths(Arg)
    BY <1>1, <2>1 DEF Depths
  <2> QED
    BY <1>1, <2>1, <2>2, TakenNests
<1>3. CASE BrIf /\ Has(1)
  <2>1. Stepping("BrIf")
    BY <1>3 DEF BrIf
  <2>2. \/ Continue(Popped(1))
        \/ Settle(execute_branch(Popped(1), Ops, Arg.n))
    BY <1>3 DEF BrIf, Popping
  <2>3. Arg.n \in Depths(Arg) /\ Arg.n \in Nat
    BY <1>1, <2>1 DEF Depths
  <2>4. Popped(1) \in Frame /\ Behind(Popped(1))
    BY <1>1, <1>3, <2>1
  <2>5. FrameNests(mod, Popped(1))
    BY <2>1, <2>4, BehindNests
  <2>6. CASE Continue(Popped(1))
    BY <2>5, <2>6, ContinueNests DEF Continue, Keep
  <2>7. CASE Settle(execute_branch(Popped(1), Ops, Arg.n))
    BY <2>1, <2>3, <2>4, <2>7, TakenNests
  <2> QED
    BY <2>2, <2>6, <2>7
<1>4. CASE BrTable /\ Has(1)
  <2> DEFINE index == U32(Operand(0))
             depth == IF index < Len(Arg.tbl) THEN At(Arg.tbl, index)
                                              ELSE Arg.n
  <2>1. Stepping("BrTable") /\ Settle(execute_branch(Popped(1), Ops, depth))
    BY <1>4 DEF BrTable, Popping
  <2>2. index \in Nat
    BY <1>1, <1>4, <2>1, OperandWord
  <2>3. Arg.tbl \in Seq(Nat) /\ Arg.n \in Nat /\ Arg.op = "BrTable"
    BY <1>1, <2>1
  <2> HIDE DEF index
  <2>4. depth \in Nat
    BY <2>2, <2>3 DEF At
  <2>5. depth \in Depths(Arg)
    <3>1. Depths(Arg) = {Arg.n} \cup {Arg.tbl[k] : k \in 1 .. Len(Arg.tbl)}
      BY <2>3 DEF Depths
    <3>2. index < Len(Arg.tbl) => index + 1 \in 1 .. Len(Arg.tbl)
      BY <2>2, <2>3
    <3> QED
      BY <3>1, <3>2 DEF At
  <2> HIDE DEF depth
  <2>6. Popped(1) \in Frame /\ Behind(Popped(1))
    BY <1>1, <1>4, <2>1
  <2> QED
    BY <2>1, <2>4, <2>5, <2>6, TakenNests
<1>5. CASE (BrIf \/ BrTable) /\ ~ Has(1)
  <2>1. Trap("StackUnderflow") /\ status = "running"
    BY <1>1, <1>5 DEF BrIf, BrTable, Popping
  <2> QED
    BY <2>1, TrapNests
<1> QED
  BY <1>2, <1>3, <1>4, <1>5

-----------------------------------------------------------------------------
(* All steps.                                                              *)

LEMMA PrepareNests ==
  ASSUME ProgramsNest, IInv, FramesNest(mod, frames),
         NEW index \in HostFuncs, NEW args \in HostArgs, Prepare(index, args)
  PROVE  FramesNest(mod', frames')
<1> DEFINE reply == frame_for_funcidx(mod, index, args)
           i == CodeIndex(mod, index)
<1>1. index \in Nat /\ mod \in Modules /\ frames \in Seq(Frame)
  BY HostAssumption DEF IInv, FramesOK
<1>2. CASE frames' = frames /\ mod' = mod
  BY <1>2
<1>3. CASE /\ reply = "Ok" /\ mod' = mod
           /\ frames' = Append(frames, NewFrame(mod, i, args))
  <2>1. i \in Nat /\ i < Len(mod.code)
    BY <1>1, <1>3, LinkReply
  <2> HIDE DEF i
  <2>2. FrameNests(mod, NewFrame(mod, i, args))
    BY <1>1, <2>1, NewFrameNests
  <2> QED
    BY <1>1, <1>3, <2>2, PushNests
<1> QED
  BY <1>2, <1>3 DEF Prepare, Panic

\* No numeric operation has the name of one that opens or closes a scope.
LEMMA NumericPlain ==
  \A name \in NumericOps : name \notin {"StartScope", "EndScope"}
  BY NumericNames DEF ControlOps

LEMMA StepNests ==
  ASSUME ProgramsNest, IInv, FramesNest(mod, frames),
         Run \/ HostPrepare \/ EngineStep \/ UNCHANGED vars
  PROVE  FramesNest(mod', frames')
<1> DEFINE Done == FramesNest(mod', frames')
           Plain(name) == Stepping(name) /\ name \notin {"StartScope", "EndScope"}
<1>1. ASSUME NEW name, Plain(name)
      PROVE  /\ status = "running" /\ Fetched \in Frame /\ Arg.n \in Nat
             /\ \A g : Behind(g) => FrameNests(mod, g)
             /\ \A g : Behind(g) /\ (Continue(g) \/ Keep(g)) => Done
             /\ Behind(Fetched)
             /\ \A n : Behind(Popped(n))
             /\ \A n, w : Behind(PopPush(n, w))
             /\ \A i, v : Behind([Fetched EXCEPT !.locals[i] = v])
             /\ \A n, i, v : Behind([Popped(n) EXCEPT !.locals[i] = v])
  <2>1. status = "running" /\ Fetched \in Frame /\ Arg.n \in Nat
    BY <1>1, FetchedOK
  <2>2. \A g : Behind(g) => FrameNests(mod, g)
    BY <1>1, BehindNests
  <2>3. \A g : Behind(g) /\ (Continue(g) \/ Keep(g)) => Done
    BY <2>2, ContinueNests DEF Continue, Keep
  <2> QED
    BY <1>1, <2>1, <2>2, <2>3, BehindFrames
<1>2. ASSUME NEW fault, status = "running", Trap(fault) PROVE Done
  BY <1>2, TrapNests
<1>3. ASSUME frames' = frames, mod' = mod PROVE Done
  BY <1>3
<1>4. ASSUME NEW fault, NEW name, Stepping(name), Trap(fault) PROVE Done
  BY <1>2, <1>4 DEF Stepping
<1> SUFFICES Done
  OBVIOUS
<1> HIDE DEF Done
<1>5. CASE ProgramEnd
  <2>1. status = "running" /\ Current.pc >= Len(Ops) /\ Finish(Current)
    BY <1>5 DEF ProgramEnd
  <2>2. Current \in Frame /\ Current.pc \in Nat /\ Len(Ops) \in Nat
    BY <2>1, CurrentOK
  <2>3. ~ (Current.pc < Len(Ops))
    BY <2>1, <2>2
  <2>4. FrameNests(mod, Current)
    BY <2>3 DEF FrameNests, Nests, Ops
  <2> QED
    BY <2>1, <2>2, <2>4, FinishNests DEF Done
<1>6. CASE OutOfTicks
  BY <1>2, <1>6 DEF OutOfTicks
<1>7. CASE Nop \/ Unreachable \/ Drop \/ Select
  BY <1>1, <1>4, <1>7, Zenon DEF Nop, Unreachable, Drop, Select, Popping
<1>8. CASE Return
  <2>1. Plain("Return") /\ Finish(Fetched)
    BY <1>8 DEF Return
  <2> QED
    BY <1>1, <2>1, FinishNests DEF Done
<1>9. CASE Call
  <2>1. Plain("Call") /\ EnterCall(Arg.n, Fetched)
    BY <1>9 DEF Call
  <2> QED
    BY <1>1, <2>1, EnterCallNests DEF Done
<1>10. CASE CallIndirect
  <2>1. Plain("CallIndirect")
    BY <1>10 DEF CallIndirect
  <2>2. CASE \E fault \in Faults : Trap(fault)
    BY <1>1, <1>2, <2>1, <2>2
  <2>3. CASE Has(1) /\ \E c \in Nat : EnterCall(c, Popped(1))
    <3>1. Popped(1) \in Frame
      BY <2>1, <2>3, PoppedOK
    <3> QED
      BY <1>1, <2>1, <2>3, <3>1, EnterCallNests DEF Done
  <2> QED
    BY <1>10, <2>2, <2>3, CallIndirectCases
<1>11. CASE GetLocal \/ GetGlobal
  BY <1>1, <1>4, <1>11, Zenon DEF GetLocal, GetGlobal
<1>12. CASE SetLocal \/ TeeLocal
  <2>1. (Plain("SetLocal") \/ Plain("TeeLocal"))
        /\ (set_local_from_stack(TRUE) \/ set_local_from_stack(FALSE))
    BY <1>12 DEF SetLocal, TeeLocal
  <2>2. CASE Panic
    BY <1>3, <2>2 DEF Panic
  <2> QED
    BY <1>1, <1>4, <2>1, <2>2 DEF set_local_from_stack, Popping
<1>13. CASE SetGlobal \/ TableGet \/ TableSet
  BY <1>1, <1>4, <1>13 DEF SetGlobal, TableGet, TableSet, Popping
<1>14. CASE ConstOp
  BY <1>1, <1>14 DEF ConstOp, ConstOps
<1>15. CASE NumericOp
  BY <1>1, <1>4, <1>15, NumericPlain DEF NumericOp, Popping
<1>16. CASE RefNull \/ RefFunc \/ RefIsNull \/ RefAsNonNull \/ RefEq
  BY <1>1, <1>4, <1>16
     DEF RefNull, RefFunc, RefIsNull, RefAsNonNull, RefEq, Popping
<1>17. CASE EnterScope \/ LeaveScope \/ If \/ Else \/ Br \/ BrIf \/ BrTable
  BY <1>17, EnterScopeNests, LeaveScopeNests, IfNests, ElseNests, BranchesNest
     DEF Done
<1>18. CASE Run \/ UNCHANGED vars
  BY <1>3, <1>18 DEF Run, Panic, vars
<1>19. CASE HostPrepare
  BY <1>19, PrepareNests DEF HostPrepare, Done
<1> QED
  BY <1>5, <1>6, <1>7, <1>8, <1>9, <1>10, <1>11, <1>12, <1>13, <1>14, <1>15,
     <1>16, <1>17, <1>18, <1>19 DEF EngineStep

LEMMA NestingMatches ==
  ASSUME IInv, FramesNest(mod, frames)
  PROVE  ScopesMatchNesting
<1>1. ASSUME NEW i \in 1 .. Len(frames),
             frames[i].pc < Len(At(mod.code, frames[i].fn).ops)
      PROVE  Matches(mod.types, At(mod.code, frames[i].fn).ops, frames[i].pc,
                     frames[i].control)
  <2> DEFINE f == frames[i]
             ops == At(mod.code, f.fn).ops
  <2>1. f \in Frame
    BY DEF IInv, FramesOK
  <2>2. f.pc \in Nat
    BY <2>1 DEF Frame
  <2>3. Nests(mod.types, ops, f) /\ f.pc < Len(ops)
    BY <1>1 DEF FramesNest, FrameNests
  <2> HIDE DEF f, ops
  <2>4. PICK st : Nest(ops, f.pc, st) /\ Listed(mod.types, ops, st, f.control)
    BY <2>3, Zenon DEF Nests
  <2>5. Matches(mod.types, ops, f.pc, f.control)
    BY <2>2, <2>4, ListedMatches
  <2> QED
    BY <2>5 DEF f, ops
<1> QED
  BY <1>1, Zenon DEF ScopesMatchNesting, Matches
=============================================================================
