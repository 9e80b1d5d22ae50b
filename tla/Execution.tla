----------------------------- MODULE Execution -----------------------------
(***************************************************************************)
(* The interpreter: Execution::prepare and Execution::run, the execute     *)
(* loop they drive, and the calls and returns between frames (exec.rs,     *)
(* instance.rs, frame.rs).  A host calls prepare and run on one Execution; *)
(* nothing runs concurrently, so each step is one whole operation of the   *)
(* execute loop together with what run() does with its outcome.  Module    *)
(* Machine adds the memory, the operations that use it, and the whole.     *)
(***************************************************************************)
EXTENDS Instances

CONSTANTS
  Modules,        \* the linked modules the host may execute
  HostFuncs,      \* function indices the host passes to prepare
  HostArgs,       \* argument lists the host passes to prepare
  Disciplined,    \* the host prepares what exists, with its arity, then runs
  MAX_TICKS,      \* the tick budget of one execute() call: 1000000 in run()
  MaxFrames,      \* frames the machine has memory for; the code has no limit
  MaxStale,       \* frames not yet run at which the host stops preparing more
  Arity(_),       \* the arities and the meaning of the arithmetic operations,
  Numeric(_, _)   \* given by module Numeric

VARIABLES
  mod,            \* Execution.instance.module, with its programs
  globals,        \* instance.globals
  tables,         \* instance.tables
  frames,         \* Execution.frame_stack, the top frame last
  result,         \* Execution.result
  status,         \* "idle", "prepared", "running" or "panicked"
  outcome,        \* what the last prepare or run returned
  ticks,          \* ticks_used of the current execute()
  invoked         \* history: the last prepare, and the state it found

vars == <<mod, globals, tables, frames, result, status, outcome, ticks,
          invoked>>

-----------------------------------------------------------------------------
(* Assumptions.                                                            *)

\* A numeric operation takes one or two words and gives a word or a fault.
NumericFaults ==
  {"IntegerDivisionByZero", "IntegerOverflow", "InvalidConversion"}
NumericReply == [fault : NumericFaults \cup {"None"}, w : Word]

\* What prepare and run return, None before the first of them: Ok, a Fault or a
\* LinkError; Panic when they abort.
Replies == Faults \cup LinkErrors \cup {"None", "Ok", "Panic"}

ASSUME ModulesAssumption == \A m \in Modules : IsModule(m)
ASSUME HostAssumption ==
  /\ HostFuncs \subseteq Nat
  /\ \A args \in HostArgs : args \in Seq(Value)
  /\ Disciplined \in BOOLEAN
ASSUME BoundsAssumption ==
  MAX_TICKS \in Nat \ {0} /\ MaxFrames \in Nat /\ MaxStale \in Nat
ASSUME NumericAssumption ==
  \A o \in NumericOps :
    /\ Arity(o) \in {1, 2}
    /\ Arity(o) = 1 => \A a \in Word : Numeric(o, <<a>>) \in NumericReply
    /\ Arity(o) = 2 =>
         \A a, b \in Word : Numeric(o, <<a, b>>) \in NumericReply

-----------------------------------------------------------------------------
(* Steps of run(), and of the host.                                        *)

Current == frames[Len(frames)]
Ops == At(mod.code, Current.fn).ops

\* The execute loop has fetched operation "name", and pc is behind it.
Stepping(name) ==
  /\ status = "running"
  /\ Current.pc < Len(Ops)
  /\ ticks + 1 < MAX_TICKS
  /\ At(Ops, Current.pc).op = name

Arg == At(Ops, Current.pc)
Fetched == [Current EXCEPT !.pc = @ + 1]
Has(n) == Len(Current.stack) >= n
Operand(i) == Current.stack[Len(Current.stack) - i]
Popped(n) == [Fetched EXCEPT !.stack = DropTop(@, n)]
PopPush(n, w) == [Fetched EXCEPT !.stack = Append(DropTop(@, n), w)]
U32(w) == w % M32
Bit(b) == IF b THEN 1 ELSE 0

\* Mutant: the tick is not counted.
Keep_uncounted(f) ==
  /\ frames' = [frames EXCEPT ![Len(frames)] = f]
  /\ UNCHANGED <<mod, result, status, outcome, ticks, invoked>>

\* The operation is done, with f as the new top frame.
Keep(f) ==
  /\ frames' = [frames EXCEPT ![Len(frames)] = f]
  /\ ticks' = ticks + 1
  /\ UNCHANGED <<mod, result, status, outcome, invoked>>
Continue(f) == Keep(f) /\ UNCHANGED <<globals, tables>>

\* Mutant: the bottom frame is removed.
Trap_bottom(fault) ==
  /\ frames' = Tail(frames)
  /\ status' = "idle" /\ outcome' = fault /\ ticks' = 0
  /\ UNCHANGED <<mod, globals, tables, result, invoked>>

\* run() returns an error found by execute(): it pops the top frame, no other.
Trap(fault) ==
  /\ frames' = DropTop(frames, 1)
  /\ status' = "idle" /\ outcome' = fault /\ ticks' = 0
  /\ UNCHANGED <<mod, globals, tables, result, invoked>>

\* run() returns an error of its own: the top frame stays, as f.
RunError(fault, f) ==
  /\ frames' = [frames EXCEPT ![Len(frames)] = f]
  /\ status' = "idle" /\ outcome' = fault /\ ticks' = 0
  /\ UNCHANGED <<mod, globals, tables, result, invoked>>

Panic ==
  /\ status' = "panicked" /\ outcome' = "Panic"
  /\ UNCHANGED <<mod, globals, tables, frames, result, ticks, invoked>>

Settle(r) == IF r.fault = "None" THEN Continue(r.frame) ELSE Trap(r.fault)

\* Operations that start by popping n operands.
Popping(n, A) == IF Has(n) THEN A ELSE Trap("StackUnderflow")

\* Mutant: the results go to the first frame, not to the last.
Finish_to_first(f) ==
  LET tys == ReturnTypes(mod, f.fn)
      vals == PopValues(f.stack, tys)
      below == DropTop(frames, 1)
  IN IF ~ CanPop(f.stack, tys)
     THEN RunError("StackUnderflow", [f EXCEPT !.stack = <<>>])
     ELSE IF below = <<>>
     THEN /\ frames' = <<>>
          /\ result' = [some |-> TRUE, vals |-> vals]
          /\ status' = "idle" /\ outcome' = "Ok" /\ ticks' = 0
          /\ UNCHANGED <<mod, globals, tables, invoked>>
     ELSE /\ frames' = [below EXCEPT ![1].stack = PushValues(@, vals)]
          /\ ticks' = 0
          /\ UNCHANGED <<mod, globals, tables, result, status, outcome,
                         invoked>>

\* Continuation::ProgramEnd and DoneReturn: f hands its results to the frame
\* below, which continues in a new execute(), or to Execution.result.
Finish(f) ==
  LET tys == ReturnTypes(mod, f.fn)
      vals == PopValues(f.stack, tys)
      below == DropTop(frames, 1)
  IN IF ~ CanPop(f.stack, tys)
     THEN RunError("StackUnderflow", [f EXCEPT !.stack = <<>>])
     ELSE IF below = <<>>
     THEN /\ frames' = <<>>
          /\ result' = [some |-> TRUE, vals |-> vals]
          /\ status' = "idle" /\ outcome' = "Ok" /\ ticks' = 0
          /\ UNCHANGED <<mod, globals, tables, invoked>>
     ELSE /\ frames' = [below EXCEPT
                         ![Len(below)].stack = PushValues(@, vals)]
          /\ ticks' = 0
          /\ UNCHANGED <<mod, globals, tables, result, status, outcome,
                         invoked>>

\* Continuation::Call(c), with f the calling frame.  The signature that tells
\* how many arguments to pop is looked up without the import offset.
EnterCall(c, f) ==
  LET params == FuncTypeOf(mod, c).params
      args == PopValues(f.stack, params)
      caller == [f EXCEPT !.stack = DropTop(@, Len(params))]
      reply == frame_for_funcidx(mod, c, args)
  IN IF c >= Len(mod.functions) THEN RunError("GlobalIndexOutOfBounds", f)
     ELSE IF ~ CanPop(f.stack, params)
     THEN RunError("StackUnderflow", [f EXCEPT !.stack = <<>>])
     ELSE IF reply \in LinkErrors THEN RunError(reply, caller)
     ELSE IF reply = "Panic" \/ Len(frames) >= MaxFrames THEN Panic
     ELSE /\ frames' = Append([frames EXCEPT ![Len(frames)] = caller],
                              NewFrame(mod, CodeIndex(mod, c), args))
          /\ ticks' = 0
          /\ UNCHANGED <<mod, globals, tables, result, status, outcome,
                         invoked>>

-----------------------------------------------------------------------------
(* The host.                                                               *)

\* A disciplined host names a function that exists and passes its arity, and
\* prepares again only after a run.
HostMayPrepare(index, args) ==
  Disciplined =>
    /\ status = "idle"
    /\ ~ Missing(mod, index)
    /\ Len(args) = Len(FuncTypeOf(mod, CodeIndex(mod, index)).params)

\* Execution::prepare.
Prepare(index, args) ==
  LET reply == frame_for_funcidx(mod, index, args)
  IN /\ status \in {"idle", "prepared"}
     /\ Len(frames) <= MaxStale
     /\ HostMayPrepare(index, args)
     /\ \/ /\ reply = "Ok"
           /\ frames' = Append(frames,
                               NewFrame(mod, CodeIndex(mod, index), args))
           /\ invoked' = [fn |-> CodeIndex(mod, index), args |-> args,
                          base |-> Len(frames), globals |-> globals,
                          tables |-> tables]
           /\ status' = "prepared" /\ outcome' = "Ok"
           /\ UNCHANGED <<mod, globals, tables, result, ticks>>
        \/ /\ reply \in LinkErrors
           /\ outcome' = reply
           /\ UNCHANGED <<mod, globals, tables, frames, result, status, ticks,
                          invoked>>
        \/ reply = "Panic" /\ Panic

\* Mutant: nothing makes sure that there is a frame.
Run_unchecked ==
  /\ status = "prepared" \/ (status = "idle" /\ ~ Disciplined)
  /\ status' = "running" /\ ticks' = 0
  /\ UNCHANGED <<mod, globals, tables, frames, result, outcome, invoked>>

\* Execution::run, which unwraps the top frame.
Run ==
  \/ /\ status = "prepared" \/ (status = "idle" /\ ~ Disciplined)
     /\ frames # <<>>
     /\ status' = "running" /\ ticks' = 0
     /\ UNCHANGED <<mod, globals, tables, frames, result, outcome, invoked>>
  \/ status = "idle" /\ ~ Disciplined /\ frames = <<>> /\ Panic

-----------------------------------------------------------------------------
(* The execute loop: the end of the program, the tick budget, and one      *)
(* action per operation.                                                   *)

ProgramEnd ==
  /\ status = "running" /\ Current.pc >= Len(Ops)
  /\ Finish(Current)

OutOfTicks ==
  /\ status = "running" /\ Current.pc < Len(Ops)
  /\ ticks + 1 >= MAX_TICKS
  /\ Trap("OutOfTicks")

Nop == Stepping("Nop") /\ Continue(Fetched)

Unreachable == Stepping("Unreachable") /\ Trap("Unreachable")

EnterScope ==
  /\ Stepping("StartScope")
  /\ IF Resolvable(mod.types, Arg)
     THEN Continue(push_control(Fetched, resolve_type(mod.types, Arg),
                                Arg.scope))
     ELSE Trap("UnresolvableTypeIndex")

LeaveScope ==
  /\ Stepping("EndScope")
  /\ IF Arg.scope = "Program" THEN Finish(Fetched)
     ELSE Settle(end_scope(Fetched))

If ==
  /\ Stepping("If")
  /\ Popping(1,
       IF U32(Operand(0)) = 0
       THEN Continue([Popped(1) EXCEPT !.pc = skip_then(Ops, @)])
       ELSE Continue(Popped(1)))

Else ==
  /\ Stepping("Else")
  /\ Continue([Fetched EXCEPT !.pc = skip_else(Ops, @)])

Br == Stepping("Br") /\ Settle(execute_branch(Fetched, Ops, Arg.n))

BrIf ==
  /\ Stepping("BrIf")
  /\ Popping(1,
       IF U32(Operand(0)) = 0 THEN Continue(Popped(1))
       ELSE Settle(execute_branch(Popped(1), Ops, Arg.n)))

BrTable ==
  /\ Stepping("BrTable")
  /\ Popping(1,
       LET index == U32(Operand(0))
           depth == IF index < Len(Arg.tbl) THEN At(Arg.tbl, index) ELSE Arg.n
       IN Settle(execute_branch(Popped(1), Ops, depth)))

Return == Stepping("Return") /\ Finish(Fetched)

Call == Stepping("Call") /\ EnterCall(Arg.n, Fetched)

\* call_indirect n (type) m (table); an element's null is either form of None.
CallIndirect ==
  /\ Stepping("CallIndirect")
  /\ Popping(1,
       LET table == At(tables, Arg.m)
           index == U32(Operand(0))
           elem == At(table.elements, index)
           actual == FuncTypeOf(mod, elem.v)
       IN IF Arg.m >= Len(tables) THEN Trap("UndefinedElement")
          ELSE IF index >= Len(table.elements) THEN Trap("UndefinedElement")
          ELSE IF elem = NoElem \/ elem = Val("FuncRef", NoRef)
          THEN Trap("UninitializedElement")
          ELSE IF elem.ty # "FuncRef" \/ elem.v >= Len(mod.functions)
          THEN Trap("UndefinedElement")
          ELSE IF Arg.n >= Len(mod.types) THEN Trap("UnresolvableTypeIndex")
          ELSE IF At(mod.types, Arg.n) # actual
          THEN Trap("IndirectCallTypeMismatch")
          ELSE EnterCall(elem.v, Popped(1)))

Drop == Stepping("Drop") /\ Popping(1, Continue(Popped(1)))

Select ==
  \E name \in {"Select", "SelectT"} :
    /\ Stepping(name)
    /\ Popping(3,
         Continue(PopPush(3, IF U32(Operand(0)) # 0 THEN Operand(2)
                                                    ELSE Operand(1))))

GetLocal ==
  /\ Stepping("GetLocal")
  /\ IF Arg.n < Len(Current.locals)
     THEN Continue(PopPush(0, push_to(At(Current.locals, Arg.n))))
     ELSE Trap("LocalIndexOutOfBounds")

\* Arguments beyond the declared locals have no type, and looking it up aborts.
set_local_from_stack(pop) ==
  LET tys == LocalTypes(mod, Current.fn)
      ty == At(tys, Arg.n)
  IN IF Arg.n >= Len(Current.locals) THEN Trap("LocalIndexOutOfBounds")
     ELSE IF Arg.n >= Len(tys) THEN Panic
     ELSE Popping(1,
            IF pop
            THEN Continue([Popped(1) EXCEPT
                   !.locals[Arg.n + 1] = pop_from(ty, Operand(0))])
            ELSE Continue([Fetched EXCEPT
                   !.locals[Arg.n + 1] = top_of(ty, Operand(0))]))

SetLocal == Stepping("SetLocal") /\ set_local_from_stack(TRUE)
TeeLocal == Stepping("TeeLocal") /\ set_local_from_stack(FALSE)

GetGlobal ==
  /\ Stepping("GetGlobal")
  /\ IF Arg.n < Len(globals)
     THEN Continue(PopPush(0, push_to(At(globals, Arg.n))))
     ELSE Trap("GlobalIndexOutOfBounds")

\* Mutant: every global is read from the stack as an i32.
SetGlobal_untyped ==
  /\ Stepping("SetGlobal")
  /\ IF Arg.n >= Len(globals) THEN Trap("GlobalIndexOutOfBounds")
     ELSE Popping(1,
            /\ globals' = [globals EXCEPT
                 ![Arg.n + 1] = pop_from("I32", Operand(0))]
            /\ Keep(Popped(1))
            /\ UNCHANGED tables)

SetGlobal ==
  /\ Stepping("SetGlobal")
  /\ IF Arg.n >= Len(globals) THEN Trap("GlobalIndexOutOfBounds")
     ELSE Popping(1,
            /\ globals' = [globals EXCEPT
                 ![Arg.n + 1] = pop_from(At(mod.globals, Arg.n).ty, Operand(0))]
            /\ Keep(Popped(1))
            /\ UNCHANGED tables)

TableGet ==
  /\ Stepping("TableGet")
  /\ Popping(1,
       LET elements == At(tables, Arg.n).elements
           index == U32(Operand(0))
           elem == At(elements, index)
       IN IF Arg.n >= Len(tables) THEN Trap("GlobalIndexOutOfBounds")
          ELSE IF index >= Len(elements) THEN Trap("MemoryOutOfBounds")
          ELSE Continue(PopPush(1, IF elem = NoElem THEN NullWord
                                                    ELSE push_to(elem))))

\* The index is popped first, the reference below it second.
TableSet ==
  /\ Stepping("TableSet")
  /\ Popping(1,
       LET table == At(tables, Arg.n)
           index == U32(Operand(0))
       IN IF Arg.n >= Len(tables) THEN Trap("GlobalIndexOutOfBounds")
          ELSE IF index >= Len(table.elements) THEN Trap("MemoryOutOfBounds")
          ELSE Popping(2,
                 /\ tables' = [tables EXCEPT ![Arg.n + 1].elements[index + 1] =
                                 pop_from(table.ref_type, Operand(1))]
                 /\ Keep(Popped(2))
                 /\ UNCHANGED globals))

ConstOp ==
  \E name \in ConstOps :
    Stepping(name) /\ Continue(PopPush(0, Arg.k % M64))

NumericOp ==
  \E name \in NumericOps :
    /\ Stepping(name)
    /\ Popping(Arity(name),
         LET reply == Numeric(name, IF Arity(name) = 1 THEN <<Operand(0)>>
                                    ELSE <<Operand(1), Operand(0)>>)
         IN IF reply.fault = "None" THEN Continue(PopPush(Arity(name), reply.w))
            ELSE Trap(reply.fault))

\* The type of a ref.null is its immediate.
RefNull ==
  /\ Stepping("RefNull")
  /\ IF Arg.ty \in RefTypes THEN Continue(PopPush(0, NullWord))
     ELSE Trap("InvalidRefType")

RefFunc == Stepping("RefFunc") /\ Continue(PopPush(0, U32(Arg.n)))

RefIsNull ==
  /\ Stepping("RefIsNull")
  /\ Popping(1, Continue(PopPush(1, Bit(Operand(0) = NullWord))))

RefAsNonNull ==
  /\ Stepping("RefAsNonNull")
  /\ Popping(1, IF Operand(0) = NullWord THEN Trap("NullReference")
                ELSE Continue(PopPush(1, U32(Operand(0)))))

RefEq ==
  /\ Stepping("RefEq")
  /\ Popping(2, Continue(PopPush(2,
       Bit(pop_from("ExternRef", Operand(0))
             = pop_from("ExternRef", Operand(1))))))

-----------------------------------------------------------------------------
Init ==
  /\ mod \in Modules
  /\ globals = mod.globals
  /\ tables = mod.tables
  /\ frames = <<>>
  /\ result = [some |-> FALSE, vals |-> <<>>]
  /\ status = "idle" /\ outcome = "None" /\ ticks = 0
  /\ invoked = [fn |-> 0, args |-> <<>>, base |-> 0, globals |-> <<>>,
                tables |-> <<>>]

HostPrepare ==
  \E index \in HostFuncs, args \in HostArgs : Prepare(index, args)

EngineStep ==
  \/ ProgramEnd \/ OutOfTicks \/ Nop \/ Unreachable \/ EnterScope
  \/ LeaveScope \/ If \/ Else \/ Br \/ BrIf \/ BrTable \/ Return \/ Call
  \/ CallIndirect \/ Drop \/ Select \/ GetLocal \/ SetLocal \/ TeeLocal
  \/ GetGlobal \/ SetGlobal \/ TableGet \/ TableSet \/ ConstOp \/ NumericOp
  \/ RefNull \/ RefFunc \/ RefIsNull \/ RefAsNonNull \/ RefEq

-----------------------------------------------------------------------------
(* Properties.                                                             *)

\* Type correctness: every stack entry is a 64-bit word, every frame belongs to
\* a function of the module, and run() has a top frame to work on.
TypeOK ==
  /\ globals \in Seq(Value)
  /\ tables \in Seq(Table)
  /\ frames \in Seq(Frame)
  /\ \A i \in 1 .. Len(frames) : frames[i].fn < Len(mod.code)
  /\ result \in [some : BOOLEAN, vals : Seq(Value)]
  /\ status \in {"idle", "prepared", "running", "panicked"}
  /\ outcome \in Replies
  /\ ticks \in Nat
  /\ invoked \in [fn : Nat, args : Seq(Value), base : Nat,
                  globals : Seq(Value), tables : Seq(Table)]
  /\ status \in {"prepared", "running"} => frames # <<>>

\* The operand stack forgets types, so each store decodes a raw word at the
\* type declared for the place it goes to.  In every frame of the frame stack
\* the locals are those the function declares, at their declared types, and
\* every global keeps the type it was declared with, whatever the code does.
StoresTyped ==
  /\ \A i \in 1 .. Len(frames) :
       LET tys == LocalTypes(mod, frames[i].fn)
       IN /\ Len(frames[i].locals) = Len(tys)
          /\ \A j \in 1 .. Len(tys) : frames[i].locals[j].ty = tys[j]
  /\ Len(globals) = Len(mod.globals)
  /\ \A i \in 1 .. Len(globals) : globals[i].ty = mod.globals[i].ty

\* However many arguments the host passes, every declared local is there, so
\* that no access to a declared local can fault or abort.
DeclaredLocalsPresent ==
  \A i \in 1 .. Len(frames) :
    Len(frames[i].locals) >= Len(LocalTypes(mod, frames[i].fn))

\* What the programs must be like for it: decoded, and without the branches to
\* an outer loop that go to the inner one instead.
ProgramsNest ==
  \A m \in Modules : \A i \in 1 .. Len(m.code) :
    decode_accepts(m.code[i].ops) /\ LoopsUncrossed(m.code[i].ops)

\* A branch names its target by depth, so the control stack of every frame,
\* suspended callers included, must list exactly the scopes the pc is inside
\* of, outermost first, below them the function's own scope: whichever
\* branches, skipped arms and calls led there.
ScopesMatchNesting ==
  \A i \in 1 .. Len(frames) :
    LET f == frames[i]
        ops == At(mod.code, f.fn).ops
        open == OpenScopes(ops, f.pc)
    IN f.pc < Len(ops) =>
         /\ Len(f.control) = Cardinality(open) + 1
         /\ f.control[1].scope = "Function"
         /\ \A s \in open :
              LET c == f.control[2 + Cardinality({t \in open : t < s})]
              IN /\ c.scope = At(ops, s).scope
                 /\ c.results = resolve_type(mod.types, At(ops, s)).results

\* Leaving a scope can only truncate the operand stack, so an open scope must
\* never have used up operands from below its entry; the scope of an if was
\* entered with the condition still on the stack.
OperandsAboveScopes ==
  \A i \in 1 .. Len(frames) :
    \A j \in 1 .. Len(frames[i].control) :
      LET c == frames[i].control[j]
      IN c.width <= Len(frames[i].stack)
                      + (IF c.scope = "IfElse" THEN 1 ELSE 0)

\* A frame that is not on top is suspended in a call: no step changes it,
\* except that the frame that comes back on top gets results pushed on its
\* operand stack.  Its pc, scopes and locals are what they were at the call.
CallersKept ==
  \A i \in 1 .. Len(frames) - 1 :
    i <= Len(frames') =>
      /\ [frames'[i] EXCEPT !.stack = <<>>] = [frames[i] EXCEPT !.stack = <<>>]
      /\ Len(frames'[i].stack) >= Len(frames[i].stack)
      /\ SubSeq(frames'[i].stack, 1, Len(frames[i].stack)) = frames[i].stack
      /\ i < Len(frames') => frames'[i] = frames[i]
CallersUntouched == [][CallersKept]_vars

\* run() comes back to the host: it finishes, faults or runs out of ticks.
RunReturns == status = "running" ~> status = "idle"
=============================================================================
