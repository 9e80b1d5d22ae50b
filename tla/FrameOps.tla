------------------------------ MODULE FrameOps ------------------------------
(***************************************************************************)
(* Frames (frame.rs), decoded programs (decode.rs, op.rs) and the control  *)
(* transfers of the interpreter (exec.rs) as operators on one frame.       *)
(*                                                                         *)
(* Indices are 0-based as in the source: At(s, i) is the i-th entry of a   *)
(* sequence and a frame's pc counts the operations before it.              *)
(*                                                                         *)
(* An operation is a record whose fields are those of all Op variants:     *)
(* n and m are its immediate indices, k its constant, ty its value type or *)
(* block type ("Index" for a type index, kept in n), scope its ScopeType   *)
(* and tbl the depths of a br_table.                                       *)
(***************************************************************************)
EXTENDS Values, FiniteSets

At(s, i) == s[i + 1]

ScopeTypes == {"Program", "Function", "Loop", "Block", "IfElse"}
BlockTypes == ValTypes \cup {"Unit", "Index"}

ConstOps == {"I32Const", "I64Const", "F32Const", "F64Const"}
ControlOps ==
  {"Nop", "Unreachable", "StartScope", "EndScope", "If", "Else", "Br", "BrIf",
   "BrTable", "Return", "Call", "CallIndirect"}
DataOps ==
  {"Drop", "Select", "SelectT", "GetLocal", "SetLocal", "TeeLocal",
   "GetGlobal", "SetGlobal", "TableGet", "TableSet", "RefNull", "RefFunc", "RefIsNull",
   "RefAsNonNull", "RefEq"} \cup ConstOps

\* How many bytes a load reads and a store writes.  A load pushes an i32 or an
\* i64 with its sign, unless it is one of UnsignedLoads; a float by its bits.
LoadOps ==
  [LoadI32 |-> 4, LoadI64 |-> 8, LoadF32 |-> 4, LoadF64 |-> 8,
   Load8Se |-> 1, Load16Se |-> 2, Load8I64Se |-> 1, Load16I64Se |-> 2,
   Load32I64Se |-> 4, Load8Ze |-> 1, Load16Ze |-> 2, Load8I64Ze |-> 1,
   Load16I64Ze |-> 2, Load32I64Ze |-> 4]
UnsignedLoads ==
  {"LoadF32", "LoadF64", "Load8Ze", "Load16Ze", "Load8I64Ze", "Load16I64Ze",
   "Load32I64Ze"}
StoreOps ==
  [StoreI32 |-> 4, StoreI64 |-> 8, StoreF32 |-> 4, StoreF64 |-> 8,
   Store8_32 |-> 1, Store16_32 |-> 2, Store8_64 |-> 1, Store16_64 |-> 2,
   Store32_64 |-> 4]
MemoryOps == DOMAIN LoadOps \cup DOMAIN StoreOps \cup {"MemorySize", "MemoryGrow"}

Op(name) == [op |-> name, n |-> 0, m |-> 0, k |-> 0, ty |-> "Unit",
             scope |-> "Program", tbl |-> <<>>]
OpN(name, n) == [Op(name) EXCEPT !.n = n]
Const(name, k) == [Op(name) EXCEPT !.k = k]
StartScope(scope, ty, idx) ==
  [Op("StartScope") EXCEPT !.scope = scope, !.ty = ty, !.n = idx]
EndScope(scope) == [Op("EndScope") EXCEPT !.scope = scope]

\* A control-stack entry: the resolved signature is a function type (fn) or a
\* single value type, and its results are what a branch or an end carries.
Control == [scope : ScopeTypes, fn : BOOLEAN, results : Seq(ValTypes),
            width : Nat]

Frame == [fn : Nat, pc : Nat, stack : Seq(Word), control : Seq(Control),
          locals : Seq(Value)]

-----------------------------------------------------------------------------
(* What an operator on a frame gives back: the frame, or a fault.          *)

Faults ==
  {"OutOfTicks", "StackUnderflow", "ControlStackUnderflow",
   "LocalIndexOutOfBounds", "GlobalIndexOutOfBounds", "MemoryOutOfBounds",
   "UnresolvableTypeIndex", "InvalidRefType", "NullReference",
   "IntegerDivisionByZero", "IntegerOverflow", "InvalidConversion",
   "UndefinedElement", "UninitializedElement", "IndirectCallTypeMismatch",
   "Unreachable"}

Fine(f) == [fault |-> "None", frame |-> f]
Faulted(name, f) == [fault |-> name, frame |-> f]

\* push_control records the width of the operand stack at that moment.
push_control(f, sig, scope) ==
  [f EXCEPT !.control = Append(@,
     [scope |-> scope, fn |-> sig.fn, results |-> sig.results,
      width |-> Len(f.stack)])]

ValueSig(ty) ==
  [fn |-> FALSE, results |-> IF ty = "Unit" THEN <<>> ELSE <<ty>>]

\* resolve_type, for a block type that is resolvable.
Resolvable(types, o) == o.ty = "Index" => o.n < Len(types)
resolve_type(types, o) ==
  IF o.ty = "Index" THEN [fn |-> TRUE, results |-> At(types, o.n).results]
                    ELSE ValueSig(o.ty)

\* Mutant: shrinks to one less than the width recorded on entry.
end_scope_off_by_one(f) ==
  LET c == f.control[Len(f.control)]
  IN IF f.control = <<>> THEN Faulted("ControlStackUnderflow", f)
     ELSE IF ~ CanPop(f.stack, c.results) THEN Faulted("StackUnderflow", f)
     ELSE Fine([f EXCEPT
            !.control = DropTop(@, 1),
            !.stack = PushValues(
                        shrink_to(DropTop(@, Len(c.results)), c.width - 1),
                        PopValues(f.stack, c.results))])

\* Op::EndScope: pop_control, then shrink to the width recorded on entry and
\* push the results back.
end_scope(f) ==
  LET c == f.control[Len(f.control)]
  IN IF f.control = <<>> THEN Faulted("ControlStackUnderflow", f)
     ELSE IF ~ CanPop(f.stack, c.results) THEN Faulted("StackUnderflow", f)
     ELSE Fine([f EXCEPT
            !.control = DropTop(@, 1),
            !.stack = PushValues(
                        shrink_to(DropTop(@, Len(c.results)), c.width),
                        PopValues(f.stack, c.results))])

-----------------------------------------------------------------------------
(* The scans that turn a structured jump into a pc.  The source walks the  *)
(* operations with a depth counter; the place where it stops is the first  *)
(* one of the right kind with a zero balance of scopes in between.         *)

Starts(ops, a, b, S) ==
  Cardinality({i \in a .. b - 1 :
                 At(ops, i).op = "StartScope" /\ At(ops, i).scope \in S})
Ends(ops, a, b, S) ==
  Cardinality({i \in a .. b - 1 :
                 At(ops, i).op = "EndScope" /\ At(ops, i).scope \in S})

IsEnd(o, S) == o.op = "EndScope" /\ o.scope \in S

Least(T) == CHOOSE i \in T : \A j \in T : i <= j
Greatest(T) == CHOOSE i \in T : \A j \in T : i >= j

\* Mutant: stops on the Else itself, which then skips the else branch.
skip_then_to_else(ops, pc) ==
  LET stops == {i \in pc .. Len(ops) - 1 :
                  /\ At(ops, i).op = "Else" \/ IsEnd(At(ops, i), {"IfElse"})
                  /\ Starts(ops, pc, i, {"IfElse"})
                       = Ends(ops, pc, i, {"IfElse"})}
  IN IF stops = {} THEN Len(ops) ELSE Least(stops)

\* Op::If with a zero condition: behind the Else of this If, or at its end.
skip_then(ops, pc) ==
  LET stops == {i \in pc .. Len(ops) - 1 :
                  /\ At(ops, i).op = "Else" \/ IsEnd(At(ops, i), {"IfElse"})
                  /\ Starts(ops, pc, i, {"IfElse"})
                       = Ends(ops, pc, i, {"IfElse"})}
  IN IF stops = {} THEN Len(ops)
     ELSE IF At(ops, Least(stops)).op = "Else" THEN Least(stops) + 1
     ELSE Least(stops)

\* Mutant: a then branch falls into the else branch.
skip_else_falls_through(ops, pc) == pc

\* Op::Else, reached at the end of a then branch: at the end of the If.
skip_else(ops, pc) ==
  LET stops == {i \in pc .. Len(ops) - 1 :
                  /\ IsEnd(At(ops, i), {"IfElse"})
                  /\ Starts(ops, pc, i, {"IfElse"})
                       = Ends(ops, pc, i, {"IfElse"})}
  IN IF stops = {} THEN Len(ops) ELSE Least(stops)

\* Branch to a loop: behind the StartScope(Loop) the backward scan meets first.
loop_start(ops, pc) ==
  LET stops == {i \in 0 .. pc - 1 :
                  /\ At(ops, i).op = "StartScope" /\ At(ops, i).scope = "Loop"
                  /\ Starts(ops, i + 1, pc, {"Loop"})
                       = Ends(ops, i + 1, pc, {"Loop"})}
  IN IF stops = {} THEN pc ELSE Greatest(stops) + 1

\* Mutant: the target's own end is not discounted.
scope_end_too_far(ops, pc, depth) ==
  LET stops == {i \in pc .. Len(ops) - 1 :
                  /\ IsEnd(At(ops, i), ScopeTypes)
                  /\ depth + 1 + Starts(ops, pc, i, ScopeTypes)
                       = Ends(ops, pc, i, ScopeTypes)}
  IN IF stops = {} THEN Len(ops) ELSE Least(stops) + 1

\* Branch to another scope: behind the EndScope that closes depth scopes.
scope_end(ops, pc, depth) ==
  LET stops == {i \in pc .. Len(ops) - 1 :
                  /\ IsEnd(At(ops, i), ScopeTypes)
                  /\ depth + Starts(ops, pc, i, ScopeTypes)
                       = Ends(ops, pc, i, ScopeTypes)}
  IN IF stops = {} THEN Len(ops) ELSE Least(stops) + 1

\* Mutant: the loop branched to is popped too.
execute_branch_pops_loop(f, ops, depth) ==
  LET n == Len(f.control)
      target == f.control[n - depth]
      carried == IF ~ target.fn /\ f.stack = <<>> THEN <<>> ELSE target.results
  IN IF depth >= n THEN Faulted("ControlStackUnderflow", f)
     ELSE IF ~ CanPop(f.stack, carried) THEN Faulted("StackUnderflow", f)
     ELSE Fine([f EXCEPT
            !.control = DropTop(@, depth + 1),
            !.stack = PushValues(
                        shrink_to(DropTop(@, Len(carried)), target.width),
                        PopValues(f.stack, carried)),
            !.pc = CASE target.scope = "Function" -> Len(ops)
                     [] target.scope = "Loop" -> loop_start(ops, @)
                     [] OTHER -> scope_end(ops, @, depth)])

\* execute_branch: the depth-th scope from the top of the control stack.
execute_branch(f, ops, depth) ==
  LET n == Len(f.control)
      target == f.control[n - depth]
      popped == IF target.scope = "Loop" THEN depth ELSE depth + 1
      carried == IF ~ target.fn /\ f.stack = <<>> THEN <<>> ELSE target.results
  IN IF depth >= n THEN Faulted("ControlStackUnderflow", f)
     ELSE IF ~ CanPop(f.stack, carried) THEN Faulted("StackUnderflow", f)
     ELSE Fine([f EXCEPT
            !.control = DropTop(@, popped),
            !.stack = PushValues(
                        shrink_to(DropTop(@, Len(carried)), target.width),
                        PopValues(f.stack, carried)),
            !.pc = CASE target.scope = "Function" -> Len(ops)
                     [] target.scope = "Loop" -> loop_start(ops, @)
                     [] OTHER -> scope_end(ops, @, popped - 1)])

-----------------------------------------------------------------------------
(* The nesting of a decoded program.                                       *)

\* The scopes that are open at pc by the nesting of the operations.
OpenScopes(ops, pc) ==
  {i \in 0 .. pc - 1 :
     /\ At(ops, i).op = "StartScope"
     /\ \A j \in i + 1 .. pc - 1 :
          IsEnd(At(ops, j), ScopeTypes) =>
            Starts(ops, i + 1, j, ScopeTypes) # Ends(ops, i + 1, j, ScopeTypes)}

\* The scope that is innermost at i, as decode()'s scope_stack has it.
Innermost(ops, i) ==
  LET open == OpenScopes(ops, i)
  IN IF open = {} THEN "Program" ELSE At(ops, Greatest(open)).scope

\* decode() closes scopes by their kind, aborts on an Else outside an if and on
\* an end too many, opens blocks, loops and ifs, and emits If only behind the
\* start of its scope.  It goes on behind the end of the function, where scopes
\* may still open and close.
decode_accepts(ops) ==
  \A i \in 0 .. Len(ops) - 1 :
    LET o == At(ops, i)
        ended == \E j \in 0 .. i - 1 : IsEnd(At(ops, j), {"Program"})
        opens_if == i > 0 /\ At(ops, i - 1).op = "StartScope"
                          /\ At(ops, i - 1).scope = "IfElse"
    IN /\ o.op = "EndScope" =>
            o.scope = Innermost(ops, i) /\ (o.scope = "Program" => ~ ended)
       /\ o.op = "Else" => Innermost(ops, i) = "IfElse"
       /\ o.op = "If" <=> opens_if
       /\ o.op = "StartScope" => o.scope \in {"Block", "Loop", "IfElse"}

\* The depths of the scopes a branch may go to.
Depths(o) ==
  CASE o.op \in {"Br", "BrIf"} -> {o.n}
    [] o.op = "BrTable" -> {o.n} \cup {o.tbl[i] : i \in 1 .. Len(o.tbl)}
    [] OTHER -> {}

\* No branch to a loop leaves another loop on the way: loop_start would take
\* the inner one for its target.
LoopsUncrossed(ops) ==
  \A i \in 0 .. Len(ops) - 1 :
    LET open == OpenScopes(ops, i)
        inside(t) == {s \in open : s > t}
    IN \A t \in open :
         At(ops, t).scope = "Loop"
           /\ Cardinality(inside(t)) \in Depths(At(ops, i))
         => \A s \in inside(t) : At(ops, s).scope # "Loop"
=============================================================================
