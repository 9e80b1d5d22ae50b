----------------------------- MODULE Validation -----------------------------
(***************************************************************************)
(* What WebAssembly validation says about the number of operands.  The     *)
(* decoder does not validate: the interpreter (exec.rs) relies on modules  *)
(* that were.  A function is validated by giving each of its operations a  *)
(* height, a number of operands the function has pushed at least whenever  *)
(* it gets there; heights in code that is never reached are free.          *)
(***************************************************************************)
EXTENDS Execution

\* The operands an operation pops, without the arguments of a call, and the
\* one it may push.
Takes(name) ==
  CASE name \in {"If", "BrIf", "BrTable", "CallIndirect", "Drop", "SetLocal",
                 "TeeLocal", "SetGlobal", "TableGet", "RefIsNull",
                 "RefAsNonNull", "MemoryGrow"} \cup DOMAIN LoadOps -> 1
    [] name \in {"TableSet", "RefEq"} \cup DOMAIN StoreOps -> 2
    [] name \in {"Select", "SelectT"} -> 3
    [] name \in NumericOps -> Arity(name)
    [] OTHER -> 0
Leaves(name) ==
  IF name \in {"Select", "SelectT", "GetLocal", "TeeLocal", "GetGlobal",
               "TableGet", "RefNull", "RefFunc", "RefIsNull", "RefAsNonNull",
               "RefEq", "MemorySize", "MemoryGrow"}
              \cup ConstOps \cup NumericOps \cup DOMAIN LoadOps
  THEN 1 ELSE 0

\* The operations with rules of their own; the others go on behind themselves.
Transfers ==
  {"Unreachable", "EndScope", "Else", "Br", "BrTable", "Return", "Call",
   "CallIndirect"}

\* The height below which the operations inside of scope s may not pop: an if
\* is entered with its condition on the stack.
Floor(ops, h, s) == h[s] - (IF At(ops, s).scope = "IfElse" THEN 1 ELSE 0)

\* What a branch to scope s, or its end, leaves above its floor.
Yields(m, o) ==
  IF o.scope = "Loop" THEN 0 ELSE Len(resolve_type(m.types, o).results)

\* frame_for_funcidx gives the function's own scope the first result only.
FunctionYields(m, fn) == IF ReturnTypes(m, fn) = <<>> THEN 0 ELSE 1

\* Operation i belongs to scope s itself, not to a scope inside of it.
Directly(ops, s, i) ==
  s \in OpenScopes(ops, i) /\ \A t \in OpenScopes(ops, i) : t <= s
Elses(ops, s) ==
  {i \in 0 .. Len(ops) - 1 : At(ops, i).op = "Else" /\ Directly(ops, s, i)}
Closers(ops, s) ==
  {i \in 0 .. Len(ops) - 1 : At(ops, i).op = "EndScope" /\ Directly(ops, s, i)}

\* Where a branch to scope s goes: to the start of a loop, or behind an end.
Labels(ops, s) ==
  IF At(ops, s).scope = "Loop" THEN {s + 1}
                               ELSE {i + 1 : i \in Closers(ops, s)}

\* n operands can be popped at i without going below a floor.
CanTake(ops, h, i, n) ==
  /\ n <= h[i]
  /\ \A s \in OpenScopes(ops, i) : Floor(ops, h, s) + n <= h[i]

\* A branch at i, with its operand popped, out of depth scopes.
BranchValid(m, fn, h, i, depth) ==
  LET ops == At(m.code, fn).ops
      open == OpenScopes(ops, i)
      height == h[i] - Takes(At(ops, i).op)
  IN /\ depth <= Cardinality(open)
     /\ depth = Cardinality(open) =>
          /\ FunctionYields(m, fn) <= height
          /\ h[Len(ops)] <= FunctionYields(m, fn)
     /\ \A s \in open :
          Cardinality({t \in open : t > s}) = depth =>
            LET o == At(ops, s)
                target == Floor(ops, h, s) + Yields(m, o)
            IN /\ target <= height
               /\ \A j \in Labels(ops, s) : h[j] <= target
               /\ o.ty = "Index" =>
                    Len(resolve_type(m.types, o).results) <= height

\* The functions a call may be about to enter.
Callees(m, o) ==
  CASE o.op = "Call" -> {c \in {o.n} : c < Len(m.functions)}
    [] o.op = "CallIndirect" ->
         {c \in 0 .. Len(m.functions) - 1 : FuncTypeOf(m, c) = At(m.types, o.n)}
    [] OTHER -> {}

CallValid(m, fn, h, i, c) ==
  LET ops == At(m.code, fn).ops
      taken == Takes(At(ops, i).op) + Len(FuncTypeOf(m, c).params)
  IN /\ CanTake(ops, h, i, taken)
     /\ ~ IsImport(m, c) =>
          /\ ~ Missing(m, c)
          /\ h[i + 1] <= h[i] - taken + Len(ReturnTypes(m, CodeIndex(m, c)))

\* The end of the innermost scope.
EndValid(m, fn, h, i) ==
  LET ops == At(m.code, fn).ops
  IN \A s \in OpenScopes(ops, i) :
       Directly(ops, s, i) =>
         LET height == Floor(ops, h, s)
                         + Len(resolve_type(m.types, At(ops, s)).results)
         IN height <= h[i] /\ h[i + 1] <= height

\* A zero condition goes behind the Else, or to the end of an if without one.
IfValid(ops, h, i) ==
  /\ \A j \in Elses(ops, i - 1) : h[j + 1] <= h[i] - 1
  /\ Elses(ops, i - 1) = {} => \A j \in Closers(ops, i - 1) : h[j] <= h[i] - 1

OpValid(m, fn, h, i) ==
  LET ops == At(m.code, fn).ops
      o == At(ops, i)
  IN /\ CanTake(ops, h, i, Takes(o.op))
     /\ o.op \notin Transfers => h[i + 1] <= h[i] - Takes(o.op) + Leaves(o.op)
     /\ o.op \in {"GetLocal", "SetLocal", "TeeLocal"} =>
          o.n < Len(LocalTypes(m, fn))
     /\ o.op = "StartScope" => Resolvable(m.types, o)
     /\ o.op = "If" => IfValid(ops, h, i)
     /\ o.op = "Else" =>
          \A s \in OpenScopes(ops, i) :
            Directly(ops, s, i) => \A j \in Closers(ops, s) : h[j] <= h[i]
     /\ o.op = "Return" \/ IsEnd(o, {"Program"}) =>
          Len(ReturnTypes(m, fn)) <= h[i]
     /\ o.op = "EndScope" => EndValid(m, fn, h, i)
     /\ \A depth \in Depths(o) : BranchValid(m, fn, h, i, depth)
     /\ o.op = "CallIndirect" => o.n < Len(m.types)
     /\ \A c \in Callees(m, o) : CallValid(m, fn, h, i, c)

\* The last operation is the end of the function, so every scope is closed.
Closed(ops) == Len(ops) > 0 /\ IsEnd(At(ops, Len(ops) - 1), {"Program"})

\* h is a valid assignment of heights to the operations of function fn, and to
\* the end of its program.
Heights(m, fn, h) ==
  LET ops == At(m.code, fn).ops
  IN /\ Closed(ops)
     /\ h \in [0 .. Len(ops) -> Nat]
     /\ h[0] = 0
     /\ Len(ReturnTypes(m, fn)) <= h[Len(ops)]
     /\ \A i \in 0 .. Len(ops) - 1 : OpValid(m, fn, h, i)

\* Every function of every module can be given valid heights.
ProgramsValid ==
  \A m \in Modules : \A fn \in 0 .. Len(m.code) - 1 :
    \E h \in [0 .. Len(At(m.code, fn).ops) -> Nat] : Heights(m, fn, h)
=============================================================================
