------------------------------ MODULE Instances ------------------------------
(***************************************************************************)
(* Linked modules and the frames made from them: what Module::load and     *)
(* mk_instance produce and Execution works on, and frame_for_funcidx       *)
(* (instance.rs).                                                          *)
(***************************************************************************)
EXTENDS FrameOps

CONSTANT NumericOps   \* the arithmetic operations

-----------------------------------------------------------------------------
(* Modules.                                                                *)

ASSUME NumericNames ==
  NumericOps \cap (ControlOps \cup DataOps \cup MemoryOps) = {}

OpNames == ControlOps \cup DataOps \cup MemoryOps \cup NumericOps
OpRecord == [op : OpNames, n : Nat, m : Nat, k : Int, ty : BlockTypes,
             scope : ScopeTypes, tbl : Seq(Nat)]

\* Option<Value>::None of a table element.
NoElem == [ty |-> "None", v |-> 0]
Table == [ref_type : RefTypes, elements : Seq(Value \cup {NoElem})]

FuncType == [params : Seq(ValTypes), results : Seq(ValTypes)]
Code == [ops : Seq(OpRecord), locals : Seq(ValTypes)]

\* What Module::load and mk_instance let through: one code entry for each
\* function, whose type index is in range.  imports holds the type indices of
\* the imported functions.
IsModule(m) ==
  /\ m \in [types : Seq(FuncType), functions : Seq(Nat), code : Seq(Code),
            imports : Seq(Nat), globals : Seq(Value), tables : Seq(Table)]
  /\ Len(m.code) = Len(m.functions)
  /\ \A i \in 1 .. Len(m.functions) : m.functions[i] < Len(m.types)

\* The errors of frame_for_funcidx.
LinkErrors == {"UnsupportedFeature", "ArgumentTypeMismatch"}

\* The signature and locals mk_instance gives the i-th program.
FuncTypeOf(m, i) == At(m.types, At(m.functions, i))
LocalTypes(m, i) == FuncTypeOf(m, i).params \o At(m.code, i).locals
ReturnTypes(m, i) == FuncTypeOf(m, i).results

-----------------------------------------------------------------------------
(* Instance::frame_for_funcidx.                                            *)

\* Mutants of NewFrame: every local starts as an i32; the locals behind the
\* parameters are filled in, whatever the number of arguments.
NewFrame_untyped(m, i, args) ==
  LET tys == LocalTypes(m, i)
      rets == ReturnTypes(m, i)
  IN push_control(
       [fn |-> i, pc |-> 0, stack |-> <<>>, control |-> <<>>,
        locals |-> args \o [j \in 1 .. Len(tys) - Len(args) |-> Zero("I32")]],
       ValueSig(IF rets = <<>> THEN "Unit" ELSE rets[1]), "Function")
NewFrame_trusting(m, i, args) ==
  LET rest == At(m.code, i).locals
      rets == ReturnTypes(m, i)
  IN push_control(
       [fn |-> i, pc |-> 0, stack |-> <<>>, control |-> <<>>,
        locals |-> args \o [j \in 1 .. Len(rest) |-> Zero(rest[j])]],
       ValueSig(IF rets = <<>> THEN "Unit" ELSE rets[1]), "Function")

NewFrame(m, i, args) ==
  LET tys == LocalTypes(m, i)
      rest == SubSeq(tys, Len(args) + 1, Len(tys))
      rets == ReturnTypes(m, i)
  IN push_control(
       [fn |-> i, pc |-> 0, stack |-> <<>>, control |-> <<>>,
        locals |-> args \o [j \in 1 .. Len(rest) |-> Zero(rest[j])]],
       ValueSig(IF rets = <<>> THEN "Unit" ELSE rets[1]), "Function")

\* The imports are compared by type index; only they can make the subtraction
\* wrap, and both a wrapped and a too large index abort on functions[..].
IsImport(m, index) == \E i \in 1 .. Len(m.imports) : m.imports[i] = index
Missing(m, index) ==
  \/ index < Len(m.imports)
  \/ index - Len(m.imports) >= Len(m.functions)
CodeIndex(m, index) == index - Len(m.imports)

\* The argument check zips: it stops at the shorter of the two lists.
Mismatch(m, i, args) ==
  LET params == FuncTypeOf(m, i).params
  IN \E j \in 1 .. Len(params) : j <= Len(args) /\ args[j].ty # params[j]

frame_for_funcidx(m, index, args) ==
  IF IsImport(m, index) THEN "UnsupportedFeature"
  ELSE IF Missing(m, index) THEN "Panic"
  ELSE IF Mismatch(m, CodeIndex(m, index), args) THEN "ArgumentTypeMismatch"
  ELSE "Ok"
=============================================================================
