----------------------------- MODULE MCFindings -----------------------------
(***************************************************************************)
(* One small module for each place where the interpreter does not do what  *)
(* its comments, its documentation or its tests say.                       *)
(***************************************************************************)
EXTENDS MCExec

Unop == Type(<<"I32">>, <<"I32">>)
Binop == Type(<<"I32", "I32">>, <<"I32">>)
ToI64 == Type(<<"I32">>, <<"I64">>)
Proc == Type(<<>>, <<>>)

Single(type, locals, ops) ==
  {Mod(<<type>>, <<0>>, <<Body(locals, ops)>>, <<>>, <<>>, <<>>)}

count == get(0) \o num(-1) \o add \o tee(0)

\* A branch to the outer of two loops, out of the inner one.
OuterLoop == Single(Unop, <<>>, Loop("Unit", Loop("Unit", count \o br_if(1)))
                                  \o get(0))

\* A branch out of an if, with an operand of the if still on the stack.
IfOperand == Single(Unop, <<>>, num(1) \o num(2) \o get(0)
                                  \o IfThen("Unit", num(5) \o br(0)) \o add)

\* A loop that gives an i32, around nothing but the i64 below it.
LoopResult == Single(ToI64, <<>>, <<Const("I64Const", -100)>>
                       \o Loop("I32", count \o br_if(0) \o num(1))
                       \o <<Op("Drop")>>)

\* The callee traps when the argument is 0.
TrapInCallee ==
  {Mod(<<Unop, Binop>>, <<0, 1>>,
       <<Body(<<>>, num(4) \o get(0) \o call(1) \o num(1) \o add),
         Body(<<>>, get(0) \o get(1) \o <<Op("I32DivU")>>)>>,
       <<>>, <<>>, <<>>)}

\* A loop that does not end, and one that calls in every round.
Spin == Single(Unop, <<>>, Loop("Unit", br(0)) \o get(0))
CallingLoop ==
  {Mod(<<Unop, Proc>>, <<0, 1>>,
       <<Body(<<>>, Loop("Unit", call(1) \o br(0)) \o get(0)),
         Body(<<>>, <<Op("Nop")>>)>>,
       <<>>, <<>>, <<>>)}

\* Function 0 is imported; 1 and 2 are defined, and 1 calls 2.
CallBehindImport ==
  {Mod(<<Unop, Binop, Proc, Proc>>, <<0, 1>>,
       <<Body(<<>>, get(0) \o num(1) \o call(2)),
         Body(<<>>, get(0) \o get(1) \o add)>>,
       <<3>>, <<>>, <<>>)}

\* table.set takes the index from below the reference.
TableWrite ==
  {Mod(<<Unop>>, <<0>>,
       <<Body(<<>>, get(0) \o <<OpN("RefFunc", 0), OpN("TableSet", 0)>>
                      \o get(0))>>,
       <<>>, <<>>,
       <<[ref_type |-> "FuncRef", elements |-> <<NoElem, NoElem>>]>>)}

\* A parameter, and a local of another type behind it.
OneParameter == Single(Unop, <<"I64">>, get(1) \o set(1) \o get(0))

FindingArgs == {<<I(x)>> : x \in 0 .. 2}
ExtraArgs == {<<I(1)>>, <<I(1), I(1)>>}

\* A run that used up its tick slice can be taken up again: the frame it was
\* executing is still on the frame stack.
Resumable ==
  status = "idle" /\ outcome = "OutOfTicks" => Len(frames) > invoked.base
=============================================================================
