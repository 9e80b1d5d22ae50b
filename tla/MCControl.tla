----------------------------- MODULE MCControl -----------------------------
(***************************************************************************)
(* Structured control: every nest of up to three blocks, loops and ifs,    *)
(* with a conditional branch from the innermost one to each label, in the  *)
(* function the host calls or in one that a nested scope of it calls.      *)
(***************************************************************************)
EXTENDS MCExec, Validation

\* local 0 counts down from the argument, local 1 records the path taken.
mark(k) == get(1) \o num(k) \o add \o set(1)
count == get(0) \o num(-1) \o add \o tee(0)

Kinds == {"Block", "Loop", "If", "IfElse"}

\* With result type I32 each scope leaves a value, which its parent records.
Yield(ty, k) == IF ty = "Unit" THEN mark(k) ELSE num(k)
Use(ty) == IF ty = "Unit" THEN <<>> ELSE get(1) \o add \o set(1)

Wrap(kind, ty, k, body) ==
  CASE kind = "Block" -> Block(ty, body)
    [] kind = "Loop" -> Loop(ty, body)
    [] kind = "If" -> get(0) \o (IF ty = "Unit" THEN IfThen(ty, body)
                                 ELSE IfThenElse(ty, body, num(k)))
    [] kind = "IfElse" -> get(0) \o IfThenElse(ty, body, Yield(ty, k))

RECURSIVE Nest(_, _, _)
Nest(kinds, ty, inner) ==
  IF kinds = <<>> THEN inner
  ELSE Wrap(Head(kinds), ty, Len(kinds),
            Nest(Tail(kinds), ty, inner)
              \o (IF Len(kinds) = 1 THEN <<>>
                  ELSE Use(ty) \o Yield(ty, Len(kinds))))

\* The branch, with or without an operand to leave behind.
Branch(d, ty, junk) ==
  (IF junk THEN num(5) ELSE <<>>) \o (IF ty = "Unit" THEN <<>> ELSE num(6))
    \o count \o br_if(d)
    \o (IF ~ junk THEN <<>>
        ELSE IF ty = "Unit" THEN <<Op("Drop")>>
        ELSE set(1) \o <<Op("Drop")>> \o get(1))

Table3(tbl, default) ==
  get(0) \o <<[OpN("BrTable", default) EXCEPT !.tbl = tbl]>>

Unop == Type(<<"I32">>, <<"I32">>)
Around(kinds, ty, inner) ==
  Body(<<"I32">>, num(3) \o Nest(kinds, ty, inner) \o Use(ty) \o get(1) \o add)

Whole(kinds, ty, inner) ==
  Mod(<<Unop>>, <<0>>, <<Around(kinds, ty, inner)>>, <<>>, <<>>, <<>>)

\* A scope, with an operand of its own, calls what leaves a nest by a branch.
Calling(kind, kinds, d, junk) ==
  Mod(<<Unop>>, <<0, 0>>,
      <<Around(<<kind>>, "I32", num(5) \o get(0) \o call(1) \o add),
        Around(kinds, "I32", Branch(d, "I32", junk))>>, <<>>, <<>>, <<>>)

\* A label d names the scope kinds[Len(kinds) - d], or the function.
TargetIs(kinds, d, K) == d < Len(kinds) /\ kinds[Len(kinds) - d] \in K

\* The branch goes to a loop across a loop nested in it.
CrossesLoop(kinds, d) ==
  /\ TargetIs(kinds, d, {"Loop"})
  /\ \E i \in Len(kinds) - d + 1 .. Len(kinds) : kinds[i] = "Loop"

\* The branch leaves an if with an operand of the if still on the stack.
LeavesIfOperand(kinds, d, junk) ==
  junk /\ TargetIs(kinds, d, {"If", "IfElse"})

Nests(n) == [1 .. n -> Kinds]

Plain(kinds, d, junk) ==
  ~ CrossesLoop(kinds, d) /\ ~ LeavesIfOperand(kinds, d, junk)

Branching(n, tys, junks) ==
  {Whole(kinds, ty, Branch(d, ty, junk)) :
     <<kinds, d, ty, junk>> \in {p \in Nests(n) \X (0 .. n) \X tys \X junks :
                                  Plain(p[1], p[2], p[4])}}
Called(n, junks) ==
  {Calling(kind, kinds, d, junk) :
     <<kind, kinds, d, junk>> \in {p \in Kinds \X Nests(n) \X (0 .. n) \X junks :
                                    Plain(p[2], p[3], p[4])}}

ControlModules ==
  Branching(1, {"Unit", "I32"}, BOOLEAN)
    \cup Branching(2, {"Unit", "I32"}, BOOLEAN)
    \cup Branching(3, {"Unit", "I32"}, {FALSE})
    \cup {Whole(<<"Block", k, "Block">>, "Unit", Table3(<<0, 2>>, 1)) :
            k \in Kinds \ {"Loop"}}
    \cup Called(1, BOOLEAN) \cup Called(2, {FALSE})

ControlArgs == {<<I(x)>> : x \in 0 .. 2}

\* These programs are of the kind MachineScopesMatch is about.
ASSUME ControlProgramsNest == ProgramsNest

\* The heights validation finds: behind a transfer of control, those of the
\* scope it is in.
HeightsOf(m, fn) ==
  LET ops == At(m.code, fn).ops
      H[i \in 0 .. Len(ops)] ==
        IF i = 0 THEN 0
        ELSE LET o == At(ops, i - 1)
                 s == Greatest(OpenScopes(ops, i - 1))
                 ft == FuncTypeOf(m, o.n)
             IN CASE IsEnd(o, {"Program"}) -> Len(ReturnTypes(m, fn))
                  [] o.op = "Else" -> Floor(ops, H, s)
                  [] IsEnd(o, {"Block", "Loop", "IfElse"}) ->
                       Floor(ops, H, s)
                         + Len(resolve_type(m.types, At(ops, s)).results)
                  [] o.op = "Call" -> H[i - 1] - Len(ft.params) + Len(ft.results)
                  [] OTHER -> H[i - 1] - Takes(o.op) + Leaves(o.op)
  IN H

\* They are also of the kind MachineOperandsAboveScopes and MachineNoUnderflow
\* are about: for each m and fn this is a witness for ProgramsValid.
ASSUME ControlProgramsValid ==
  \A m \in Modules : \A fn \in 0 .. Len(m.code) - 1 :
    Heights(m, fn, HeightsOf(m, fn))
=============================================================================
