------------------------------- MODULE MCExec -------------------------------
(***************************************************************************)
(* What the instances of Execution share: the arithmetic they use and      *)
(* short names for the operations of their programs.                       *)
(***************************************************************************)
EXTENDS WasmReference, Numeric

MCNumericOps == {"I32Eqz", "I32Add", "I32DivU"}

\* No declared maximum; no memory.
MCNoMax == -1
NoMemory == {[data |-> <<>>, max |-> MCNoMax, growable |-> FALSE]}

I(x) == Val("I32", x)
Mod(types, functions, code, imports, globs, tabs) ==
  [types |-> types, functions |-> functions, code |-> code,
   imports |-> imports, globals |-> globs, tables |-> tabs]
Type(params, results) == [params |-> params, results |-> results]
Body(locals, ops) ==
  [ops |-> Append(ops, EndScope("Program")), locals |-> locals]

get(i) == <<OpN("GetLocal", i)>>
set(i) == <<OpN("SetLocal", i)>>
tee(i) == <<OpN("TeeLocal", i)>>
num(k) == <<Const("I32Const", k)>>
add == <<Op("I32Add")>>
call(i) == <<OpN("Call", i)>>
br(d) == <<OpN("Br", d)>>
br_if(d) == <<OpN("BrIf", d)>>

\* A structured instruction around body, as decode() lays it out.
Block(ty, body) == <<StartScope("Block", ty, 0)>> \o body \o <<EndScope("Block")>>
Loop(ty, body) == <<StartScope("Loop", ty, 0)>> \o body \o <<EndScope("Loop")>>
IfThen(ty, body) ==
  <<StartScope("IfElse", ty, 0), Op("If")>> \o body \o <<EndScope("IfElse")>>
IfThenElse(ty, body, alt) ==
  IfThen(ty, body \o <<Op("Else")>> \o alt)
=============================================================================
