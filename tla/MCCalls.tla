------------------------------ MODULE MCCalls ------------------------------
(***************************************************************************)
(* Calls: direct, indirect and recursive ones, several results, returns    *)
(* and branches out of nested scopes, references, memory shared by caller  *)
(* and callee, and traps in a callee.                                      *)
(***************************************************************************)
EXTENDS MCExec

Unop == Type(<<"I32">>, <<"I32">>)
Binop == Type(<<"I32", "I32">>, <<"I32">>)
Pair == Type(<<>>, <<"I32", "I64">>)
Proc == Type(<<"I32">>, <<>>)

get_global == <<OpN("GetGlobal", 0)>>
set_global == <<OpN("SetGlobal", 0)>>
drop == <<Op("Drop")>>
ret == <<Op("Return")>>
null(ty) == <<[Op("RefNull") EXCEPT !.ty = ty]>>
is_null == <<Op("RefIsNull")>>

\* The callee divides by its second argument, inside a scope of the caller.
Divider ==
  Mod(<<Unop, Binop>>, <<0, 1>>,
      <<Body(<<>>, Block("I32", num(4) \o get(0) \o call(1)) \o num(1) \o add),
        Body(<<>>, get(0) \o get(1) \o <<Op("I32DivU")>>)>>,
      <<>>, <<>>, <<>>)

\* call_indirect through a table with a null, an empty and a mistyped entry;
\* the callee accumulates in a global.
Dispatcher ==
  Mod(<<Unop, Proc>>, <<0, 0, 1>>,
      <<Body(<<>>, num(2) \o get(0) \o <<OpN("CallIndirect", 0)>>),
        Body(<<>>, get_global \o get(0) \o add \o set_global \o get_global),
        Body(<<>>, <<Op("Nop")>>)>>,
      <<>>, <<I(0)>>,
      <<[ref_type |-> "FuncRef",
         elements |-> <<Val("FuncRef", 1), Val("FuncRef", NoRef), NoElem,
                        Val("FuncRef", 2)>>]>>)

\* n + ... + 1, recursively.
Summer ==
  Mod(<<Unop>>, <<0>>,
      <<Body(<<>>, get(0) \o IfThenElse("I32",
               get(0) \o get(0) \o num(-1) \o add \o call(0) \o add, num(0)))>>,
      <<>>, <<>>, <<>>)

\* Two results at once, popped in reverse; then references and select.
Juggler ==
  Mod(<<Unop, Pair>>, <<0, 1>>,
      <<Body(<<"I64", "ExternRef", "FuncRef">>,
             call(1) \o set(1) \o get(0) \o add
               \o null("ExternRef") \o tee(2) \o is_null \o add
               \o get(2) \o is_null \o add
               \o get(0) \o <<OpN("TableGet", 0)>> \o tee(3)
               \o <<Op("RefAsNonNull")>>
               \o <<OpN("RefFunc", 1), Op("RefEq")>> \o add
               \o num(4) \o get(0) \o <<Op("SelectT")>>),
        Body(<<>>, num(-2) \o <<Const("I64Const", -100)>>)>>,
      <<>>, <<>>,
      <<[ref_type |-> "FuncRef",
         elements |-> <<Val("FuncRef", 1), NoElem, Val("FuncRef", 0)>>]>>)

\* The callee leaves by return, by a branch to its function scope, by its end
\* or not at all, with operands to spare.
Leaver ==
  Mod(<<Unop>>, <<0, 0>>,
      <<Body(<<>>, num(1) \o get(0) \o call(1) \o add),
        Body(<<>>, num(7) \o Block("Unit",
                 Block("Unit",
                   num(5) \o num(6) \o get(0)
                     \o <<[OpN("BrTable", 2) EXCEPT !.tbl = <<0, 1>>]>>)
                   \o num(4) \o ret)
               \o get(0) \o num(-2) \o add
               \o IfThen("Unit", <<Op("Unreachable")>>) )>>,
      <<>>, <<>>, <<>>)

\* Never ends by itself.
Spinner ==
  Mod(<<Unop>>, <<0>>, <<Body(<<>>, Loop("Unit", br(0)) \o get(0))>>,
      <<>>, <<>>, <<>>)

\* The caller writes, the callee writes behind it, reads both and traps where
\* the memory ends; the next invocation finds what was written.
Scribe ==
  Mod(<<Unop>>, <<0, 0>>,
      <<Body(<<>>, get(0) \o num(-7) \o <<OpN("StoreI32", 1)>>
               \o get(0) \o call(1) \o get(0) \o <<OpN("Load8Se", 1)>> \o add),
        Body(<<>>, get(0) \o get(0) \o <<OpN("Store16_32", 4)>>
               \o get(0) \o <<OpN("Load16Ze", 3)>>)>>,
      <<>>, <<>>, <<>>)

\* Grows by its argument, writes where the memory ended, and reads there again.
Grower ==
  Mod(<<Unop>>, <<0>>,
      <<Body(<<"I32">>, get(0) \o <<Op("MemoryGrow")>> \o tee(1)
               \o num(4) \o num(3) \o <<OpN("Store8_32", 4)>>
               \o num(4) \o <<OpN("Load16Ze", 4)>> \o add
               \o <<Op("MemorySize")>> \o add)>>,
      <<>>, <<>>, <<>>)

\* Every load and every store, at the address given and one behind it; the
\* widest from the first byte on.
Offset(name) == IF RefBytes(name) = 8 THEN 0 ELSE 1
Reader(name) ==
  Mod(<<Type(<<"I32">>, <<RefLoadType(name)>>)>>, <<0>>,
      <<Body(<<>>, get(0) \o <<OpN(name, Offset(name))>>)>>, <<>>, <<>>, <<>>)
Patterns ==
  [StoreI32 |-> "I32Const", Store8_32 |-> "I32Const", Store16_32 |-> "I32Const",
   StoreF32 |-> "F32Const", StoreF64 |-> "F64Const", StoreI64 |-> "I64Const",
   Store8_64 |-> "I64Const", Store16_64 |-> "I64Const",
   Store32_64 |-> "I64Const"]
Writer(name) ==
  Mod(<<Proc>>, <<0>>,
      <<Body(<<>>, get(0) \o <<Const(Patterns[name], 5), OpN(name, Offset(name))>>)>>,
      <<>>, <<>>, <<>>)

CallModules ==
  {Divider, Dispatcher, Summer, Juggler, Leaver, Spinner, Scribe, Grower}
    \cup {Reader(name) : name \in DOMAIN LoadOps}
    \cup {Writer(name) : name \in DOMAIN StoreOps}

\* Two pages that mk_instance has written to, of a VectorMemory that may grow
\* by one, and of a SliceMemory.
CallMemories ==
  [data : {<<1, 0, 1, 1, 0, 0, 1, 0>>}, max : {12}, growable : BOOLEAN]
CallArgs == {<<I(x)>> : x \in 0 .. 4}

\* These programs are of the kind MachineScopesMatch is about.
ASSUME CallProgramsNest == ProgramsNest
=============================================================================
