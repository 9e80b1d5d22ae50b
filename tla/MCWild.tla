------------------------------- MODULE MCWild -------------------------------
(***************************************************************************)
(* Code that decodes but was never validated: every short sequence of      *)
(* operations that decode() accepts, on an empty stack and on a stack with *)
(* operands.  wasbox runs such code, so every fault path is reached.       *)
(***************************************************************************)
EXTENDS MCExec

Alphabet ==
  {Op(name) : name \in {"Nop", "Unreachable", "If", "Else", "Return", "Drop",
     "Select", "RefIsNull", "RefAsNonNull", "RefEq", "I32Eqz", "I32DivU"}}
  \cup {EndScope(s) : s \in {"Block", "IfElse", "Program"}}
  \cup {StartScope("Block", "I32", 0), StartScope("Block", "Index", 0),
        StartScope("IfElse", "Unit", 0), StartScope("Loop", "Index", 9)}
  \cup {OpN(name, n) : <<name, n>> \in
          {"Br", "BrIf", "Call", "GetLocal", "SetLocal", "TeeLocal",
           "GetGlobal", "SetGlobal", "TableGet", "TableSet"} \X {0, 9}}
  \cup {Const("F64Const", 200), OpN("RefFunc", 0), OpN("Br", 1),
        [Op("RefNull") EXCEPT !.ty = "FuncRef"],
        [Op("RefNull") EXCEPT !.ty = "I32"],
        OpN("GetLocal", 1), OpN("SetLocal", 1), OpN("TeeLocal", 1),
        OpN("Call", 1),
        [OpN("BrTable", 9) EXCEPT !.tbl = <<0, 1>>],
        Op("MemorySize"), Op("MemoryGrow")}
  \cup {OpN(name, n) : <<name, n>> \in {"Load8Se", "LoadI64", "Store16_32"} \X {0, 15}}
  \cup {[OpN("CallIndirect", t) EXCEPT !.m = m] :
          <<t, m>> \in {<<0, 0>>, <<0, 1>>, <<9, 0>>, <<1, 0>>, <<0, 9>>}}

\* -15 is sign-extended to the word 241; 1 is the index of a function.
Operands == {<<>>, num(1), num(0) \o num(1) \o num(-15), num(1) \o num(2),
             <<Const("I64Const", 15)>> \o num(0)}

Wild(ops) ==
  Mod(<<Type(<<"I64">>, <<"I32">>), Type(<<>>, <<>>)>>, <<0, 1>>,
      <<[ops |-> ops, locals |-> <<"FuncRef">>],
        [ops |-> <<Op("Nop")>>, locals |-> <<>>]>>,
      <<>>, <<Val("F32", 9)>>,
      <<[ref_type |-> "FuncRef",
         elements |-> <<NoElem, Val("FuncRef", 1), Val("FuncRef", 7)>>],
        [ref_type |-> "ExternRef",
         elements |-> <<Val("ExternRef", 3), Val("ExternRef", NoRef)>>]>>)

Pairs == {<<a>> : a \in Alphabet} \cup {<<a, b>> : a, b \in Alphabet}

WildModules ==
  {Wild(pre \o ops) : <<pre, ops>> \in
     {p \in Operands \X Pairs : decode_accepts(p[1] \o p[2])}}

WildMemories == {[data |-> <<1, 0>>, max |-> MCNoMax, growable |-> TRUE]}

WildArgs == {<<Val("I64", -1)>>, <<I(1)>>}
=============================================================================
