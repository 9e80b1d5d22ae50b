------------------------------- MODULE MCLoad -------------------------------
(***************************************************************************)
(* Files for Link: modules written down by BinaryFormat, the same files    *)
(* with a byte changed or the end cut off, and modules with every short    *)
(* sequence of bytes in the place of a function body or of an expression.  *)
(* A byte has four payload bits, i32 has 8 bits and i64 has 16, and the    *)
(* codes of opcodes and types are chosen to fit.                           *)
(***************************************************************************)
EXTENDS BinaryFormat

MCOpcodes ==
  [b \in 0 .. 30 |-> At(
    <<"Unreachable", "Nop", "Block", "Loop", "If", "Else", "Try", "Load8Ze",
      "Throw", "LoadI64", "RefFunc", "End", "Br", "BrIf", "BrTable", "Return",
      "Call", "CallIndirect", "I64Const", "F32Const", "TableGet",
      "I32Extend8S", "GetGlobal", "CurrentMemorySize", "FCExtension",
      "RefNull", "Drop", "GetLocal", "SelectT", "F64Const", "I32Const">>, b)]
MCValueTypes ==
  [c \in {8, 9, 10} \cup 12 .. 15 |->
     CASE c = 8 -> "Unit" [] c = 9 -> "ExternRef" [] c = 10 -> "FuncRef"
       [] c = 12 -> "F64" [] c = 13 -> "F32" [] c = 14 -> "I64"
       [] c = 15 -> "I32"]
MCMagic == <<7>>
MCVersion == <<1>>

-----------------------------------------------------------------------------
(* Modules as they should be.                                              *)

None == [types |-> <<>>, functions |-> <<>>, tables |-> <<>>, memories |-> <<>>,
         globals |-> <<>>, start |-> <<>>, elements |-> <<>>, code |-> <<>>,
         data |-> <<>>]

Sig(params, results) == [params |-> params, results |-> results]
Local(n, ty) == [n |-> n, ty |-> ty]
Def(locals, body) == [locals |-> locals, body |-> body]
Elems(t, offset, items) == [table |-> t, offset |-> offset, items |-> items]
Bytes(offset, bytes) == [offset |-> offset, bytes |-> bytes]

Choices ==
  <<Plain("Nop"),
    Scoped("Block", "Block", "Unit",
      <<Scoped("Loop", "Loop", "I32", <<Indexed("BrIf", 1), Num("I32Const", -9)>>)>>),
    Scoped("If", "IfElse", "I32",
      <<Num("I32Const", 100), Plain("Else"), Indexed("GetLocal", 20)>>)>>

Programs ==
  {[None EXCEPT !.types = <<Sig(<<>>, <<>>), Sig(<<"I32", "F64">>, <<"I64">>)>>,
                !.functions = <<1, 0>>,
                !.code = <<Def(<<Local(2, "I64"), Local(0, "F32")>>, <<a, b>>),
                           Def(<<>>, <<a>>)>>,
                !.start = s] :
     <<a, b, s>> \in {Choices[1], Choices[2], Choices[3]}
                     \X {Choices[2], Choices[3]} \X {<<>>, <<1>>}}

Segments == {<<Elems(1, 1, <<7>>)>>,
             <<Elems(0, 0, <<5, 6>>), Elems(0, 1, <<20>>)>>,
             <<Elems(0, 1, <<8, 9>>), Elems(1, 0, <<>>), Elems(0, 0, <<1, 2>>)>>,
             <<Elems(0, 2, <<3, 4>>), Elems(1, 5, <<6>>), Elems(1, 1, <<7, 8>>)>>}
Datas == {<<>>, <<Bytes(0, <<11, 30, 31>>), Bytes(2, <<4>>)>>,
          <<Bytes(3, <<9>>), Bytes(2, <<5, 6>>), Bytes(0, <<>>)>>,
          <<Bytes(0, <<9>>), Bytes(3, <<5, 6>>)>>, <<Bytes(5, <<>>)>>}
Stores ==
  {[None EXCEPT !.tables = <<3, 2>>, !.memories = <<1>>, !.elements = e,
                !.data = b, !.globals = g] :
     <<e, b, g>> \in Segments \X Datas \X
       {<<>>, <<Val("I64", -100), Val("I32", -128)>>}}

Descriptions == {None} \cup Programs \cup Stores
Encoded == [d \in Descriptions |-> Encode(d)]

-----------------------------------------------------------------------------
(* Files with faults.                                                      *)

Small ==
  Encode([None EXCEPT !.types = <<Sig(<<"I32">>, <<"I64">>)>>,
            !.functions = <<0>>, !.tables = <<2>>, !.memories = <<1>>,
            !.globals = <<Val("I32", 3)>>, !.start = <<0>>,
            !.elements = <<Elems(0, 1, <<0>>)>>,
            !.code = <<Def(<<Local(1, "I32")>>, <<Plain("Nop")>>)>>,
            !.data = <<Bytes(1, <<2>>)>>])

Changed(s, values) == {[s EXCEPT ![k] = v] : <<k, v>> \in (1 .. Len(s)) \X values}
Cut(s) == {SubSeq(s, 1, n) : n \in 0 .. Len(s) - 1}

\* A module of the sections given, each without its id and length.
Raw(sections) ==
  LET upto[n \in 0 .. Len(sections)] ==
        IF n = 0 THEN MCMagic \o MCVersion
        ELSE upto[n - 1] \o <<sections[n][1]>> \o u(Len(sections[n][2]))
             \o sections[n][2]
  IN upto[Len(sections)]

Other ==
  {Raw(<<<<id, bytes>>>>) : <<id, bytes>> \in
    {<<0, <<1, 5, 9>>>>, <<0, <<3, 5>>>>,
     <<2, <<4, 1, 5, 1, 6, 0, 3, 0, 0, 1, 10, 0, 2, 0, 0, 2, 1, 1, 2, 0, 0, 3, 15, 1>>>>,
     <<7, <<2, 1, 5, 0, 0, 0, 3, 1>>>>, <<7, <<1, 0, 9, 0>>>>,
     <<9, <<3, 1, 0, 1, 4, 3, 0, 0, 5, 9, 1, 25, 9, 11>>>>,
     <<9, <<3, 4, 30, 0, 11, 1, 10, 0, 11, 6, 0, 30, 0, 11, 10, 0, 7, 0, 1, 25, 10, 11>>>>,
     <<9, <<1, 9>>>>, <<11, <<1, 3>>>>, <<12, <<2>>>>}}
  \cup
  {Raw(<<<<4, <<1, 10, 0, 2>>>>, <<5, <<n, 0, 1>> \o (IF n = 2 THEN <<0, 0>> ELSE <<>>)>>,
         <<9, <<1, 0>> \o x \o <<11, 2, 3, 4>>>>,
         <<11, <<1>> \o b>>>>) : <<n, x, b>> \in
     {1, 2} \X {<<30, 15>>, <<30, 1>>, <<30, 2>>}
     \X {<<1, 1, 7>>, <<2, 0, 30, 15, 11, 1, 7>>, <<2, 1, 30, 0, 11, 0>>,
         <<0, 30, 3, 11, 2, 6, 6>>, <<0, 30, 3, 11, 1, 6>>}}

\* Bodies that are no region of the file: one that ends before it starts, its
\* locals being what the next section starts with, and one cut off.
NoBody ==
  LET function == <<<<1, <<1, 6, 0, 0>>>>, <<3, <<1, 0>>>>>>
  IN {Raw(function \o <<<<10, <<1, 0>>>>, <<0, <<0>>>>>>),
      Raw(function) \o <<10, 6, 1, 4, 0, 1>>}

\* Every sequence of up to three of these bytes, as a body or as an expression.
Sequences(bytes) == UNION {[1 .. n -> bytes] : n \in 0 .. 3}
WithBody == {Raw(<<<<1, <<1, 6, 0, 0>>>>, <<3, <<1, 0>>>>,
                   <<10, <<1, Len(s) + 1, 0>> \o s>>>>) :
               s \in Sequences({1, 2, 3, 4, 5, 8, 9, 11, 14, 18, 19, 25, 28, 30})}
\* Bodies that go on behind the end that closes the function.
BehindEnd == {Raw(<<<<1, <<1, 6, 0, 0>>>>, <<3, <<1, 0>>>>,
                    <<10, <<1, Len(s) + 2, 0, 11>> \o s>>>>) :
                s \in {<<2, 8, 11>>, <<4, 8, 11>>, <<3, 8, 5>>}}
WithExpr == {Raw(<<<<6, <<1, 15, 0>> \o s \o <<11>>>>>>) :
               s \in Sequences({1, 2, 4, 5, 7, 8, 10, 11, 14, 17, 18, 22, 25, 30})}

MCFiles ==
  {Encoded[d] : d \in Descriptions} \cup Changed(Small, {0, 1, 2, 5, 9, 11, 15, 16, 31})
  \cup Cut(Small) \cup Other \cup NoBody \cup WithBody \cup BehindEnd
  \cup WithExpr

-----------------------------------------------------------------------------
\* Every data segment of d ends within its memory.
Fits(d) == \A k \in 1 .. Len(d.data) :
             d.data[k].offset + Len(d.data[k].bytes) <= d.memories[1] * PAGE

\* The file of a module is loaded and linked without an error, and what comes
\* out is that module: its functions translated, with their locals, and its
\* tables, memory and globals initialised, where segments overlap by the later
\* one. Of an element segment that overruns its table the items that fit are
\* stored, in that table alone; a module with a data segment that does not fit,
\* behind others that do, is never linked.
InstanceAsEncoded ==
  \A d \in Descriptions :
    file = Encoded[d] =>
      /\ d.start = <<>> /\ Fits(d) => phase # "failed"
      /\ phase = "start" \/ (phase = "linked" /\ d.start = <<>>) => Fits(d) /\ Is(d)
=============================================================================
