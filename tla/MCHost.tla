------------------------------- MODULE MCHost -------------------------------
(***************************************************************************)
(* Any host: function indices that are imports, belong to no function or   *)
(* are compared with the wrong numbers, too few or too many arguments,     *)
(* prepare called twice, run called again after an error or on nothing.    *)
(***************************************************************************)
EXTENDS MCExec

Unop == Type(<<"I32">>, <<"I32">>)
Wide == Type(<<"I32", "I64">>, <<>>)

\* Every declared local is read and written; the first function traps on 0.
Locals ==
  Mod(<<Unop, Wide>>, <<0, 1>>,
      <<Body(<<"I64", "ExternRef">>,
             get(1) \o set(1) \o get(2) \o tee(2) \o set(2)
               \o num(4) \o get(0) \o <<Op("I32DivU")>>),
        Body(<<"FuncRef">>, get(2) \o set(2) \o get(1) \o set(1))>>,
      <<>>, <<>>, <<>>)

\* Index 0 is the import, 1 and 2 are the functions; 1 equals the type index
\* of the import.
Importer ==
  Mod(<<Unop, Wide>>, <<0, 0>>,
      <<Body(<<"I32">>, get(0)), Body(<<"I32">>, num(1) \o call(1))>>,
      <<1>>, <<>>, <<>>)

HostModules == {Locals, Importer}
HostArguments ==
  {<<>>, <<I(0)>>, <<I(2)>>, <<Val("I64", 1)>>, <<I(1), I(1)>>,
   <<I(1), Val("I64", 1), I(1), I(1)>>}
=============================================================================
