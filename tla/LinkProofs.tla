----------------------------- MODULE LinkProofs -----------------------------
(***************************************************************************)
(* For every set of files, every opcode table and every width of integers, *)
(* an instance has one program for each function of its module, with the   *)
(* results of a type that exists, and what decode() emits nests.           *)
(*                                                                         *)
(* The inductive invariant of the first says where the two counts come     *)
(* from: load lets no module pass whose functions and bodies differ in     *)
(* number, and each program decoded adds one to the programs and to next.  *)
(* That of the second says that the decoder's scope stack has the scopes   *)
(* that are open behind the operations emitted so far.                     *)
(***************************************************************************)
EXTENDS Link, NestingProofs

\* Function i of the module has a type, and program i its results.
Typed(i) ==
  LET type_index == m["Function"][i][1]
  IN /\ type_index < Len(m["Type"])
     /\ programs[i].return_types = At(m["Type"], type_index)[3]

Loading == {"header", "sections", "entries"}
Complete == {"elements", "data", "globals", "start", "linked"}

ProgramsInv ==
  /\ phase \in Phases
  /\ \E S : programs \in Seq(S)
  /\ phase \in Loading => next = 0 /\ programs = <<>>
  /\ phase \in Complete \cup {"programs"} => Len(m["Code"]) = Len(m["Function"])
  /\ phase = "programs" => next = Len(programs)
  /\ phase \in Complete => Len(programs) = Len(m["Function"])
  /\ phase \in Complete \cup {"programs"} => \A i \in 1 .. Len(programs) : Typed(i)

-----------------------------------------------------------------------------
(* Sequences.                                                              *)

\* Append makes a sequence one longer and leaves its entries where they were.
LEMMA AppendOne ==
  ASSUME NEW s, NEW e, \E S : s \in Seq(S)
  PROVE  /\ \E S : Append(s, e) \in Seq(S)
         /\ Len(Append(s, e)) = Len(s) + 1
         /\ Len(s) \in Nat
         /\ \A i \in 1 .. Len(s) : Append(s, e)[i] = s[i]
         /\ Append(s, e)[Len(s) + 1] = e
<1>1. PICK S : s \in Seq(S)
  OBVIOUS
<1> DEFINE T == S \cup {e}
<1>2. s \in Seq(T) /\ e \in T
  BY <1>1
<1> HIDE DEF T
<1>3. Append(s, e) \in Seq(T)
  BY <1>2
<1>4. /\ Len(Append(s, e)) = Len(s) + 1
      /\ Len(s) \in Nat
      /\ \A i \in 1 .. Len(s) : Append(s, e)[i] = s[i]
      /\ Append(s, e)[Len(s) + 1] = e
  BY <1>2
<1> QED
  BY <1>3, <1>4

-----------------------------------------------------------------------------
(* What the steps have in common.                                          *)

\* An error leaves nothing to say of the programs.
LEMMA Failing ==
  ASSUME ProgramsInv, phase' = "failed", UNCHANGED programs
  PROVE  ProgramsInv'
  BY DEF ProgramsInv, Phases, Loading, Complete

\* While the file is read there are no programs.
LEMMA StillLoading ==
  ASSUME ProgramsInv, phase \in Loading, phase' \in Loading,
         UNCHANGED <<programs, next>>
  PROVE  ProgramsInv'
  BY DEF ProgramsInv, Phases, Loading, Complete

\* Once there are programs for all functions, nothing changes them.
LEMMA StillComplete ==
  ASSUME ProgramsInv, phase \in Complete, phase' \in Complete,
         UNCHANGED <<m, programs>>
  PROVE  ProgramsInv'
  BY DEF ProgramsInv, Phases, Loading, Complete, Typed

\* The next body is decoded.
LEMMA StillProgramming ==
  ASSUME ProgramsInv, phase = "programs", phase' = "programs",
         UNCHANGED <<m, programs, next>>
  PROVE  ProgramsInv'
  BY DEF ProgramsInv, Phases, Loading, Complete, Typed

-----------------------------------------------------------------------------
(* The steps.                                                              *)

LEMMA LoaderKeeps ==
  ASSUME ProgramsInv, UNCHANGED linkVars,
         Header \/ OpenSection \/ LoadEntry \/ CloseSection \/ EndOfFile
  PROVE  ProgramsInv'
<1>0. UNCHANGED <<programs, next>>
  BY DEF linkVars
<1>1. CASE phase' = "failed"
  BY <1>0, <1>1, Failing
<1>2. CASE phase' # "failed" /\ (Header \/ OpenSection \/ LoadEntry \/ CloseSection)
  <2>1. phase \in Loading /\ phase' \in Loading
    BY <1>2 DEF Header, OpenSection, LoadEntry, CloseSection, Return, Proceed,
                Loading
  <2> QED
    BY <1>0, <2>1, StillLoading
<1>3. CASE phase' # "failed" /\ EndOfFile
  <2>1. /\ phase = "sections" /\ phase' = "programs" /\ m' = m
        /\ Len(m["Code"]) = Len(m["Function"])
    BY <1>3 DEF EndOfFile, Return, Proceed, CountsAgree
  <2>2. next = 0 /\ programs = <<>>
    BY <2>1 DEF ProgramsInv, Loading
  <2>3. next' = Len(programs') /\ 1 .. Len(programs') = {}
    BY <1>0, <2>2
  <2> QED
    BY <1>0, <2>1, <2>3 DEF ProgramsInv, Phases, Loading, Complete
<1> QED
  BY <1>1, <1>2, <1>3

LEMMA EndProgramKeeps ==
  ASSUME ProgramsInv, EndProgram
  PROVE  ProgramsInv'
<1>1. phase = "programs" /\ m' = m
  BY DEF EndProgram
<1>2. CASE dec.reply = "Ok" /\ next < Len(m["Function"]) /\ TypeIndex < Len(m["Type"])
  <2>1. /\ programs' = Append(programs, Program)
        /\ next' = next + 1
        /\ phase' = "programs"
    BY <1>2 DEF EndProgram, Proceed
  <2>2. next = Len(programs) /\ \E S : programs \in Seq(S)
    BY <1>1 DEF ProgramsInv
  <2>3. /\ \E S : programs' \in Seq(S)
        /\ Len(programs') = next + 1
        /\ next \in Nat
        /\ \A i \in 1 .. next : programs'[i] = programs[i]
        /\ programs'[next + 1] = Program
    <3>1. /\ \E S : Append(programs, Program) \in Seq(S)
          /\ Len(Append(programs, Program)) = Len(programs) + 1
          /\ Len(programs) \in Nat
          /\ \A i \in 1 .. Len(programs) :
               Append(programs, Program)[i] = programs[i]
          /\ Append(programs, Program)[Len(programs) + 1] = Program
      BY <2>2, AppendOne, Zenon
    <3> QED
      BY <2>1, <2>2, <3>1, Zenon
  <2>4. ASSUME NEW i \in 1 .. next + 1
        PROVE  Typed(i)'
    <3>1. CASE i \in 1 .. next
      <4>1. Typed(i)
        BY <1>1, <2>2, <3>1 DEF ProgramsInv
      <4> QED
        BY <1>1, <2>3, <3>1, <4>1 DEF Typed
    <3>2. CASE i = next + 1
      <4>1. TypeIndex = m["Function"][i][1]
        BY <3>2 DEF TypeIndex, At
      <4>2. Program.return_types = At(m["Type"], TypeIndex)[3]
        BY DEF Program
      <4> QED
        BY <1>1, <1>2, <2>3, <3>2, <4>1, <4>2 DEF Typed
    <3> QED
      BY <2>3, <3>1, <3>2
  <2>5. Len(m'["Code"]) = Len(m'["Function"])
    BY <1>1 DEF ProgramsInv
  <2> QED
    BY <2>1, <2>3, <2>4, <2>5 DEF ProgramsInv, Phases, Loading, Complete
<1>3. CASE ~ (dec.reply = "Ok" /\ next < Len(m["Function"])
              /\ TypeIndex < Len(m["Type"]))
  <2>1. phase' = "failed" /\ UNCHANGED programs
    BY <1>3 DEF EndProgram, Return
  <2> QED
    BY <2>1, Failing
<1> QED
  BY <1>2, <1>3

\* The remaining steps of mk_instance leave the programs alone.
LEMMA StoresKeep ==
  ASSUME ProgramsInv,
         \/ ApplyElement \/ CheckMemories \/ ApplyData \/ EndData
         \/ InitGlobal \/ EndGlobals \/ RunStart
  PROVE  ProgramsInv'
<1>1. UNCHANGED <<m, programs>>
  BY DEF ApplyElement, CheckMemories, ApplyData, EndData, InitGlobal,
         EndGlobals, RunStart, linkVars
<1>2. phase \in Complete /\ phase' \in Complete \cup {"failed"}
  <2>1. CASE ApplyElement
    BY <2>1 DEF ApplyElement, Return, Proceed, Complete
  <2>2. CASE ApplyData
    BY <2>2 DEF ApplyData, Return, Proceed, Complete
  <2>3. CASE InitGlobal
    BY <2>3 DEF InitGlobal, Return, Proceed, Complete
  <2>4. CASE RunStart
    BY <2>4 DEF RunStart, Return, Accept, Complete
  <2>5. CASE CheckMemories \/ EndData \/ EndGlobals
    BY <2>5 DEF CheckMemories, EndData, EndGlobals, Return, Proceed, Accept,
                Complete
  <2> QED
    BY <2>1, <2>2, <2>3, <2>4, <2>5
<1> QED
  BY <1>1, <1>2, Failing, StillComplete

LEMMA ProgramsStep == ProgramsInv /\ [Next]_vars => ProgramsInv'
<1> SUFFICES ASSUME ProgramsInv, [Next]_vars
             PROVE  ProgramsInv'
  OBVIOUS
<1>1. CASE /\ Header \/ OpenSection \/ LoadEntry \/ CloseSection \/ EndOfFile
           /\ UNCHANGED linkVars
  BY <1>1, LoaderKeeps
<1>2. CASE BeginProgram \/ DecodeStep
  <2>1. /\ phase = "programs" /\ phase' \in {"programs", "failed"}
        /\ UNCHANGED <<m, programs, next>>
    BY <1>2 DEF BeginProgram, DecodeStep, Return, Proceed, loadVars
  <2> QED
    BY <2>1, Failing, StillProgramming
<1>3. CASE EndProgram
  BY <1>3, EndProgramKeeps
<1>4. CASE MakeStores
  <2>1. /\ phase = "programs" /\ phase' = "elements"
        /\ next = Len(m["Code"]) /\ UNCHANGED <<m, programs>>
    BY <1>4 DEF MakeStores, Proceed
  <2>2. Len(programs) = Len(m["Function"])
    BY <2>1 DEF ProgramsInv, Complete
  <2> QED
    BY <2>1, <2>2 DEF ProgramsInv, Phases, Loading, Complete, Typed
<1>5. CASE \/ ApplyElement \/ CheckMemories \/ ApplyData \/ EndData
           \/ InitGlobal \/ EndGlobals \/ RunStart
  BY <1>5, StoresKeep
<1>6. CASE Answered \/ UNCHANGED vars
  BY <1>6 DEF Answered, vars, loadVars, linkVars, ProgramsInv, Typed
<1> QED
  BY <1>1, <1>2, <1>3, <1>4, <1>5, <1>6 DEF Next

\* Every instance mk_instance goes on with, and every one it returns, has a
\* program for each function of its module, with the results of a type that
\* exists: what run() and frame_for_funcidx index without looking is there.
THEOREM InstanceComplete == Spec => []InstanceIsModule
<1>1. Init => ProgramsInv
  <2> SUFFICES ASSUME Init
               PROVE  ProgramsInv
    OBVIOUS
  <2>1. phase = "header" /\ next = 0 /\ programs = <<>>
    BY DEF Init, LoadInit
  <2>2. programs \in Seq({})
    BY <2>1
  <2> QED
    BY <2>1, <2>2 DEF ProgramsInv, Phases, Loading, Complete
<1>2. ProgramsInv => InstanceIsModule
  BY DEF ProgramsInv, InstanceIsModule, Complete, Typed
<1> QED
  BY <1>1, <1>2, ProgramsStep, PTL DEF Spec

-----------------------------------------------------------------------------
(* What decode() emits.                                                    *)

\* decode() has emitted ops and has these scopes open.
Decoded(ops, scopes) ==
  /\ \E S : ops \in Seq(S)
  /\ decode_accepts(ops)
  /\ NestedBy(ops, Len(ops), scopes)

\* The last operation opens an if, so that the next one must be its If.
OpensIf(ops) ==
  /\ Len(ops) > 0
  /\ At(ops, Len(ops) - 1).op = "StartScope"
  /\ At(ops, Len(ops) - 1).scope = "IfElse"

\* One more operation leaves the ones before it alone.
LEMMA AppendAgrees ==
  ASSUME NEW ops, NEW o, \E S : ops \in Seq(S)
  PROVE  /\ \E S : Append(ops, o) \in Seq(S)
         /\ Len(ops) \in Nat /\ Len(Append(ops, o)) = Len(ops) + 1
         /\ At(Append(ops, o), Len(ops)) = o
         /\ Agree(ops, Append(ops, o), Len(ops))
         /\ OpensIf(Append(ops, o)) <=> o.op = "StartScope" /\ o.scope = "IfElse"
         /\ Len(ops) > 0 => At(Append(ops, o), Len(ops) - 1) = At(ops, Len(ops) - 1)
<1>1. /\ \E S : Append(ops, o) \in Seq(S)
      /\ Len(Append(ops, o)) = Len(ops) + 1
      /\ Len(ops) \in Nat
      /\ \A i \in 1 .. Len(ops) : Append(ops, o)[i] = ops[i]
      /\ Append(ops, o)[Len(ops) + 1] = o
  BY AppendOne, Zenon
<1> DEFINE more == Append(ops, o)
           n == Len(ops)
<1> HIDE DEF more, n
<1>2. /\ Len(more) = n + 1 /\ n \in Nat /\ more[n + 1] = o
      /\ \A i \in 1 .. n : more[i] = ops[i]
  BY <1>1 DEF more, n
<1>3. At(more, n) = o
  BY <1>2 DEF At
<1>4. ASSUME NEW j \in 0 .. n - 1
      PROVE  At(more, j) = At(ops, j)
  <2>1. j + 1 \in 1 .. n
    BY <1>2
  <2> QED
    BY <1>2, <2>1 DEF At
<1>5. Agree(ops, more, n)
  BY <1>4 DEF Agree
<1>6. OpensIf(more) <=> o.op = "StartScope" /\ o.scope = "IfElse"
  <2>1. Len(more) > 0 /\ Len(more) - 1 = n
    BY <1>2
  <2> QED
    BY <1>3, <2>1 DEF OpensIf
<1>7. n > 0 => At(more, n - 1) = At(ops, n - 1)
  BY <1>2, <1>4
<1> QED
  BY <1>1, <1>2, <1>3, <1>5, <1>6, <1>7 DEF more, n

\* An operation that is no scope's: an If behind the start of its scope and
\* nowhere else, an Else in an if.
LEMMA EmitPlain ==
  ASSUME NEW ops, NEW scopes, Decoded(ops, scopes), NEW o,
         o.op \notin {"StartScope", "EndScope"},
         o.op = "If" <=> OpensIf(ops),
         o.op = "Else" => scopes # <<>> /\ Top(scopes) = "IfElse"
  PROVE  Decoded(Append(ops, o), scopes) /\ ~ OpensIf(Append(ops, o))
<1> DEFINE more == Append(ops, o)
           n == Len(ops)
<1>1. /\ \E S : more \in Seq(S)
      /\ n \in Nat /\ Len(more) = n + 1 /\ At(more, n) = o
      /\ Agree(ops, more, n) /\ ~ OpensIf(more)
      /\ n > 0 => At(more, n - 1) = At(ops, n - 1)
  BY AppendAgrees DEF Decoded
<1>2. NestedBy(ops, n, scopes) /\ decode_accepts(ops)
  BY DEF Decoded
<1> HIDE DEF more
<1>3. NestedBy(more, n, scopes)
  BY <1>1, <1>2, NestedPrefix
<1>4. NestedBy(more, n + 1, scopes)
  BY <1>1, <1>3, NestedPlain
<1>5. Accepted(more, n)
  <2>1. o.op = "Else" => Innermost(more, n) = "IfElse"
    BY <1>1, <1>3, NestedTop
  <2>2. OpensIf(ops) <=> n > 0 /\ At(more, n - 1).op = "StartScope"
                               /\ At(more, n - 1).scope = "IfElse"
    BY <1>1 DEF OpensIf
  <2> QED
    BY <1>1, <2>1, <2>2 DEF Accepted
<1>6. decode_accepts(more)
  BY <1>1, <1>2, <1>5, AcceptsOne
<1>7. Decoded(more, scopes)
  BY <1>1, <1>4, <1>6, Zenon DEF Decoded
<1> QED
  BY <1>1, <1>7 DEF more

\* The start of a block, a loop or an if.
LEMMA EmitStart ==
  ASSUME NEW ops, NEW scopes, Decoded(ops, scopes), ~ OpensIf(ops), NEW o,
         o.op = "StartScope", o.scope \in {"Block", "Loop", "IfElse"}
  PROVE  /\ Decoded(Append(ops, o), Append(scopes, o.scope))
         /\ OpensIf(Append(ops, o)) <=> o.scope = "IfElse"
<1> DEFINE more == Append(ops, o)
           n == Len(ops)
<1>1. /\ \E S : more \in Seq(S)
      /\ n \in Nat /\ Len(more) = n + 1 /\ At(more, n) = o
      /\ Agree(ops, more, n) /\ (OpensIf(more) <=> o.scope = "IfElse")
      /\ n > 0 => At(more, n - 1) = At(ops, n - 1)
  BY AppendAgrees DEF Decoded
<1>2. NestedBy(ops, n, scopes) /\ decode_accepts(ops)
  BY DEF Decoded
<1> HIDE DEF more
<1>3. NestedBy(more, n, scopes)
  BY <1>1, <1>2, NestedPrefix
<1>4. NestedBy(more, n + 1, Append(scopes, o.scope))
  <2>1. o.scope \in ScopeTypes \ {"Program"}
    BY DEF ScopeTypes
  <2> QED
    BY <1>1, <1>3, <2>1, NestedStart
<1>5. Accepted(more, n)
  <2>1. ~ (n > 0 /\ At(more, n - 1).op = "StartScope"
                 /\ At(more, n - 1).scope = "IfElse")
    BY <1>1 DEF OpensIf
  <2> QED
    BY <1>1, <2>1 DEF Accepted
<1>6. decode_accepts(more)
  BY <1>1, <1>2, <1>5, AcceptsOne
<1>7. Decoded(more, Append(scopes, o.scope))
  BY <1>1, <1>4, <1>6, Zenon DEF Decoded
<1> QED
  BY <1>1, <1>7 DEF more

\* The end of the innermost scope.
LEMMA EmitEnd ==
  ASSUME NEW ops, NEW scopes, Decoded(ops, scopes), ~ OpensIf(ops), NEW o,
         scopes # <<>>, o.op = "EndScope", o.scope = Top(scopes)
  PROVE  /\ Decoded(Append(ops, o), DropTop(scopes, 1))
         /\ ~ OpensIf(Append(ops, o))
<1> DEFINE more == Append(ops, o)
           n == Len(ops)
<1>1. /\ \E S : more \in Seq(S)
      /\ n \in Nat /\ Len(more) = n + 1 /\ At(more, n) = o
      /\ Agree(ops, more, n) /\ ~ OpensIf(more)
      /\ n > 0 => At(more, n - 1) = At(ops, n - 1)
  BY AppendAgrees DEF Decoded
<1>2. NestedBy(ops, n, scopes) /\ decode_accepts(ops)
  BY DEF Decoded
<1> HIDE DEF more
<1>3. NestedBy(more, n, scopes)
  BY <1>1, <1>2, NestedPrefix
<1>4. NestedBy(more, n + 1, DropTop(scopes, 1))
  BY <1>1, <1>3, NestedEnd
<1>5. Accepted(more, n)
  <2>1. ~ (n > 0 /\ At(more, n - 1).op = "StartScope"
                 /\ At(more, n - 1).scope = "IfElse")
    BY <1>1 DEF OpensIf
  <2>2. /\ Top(scopes) = Innermost(more, n)
        /\ Top(scopes) = "Program" => ~ Ended(more, n)
    BY <1>1, <1>3, NestedTop
  <2> QED
    BY <1>1, <2>1, <2>2 DEF Accepted
<1>6. decode_accepts(more)
  BY <1>1, <1>2, <1>5, AcceptsOne
<1>7. Decoded(more, DropTop(scopes, 1))
  BY <1>1, <1>4, <1>6, Zenon DEF Decoded
<1> QED
  BY <1>1, <1>7 DEF more

\* Appending the one or two operations of an opcode.
LEMMA ConcatOne ==
  ASSUME NEW s, \E S : s \in Seq(S), NEW o, NEW x
  PROVE  /\ s \o <<o>> = Append(s, o)
         /\ s \o (<<o>> \o <<>>) = Append(s, o)
         /\ s \o (<<o>> \o <<x>>) = Append(Append(s, o), x)
<1>1. PICK S : s \in Seq(S)
  OBVIOUS
<1> DEFINE T == S \cup {o, x}
<1>2. s \in Seq(T) /\ o \in T /\ x \in T
  BY <1>1
<1> HIDE DEF T
<1>3. \A t \in Seq(T), e \in T : t \o <<e>> = Append(t, e) /\ Append(t, e) \in Seq(T)
  BY AppendIsConcat
<1>4. <<o>> \in Seq(T) /\ <<x>> \in Seq(T)
  BY <1>2
<1>5. <<o>> \o <<>> = <<o>>
  OBVIOUS
<1>6. s \o (<<o>> \o <<x>>) = (s \o <<o>>) \o <<x>>
  BY <1>2, <1>4, ConcatAssociative
<1> QED
  BY <1>2, <1>3, <1>5, <1>6

\* The opcodes that open a scope, and the scopes they open.
LEMMA ScopeNames ==
  /\ DOMAIN ScopeOps = {"Block", "Loop", "If"}
  /\ \A name \in DOMAIN ScopeOps :
       /\ ScopeOps[name] \in {"Block", "Loop", "IfElse"}
       /\ ScopeOps[name] = "IfElse" <=> name = "If"
  BY DEF ScopeOps

\* The operations emitted for the opcode that opens a scope.
LEMMA EmittedStart ==
  ASSUME NEW name \in DOMAIN ScopeOps, NEW v, NEW top
  PROVE  LET o == StartScope(ScopeOps[name], v[1].ty, v[1].n)
         IN /\ o.op = "StartScope" /\ o.scope = ScopeOps[name]
            /\ Emitted(name, v, top) =
                 <<o>> \o (IF name = "If" THEN <<Op("If")>> ELSE <<>>)
<1> DEFINE o == StartScope(ScopeOps[name], v[1].ty, v[1].n)
<1>1. o.op = "StartScope" /\ o.scope = ScopeOps[name]
  BY DEF StartScope, Op
<1>2. name \in {"Block", "Loop", "If"}
  BY ScopeNames
<1>3. name \notin IndexOps \cup TableOps /\ name \notin Accesses
  BY <1>2 DEF IndexOps, TableOps, Accesses, LoadOps, StoreOps
<1>4. name \notin DOMAIN ConstKinds
        /\ name \notin {"End", "BrTable", "CallIndirect", "RefNull", "FCExtension"}
  BY <1>2 DEF ConstKinds
<1>5. Emitted(name, v, top) = ScopeStart(name, v[1])
  BY <1>3, <1>4 DEF Emitted
<1>6. ScopeStart(name, v[1])
        = <<o>> \o (IF name = "If" THEN <<Op("If")>> ELSE <<>>)
  BY DEF ScopeStart
<1> QED
  BY <1>1, <1>5, <1>6, Zenon

\* The operation emitted for an opcode that opens and closes no scope.
LEMMA EmittedPlain ==
  ASSUME NEW name, NEW v, NEW top,
         name \notin DOMAIN ScopeOps, name # "End",
         name \notin {"StartScope", "EndScope"}
  PROVE  \E o : /\ Emitted(name, v, top) = <<o>>
                /\ o.op \notin {"If", "StartScope", "EndScope"}
                /\ o.op = "Else" => name = "Else"
<1> DEFINE Plain(o) == /\ o.op \notin {"If", "StartScope", "EndScope"}
                       /\ o.op = "Else" => name = "Else"
<1>0. name # "If"
  BY ScopeNames
<1>a. /\ name \in IndexOps \cup TableOps =>
           /\ name \notin {"BrTable", "CallIndirect", "RefNull", "FCExtension"}
           /\ name \notin Accesses /\ name \notin DOMAIN ConstKinds
      /\ name \in Accesses =>
           /\ name \notin {"BrTable", "CallIndirect", "RefNull", "FCExtension"}
           /\ name \notin DOMAIN ConstKinds
      /\ name \in DOMAIN ConstKinds =>
           name \notin {"BrTable", "CallIndirect", "RefNull", "FCExtension"}
  BY DEF IndexOps, TableOps, Accesses, LoadOps, StoreOps, ConstKinds
<1>b. /\ OpName(name) \notin {"If", "StartScope", "EndScope"}
      /\ OpName(name) = "Else" => name = "Else"
  <2>1. CASE name \in DOMAIN Renamed
    <3>1. Renamed[name] \in {"TeeLocal", "RefIsNull", "MemorySize", "MemoryGrow"}
      BY <2>1 DEF Renamed
    <3> QED
      BY <2>1, <3>1 DEF OpName
  <2>2. CASE name \notin DOMAIN Renamed
    BY <1>0, <2>2 DEF OpName
  <2> QED
    BY <2>1, <2>2
<1>1. CASE name \in IndexOps \cup TableOps
  <2> DEFINE o == OpN(OpName(name), v[1])
  <2>1. Emitted(name, v, top) = <<o>>
    BY <1>1, <1>a DEF Emitted
  <2>2. o.op = OpName(name)
    BY DEF OpN, Op
  <2> QED
    BY <1>b, <2>1, <2>2, Zenon
<1>2. CASE name = "BrTable"
  <2> DEFINE o == [OpN(name, v[2]) EXCEPT !.tbl = v[1]]
  <2>1. Emitted(name, v, top) = <<o>>
    BY <1>2, <1>a DEF Emitted
  <2>2. o.op = name
    BY DEF OpN, Op
  <2>3. Plain(o)
    BY <1>2, <2>2
  <2> QED
    BY <2>1, <2>3, Zenon
<1>3. CASE name = "CallIndirect"
  <2> DEFINE o == [OpN(name, v[1]) EXCEPT !.m = v[2]]
  <2>1. Emitted(name, v, top) = <<o>>
    BY <1>3, <1>a DEF Emitted
  <2>2. o.op = name
    BY DEF OpN, Op
  <2>3. Plain(o)
    BY <1>3, <2>2
  <2> QED
    BY <2>1, <2>3, Zenon
<1>4. CASE name \in Accesses
  <2> DEFINE o == [OpN(name, v[1].offset) EXCEPT !.m = v[1].align]
  <2>1. Emitted(name, v, top) = <<o>>
    BY <1>4, <1>a DEF Emitted
  <2>2. o.op = name
    BY DEF OpN, Op
  <2>3. Plain(o)
    BY <1>0, <2>2
  <2> QED
    BY <2>1, <2>3, Zenon
<1>5. CASE name \in DOMAIN ConstKinds
  <2> DEFINE o == Const(name, v[1])
  <2>1. Emitted(name, v, top) = <<o>>
    BY <1>5, <1>a DEF Emitted
  <2>2. o.op = name
    BY DEF Const, Op
  <2>3. Plain(o)
    BY <1>0, <2>2
  <2> QED
    BY <2>1, <2>3, Zenon
<1>6. CASE name = "RefNull"
  <2> DEFINE o == [Op(name) EXCEPT !.ty = v[1]]
  <2>1. Emitted(name, v, top) = <<o>>
    BY <1>6, <1>a DEF Emitted
  <2>2. o.op = name
    BY DEF Op
  <2>3. Plain(o)
    BY <1>6, <2>2
  <2> QED
    BY <2>1, <2>3, Zenon
<1>7. CASE name = "FCExtension"
  <2> DEFINE o == OpN("TruncSat", v[1])
  <2>1. Emitted(name, v, top) = <<o>>
    BY <1>7, <1>a DEF Emitted
  <2>2. o.op = "TruncSat"
    BY DEF OpN, Op
  <2>3. Plain(o)
    BY <2>2
  <2> QED
    BY <2>1, <2>3, Zenon
<1>8. CASE /\ name \notin IndexOps \cup TableOps /\ name \notin Accesses
           /\ name \notin DOMAIN ConstKinds
           /\ name \notin {"BrTable", "CallIndirect", "RefNull", "FCExtension"}
  <2> DEFINE o == Op(OpName(name))
  <2>1. Emitted(name, v, top) = <<o>>
    BY <1>8 DEF Emitted
  <2>2. o.op = OpName(name)
    BY DEF Op
  <2> QED
    BY <1>b, <2>1, <2>2, Zenon
<1> QED
  BY <1>1, <1>2, <1>3, <1>4, <1>5, <1>6, <1>7, <1>8, Zenon

\* Decoding in progress: a record with operations that nest.
DecodingInv(d) ==
  /\ DOMAIN d = {"pos", "scopes", "ops", "at", "reply"}
  /\ Decoded(d.ops, d.scopes)
  /\ ~ OpensIf(d.ops)

\* An answer changes nothing else.
LEMMA ReplyKeeps ==
  ASSUME NEW d, DecodingInv(d), NEW r
  PROVE  DecodingInv([d EXCEPT !.reply = r])
<1> DEFINE e == [d EXCEPT !.reply = r]
<1>1. /\ e.scopes = d.scopes /\ e.ops = d.ops
      /\ DOMAIN e = {"pos", "scopes", "ops", "at", "reply"}
  BY DEF DecodingInv
<1> HIDE DEF e
<1>2. DecodingInv(e)
  BY <1>1 DEF DecodingInv
<1> QED
  BY <1>2 DEF e

\* Decoding starts with no operations in the scope of the function.
LEMMA DecodingStarts == DecodingInv(Decoding)
<1>1. /\ Decoding.ops = <<>> /\ Decoding.scopes = <<"Program">>
      /\ DOMAIN Decoding = {"pos", "scopes", "ops", "at", "reply"}
  BY DEF Decoding
<1>2. Len(<<>>) = 0 /\ 0 .. 0 - 1 = {} /\ <<>> \in Seq({})
  OBVIOUS
<1>3. decode_accepts(<<>>) /\ ~ OpensIf(<<>>) /\ ~ Ended(<<>>, 0)
  BY <1>2 DEF decode_accepts, OpensIf, Ended
<1>4. Nest(<<>>, 0, <<>>)
  <2>1. OpenScopes(<<>>, 0) = {}
    BY <1>2 DEF OpenScopes
  <2> QED
    BY <2>1 DEF Nest
<1>5. Kinds(<<>>, 0, <<>>, <<"Program">>)
  <2> DEFINE scopes == <<"Program">>
             none == <<>>
  <2>1. /\ scopes \in Seq(ScopeTypes) /\ Len(scopes) = Len(none) + 1
        /\ scopes[1] = "Program" /\ 1 .. Len(none) = {}
    BY DEF ScopeTypes
  <2>2. ~ Ended(none, 0)
    BY <1>3
  <2> HIDE DEF scopes, none
  <2>3. Kinds(none, 0, none, scopes)
    BY <2>1, <2>2, Zenon DEF Kinds
  <2> QED
    BY <2>3 DEF scopes, none
<1>6. Decoded(<<>>, <<"Program">>)
  BY <1>2, <1>3, <1>4, <1>5 DEF Decoded, NestedBy
<1> QED
  BY <1>1, <1>3, <1>6 DEF DecodingInv

\* The operations and scopes behind one more opcode nest.
LEMMA TranslateKeeps ==
  ASSUME NEW ops, NEW scopes, Decoded(ops, scopes), ~ OpensIf(ops),
         NEW name, NEW v, NEW top, name \notin {"StartScope", "EndScope"},
         name = "End" => scopes # <<>> /\ top = Top(scopes),
         name = "Else" => scopes # <<>> /\ Top(scopes) = "IfElse"
  PROVE  /\ Decoded(ops \o Emitted(name, v, top),
                    CASE name \in DOMAIN ScopeOps -> Append(scopes, ScopeOps[name])
                      [] name = "End" -> DropTop(scopes, 1)
                      [] OTHER -> scopes)
         /\ ~ OpensIf(ops \o Emitted(name, v, top))
<1>0. \E S : ops \in Seq(S)
  BY DEF Decoded
<1>1. CASE name \in DOMAIN ScopeOps
  <2>1. name # "End"
    BY <1>1, ScopeNames
  <2> DEFINE o == StartScope(ScopeOps[name], v[1].ty, v[1].n)
  <2>2. /\ o.op = "StartScope" /\ o.scope = ScopeOps[name]
        /\ Emitted(name, v, top) =
             <<o>> \o (IF name = "If" THEN <<Op("If")>> ELSE <<>>)
    BY <1>1, EmittedStart, Zenon
  <2> HIDE DEF o
  <2>3. /\ o.scope \in {"Block", "Loop", "IfElse"}
        /\ o.scope = "IfElse" <=> name = "If"
    BY <1>1, <2>2, ScopeNames
  <2>4. /\ Decoded(Append(ops, o), Append(scopes, o.scope))
        /\ OpensIf(Append(ops, o)) <=> name = "If"
    BY <2>2, <2>3, EmitStart
  <2>5. CASE name = "If"
    <3> DEFINE x == Op("If")
    <3>1. x.op = "If"
      BY DEF Op
    <3> HIDE DEF x
    <3>2. ops \o Emitted(name, v, top) = Append(Append(ops, o), x)
      BY <1>0, <2>2, <2>5, ConcatOne DEF x
    <3>3. /\ Decoded(Append(Append(ops, o), x), Append(scopes, o.scope))
          /\ ~ OpensIf(Append(Append(ops, o), x))
      BY <2>4, <2>5, <3>1, EmitPlain
    <3> QED
      BY <1>1, <2>1, <2>2, <3>2, <3>3
  <2>6. CASE name # "If"
    <3>1. ops \o Emitted(name, v, top) = Append(ops, o)
      BY <1>0, <2>2, <2>6, ConcatOne
    <3> QED
      BY <1>1, <2>1, <2>2, <2>4, <2>6, <3>1
  <2> QED
    BY <2>5, <2>6
<1>2. CASE name = "End"
  <2> DEFINE o == EndScope(top)
  <2>1. name \notin DOMAIN ScopeOps
    BY <1>2, ScopeNames
  <2>2. o.op = "EndScope" /\ o.scope = Top(scopes)
    BY <1>2 DEF EndScope, Op
  <2>3. Emitted(name, v, top) = <<o>>
    <3>1. /\ name \notin IndexOps \cup TableOps /\ name \notin Accesses
          /\ name \notin DOMAIN ConstKinds
      BY <1>2 DEF IndexOps, TableOps, Accesses, LoadOps, StoreOps, ConstKinds
    <3> QED
      BY <1>2, <2>1, <3>1 DEF Emitted
  <2> HIDE DEF o
  <2>4. ops \o Emitted(name, v, top) = Append(ops, o)
    BY <1>0, <2>3, ConcatOne
  <2>5. Decoded(Append(ops, o), DropTop(scopes, 1)) /\ ~ OpensIf(Append(ops, o))
    BY <1>2, <2>2, EmitEnd
  <2> QED
    BY <1>2, <2>1, <2>4, <2>5
<1>3. CASE name \notin DOMAIN ScopeOps /\ name # "End"
  <2>1. PICK o : /\ Emitted(name, v, top) = <<o>>
                 /\ o.op \notin {"If", "StartScope", "EndScope"}
                 /\ o.op = "Else" => name = "Else"
    BY <1>3, EmittedPlain
  <2>2. ops \o Emitted(name, v, top) = Append(ops, o)
    BY <1>0, <2>1, ConcatOne
  <2>3. Decoded(Append(ops, o), scopes) /\ ~ OpensIf(Append(ops, o))
    BY <2>1, EmitPlain
  <2> QED
    BY <1>3, <2>2, <2>3
<1> QED
  BY <1>1, <1>2, <1>3

\* One round of decode() keeps the operations nested.
LEMMA DecodeKeeps ==
  ASSUME NEW s, NEW d, DecodingInv(d)
  PROVE  DecodingInv(decode_op(s, d))
<1> DEFINE name == from_repr(At(s, d.pos))
           top == IF d.scopes = <<>> THEN "None" ELSE Top(d.scopes)
           refused == CASE name = "Invalid" -> "InvalidOpcode"
                   [] name \in Unsupported -> "UnimplementedOpcode"
                   [] name = "End" /\ top = "None" -> "Panic"
                   [] name = "Else" /\ top # "IfElse" -> "Panic"
                   [] OTHER -> "None"
           imm == fields[s, d.pos + 1, Immediates(name)]
           scopes == CASE name \in DOMAIN ScopeOps ->
                                 Append(d.scopes, ScopeOps[name])
                             [] name = "End" -> DropTop(d.scopes, 1)
                             [] OTHER -> d.scopes
           ops == d.ops \o Emitted(name, imm.v, top)
           at == Append(d.at, d.pos)
           e == [d EXCEPT !.pos = imm.pos, !.at = at, !.scopes = scopes,
                          !.ops = ops]
<1>1. \/ \E r : decode_op(s, d) = [d EXCEPT !.reply = r]
      \/ refused = "None" /\ decode_op(s, d) = e
  BY DEF decode_op
<1>2. ASSUME NEW r, decode_op(s, d) = [d EXCEPT !.reply = r]
      PROVE  DecodingInv(decode_op(s, d))
  BY <1>2, ReplyKeeps
<1>3. ASSUME refused = "None", decode_op(s, d) = e
      PROVE  DecodingInv(decode_op(s, d))
  <2>1. Decoded(d.ops, d.scopes) /\ ~ OpensIf(d.ops)
    BY DEF DecodingInv
  <2>2. name \notin {"StartScope", "EndScope"}
    BY OpcodesAssumption DEF from_repr
  <2>3. /\ name = "End" => top # "None"
        /\ name = "Else" => top = "IfElse"
    <3> HIDE DEF name, top
    <3>1. "End" \notin Unsupported /\ "Else" \notin Unsupported
      BY DEF Unsupported, ScanPasses
    <3> QED
      BY <1>3, <3>1
  <2>4. /\ name = "End" => d.scopes # <<>> /\ top = Top(d.scopes)
        /\ name = "Else" => d.scopes # <<>> /\ Top(d.scopes) = "IfElse"
    BY <2>3
  <2>5. Decoded(ops, scopes) /\ ~ OpensIf(ops)
    <3> HIDE DEF name, top, imm
    <3> QED
      BY <2>1, <2>2, <2>4, TranslateKeeps
  <2> HIDE DEF name, top, imm, ops, scopes, at, refused
  <2>6. /\ e.ops = ops /\ e.scopes = scopes
        /\ DOMAIN e = {"pos", "scopes", "ops", "at", "reply"}
    BY DEF DecodingInv
  <2> HIDE DEF e
  <2> QED
    BY <1>3, <2>5, <2>6 DEF DecodingInv
<1> QED
  BY <1>1, <1>2, <1>3

\* Every program, and the operations decoded so far, nest.
NestingInv ==
  /\ DecodingInv(dec)
  /\ \E S : programs \in Seq(S)
  /\ \A i \in 1 .. Len(programs) : decode_accepts(programs[i].ops)

LEMMA NestingStep == NestingInv /\ [Next]_vars => NestingInv'
<1> SUFFICES ASSUME NestingInv, [Next]_vars
             PROVE  NestingInv'
  OBVIOUS
<1>0. DecodingInv(dec)
  BY DEF NestingInv
<1>1. CASE BeginProgram
  <2>1. (dec' = dec \/ dec' = Decoding) /\ programs' = programs
    BY <1>1 DEF BeginProgram
  <2>2. DecodingInv(dec')
    BY <1>0, <2>1, DecodingStarts
  <2> QED
    BY <2>1, <2>2 DEF NestingInv
<1>2. CASE DecodeStep
  <2>1. dec' = decode_op(Slice(Body), dec) /\ programs' = programs
    BY <1>2 DEF DecodeStep
  <2>2. DecodingInv(dec')
    BY <1>0, <2>1, DecodeKeeps
  <2> QED
    BY <2>1, <2>2 DEF NestingInv
<1>3. CASE EndProgram
  <2>1. /\ dec' = [dec EXCEPT !.reply = "Idle"]
        /\ programs' = programs \/ programs' = Append(programs, Program)
    BY <1>3 DEF EndProgram
  <2>2. DecodingInv(dec')
    BY <1>0, <2>1, ReplyKeeps
  <2>3. CASE programs' = programs
    BY <2>2, <2>3 DEF NestingInv
  <2>4. CASE programs' = Append(programs, Program)
    <3>1. /\ \E S : programs' \in Seq(S)
          /\ Len(programs') = Len(programs) + 1 /\ Len(programs) \in Nat
          /\ \A i \in 1 .. Len(programs) : programs'[i] = programs[i]
          /\ programs'[Len(programs) + 1] = Program
      <4>1. \E S : programs \in Seq(S)
        BY DEF NestingInv
      <4>2. /\ \E S : Append(programs, Program) \in Seq(S)
            /\ Len(Append(programs, Program)) = Len(programs) + 1
            /\ Len(programs) \in Nat
            /\ \A i \in 1 .. Len(programs) :
                 Append(programs, Program)[i] = programs[i]
            /\ Append(programs, Program)[Len(programs) + 1] = Program
        BY <4>1, AppendOne, Zenon
      <4> QED
        BY <2>4, <4>2, Zenon
    <3>2. Program.ops = dec.ops /\ decode_accepts(dec.ops)
      BY <1>0 DEF Program, DecodingInv, Decoded
    <3>3. ASSUME NEW i \in 1 .. Len(programs')
          PROVE  decode_accepts(programs'[i].ops)
      <4>1. CASE i \in 1 .. Len(programs)
        BY <3>1, <4>1 DEF NestingInv
      <4>2. CASE i = Len(programs) + 1
        BY <3>1, <3>2, <4>2
      <4> QED
        BY <3>1, <4>1, <4>2
    <3> QED
      BY <2>2, <3>1, <3>3 DEF NestingInv
  <2> QED
    BY <2>1, <2>3, <2>4
<1>4. ASSUME UNCHANGED <<dec, programs>>
      PROVE  NestingInv'
  BY <1>4 DEF NestingInv
<1>5. CASE \/ /\ Header \/ OpenSection \/ LoadEntry \/ CloseSection \/ EndOfFile
              /\ UNCHANGED linkVars
           \/ MakeStores \/ ApplyElement \/ CheckMemories \/ ApplyData \/ EndData
           \/ InitGlobal \/ EndGlobals \/ RunStart \/ Answered \/ UNCHANGED vars
  <2>1. UNCHANGED <<dec, programs>>
    BY <1>5 DEF linkVars, vars, MakeStores, ApplyElement, CheckMemories,
                ApplyData, EndData, InitGlobal, EndGlobals, RunStart, Answered
  <2> QED
    BY <1>4, <2>1
<1> QED
  BY <1>1, <1>2, <1>3, <1>5 DEF Next

\* Whatever bytes the function bodies of a file hold, the operations decode()
\* emits for them nest, those of the body it is at included: every end closes
\* the innermost scope by its kind, an else lies directly in an if, and an If
\* stands behind the start of its scope.
THEOREM DecodingNests == Spec => []DecodedNests
<1>1. Init => NestingInv
  <2> SUFFICES ASSUME Init
               PROVE  NestingInv
    OBVIOUS
  <2>1. dec = [Decoding EXCEPT !.reply = "Idle"] /\ programs = <<>>
    BY DEF Init
  <2>2. DecodingInv(dec)
    BY <2>1, DecodingStarts, ReplyKeeps
  <2>3. programs \in Seq({}) /\ 1 .. Len(programs) = {}
    BY <2>1
  <2> QED
    BY <2>2, <2>3 DEF NestingInv
<1>2. NestingInv => DecodedNests
  BY DEF NestingInv, DecodingInv, Decoded, DecodedNests
<1> QED
  BY <1>1, <1>2, NestingStep, PTL DEF Spec
=============================================================================
