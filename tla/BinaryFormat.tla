---------------------------- MODULE BinaryFormat ----------------------------
(***************************************************************************)
(* The reference for loading: how the WebAssembly binary format writes a   *)
(* module down, and the instance a module stands for.  A description d is  *)
(* an abstract module; Encode(d) is its file.                              *)
(***************************************************************************)
EXTENDS Link
LOCAL INSTANCE SequencesExt

\* The numbers of the tables of opcodes and types.
OpByte(name) == CHOOSE b \in DOMAIN Opcodes : Opcodes[b] = name
TypeByte(ty) == CHOOSE b \in DOMAIN ValueTypes : ValueTypes[b] = ty

\* LEB128, unsigned and signed, in one or two bytes.
u(n) == IF n < Payloads THEN <<n>>
        ELSE <<Payloads + (n % Payloads), n \div Payloads>>
i(k) == IF -Payloads <= 2 * k /\ 2 * k < Payloads THEN <<k % Payloads>>
        ELSE <<Payloads + (k % Payloads), (k \div Payloads) % Payloads>>

Vec(entries) == u(Len(entries)) \o FlattenSeq(entries)
Section(id, entries) ==
  LET bytes == Vec(entries)
  IN IF entries = <<>> THEN <<>> ELSE <<id>> \o u(Len(bytes)) \o bytes
Each(s, f(_)) == [j \in 1 .. Len(s) |-> f(s[j])]
Types(tys) == Vec(Each(tys, LAMBDA ty : <<TypeByte(ty)>>))

\* An instruction: its bytes, and the operations it is translated to.
Instr(name, imm, ops) == [bytes |-> <<OpByte(name)>> \o imm, ops |-> ops]
Plain(name) == Instr(name, <<>>, <<Op(name)>>)
Indexed(name, n) == Instr(name, u(n), <<OpN(name, n)>>)
Num(name, k) == Instr(name, i(k), <<Const(name, k)>>)
Join(instrs) == [bytes |-> FlattenSeq(Each(instrs, LAMBDA x : x.bytes)),
                 ops |-> FlattenSeq(Each(instrs, LAMBDA x : x.ops))]
Scoped(name, scope, ty, instrs) ==
  LET body == Join(instrs)
  IN [bytes |-> <<OpByte(name), TypeByte(ty)>> \o body.bytes \o <<OpByte("End")>>,
      ops |-> <<StartScope(scope, ty, 0)>>
              \o (IF name = "If" THEN <<Op("If")>> ELSE <<>>)
              \o body.ops \o <<EndScope(scope)>>]

OffsetExpr(k) == Num("I32Const", k).bytes \o <<OpByte("End")>>

TypeEntry(t) == <<TYPE_MARKER>> \o Types(t.params) \o Types(t.results)
TableEntry(min) == <<TypeByte("FuncRef"), 0>> \o u(min)
MemoryEntry(min) == <<1>> \o u(min) \o u(min)
GlobalEntry(g) ==
  <<TypeByte(g.ty), 0>> \o Num(g.ty \o "Const", g.v).bytes \o <<OpByte("End")>>
ElementEntry(e) ==
  (IF e.table = 0 THEN <<0>> ELSE <<2>> \o u(e.table)) \o OffsetExpr(e.offset)
  \o (IF e.table = 0 THEN <<>> ELSE <<0>>) \o Vec(Each(e.items, u))
CodeEntry(c) ==
  LET bytes == Vec(Each(c.locals, LAMBDA l : u(l.n) \o <<TypeByte(l.ty)>>))
               \o Join(c.body).bytes \o <<OpByte("End")>>
  IN u(Len(bytes)) \o bytes
DataEntry(s) == <<0>> \o OffsetExpr(s.offset) \o Vec(Each(s.bytes, LAMBDA b : <<b>>))

Encode(d) ==
  Magic \o Version
  \o Section(1, Each(d.types, TypeEntry)) \o Section(3, Each(d.functions, u))
  \o Section(4, Each(d.tables, TableEntry))
  \o Section(5, Each(d.memories, MemoryEntry))
  \o Section(6, Each(d.globals, GlobalEntry))
  \o (IF d.start = <<>> THEN <<>> ELSE <<8>> \o u(Len(u(d.start[1]))) \o u(d.start[1]))
  \o Section(9, Each(d.elements, ElementEntry))
  \o (IF d.data = <<>> THEN <<>> ELSE <<12, 1>> \o u(Len(d.data)))
  \o Section(10, Each(d.code, CodeEntry)) \o Section(11, Each(d.data, DataEntry))

-----------------------------------------------------------------------------
(* The instance of a description.                                          *)

\* The entry of the last segment that covers position p, else what was there.
Latest(segments, p, contents(_), initial) ==
  LET Covers(s) == p - s.offset \in 0 .. Len(contents(s)) - 1
      hits == {j \in 1 .. Len(segments) : Covers(segments[j])}
      s == segments[Greatest(hits)]
  IN IF hits = {} THEN initial ELSE At(contents(s), p - s.offset)

TableOf(d, t) ==
  LET mine == SelectSeq(d.elements, LAMBDA e : e.table = t - 1)
      Refs(e) == Each(e.items, LAMBDA f : Val("FuncRef", f))
  IN [e \in 1 .. d.tables[t] |-> Latest(mine, e - 1, Refs, NoElem)]
MemoryOf(d, k) ==
  [a \in 1 .. d.memories[k] * PAGE |->
     Latest(d.data, a - 1, LAMBDA s : s.bytes, 0)]
ProgramOf(d, f) ==
  LET c == d.code[f]
      ty == At(d.types, d.functions[f])
      Run(l) == [j \in 1 .. l.n |-> l.ty]
  IN [ops |-> Append(Join(c.body).ops, EndScope("Program")),
      local_types |-> ty.params \o FlattenSeq(Each(c.locals, Run)),
      return_types |-> ty.results]

Is(d) ==
  /\ programs = [f \in 1 .. Len(d.code) |-> ProgramOf(d, f)]
  /\ memories = [k \in 1 .. Len(d.memories) |-> MemoryOf(d, k)]
  /\ tables = [t \in 1 .. Len(d.tables) |-> TableOf(d, t)]
  /\ globals = d.globals

-----------------------------------------------------------------------------
(* Where the sections are, found by their lengths alone.                   *)

Boundaries ==
  LET after[n \in 0 .. Len(file)] ==
        IF n = 0 THEN Len(Magic) + Len(Version)
        ELSE LET start == after[n - 1]
                 length == load_imm_varuint32(file, start + 1)
             IN IF start >= Len(file) \/ length.err # "None" THEN start
                ELSE length.pos + length.v
  IN {after[n] : n \in 0 .. Len(file)}

\* A section says how long it is, and readers that skip it go by that.  The
\* loader reads every section through and still starts each one where such a
\* reader would.
SectionsWhereTheyAre == phase = "sections" => pos \in Boundaries
=============================================================================
