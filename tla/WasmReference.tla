--------------------------- MODULE WasmReference ---------------------------
(***************************************************************************)
(* What a module that passes WebAssembly validation should compute: a      *)
(* big-step evaluation of structured control, in the manner of the         *)
(* WebAssembly specification, over the decoded operations.  It keeps typed *)
(* values, not words, and knows nothing of control stacks, pcs or scans.   *)
(* A loop iteration or a call costs one unit of fuel, so that it ends.     *)
(***************************************************************************)
EXTENDS Machine

\* The end that closes the scope opened at i, and the else between, if any.
MatchingEnd(ops, i) ==
  Least({j \in i + 1 .. Len(ops) - 1 :
           /\ IsEnd(At(ops, j), ScopeTypes)
           /\ Starts(ops, i + 1, j, ScopeTypes)
                = Ends(ops, i + 1, j, ScopeTypes)})
MatchingElse(ops, i) ==
  {j \in i + 1 .. MatchingEnd(ops, i) - 1 :
     /\ At(ops, j).op = "Else"
     /\ Starts(ops, i + 1, j, ScopeTypes) = Ends(ops, i + 1, j, ScopeTypes)}

\* A configuration: operands, locals, globals, tables, memory, and how the last
\* instruction ended: "normal", "br" (out of d more labels), "ret" or a trap.
TopVals(s, n) == SubSeq(s.st, Len(s.st) - n + 1, Len(s.st))
PopN(s, n) == [s EXCEPT !.st = SubSeq(@, 1, Len(@) - n)]
PushVal(s, v) == [s EXCEPT !.st = Append(@, v)]
IsZero(v) == v.v = 0
Jump(s, d) == [s EXCEPT !.sig = "br", !.d = d]
Traps(s, why) == [s EXCEPT !.sig = why]
BoolVal(b) == Val("I32", IF b THEN 1 ELSE 0)
Unsigned(v) == v.v % M32

\* The type of what a numeric operation leaves.
NumericType(o) ==
  IF o \in {"I64Add", "I64ExtendI32S", "I64ExtendI32U"} THEN "I64" ELSE "I32"

\* Leaving a label: its n results replace everything above height h.
Unwind(s, h, n) ==
  [s EXCEPT !.st = SubSeq(@, 1, h) \o TopVals(s, n), !.sig = "normal"]
EndLabel(s, h, n) ==
  IF s.sig # "br" THEN s
  ELSE IF s.d = 0 THEN Unwind(s, h, n)
  ELSE [s EXCEPT !.d = @ - 1]

SigOf(m, o) ==
  IF o.ty = "Index" THEN At(m.types, o.n)
  ELSE [params |-> <<>>, results |-> IF o.ty = "Unit" THEN <<>> ELSE <<o.ty>>]

\* Loads and stores: how many bytes, at which type.  The address is a natural
\* number, and an access beyond the end of the memory traps.
RefBytes(name) ==
  CASE name \in {"Load8Se", "Load8Ze", "Load8I64Se", "Load8I64Ze", "Store8_32",
                 "Store8_64"} -> 1
    [] name \in {"Load16Se", "Load16Ze", "Load16I64Se", "Load16I64Ze",
                 "Store16_32", "Store16_64"} -> 2
    [] name \in {"LoadI64", "LoadF64", "StoreI64", "StoreF64"} -> 8
    [] OTHER -> 4
RefLoadType(name) ==
  CASE name \in {"LoadI32", "Load8Se", "Load8Ze", "Load16Se", "Load16Ze"} -> "I32"
    [] name = "LoadF32" -> "F32"
    [] name = "LoadF64" -> "F64"
    [] OTHER -> "I64"
SignedLoads == {"Load8Se", "Load16Se", "Load8I64Se", "Load16I64Se", "Load32I64Se"}

RefLoad(o, base, s) ==
  LET ea == Unsigned(base) + o.n
      n == RefBytes(o.op)
      ty == RefLoadType(o.op)
      size == IF ty = "I32" THEN M32 ELSE M64
      x == CHOOSE w \in 0 .. BYTE ^ n - 1 :
             \A i \in 1 .. n : s.mem[ea + i] = (w \div BYTE ^ (i - 1)) % BYTE
      extended == IF o.op \in SignedLoads THEN Signed(x, BYTE ^ n) % size ELSE x
  IN IF ea + n > Len(s.mem) THEN Traps(s, "MemoryOutOfBounds")
     ELSE PushVal(PopN(s, 1),
            Val(ty, IF ty \in {"F32", "F64"} THEN x ELSE Signed(extended, size)))

RefStore(o, base, val, s) ==
  LET ea == Unsigned(base) + o.n
      n == RefBytes(o.op)
      byte(i) == (val.v \div BYTE ^ (i - 1)) % BYTE
  IN IF ea + n > Len(s.mem) THEN Traps(s, "MemoryOutOfBounds")
     ELSE [PopN(s, 2) EXCEPT !.mem =
             [i \in DOMAIN @ |-> IF i \in ea + 1 .. ea + n THEN byte(i - ea)
                                ELSE @[i]]]

\* memory.grow may fail; here it does above the limit of this implementation.
RefGrow(delta, s) ==
  LET size == Len(s.mem) + Unsigned(delta) * PAGE
      fits == growable /\ size <= LIMIT /\ (max # NoMax => size <= max)
      pages == Val("I32", IF fits THEN Len(s.mem) \div PAGE ELSE -1)
  IN [PushVal(PopN(s, 1), pages) EXCEPT
        !.mem = IF fits THEN @ \o [i \in 1 .. size - Len(@) |-> 0] ELSE @]

RefPlain(m, o, s) ==
  LET a == s.st[Len(s.st)]
      b == s.st[Len(s.st) - 1]
      c == s.st[Len(s.st) - 2]
      elements == At(s.tab, o.n).elements
      arity == Arity(o.op)
      num == Numeric(o.op, [i \in 1 .. arity |-> push_to(TopVals(s, arity)[i])])
  IN CASE o.op = "Nop" -> s
       [] o.op = "Unreachable" -> Traps(s, "Unreachable")
       [] o.op = "Br" -> Jump(s, o.n)
       [] o.op = "BrIf" ->
            IF IsZero(a) THEN PopN(s, 1) ELSE Jump(PopN(s, 1), o.n)
       [] o.op = "BrTable" ->
            Jump(PopN(s, 1), IF Unsigned(a) < Len(o.tbl)
                             THEN At(o.tbl, Unsigned(a)) ELSE o.n)
       [] o.op = "Return" -> [s EXCEPT !.sig = "ret"]
       [] o.op = "Drop" -> PopN(s, 1)
       [] o.op \in {"Select", "SelectT"} ->
            PushVal(PopN(s, 3), IF IsZero(a) THEN b ELSE c)
       [] o.op = "GetLocal" -> PushVal(s, At(s.loc, o.n))
       [] o.op = "SetLocal" -> [PopN(s, 1) EXCEPT !.loc[o.n + 1] = a]
       [] o.op = "TeeLocal" -> [s EXCEPT !.loc[o.n + 1] = a]
       [] o.op = "GetGlobal" -> PushVal(s, At(s.glob, o.n))
       [] o.op = "SetGlobal" -> [PopN(s, 1) EXCEPT !.glob[o.n + 1] = a]
       [] o.op = "TableGet" ->
            IF Unsigned(a) >= Len(elements) THEN Traps(s, "MemoryOutOfBounds")
            ELSE PushVal(PopN(s, 1),
                   IF At(elements, Unsigned(a)) = NoElem
                   THEN Val(At(s.tab, o.n).ref_type, NoRef)
                   ELSE At(elements, Unsigned(a)))
       [] o.op = "TableSet" ->
            IF Unsigned(b) >= Len(elements) THEN Traps(s, "MemoryOutOfBounds")
            ELSE [PopN(s, 2) EXCEPT
                    !.tab[o.n + 1].elements[Unsigned(b) + 1] = a]
       [] o.op = "I32Const" -> PushVal(s, Val("I32", o.k))
       [] o.op = "I64Const" -> PushVal(s, Val("I64", o.k))
       [] o.op = "F32Const" -> PushVal(s, Val("F32", o.k))
       [] o.op = "F64Const" -> PushVal(s, Val("F64", o.k))
       [] o.op = "RefNull" -> PushVal(s, Val(o.ty, NoRef))
       [] o.op = "RefFunc" -> PushVal(s, Val("FuncRef", o.n))
       [] o.op = "RefIsNull" -> PushVal(PopN(s, 1), BoolVal(a.v = NoRef))
       [] o.op = "RefAsNonNull" ->
            IF a.v = NoRef THEN Traps(s, "NullReference") ELSE s
       [] o.op = "RefEq" -> PushVal(PopN(s, 2), BoolVal(a.v = b.v))
       [] o.op \in DOMAIN LoadOps -> RefLoad(o, a, s)
       [] o.op \in DOMAIN StoreOps -> RefStore(o, b, a, s)
       [] o.op = "MemorySize" -> PushVal(s, Val("I32", Len(s.mem) \div PAGE))
       [] o.op = "MemoryGrow" -> RefGrow(a, s)
       [] OTHER ->
            IF num.fault # "None" THEN Traps(s, num.fault)
            ELSE PushVal(PopN(s, arity), pop_from(NumericType(o.op), num.w))

RECURSIVE RefRange(_, _, _, _, _), RefInvoke(_, _, _, _), RefLoop(_, _, _, _, _)

\* Function f of the module on args, from globals, tables and memory of s.
RefInvoke(m, f, args, s) ==
  LET t == FuncTypeOf(m, f)
      decl == At(m.code, f).locals
      ops == At(m.code, f).ops
      n == Len(t.results)
      r == RefRange(m, ops, 0, Len(ops) - 1,
             [s EXCEPT !.st = <<>>, !.fuel = @ - 1,
                !.loc = args \o [i \in 1 .. Len(decl) |-> Zero(decl[i])]])
  IN IF s.fuel = 0 THEN Traps(s, "fuel")
     ELSE IF r.sig \in {"normal", "br", "ret"}
     THEN [r EXCEPT !.st = s.st \o TopVals(r, n), !.loc = s.loc,
                    !.sig = "normal"]
     ELSE r

\* Call of a defined function: function indices count the imports first.
RefCall(m, index, s) ==
  LET f == CodeIndex(m, index)
      n == Len(FuncTypeOf(m, f).params)
  IN RefInvoke(m, f, TopVals(s, n), PopN(s, n))

RefCallIndirect(m, o, s) ==
  LET index == Unsigned(s.st[Len(s.st)])
      elements == At(s.tab, o.m).elements
      elem == At(elements, index)
  IN IF index >= Len(elements) THEN Traps(s, "UndefinedElement")
     ELSE IF elem = NoElem \/ elem.v = NoRef
     THEN Traps(s, "UninitializedElement")
     ELSE IF FuncTypeOf(m, CodeIndex(m, elem.v)) # At(m.types, o.n)
     THEN Traps(s, "IndirectCallTypeMismatch")
     ELSE RefCall(m, elem.v, PopN(s, 1))

\* A loop's label takes the loop's parameters, and starts it again.
RefLoop(m, ops, i, h, s) ==
  LET r == RefRange(m, ops, i + 1, MatchingEnd(ops, i), s)
      n == Len(SigOf(m, At(ops, i)).params)
  IN IF r.sig # "br" THEN r
     ELSE IF r.d > 0 THEN [r EXCEPT !.d = @ - 1]
     ELSE IF r.fuel = 0 THEN Traps(r, "fuel")
     ELSE RefLoop(m, ops, i, h, [Unwind(r, h, n) EXCEPT !.fuel = @ - 1])

\* The scope that starts at i.
RefScope(m, ops, i, s) ==
  LET o == At(ops, i)
      e == MatchingEnd(ops, i)
      alt == MatchingElse(ops, i)
      sig == SigOf(m, o)
      cond == s.st[Len(s.st)]
      t == PopN(s, 1)
      h == Len(s.st) - Len(sig.params)
      n == Len(sig.results)
  IN CASE o.scope = "Block" -> EndLabel(RefRange(m, ops, i + 1, e, s), h, n)
       [] o.scope = "Loop" -> RefLoop(m, ops, i, h, s)
       [] o.scope = "IfElse" ->
            EndLabel(
              IF ~ IsZero(cond)
              THEN RefRange(m, ops, i + 2,
                            IF alt = {} THEN e ELSE Least(alt), t)
              ELSE IF alt = {} THEN t
              ELSE RefRange(m, ops, Least(alt) + 1, e, t), h - 1, n)

\* The operations from lo up to hi.
RefRange(m, ops, lo, hi, s) ==
  LET o == At(ops, lo)
  IN IF lo >= hi \/ s.sig # "normal" THEN s
     ELSE IF o.op = "StartScope"
     THEN RefRange(m, ops, MatchingEnd(ops, lo) + 1, hi,
                   RefScope(m, ops, lo, s))
     ELSE RefRange(m, ops, lo + 1, hi,
            CASE o.op = "Call" -> RefCall(m, o.n, s)
              [] o.op = "CallIndirect" -> RefCallIndirect(m, o, s)
              [] OTHER -> RefPlain(m, o, s))

Reference(m, inv, bytes, fuel) ==
  RefInvoke(m, inv.fn, inv.args,
    [st |-> <<>>, loc |-> <<>>, glob |-> inv.globals, tab |-> inv.tables,
     mem |-> bytes,
     sig |-> "normal", d |-> 0, fuel |-> fuel])

-----------------------------------------------------------------------------
CONSTANT Fuel   \* loop iterations and calls the reference evaluates

\* run() has come back with a result or a trap of the interpreted code.
Answered == status = "idle" /\ outcome \notin {"None", "OutOfTicks"} \cup LinkErrors

AgreesWithReference ==
  LET ref == Reference(mod, invoked, found, Fuel)
  IN /\ outcome = IF ref.sig = "normal" THEN "Ok" ELSE ref.sig
     /\ ref.sig = "normal" => result.vals = ref.st
     /\ globals = ref.glob /\ tables = ref.tab /\ data = ref.mem

\* Run on an Execution with no frames left over, a function of a valid module
\* ends as the WebAssembly specification says: with the same results, or the
\* same trap; and in either case with the same globals, tables and memory, so
\* that a trap keeps what was written before it, in every frame it ends, and
\* nothing of the operation that failed.
MatchesReference == Answered /\ invoked.base = 0 => AgreesWithReference

\* The same on an Execution that was used before: whatever earlier runs ended
\* in, run() answers for the function that was prepared last.
ResultIsOfInvoked == Answered => AgreesWithReference
=============================================================================
