-------------------------------- MODULE Link --------------------------------
(***************************************************************************)
(* mk_instance (instance.rs): from a loaded module to an instance, its     *)
(* programs decoded, its memory and tables filled from the segments, its   *)
(* globals computed and its start function run.  Together with Loader this *)
(* is everything that happens to a file before a host can call a function. *)
(***************************************************************************)
EXTENDS Loader

CONSTANTS
  PAGE,              \* WASM_PAGE_SIZE
  EXPR_TICK_LIMIT,   \* the tick budget of a constant expression
  FragmentValues     \* what an expression of other operations may leave

\* The words of the stack and the numbers of the reader have the same widths.
ASSUME WidthAssumption == M32 = 2 ^ W32 /\ M64 = 2 ^ W64

VARIABLES
  dec,        \* the decoding of the current body, "Idle" between bodies
  programs,   \* the programs so far
  memories,   \* each a sequence of bytes
  tables,     \* each a sequence of elements
  globals,    \* each a value
  next        \* entries of the current section already handled

storeVars == <<memories, tables, globals>>
linkVars == <<dec, programs, next, storeVars>>
vars == <<loadVars, linkVars>>

-----------------------------------------------------------------------------
(* Regions of the file and what they hold.                                 *)

\* &module_data[start..end], which aborts on a region that is not one.
IsRegion(r) == r[1] <= r[2] /\ r[2] <= Len(file)
Slice(r) == SubSeq(file, r[1] + 1, r[2])

\* get_expr, which asserts that the byte behind the region is an end.
IsExpr(r) ==
  /\ r[2] < Len(file) /\ from_repr(At(file, r[2])) = "End"
  /\ r[1] <= r[2]

\* "as usize" of an i32.
AsUsize(x) == x % 2 ^ W64

\* The operations of an expression that leave one word or nothing.
Straight == ConstOps \cup {"Nop", "RefFunc", "RefNull"}
Pushed(o) ==
  CASE o.op \in ConstOps -> <<o.k % 2 ^ W64>>
    [] o.op = "RefFunc" -> <<o.n % 2 ^ W32>>
    [] o.op = "RefNull" -> <<NullWord>>
    [] OTHER -> <<>>
LastPushed(ops) ==
  LET upto[i \in 0 .. Len(ops)] ==
        IF i = 0 THEN <<>> ELSE upto[i - 1] \o Pushed(ops[i])
  IN upto[Len(ops)]

ValueOf(ty, w) == IF ty = "Unit" THEN Val("Unit", 0) ELSE pop_from(ty, w)
Yields(val) == [reply |-> "Ok", val |-> val]
Fails(err) == [reply |-> err, val |-> Val("Unit", 0)]

\* exec_fragment on the expression in region r: the set of its outcomes.  It
\* unwraps the result of decode(), and runs the operations on an empty frame
\* without globals.  Operations that are not Straight may do anything.
exec_fragment(r, ty) ==
  LET fault == Fails("ActiveExpressionError")
      outcomes(d, stack) ==
        LET names == {d.ops[i].op : i \in 1 .. Len(d.ops)}
            bad == \E i \in 1 .. Len(d.ops) :
                     d.ops[i].op = "RefNull" /\ d.ops[i].ty \notin RefTypes
        IN IF d.reply # "Ok" THEN {Fails("Panic")}
           ELSE IF Len(d.ops) >= EXPR_TICK_LIMIT THEN {fault}
           ELSE IF ~ names \subseteq Straight \cup {"GetGlobal"}
           THEN {fault, Fails("Panic")}
                \cup {Yields(ValueOf(ty, w)) : w \in FragmentValues}
           ELSE IF bad \/ "GetGlobal" \in names \/ stack = <<>> THEN {fault}
           ELSE {Yields(ValueOf(ty, Top(stack)))}
      run(d) == outcomes(d, LastPushed(d.ops))
  IN IF IsExpr(r) THEN run(decode(Slice(r))) ELSE {Fails("Panic")}

-----------------------------------------------------------------------------
(* Programs.                                                               *)

Body == At(m["Code"], next).body
TypeIndex == At(m["Function"], next)[1]

BeginProgram ==
  /\ phase = "programs" /\ dec.reply = "Idle" /\ next < Len(m["Code"])
  /\ \/ ~ IsRegion(Body) /\ Return("Panic") /\ UNCHANGED dec
     \/ IsRegion(Body) /\ dec' = Decoding /\ Proceed("programs")
  /\ UNCHANGED <<file, checks, pos, sec, m, programs, next, storeVars>>

DecodeStep ==
  /\ phase = "programs" /\ dec.reply = "Running"
  /\ dec' = decode_op(Slice(Body), dec)
  /\ UNCHANGED <<loadVars, programs, next, storeVars>>

\* The runs of locals, written out.
Locals(runs) ==
  LET upto[i \in 0 .. Len(runs)] ==
        IF i = 0 THEN <<>>
        ELSE upto[i - 1] \o [j \in 1 .. runs[i][1] |-> runs[i][2]]
  IN upto[Len(runs)]

\* The program in dec, with the types of its locals and results.
Program ==
  LET ty == At(m["Type"], TypeIndex)
  IN [ops |-> dec.ops,
      local_types |-> ty[2] \o Locals(At(m["Code"], next).locals),
      return_types |-> ty[3]]

\* Mutant: a program that was decoded is not counted.
EndProgram_again ==
  LET typed == next < Len(m["Function"]) /\ TypeIndex < Len(m["Type"])
  IN /\ phase = "programs" /\ dec.reply \notin {"Idle", "Running"}
     /\ \/ /\ dec.reply = "Ok" /\ typed
           /\ programs' = Append(programs, Program)
           /\ UNCHANGED next
           /\ Proceed("programs")
        \/ /\ dec.reply = "Panic" \/ (dec.reply = "Ok" /\ ~ typed)
           /\ Return("Panic") /\ UNCHANGED <<programs, next>>
        \/ /\ dec.reply \notin {"Ok", "Panic"}
           /\ Return("DecodeError") /\ UNCHANGED <<programs, next>>
     /\ dec' = [dec EXCEPT !.reply = "Idle"]
     /\ UNCHANGED <<file, checks, pos, sec, m, storeVars>>

EndProgram ==
  LET typed == next < Len(m["Function"]) /\ TypeIndex < Len(m["Type"])
  IN /\ phase = "programs" /\ dec.reply \notin {"Idle", "Running"}
     /\ \/ /\ dec.reply = "Ok" /\ typed
           /\ programs' = Append(programs, Program)
           /\ next' = next + 1
           /\ Proceed("programs")
        \/ /\ dec.reply = "Panic" \/ (dec.reply = "Ok" /\ ~ typed)
           /\ Return("Panic") /\ UNCHANGED <<programs, next>>
        \/ /\ dec.reply \notin {"Ok", "Panic"}
           /\ Return("DecodeError") /\ UNCHANGED <<programs, next>>
     /\ dec' = [dec EXCEPT !.reply = "Idle"]
     /\ UNCHANGED <<file, checks, pos, sec, m, storeVars>>

-----------------------------------------------------------------------------
(* Memories, tables, segments and globals.                                 *)

MakeStores ==
  /\ phase = "programs" /\ dec.reply = "Idle" /\ next = Len(m["Code"])
  /\ memories' = [i \in 1 .. Len(m["Memory"]) |->
                    [a \in 1 .. m["Memory"][i][1].min * PAGE |-> 0]]
  /\ tables' = [i \in 1 .. Len(m["Table"]) |->
                  [e \in 1 .. m["Table"][i][2].min |-> NoElem]]
  /\ Proceed("elements") /\ next' = 0
  /\ UNCHANGED <<file, checks, pos, sec, m, dec, programs, globals>>

\* An element segment with a table and function indices; the others, segments
\* of expressions among them, are passed over.
Segment == At(m["Element"], next)
ElementTable == IF Segment.tag = 2 THEN Segment.parts[1] ELSE 0
ElementExpr == Segment.parts[IF Segment.tag = 2 THEN 2 ELSE 1]
ElementItems == Segment.parts[Len(Segment.parts)]
Applies == Segment.tag \in {0, 2} /\ ElementTable < Len(tables)

\* Mutant: a segment writes its last item first.
Filled_reversed(elements, offset, items) ==
  [e \in 1 .. Len(elements) |->
     LET hits == {i \in 1 .. Len(items) : AsUsize(offset + i - 1) = e - 1}
     IN IF hits = {} THEN elements[e]
        ELSE Val("FuncRef", items[Len(items) + 1 - Greatest(hits)])]

\* The items go to offset, offset + 1, ...: those that do not fit are dropped.
Filled(elements, offset, items) ==
  [e \in 1 .. Len(elements) |->
     LET hits == {i \in 1 .. Len(items) : AsUsize(offset + i - 1) = e - 1}
     IN IF hits = {} THEN elements[e]
        ELSE Val("FuncRef", items[Greatest(hits)])]

\* Adding the index to an offset below zero, cast, overflows.
ApplyElement ==
  /\ phase = "elements" /\ next < Len(m["Element"])
  /\ \/ /\ Applies
        /\ \E r \in exec_fragment(ElementExpr, "I32") :
             LET offset == AsUsize(r.val.v)
                 overflows == offset + Len(ElementItems) > 2 ^ W64
             IN \/ /\ r.reply # "Ok" /\ Return(r.reply)
                   /\ UNCHANGED <<tables, next>>
                \/ /\ r.reply = "Ok" /\ checks /\ overflows
                   /\ Return("Panic") /\ UNCHANGED <<tables, next>>
                \/ /\ r.reply = "Ok" /\ ~ (checks /\ overflows)
                   /\ tables' = [tables EXCEPT ![ElementTable + 1] =
                                   Filled(@, offset, ElementItems)]
                   /\ Proceed("elements") /\ next' = next + 1
     \/ ~ Applies /\ Proceed("elements") /\ next' = next + 1 /\ UNCHANGED tables
  /\ UNCHANGED <<file, checks, pos, sec, m, dec, programs, memories, globals>>

CheckMemories ==
  /\ phase = "elements" /\ next = Len(m["Element"])
  /\ \/ Len(memories) > 1 /\ Return("UnsupportedFeature")
     \/ Len(memories) = 1 /\ Proceed("data")
     \/ Len(memories) = 0 /\ Proceed("globals")
  /\ next' = 0
  /\ UNCHANGED <<file, checks, pos, sec, m, dec, programs, storeVars>>

\* The bytes of region r written at offset.
Written(memory, offset, r) ==
  [a \in 1 .. Len(memory) |->
     IF a - 1 \in offset .. offset + r[2] - r[1] - 1
     THEN At(file, r[1] + a - 1 - offset) ELSE memory[a]]

DataSegment == At(m["Data"], next)
DataExpr == DataSegment.parts[IF DataSegment.tag = 2 THEN 2 ELSE 1]
DataRegion == DataSegment.parts[Len(DataSegment.parts)]
DataMemory == IF DataSegment.tag = 2 THEN DataSegment.parts[1] ELSE 0

\* A passive segment is written too, to the position it has in the file.
DataOffsets ==
  IF DataSegment.tag = 1 THEN {Yields(Val("I32", DataRegion[1]))}
                         ELSE exec_fragment(DataExpr, "I32")

ApplyData ==
  /\ phase = "data" /\ next < Len(m["Data"])
  /\ \E r \in DataOffsets :
       LET offset == AsUsize(r.val.v)
           fits == /\ IsRegion(DataRegion) /\ DataMemory < Len(memories)
                   /\ offset + DataRegion[2] - DataRegion[1]
                        <= Len(At(memories, DataMemory))
       IN \/ /\ r.reply # "Ok" /\ Return(r.reply)
             /\ UNCHANGED <<memories, next>>
          \/ /\ r.reply = "Ok" /\ ~ fits
             /\ Return("Panic") /\ UNCHANGED <<memories, next>>
          \/ /\ r.reply = "Ok" /\ fits
             /\ memories' = [memories EXCEPT ![DataMemory + 1] =
                               Written(@, offset, DataRegion)]
             /\ Proceed("data") /\ next' = next + 1
  /\ UNCHANGED <<file, checks, pos, sec, m, dec, programs, tables, globals>>

EndData ==
  /\ phase = "data" /\ next = Len(m["Data"])
  /\ Proceed("globals") /\ next' = 0
  /\ UNCHANGED <<file, checks, pos, sec, m, dec, programs, storeVars>>

InitGlobal ==
  /\ phase = "globals" /\ next < Len(m["Global"])
  /\ LET g == At(m["Global"], next)
     IN \E r \in exec_fragment(g[3], g[1]) :
          \/ /\ r.reply # "Ok" /\ Return(r.reply)
             /\ UNCHANGED <<globals, next>>
          \/ /\ r.reply = "Ok"
             /\ globals' = Append(globals, r.val)
             /\ Proceed("globals") /\ next' = next + 1
  /\ UNCHANGED <<file, checks, pos, sec, m, dec, programs, memories, tables>>

-----------------------------------------------------------------------------
(* The start function, and the whole.                                      *)

\* The module as Execution sees it, without the operations.
Linked ==
  [types |-> [i \in 1 .. Len(m["Type"]) |->
                [params |-> m["Type"][i][2], results |-> m["Type"][i][3]]],
   functions |-> [i \in 1 .. Len(m["Function"]) |-> m["Function"][i][1]],
   code |-> programs,
   imports |-> LET funcs == SelectSeq(m["Import"], LAMBDA e : e.tag = "Function")
               IN [i \in 1 .. Len(funcs) |-> funcs[i].parts[1]]]

\* The instance is returned.
Accept == phase' = "linked" /\ reply' = "Ok"

EndGlobals ==
  /\ phase = "globals" /\ next = Len(m["Global"])
  /\ IF m["Start"] = <<>> THEN Accept ELSE Proceed("start")
  /\ UNCHANGED <<file, checks, pos, sec, m, linkVars>>

\* What the start function may leave: the stores as they were, or cleared.
Cleared(stores) ==
  [stores EXCEPT !.memories = [i \in DOMAIN @ |-> [a \in DOMAIN @[i] |-> 0]],
                 !.tables = [i \in DOMAIN @ |-> [e \in DOMAIN @[i] |-> NoElem]]]

StartFaults == {"ActiveExpressionError", "UnsupportedFeature",
                "ArgumentTypeMismatch", "Panic"}

\* prepare without arguments, and run: what the code does is module Execution.
RunStart ==
  LET made == frame_for_funcidx(Linked, m["Start"][1][1], <<>>)
      stores == [memories |-> memories, tables |-> tables]
  IN /\ phase = "start"
     /\ \/ /\ made # "Ok" /\ Return(made)
           /\ UNCHANGED storeVars
        \/ /\ made = "Ok"
           /\ Accept \/ \E r \in StartFaults : Return(r)
           /\ \E left \in {stores, Cleared(stores)} :
                memories' = left.memories /\ tables' = left.tables
           /\ UNCHANGED globals
     /\ UNCHANGED <<file, checks, pos, sec, m, dec, programs, next>>

\* load or mk_instance has returned.
Answered == phase \in {"failed", "linked"} /\ UNCHANGED vars

Init ==
  /\ LoadInit
  /\ dec = [Decoding EXCEPT !.reply = "Idle"]
  /\ programs = <<>> /\ memories = <<>> /\ tables = <<>> /\ globals = <<>>
  /\ next = 0

Next ==
  \/ Header /\ UNCHANGED linkVars
  \/ OpenSection /\ UNCHANGED linkVars
  \/ LoadEntry /\ UNCHANGED linkVars
  \/ CloseSection /\ UNCHANGED linkVars
  \/ EndOfFile /\ UNCHANGED linkVars
  \/ BeginProgram \/ DecodeStep \/ EndProgram \/ MakeStores \/ ApplyElement
  \/ CheckMemories \/ ApplyData \/ EndData \/ InitGlobal \/ EndGlobals
  \/ RunStart \/ Answered

Spec == Init /\ [][Next]_vars

-----------------------------------------------------------------------------
(* Properties.                                                             *)

Phases == {"header", "sections", "entries", "programs", "elements", "data",
           "globals", "start", "failed", "linked"}
DecodeErrors == {"MalformedMemory", "FailedToDecode", "InvalidOpcode",
                 "UnimplementedOpcode", "InvalidSignature"}
LoadErrors == DecodeErrors \cup
  {"InvalidMagicNumber", "InvalidVersion", "InvalidSectionType",
   "InvalidReferenceType", "InvalidImportType", "InvalidDataSegmentType"}
LinkReplies == LinkErrors \cup {"DecodeError", "ActiveExpressionError"}

\* Type correctness: the decoder stays within the body it translates, whatever
\* its bytes say; something is returned exactly at the end; and the stores hold
\* bytes, function references and values.
TypeOK ==
  /\ phase \in Phases
  /\ pos \in Nat /\ next \in Nat /\ sec.left \in Nat
  /\ dec.reply \in DecodeErrors \cup {"Idle", "Running", "Ok", "Panic"}
  /\ dec.pos \in Nat
  /\ phase = "programs" /\ dec.reply # "Idle" => dec.pos <= Len(Slice(Body))
  /\ dec.scopes \in Seq(ScopeTypes)
  /\ phase \in {"failed", "linked"} <=> reply # "None"
  /\ phase = "linked" <=> reply = "Ok"
  /\ reply \in LoadErrors \cup LinkReplies \cup {"None", "Ok", "Panic"}
  /\ \A i \in 1 .. Len(memories) :
       \A a \in 1 .. Len(memories[i]) : memories[i][a] \in 0 .. 2 * Payloads - 1
  /\ \A i \in 1 .. Len(tables) :
       \A e \in 1 .. Len(tables[i]) :
         tables[i][e] \in {NoElem} \cup Value

\* The regions a module keeps of its file.
ExprsOf(name, e) ==
  CASE name = "Global" -> {e[3]}
    [] name = "Element" ->
         (IF e.tag \in {0, 4} THEN {e.parts[1]} ELSE {})
         \cup (IF e.tag \in {2, 6} THEN {e.parts[2]} ELSE {})
         \cup (IF e.tag >= 4
               THEN LET items == e.parts[Len(e.parts)]
                    IN {items[i] : i \in 1 .. Len(items)} ELSE {})
    [] name = "Data" -> IF e.tag = 1 THEN {} ELSE {e.parts[Len(e.parts) - 1]}
    [] OTHER -> {}
Exprs ==
  UNION {UNION {ExprsOf(name, m[name][i]) : i \in 1 .. Len(m[name])} :
           name \in {"Global", "Element", "Data"}}
Bodies == {m["Code"][i].body : i \in 1 .. Len(m["Code"])}
DataRegions == {m["Data"][i].parts[Len(m["Data"][i].parts)] :
                  i \in 1 .. Len(m["Data"])}

\* No byte of a file is two things: whatever sizes and counts the file gives,
\* the expressions, function bodies and data it was split into do not overlap,
\* not even where a size wraps and the reader goes back.
RegionsDisjoint ==
  LET regions == {r \in Exprs \cup Bodies \cup DataRegions : r[1] < r[2]}
  IN \A r, s \in regions : r = s \/ r[2] <= s[1] \/ s[2] <= r[1]

\* scan() found the end of an expression when the file was loaded, decode()
\* reads it when the module is linked, and its errors abort.  Where scan() met
\* an end, and not just the end of the file, both take the same bytes for
\* opcodes, up to where decode() refuses one; and it refuses only the opcodes
\* scan() lets pass with less than decode() asks of them.  Four opcodes whose
\* immediates scan() does not read are excepted.
ScanAgrees ==
  LET SameOpcodes(r, seen, read) ==
        LET n == Len(seen.at) - 1
            names == {from_repr(At(file, seen.at[i])) : i \in 1 .. n}
        IN n >= 0 /\ At(seen.at, n) = r[2] /\ names \cap Misread = {} =>
             /\ IsExpr(r) /\ Len(read.at) <= n
             /\ \A i \in 1 .. Len(read.at) : read.at[i] + r[1] = seen.at[i]
             /\ \/ read.reply = "Ok" /\ Len(read.at) = n
                \/ names \cap (ScanPasses \cup Accesses \cup {"RefNull"}) # {}
  IN \A r \in Exprs : SameOpcodes(r, scan(file, r[1]), decode(Slice(r)))

\* Whatever bytes a function body holds, the operations decode() emits nest:
\* every end closes the innermost scope by its kind, an else lies directly in
\* an if, If stands behind the start of its scope, and only blocks, loops and
\* ifs are opened.  The jumps of execute()
\* count scopes on the strength of this.
DecodedNests ==
  /\ phase = "programs" => decode_accepts(dec.ops)
  /\ \A i \in 1 .. Len(programs) : decode_accepts(programs[i].ops)

\* Once mk_instance is past the programs there is one for each function of the
\* module, with the parameters and results of a type that exists: run() and
\* frame_for_funcidx index functions, types and programs by each other.
InstanceIsModule ==
  phase \in {"elements", "data", "globals", "start", "linked"} =>
    /\ Len(programs) = Len(m["Function"])
    /\ \A i \in 1 .. Len(m["Function"]) :
         LET type_index == m["Function"][i][1]
         IN /\ type_index < Len(m["Type"])
            /\ programs[i].return_types = At(m["Type"], type_index)[3]

\* What is left to do: phases; then bytes or entries; then the steps of one.
Work ==
  LET in_order == <<"failed", "linked", "start", "globals", "data", "elements",
                    "programs", "sections", "header">>
      stage == IF phase = "entries" THEN "sections" ELSE phase
      size == CASE stage = "sections" -> Len(file) - pos
                [] stage = "programs" -> Len(m["Code"]) - next
                [] stage = "elements" -> Len(m["Element"]) - next
                [] stage = "data" -> Len(m["Data"]) - next
                [] stage = "globals" -> Len(m["Global"]) - next
                [] OTHER -> 0
      step == CASE phase = "entries" -> 1
                [] phase = "programs" /\ dec.reply = "Idle" -> 2
                [] phase = "programs" /\ dec.reply = "Running" -> 1
                [] OTHER -> 0
      rest == CASE phase = "entries" -> sec.left
                [] phase = "programs" -> Len(file) - dec.pos
                [] OTHER -> 0
  IN <<CHOOSE i \in 1 .. 9 : in_order[i] = stage, size, step, rest>>

Less(a, b) ==
  \E i \in 1 .. Len(a) : a[i] < b[i] /\ \A j \in 1 .. i - 1 : a[j] = b[j]

\* Every file, however malformed, is answered or comes to its start function:
\* each step leaves less to do than there was, also where a wrapped size makes
\* the reader go back, and no state but an answer is without a step. Whether the
\* start function ends is not said: RunStart is one step, whatever it runs.
Advances == [][Less(Work', Work)]_vars
=============================================================================
