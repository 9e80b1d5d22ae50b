------------------------------- MODULE Loader -------------------------------
(***************************************************************************)
(* Module::load (module/parse.rs): a file is a header and sections, and a  *)
(* section is a number of entries.  Expressions, function bodies and data  *)
(* are kept as regions of the file, pairs of a first position and one      *)
(* behind the last.  There is one step for the header, for the head of a   *)
(* section, for each entry, for the end of a section and for the end of    *)
(* the file.                                                               *)
(*                                                                         *)
(* The entries read so far are in m, by the name of their section.         *)
(***************************************************************************)
EXTENDS Decode

CONSTANTS
  Files,                  \* the files that may be loaded
  Magic, Version,         \* what a file starts with
  TYPE_MARKER,            \* 0x60
  MAX_LOCALS,             \* 0x40000000
  MAX_MEMORY_SIZE_PAGES   \* 0x10000

VARIABLES
  file,     \* module_data
  checks,   \* a debug build: arithmetic that overflows aborts
  phase,    \* where load, and mk_instance behind it, have got to
  pos,      \* the position of the reader
  sec,      \* the section being read
  m,        \* the module so far
  reply     \* what load or mk_instance returned, "None" before

loadVars == <<file, checks, phase, pos, sec, m, reply>>

SectionNames ==
  <<"Custom", "Type", "Import", "Function", "Table", "Memory", "Global",
    "Export", "Start", "Element", "Code", "Data", "DataCount">>
\* These sections are one entry, the others a vector of entries.
Single == {"Custom", "Start", "DataCount"}

NoMax == -1
EmptyModule == [name \in {SectionNames[i] : i \in 1 .. Len(SectionNames)} |-> <<>>]

-----------------------------------------------------------------------------
(* The parts of an entry.                                                  *)

\* The limits of a memory, and of a table too.
read_limits(s, p) ==
  LET maximum(flag, at) == IF flag = 1 THEN load_imm_varuint32(s, at)
                                       ELSE Got(NoMax, at)
      fits(min, max) == /\ min <= MAX_MEMORY_SIZE_PAGES
                        /\ max <= MAX_MEMORY_SIZE_PAGES
                        /\ max = NoMax \/ min <= max
  IN Try(read_byte(s, p), LAMBDA has_maximum :
     Try(load_imm_varuint32(s, has_maximum.pos), LAMBDA initial :
     Try(maximum(has_maximum.v, initial.pos), LAMBDA max :
       IF fits(initial.v, max.v)
       THEN Got([min |-> initial.v, max |-> max.v], max.pos)
       ELSE Failed("MalformedMemory", max.pos))))

\* ReferenceType::from_u8; 0 stands for FuncRef in an element segment.
reference_type(r) ==
  IF r.v \in DOMAIN ValueTypes /\ ValueTypes[r.v] \in RefTypes
  THEN Got(ValueTypes[r.v], r.pos) ELSE Failed("InvalidReferenceType", r.pos)
element_kind(r) == IF r.v = 0 THEN Got("FuncRef", r.pos) ELSE reference_type(r)

ImportExportKinds == <<"Function", "Table", "Memory", "Global">>
import_export_kind(r) ==
  IF r.v < 4 THEN Got(At(ImportExportKinds, r.v), r.pos)
             ELSE Failed("InvalidImportType", r.pos)

\* A run of locals of one type.
local_run(s, p) ==
  Try(AtMost(MAX_LOCALS - 1, load_imm_varuint32(s, p), "FailedToDecode"),
    LAMBDA count :
  Try(Scalar(s, count.pos, "type"), LAMBDA ty :
    Got(<<count.v, ty.v>>, ty.pos)))

type_marker(r) ==
  IF r.v = TYPE_MARKER THEN r ELSE Failed("FailedToDecode", r.pos)

Part(s, p, kind) ==
  CASE kind = "string" -> load_string(s, p)
    [] kind = "expr" -> load_expr(s, p)
    [] kind = "data" -> load_data(s, p)
    [] kind = "limits" -> read_limits(s, p)
    [] kind = "reftype" -> Try(read_byte(s, p), reference_type)
    [] kind = "elemkind" -> Try(read_byte(s, p), element_kind)
    [] kind = "kind" -> Try(read_byte(s, p), import_export_kind)
    [] kind = "marker" -> Try(read_byte(s, p), type_marker)
    [] kind = "local" -> local_run(s, p)
    [] OTHER -> Scalar(s, p, kind)

\* Parts of these kinds one after the other, up to the first error.
parts[s \in Seq(Nat), p \in Nat, kinds \in Seq(STRING)] ==
  LET kind == Head(kinds)
      behind(r) == Try(parts[s, r.pos, Tail(kinds)], LAMBDA rest :
                     Got(<<r.v>> \o rest.v, rest.pos))
  IN IF kinds = <<>> THEN Got(<<>>, p)
     ELSE Try(IF kind \in DOMAIN VecOf
              THEN Try(load_imm_varuint32(s, p), LAMBDA count :
                     parts[s, count.pos, Entries(kind, count.v)])
              ELSE Part(s, p, kind),
              behind)

-----------------------------------------------------------------------------
(* The entries of each section, by the parts they are read from.           *)

Shapes ==
  [Type |-> <<"marker", "vec_type", "vec_type">>,
   Function |-> <<"u32">>,
   Table |-> <<"reftype", "limits">>,
   Memory |-> <<"limits">>,
   Global |-> <<"type", "u8", "expr">>,
   Export |-> <<"string", "kind", "u32">>,
   Start |-> <<"u32">>,
   DataCount |-> <<"u32">>]

\* The parts behind the kind of an import, the flags of an element segment and
\* the kind of a data segment.
ImportShapes ==
  [Function |-> <<"u32">>, Table |-> <<"reftype", "limits">>,
   Memory |-> <<"limits">>, Global |-> <<"type", "u8">>]
ElementShapes ==
  <<<<"expr", "vec_u32">>,
    <<"elemkind", "vec_u32">>,
    <<"u32", "expr", "zero", "vec_u32">>,
    <<"zero", "vec_u32">>,
    <<"expr", "vec_expr">>,
    <<"elemkind", "vec_expr">>,
    <<"u32", "expr", "elemkind", "vec_expr">>,
    <<"elemkind", "vec_expr">>>>
DataShapes == <<<<"expr", "data">>, <<"data">>, <<"u32", "expr", "data">>>>

\* An entry whose first part says how it goes on.
Tagged(s, p, tag, kinds) ==
  Try(parts[s, p, kinds], LAMBDA rest :
    Got([tag |-> tag, parts |-> rest.v], rest.pos))

import_entry(s, p) ==
  Try(parts[s, p, <<"string", "string", "kind">>], LAMBDA head :
    Tagged(s, head.pos, head.v[3], ImportShapes[head.v[3]]))

element_entry(s, p) ==
  Try(AtMost(7, load_imm_varuint32(s, p), "Panic"), LAMBDA flags :
    Tagged(s, flags.pos, flags.v, At(ElementShapes, flags.v)))

data_entry(s, p) ==
  Try(AtMost(2, load_imm_varuint32(s, p), "InvalidDataSegmentType"),
    LAMBDA memtype :
    Tagged(s, memtype.pos, memtype.v, At(DataShapes, memtype.v)))

\* Mutant: the locals are not taken off the size of the body.
code_entry_whole(s, p, overflow) ==
  Try(load_imm_varuint32(s, p), LAMBDA size :
  Try(parts[s, size.pos, <<"vec_local">>], LAMBDA locals :
    Got([locals |-> locals.v[1], body |-> <<locals.pos, locals.pos + size.v>>],
        size.pos + size.v)))

\* The size counts the locals.  If they take more than the size, it wraps: the
\* body ends before it starts and the reader goes back to its end.
code_entry(s, p, overflow) ==
  Try(load_imm_varuint32(s, p), LAMBDA size :
  Try(parts[s, size.pos, <<"vec_local">>], LAMBDA locals :
    LET end == size.pos + size.v
    IN IF locals.pos > end /\ overflow THEN Failed("Panic", locals.pos)
       ELSE Got([locals |-> locals.v[1], body |-> <<locals.pos, end>>], end)))

\* The name is read, the rest of the section skipped; a name that does not fit
\* the section makes the reader go back.
custom_entry(s, p, length, overflow) ==
  Try(load_string(s, p), LAMBDA name :
    IF name.pos > p + length /\ overflow THEN Failed("Panic", name.pos)
    ELSE Got(<<>>, p + length))

Entry(s, p, name, length, overflow) ==
  CASE name = "Custom" -> custom_entry(s, p, length, overflow)
    [] name = "Import" -> import_entry(s, p)
    [] name = "Element" -> element_entry(s, p)
    [] name = "Data" -> data_entry(s, p)
    [] name = "Code" -> code_entry(s, p, overflow)
    [] OTHER -> parts[s, p, Shapes[name]]

-----------------------------------------------------------------------------
(* The steps of load.                                                      *)

Return(r) == phase' = "failed" /\ reply' = r
Proceed(p) == phase' = p /\ UNCHANGED reply

NoSection == [name |-> "Custom", length |-> 0, offset |-> 0, left |-> 0]

LoadInit ==
  /\ file \in Files
  /\ checks \in BOOLEAN
  /\ phase = "header" /\ reply = "None"
  /\ pos = 0 /\ sec = NoSection /\ m = EmptyModule

StartsWith(s, prefix) ==
  Len(s) >= Len(prefix) /\ SubSeq(s, 1, Len(prefix)) = prefix

Header ==
  /\ phase = "header"
  /\ \/ /\ ~ StartsWith(file, Magic)
        /\ Return("InvalidMagicNumber") /\ UNCHANGED pos
     \/ /\ StartsWith(file, Magic) /\ ~ StartsWith(file, Magic \o Version)
        /\ Return("InvalidVersion") /\ UNCHANGED pos
     \/ /\ StartsWith(file, Magic \o Version)
        /\ Proceed("sections") /\ pos' = Len(Magic) + Len(Version)
  /\ UNCHANGED <<file, checks, sec, m>>

\* The id, the length and, for a vector, the count.
OpenSection ==
  LET id == read_byte(file, pos)
      length == load_imm_varuint32(file, id.pos)
      known == id.v < Len(SectionNames)
      name == At(SectionNames, id.v)
      count == IF name \in Single THEN Got(1, length.pos)
               ELSE load_imm_varuint32(file, length.pos)
      failed == CASE length.err # "None" -> length.err
                  [] ~ known -> "InvalidSectionType"
                  [] OTHER -> count.err
  IN /\ phase = "sections" /\ remaining(file, pos) > 0
     /\ \/ failed # "None" /\ Return(failed) /\ UNCHANGED <<pos, sec>>
        \/ /\ failed = "None" /\ Proceed("entries") /\ pos' = count.pos
           /\ sec' = [name |-> name, length |-> length.v,
                      offset |-> length.pos, left |-> count.v]
     /\ UNCHANGED <<file, checks, m>>

LoadEntry ==
  /\ phase = "entries" /\ sec.left > 0
  /\ \E e \in {Entry(file, pos, sec.name, sec.length, checks)} :
       \/ e.err # "None" /\ Return(e.err) /\ UNCHANGED <<pos, sec, m>>
       \/ /\ e.err = "None" /\ Proceed("entries") /\ pos' = e.pos
          /\ sec' = [sec EXCEPT !.left = @ - 1]
          /\ m' = CASE sec.name = "Custom" -> m
                    [] sec.name \in Single -> [m EXCEPT ![sec.name] = <<e.v>>]
                    [] OTHER -> [m EXCEPT ![sec.name] = Append(@, e.v)]
  /\ UNCHANGED <<file, checks>>

\* Mutant: the length of a section is not compared with what was read.
CloseSection_unchecked ==
  /\ phase = "entries" /\ sec.left = 0
  /\ Proceed("sections")
  /\ UNCHANGED <<file, checks, pos, sec, m>>

CloseSection ==
  /\ phase = "entries" /\ sec.left = 0
  /\ \/ pos - sec.offset # sec.length /\ Return("FailedToDecode")
     \/ pos - sec.offset = sec.length /\ Proceed("sections")
  /\ UNCHANGED <<file, checks, pos, sec, m>>

\* Mutant: the number of bodies is not compared with the number of functions.
CountsAgree_data == m["DataCount"] # <<>> => m["DataCount"][1][1] = Len(m["Data"])

CountsAgree ==
  /\ Len(m["Code"]) = Len(m["Function"])
  /\ m["DataCount"] # <<>> => m["DataCount"][1][1] = Len(m["Data"])

EndOfFile ==
  /\ phase = "sections" /\ remaining(file, pos) <= 0
  /\ \/ ~ CountsAgree /\ Return("FailedToDecode")
     \/ CountsAgree /\ Proceed("programs")
  /\ UNCHANGED <<file, checks, pos, sec, m>>

=============================================================================
