------------------------------- MODULE Decode -------------------------------
(***************************************************************************)
(* From bytes to operations (decode.rs, ValueType of lib.rs): decode(),    *)
(* which translates a function body or an expression, and scan(), which    *)
(* finds the end of an expression while a module is loaded.  Both loop     *)
(* over opcodes; decode_op and scan_op are one round of those loops.       *)
(*                                                                         *)
(* An opcode is followed by immediates.  Immediates and ScanImmediates say *)
(* which ones the two functions read behind it.                            *)
(***************************************************************************)
EXTENDS Instances, Leb128

CONSTANTS
  Opcodes,      \* the opcode table: a function from byte values to names
  ValueTypes,   \* the type table: a function from numbers to value types
  MAX_OFFSET    \* MAX_MEMORY_OFFSET, u32::MAX in the program

\* The scope operations of Op have no opcode of their own.
ASSUME OpcodesAssumption ==
  \A b \in DOMAIN Opcodes : Opcodes[b] \notin {"StartScope", "EndScope"}

-----------------------------------------------------------------------------
(* The opcodes by what follows them.                                       *)

ScopeOps == [Block |-> "Block", Loop |-> "Loop", If |-> "IfElse"]
IndexOps == {"Br", "BrIf", "Call", "GetLocal", "SetLocal", "Tee", "GetGlobal",
             "SetGlobal", "RefFunc"}
TableOps == {"TableGet", "TableSet"}
\* Loads and stores; the alignment may not exceed the width.
Accesses == DOMAIN LoadOps \cup DOMAIN StoreOps
Memarg(name) ==
  LET n == IF name \in DOMAIN LoadOps THEN LoadOps[name] ELSE StoreOps[name]
  IN CASE n = 1 -> "memarg0" [] n = 2 -> "memarg1" [] n = 4 -> "memarg2"
       [] n = 8 -> "memarg3"
MaxAlign == [memarg0 |-> 0, memarg1 |-> 1, memarg2 |-> 2, memarg3 |-> 3]
SizeOps == {"CurrentMemorySize", "GrowMemory"}
ConstKinds == [I32Const |-> "s32", I64Const |-> "s64", F32Const |-> "f32",
               F64Const |-> "f64"]
ExtendOps == {"I32Extend8S", "I32Extend16S", "I64Extend8S", "I64Extend16S",
              "I64Extend32S"}
\* Opcodes of proposals that are refused; scan() lets four of them pass.
ScanPasses == {"Catch", "Throw", "Rethrow", "ThrowRef"}
Unsupported ==
  ScanPasses \cup
  {"Try", "ReturnCall", "ReturnCallIndirect", "CallRef", "ReturnCallRef",
   "Delegate", "CatchAll", "TryTable", "BrOnNull", "BrOnNonNull",
   "SIMDExtension", "GCExtension", "ThreadsExtension"}

\* The immediates decode() reads behind an opcode.
Immediates(name) ==
  CASE name \in DOMAIN ScopeOps -> <<"sig">>
    [] name \in IndexOps \cup TableOps -> <<"u32">>
    [] name = "BrTable" -> <<"vec_u32", "u32">>
    [] name = "CallIndirect" -> <<"u32", "u32">>
    [] name \in Accesses -> <<Memarg(name)>>
    [] name \in SizeOps -> <<"zero">>
    [] name \in DOMAIN ConstKinds -> <<ConstKinds[name]>>
    [] name = "SelectT" -> <<"vec_type8">>
    [] name = "RefNull" -> <<"type8">>
    [] name = "FCExtension" -> <<"trunc_sat">>
    [] OTHER -> <<>>

\* What scan() skips without reading what belongs to it.
Misread == {"CallIndirect", "TableGet", "TableSet", "SelectT"}

\* Mutant: the alternatives of a branch table are not read.
ScanImmediates_no_table(name) ==
  IF name \in Misread \cup {"BrTable"} THEN <<>> ELSE Immediates(name)

\* The immediates scan() reads.
ScanImmediates(name) ==
  IF name \in Misread THEN <<>>
  ELSE IF name \in Accesses THEN <<"memarg3">>
  ELSE IF name = "RefNull" THEN <<"u8">>
  ELSE Immediates(name)

-----------------------------------------------------------------------------
(* Reading immediates.                                                     *)

\* ValueType::from_u32.
from_u32(r) ==
  IF r.v \in DOMAIN ValueTypes THEN Got(ValueTypes[r.v], r.pos)
                               ELSE Failed("InvalidSignature", r.pos)

\* ValueType::read_signature: a number that is a type's code is that type, be
\* it positive or negative, and any other positive number a type index.
read_signature(s, pos) ==
  LET code(r) == IF r.v < 0 THEN - r.v ELSE r.v
      signature(r) ==
        IF code(r) \in DOMAIN ValueTypes
        THEN Got([ty |-> ValueTypes[code(r)], n |-> 0], r.pos)
        ELSE IF r.v < 0 THEN Failed("InvalidSignature", r.pos)
        ELSE Got([ty |-> "Index", n |-> r.v], r.pos)
  IN Try(load_imm_varint32(s, pos), signature)

\* The offset and the alignment are checked after both were read.
read_memarg(s, pos, max_align) ==
  Try(load_imm_varuint32(s, pos), LAMBDA align :
  Try(load_imm_varuint(s, align.pos, W64), LAMBDA offset :
    IF offset.v > MAX_OFFSET \/ align.v > max_align
    THEN Failed("MalformedMemory", offset.pos)
    ELSE Got([align |-> align.v, offset |-> offset.v], offset.pos)))

\* A number that must not be above max.
AtMost(max, r, err) ==
  Try(r, LAMBDA x : IF x.v <= max THEN x ELSE Failed(err, x.pos))

Scalar(s, pos, kind) ==
  CASE kind = "u8" -> read_byte(s, pos)
    [] kind = "u32" -> load_imm_varuint32(s, pos)
    [] kind = "s32" -> load_imm_signed_varint(s, pos, W32)
    [] kind = "s64" -> load_imm_signed_varint(s, pos, W64)
    [] kind = "f32" -> load_imm_f32(s, pos)
    [] kind = "f64" -> load_imm_f64(s, pos)
    [] kind = "sig" -> read_signature(s, pos)
    [] kind = "type8" -> Try(read_byte(s, pos), from_u32)
    [] kind = "type" -> Try(load_imm_varuint32(s, pos), from_u32)
    [] kind = "zero" -> AtMost(0, read_byte(s, pos), "FailedToDecode")
    [] kind = "trunc_sat" ->
         AtMost(7, load_imm_varuint32(s, pos), "UnimplementedOpcode")
    [] kind \in DOMAIN MaxAlign -> read_memarg(s, pos, MaxAlign[kind])

\* A vector is a count and as many entries; the last two occur in sections.
VecOf == [vec_u32 |-> "u32", vec_type8 |-> "type8", vec_type |-> "type",
          vec_expr |-> "expr", vec_local |-> "local"]
Entries(kind, n) == [i \in 1 .. n |-> VecOf[kind]]

\* Immediates of these kinds one after the other, up to the first error.
fields[s \in Seq(Nat), pos \in Nat, kinds \in Seq(STRING)] ==
  LET kind == Head(kinds)
      behind(r) == Try(fields[s, r.pos, Tail(kinds)], LAMBDA rest :
                     Got(<<r.v>> \o rest.v, rest.pos))
  IN IF kinds = <<>> THEN Got(<<>>, pos)
     ELSE Try(IF kind \in DOMAIN VecOf
              THEN Try(load_imm_varuint32(s, pos), LAMBDA count :
                     fields[s, count.pos, Entries(kind, count.v)])
              ELSE Scalar(s, pos, kind),
              behind)

-----------------------------------------------------------------------------
(* decode().                                                               *)

\* Op has other names for some opcodes.
Renamed == [Tee |-> "TeeLocal", IsNull |-> "RefIsNull",
            CurrentMemorySize |-> "MemorySize", GrowMemory |-> "MemoryGrow"]
OpName(name) == IF name \in DOMAIN Renamed THEN Renamed[name] ELSE name

\* Mutant: the If stands before the scope it opens.
ScopeStart_if_first(name, sig) ==
  (IF name = "If" THEN <<Op("If")>> ELSE <<>>)
  \o <<StartScope(ScopeOps[name], sig.ty, sig.n)>>

ScopeStart(name, sig) ==
  <<StartScope(ScopeOps[name], sig.ty, sig.n)>>
  \o (IF name = "If" THEN <<Op("If")>> ELSE <<>>)

\* The operations emitted for an opcode with immediates v in scope top.
Emitted(name, v, top) ==
  CASE name \in DOMAIN ScopeOps -> ScopeStart(name, v[1])
    [] name = "End" -> <<EndScope(top)>>
    [] name \in IndexOps \cup TableOps -> <<OpN(OpName(name), v[1])>>
    [] name = "BrTable" -> <<[OpN(name, v[2]) EXCEPT !.tbl = v[1]]>>
    [] name = "CallIndirect" -> <<[OpN(name, v[1]) EXCEPT !.m = v[2]]>>
    [] name \in Accesses ->
         <<[OpN(name, v[1].offset) EXCEPT !.m = v[1].align]>>
    [] name \in DOMAIN ConstKinds -> <<Const(name, v[1])>>
    [] name = "RefNull" -> <<[Op(name) EXCEPT !.ty = v[1]]>>
    [] name = "FCExtension" -> <<OpN("TruncSat", v[1])>>
    [] OTHER -> <<Op(OpName(name))>>

\* Decoding in progress: at is history, the positions of the opcodes read.
Decoding == [pos |-> 0, scopes |-> <<"Program">>, ops |-> <<>>, at |-> <<>>,
             reply |-> "Running"]

from_repr(b) == IF b \in DOMAIN Opcodes THEN Opcodes[b] ELSE "Invalid"

\* One round of the loop of decode().  An else outside an if, and an end when
\* every scope was closed, abort.
decode_op(s, d) ==
  LET name == from_repr(At(s, d.pos))
      top == IF d.scopes = <<>> THEN "None" ELSE Top(d.scopes)
      refused == CASE name = "Invalid" -> "InvalidOpcode"
                   [] name \in Unsupported -> "UnimplementedOpcode"
                   [] name = "End" /\ top = "None" -> "Panic"
                   [] name = "Else" /\ top # "IfElse" -> "Panic"
                   [] OTHER -> "None"
      translate(imm) ==
        IF imm.err # "None" THEN [d EXCEPT !.reply = imm.err]
        ELSE [d EXCEPT
                !.pos = imm.pos, !.at = Append(@, d.pos),
                !.scopes = CASE name \in DOMAIN ScopeOps -> Append(@, ScopeOps[name])
                             [] name = "End" -> DropTop(@, 1)
                             [] OTHER -> @,
                !.ops = @ \o Emitted(name, imm.v, top)]
  IN IF d.pos = Len(s) THEN [d EXCEPT !.reply = "Ok"]
     ELSE IF refused # "None" THEN [d EXCEPT !.reply = refused]
     ELSE translate(fields[s, d.pos + 1, Immediates(name)])

AnyOp == [op : STRING, n : Nat, m : Nat, k : Int, ty : STRING, scope : STRING,
          tbl : Seq(Nat)]
Decodings == [pos : Nat, scopes : Seq(STRING), ops : Seq(AnyOp), at : Seq(Nat),
              reply : STRING]

\* All rounds.
decode_from[s \in Seq(Nat), d \in Decodings] ==
  IF d.reply # "Running" THEN d ELSE decode_from[s, decode_op(s, d)]
decode(s) == decode_from[s, Decoding]

-----------------------------------------------------------------------------
(* scan(), from pos to the end of the expression that starts there.        *)

\* One round of the loop of scan(), which stops on the end that closes no
\* scope, and also, without an error, at the end of its input.
scan_op(s, d) ==
  LET name == from_repr(At(s, d.pos))
      refused ==
        CASE remaining(s, d.pos) < 0 -> "MalformedMemory"
          [] name = "Invalid" -> "InvalidOpcode"
          [] name \in (Unsupported \ ScanPasses) \cup ExtendOps ->
               "UnimplementedOpcode"
          [] name = "Else" /\ (d.scopes = <<>> \/ Top(d.scopes) # "If") ->
               "FailedToDecode"
          [] OTHER -> "None"
      skip(imm) ==
        IF imm.err # "None" THEN [d EXCEPT !.reply = imm.err]
        ELSE [d EXCEPT
                !.pos = imm.pos, !.at = Append(@, d.pos),
                !.scopes = CASE name \in DOMAIN ScopeOps -> Append(@, name)
                             [] name = "End" -> DropTop(@, 1)
                             [] OTHER -> @]
  IN IF d.pos = Len(s) THEN [d EXCEPT !.reply = "Ok"]
     ELSE IF refused # "None" THEN [d EXCEPT !.reply = refused]
     ELSE IF name = "End" /\ d.scopes = <<>>
     THEN [d EXCEPT !.pos = @ + 1, !.at = Append(@, d.pos), !.reply = "Ok"]
     ELSE skip(fields[s, d.pos + 1, ScanImmediates(name)])

Scanning == [pos : Nat, scopes : Seq(STRING), at : Seq(Nat), reply : STRING]

scan_from[s \in Seq(Nat), d \in Scanning] ==
  IF d.reply # "Running" THEN d ELSE scan_from[s, scan_op(s, d)]
scan(s, pos) ==
  scan_from[s, [pos |-> pos, scopes |-> <<>>, at |-> <<>>, reply |-> "Running"]]

\* The region of an expression, without the end that closes it.
load_expr(s, pos) ==
  LET region(d) == IF d.reply = "Ok" THEN Got(<<pos, d.pos - 1>>, d.pos)
                                     ELSE Failed(d.reply, d.pos)
  IN region(scan(s, pos))
=============================================================================
