# A TLA+ model of wasbox

wasbox is an embeddable WebAssembly interpreter. A host loads a module
(`Module::load`), instantiates it (`mk_instance`), makes an `Execution` from
the instance and a memory, and then calls `prepare` and `run` on it, as often
as it likes. This directory models both halves: what happens to a file until it
is an instance (LEB128 reader, section parser, decoder, instantiation), and the
interpreter that works on the instance and its memory (operand stack and values,
frames and structured control, calls and returns, arithmetic, loads and stores).
TLC checks the models on small instances, TLAPS proves the theorems listed below
for all values of the constants.

Paths below are relative to the repository (`src/src/exec.rs` is `exec.rs`).

## 1. Inventory

| Part | State | Operations | What makes it correct |
|---|---|---|---|
| Values, operand stack (`stack.rs`, `Value` in `exec.rs`) | a vector of raw 64-bit words | `push_*`, `pop_*`, `top_*`, `shrink_to`, `Value::push_to/pop_from/top_of` | the stack forgets types: what is popped at a declared type is a value of that type; an i32 means the same whether its word is sign- or zero-extended |
| Frame (`frame.rs`) | locals, operand stack, pc, control stack | `push_control`, `pop_control`, `push_local_to_stack`, `set_local_from_stack` | the control stack lists the scopes the pc is in; every declared local is there, at its type |
| Structured control (`execute_branch`, `If`, `Else`, `EndScope` in `exec.rs`) | none of its own | scans over the operations that turn a branch depth into a pc | a branch goes where WebAssembly says, with the values it carries and nothing else |
| Execution (`exec.rs`) | frame stack, instance (globals, tables), memory, result | `prepare`, `run`, the `execute` loop with its tick budget | results are those of the invoked function; callers survive calls; `run` comes back; a stopped run can be taken up again |
| `frame_for_funcidx` (`instance.rs`) | none | import check, index arithmetic, argument check, new frame | index and arity mistakes of the host are answered, not acted upon |
| Integer arithmetic (`exec.rs`) | none | comparisons, arithmetic, shifts, conversions | agrees with WebAssembly for every pair of words |
| Float arithmetic (`exec.rs`) | none | comparisons, roundings, min and max, truncations with range checks, conversions | traps exactly when the integer does not exist, saturates at the right end, keeps signs of zeros |
| Linear memory (`memory/`) | bytes, maximum | typed loads and stores, `size`, `grow` | an access beyond the end is a fault, never an abort or another byte; growing keeps the bytes |
| Instantiation (`mk_instance`) | builds programs, memories, tables, globals; runs the start function | element and data segments, `exec_fragment` | segments land where they should or instantiation fails |
| Decoder (`decode.rs`) | scope stack | `decode`: bytes to operations; `scan`: where an expression ends | the operations nest; malformed code is an error; both functions read the same bytes the same way |
| LEB128 reader (`module/leb128.rs`) | cursor | variable-length integers, names, byte ranges | an encoding has one value, or is an error |
| Loader (`module/parse.rs`) | cursor, current section, sections so far | bytes to `Module` | every file is answered; no byte is two things; the sections fit each other |
| WAST runner (`tests/wast_tests.rs`) | one `Execution` for many invocations | a host | – |

How they interact: `run` takes the top frame, `execute` changes that frame, the
globals, the tables and the memory, and returns a continuation (end, return,
call) or a fault; `run` then hands results to the frame below, pushes a frame
for a call, or pops the top frame and returns the fault. `Module::load` keeps
positions into the file, which `mk_instance` slices, decodes and evaluates, after
which nobody looks at the file again: what the interpreter relies on (programs
that nest, one for each function, types that exist) must hold from then on.
There is no concurrency and nothing is persisted. What is hard is *sequence*: one
`Execution` used again after a trap, tick budgets that end a run in the middle,
nested scopes left by branches of every depth, untyped words read back at
another type, address arithmetic at the ends of its range, and sizes and counts
of a file that do not agree with each other. `PROJECT.json` lists these hazards at their lines.

## 2. Modules

| Module | Models | Notes |
|---|---|---|
| `Values` | `stack.rs`, `Value` | words modulo 2^64, i32 modulo 2^32, built from `BYTE` |
| `FrameOps` | `frame.rs`, `execute_branch`, the scans of `If` and `Else` | operators on one frame; an operation is one record (`Op`), a fault is a name |
| `Instances` | `Instance`, `frame_for_funcidx` | the record of a module, and new frames |
| `Execution` | `prepare`, `run`, `execute` | one action per operation; the step of an action is the whole operation and what `run` does with its outcome |
| `MemoryAccess` | `memory/` and what loads, stores, `memory.size` and `memory.grow` do with it | debug and release arithmetic (`OverflowChecks`) |
| `Machine` | an `Execution` and its memory | composes `Execution` and `MemoryAccess`: a memory operation is one step of both |
| `LinearMemory` | a memory on its own, under any accesses | `MemoryAccess` with operands as constants |
| `MemorySpec` | nothing of wasbox: the memory WebAssembly promises | `LinearMemory` refines it |
| `Numeric`, `Floats` | the integer operations; the float operations | pure operators; `Numeric` is given to `Execution` as constants |
| `WasmReference` | nothing of wasbox: WebAssembly's big-step meaning of the same operations, memory included | what `Machine` is compared with; recursive, so only TLC uses it |
| `Leb128` | `module/leb128.rs` | reading is an operator from bytes and position to a value and a position, or an error |
| `Decode` | `decode.rs`, block types of `lib.rs` | `decode_op` is one round of the loop; `scan`, `read_memarg` |
| `Loader` | `Module::load` of `module/parse.rs` | extends `Decode`; one action for the header, for opening a section, for an entry, for closing it, and for the end of the file |
| `Link` | `mk_instance`, `exec_fragment` | extends `Loader`: the path from a file to an instance |
| `BinaryFormat` | nothing of wasbox: the encoder of the binary format, and the instance a description stands for | what `Link` is compared with |
| `MCExec`, `MCControl`, `MCCalls`, `MCHost`, `MCWild`, `MCFindings`, `MCMemory`, `MCNumeric`, `MCLoad` | instances | small programs written with the operations `decode` emits; files |
| `Validation` | nothing of wasbox: what WebAssembly validation says about numbers of operands | the hypothesis of two theorems; `MCControl` checks that its programs satisfy it |
| `ValuesProofs`, `NestingProofs`, `ExecutionProofs`, `OperandProofs`, `MemoryAccessProofs`, `LinearMemoryProofs`, `MachineProofs`, `LinkProofs` | theorems and lemmas | `NestingProofs` is about scopes in a list of operations, and is used by both halves; `OperandProofs` compares operand stacks with heights |

State of `Execution`: `frames` is `frame_stack` with the top frame last (a frame
keeps the index `fn` of its function in place of a copy of its program and
return types, which never change); `globals`, `tables` and `mod` are the
instance; `result` is `Execution.result`; `ticks` is `ticks_used` of the current
`execute` call, 0 again with every call, return and `run`; `status` says where
the host stands (`panicked`: a Rust panic ended it) and `outcome` is what the
last `prepare` or `run` returned. `invoked` is a history variable: what was
prepared last, and the globals, tables and number of frames it found.

State of `MemoryAccess`: `data`, `max` and `growable` are the memory (a
`VectorMemory`, or a `SliceMemory`, which is `Fixed`); `request` and `reply` are
the last operation and its answer, for the refinement; `panicked` says that the
operation aborted. `Machine` adds `found`, a history of the bytes that the last
`run` started from. A load is a step of the memory with the popped address, and
of the interpreter with the answer (`Obey`): the word is pushed, the fault ends
the frame as any other, and an abort ends the host.

State of `Loader` and `Link`: `file` and `pos` are the reader, which may stand
beyond the end; `sec` the section that is open; `m` the `Module`, where regions
of the file are pairs of positions, as in the code; `phase` the loop that is
running, `reply` what `load` or `mk_instance` returned; `checks` a build that
aborts on overflow. `dec` is the state of the body being decoded, `next` how many
entries of the current loop are done, and `programs`, `memories`, `tables` and
`globals` the instance so far. One step is one round of a loop of the code: an
entry read, an opcode decoded, a segment applied. `Try` is Rust's `?`.

Shared shapes of the actions: `Continue(f)` (the operation is done), `Trap`
(`execute` failed: `run` pops the top frame), `RunError` (`run` itself failed:
the frame stays), `Finish` (return or end), `EnterCall`. An operation that pops
from a stack that is too short traps (`Popping`); what it popped before does not
matter, because the frame is dropped.

Abstractions. In the interpreter floats are bit patterns that are moved, stored
and reinterpreted; `Floats` has their operations as functions, on a sign and a
magnitude instead of bits, without NaN payloads, and they are not actions. V128
and Unit values are left out: `decode` emits no operation for the first and only
block types use the second. Fault payloads and messages are left out.
`execute` scans the operations with a depth counter; the model says where such a
scan stops (the first place of the right kind with as many starts as ends before
it). Call depth is not limited in the code; a call
beyond `MaxFrames` ends the model as running out of memory would. A table
element that is a null reference stays apart from one never written (`NoElem`),
as in the code.

While a file is loaded, names are read and not kept, a string is UTF-8 when each
byte is a character of one byte, floats are bytes that are skipped (their
constants are 0), and the types of `select t` are not kept. A constant
expression of constants, `ref.func` and `ref.null` is evaluated; one with other
operations may give any of `FragmentValues`, any fault, or an abort, and so may
the start function: what code does is the subject of `Machine`, and the memory
and globals a start function leaves behind are not followed. The opcode
table is the constant `Opcodes`.

## 3. Runs

Bounds shared by all but `load`: `BYTE = 2`, so a "byte" has one bit, an i32 four and an
i64 eight; every rule of the code about widths is relative to them, and all
2^8 words are covered, signs and extremes included. `MaxStale` is how
many frames a host lets pile up before it stops calling `prepare`, `Fuel` what
the reference may spend on calls and loop rounds (more than any program of the
run needs).

| Run | States | Shows |
|---|---|---|
| `control` | 137 120 | every nest of one to three blocks, loops, ifs and if-elses, with or without a result, with a conditional branch to each label and, up to depth two, an operand left behind; and nests of one and two scopes in a function that a scope of another one calls, with an operand of its own below the argument: the control stack mirrors the nesting (`ScopesMatchNesting`), no scope eats operands from below it (`OperandsAboveScopes`), nothing underflows (`NoUnderflow`), and results are WebAssembly's (`MatchesReference`). Depth three is the first at which a branch crosses a scope of one kind into another around a third; three frames are one more than the calls need. The nests with the two disagreements of `outer_loop` and `if_operand` are left out of this run by `CrossesLoop` and `LeavesIfOperand`. `MAX_TICKS` is never reached. TLC also evaluates `ControlProgramsNest` and `ControlProgramsValid`: the programs satisfy the hypotheses of `MachineScopesMatch`, `MachineOperandsAboveScopes` and `MachineNoUnderflow`. |
| `calls` | 37 022 | direct, indirect and recursive calls, two results at once, returns out of nested scopes, references, every load and store at five addresses, the wider ones across the end, growing with and without success, traps in callees, a loop without end, an `Execution` used again and again: when no frames were left over, results, globals, tables and memory are the reference's, after a trap too; suspended callers are untouched, locals and globals keep their types, and under fairness `run` comes back (`RunReturns`). |
| `host` | 3 582 | a host that passes any index and any number of arguments, prepares twice, runs twice or on nothing. It meets aborts, and still every frame has all its declared locals and no suspended frame changes. |
| `wild` | 172 598 | every sequence of one or two operations of an alphabet of about 60, memory operations among them, behind five choices of operands, that `decode` accepts: code that was never validated, so every fault path is taken. Types of locals and globals still hold. |
| `numeric` | 177 568 | all pairs of words, all integer operations and conversions, against a reference on bits and signed numbers; the words as LEB128 bytes, whole and cut off, against the grammar of the binary format (`LebCorrect`). All pairs of floats of two small formats: every truncation against "the integer exists" (`TruncationsCorrect`), the other float operations against sets of floats (`FloatsCorrect`, which leaves `min` and `max` of two zeros to `MC_ZeroSign.cfg`). |
| `memory` | 13 507 | 1, 2, 4 and 8 byte accesses inside, across and beyond the end, sizes at, below and above the limit of `grow`: refines `MemorySpec`, never aborts, never exceeds its limits. No address of this run wraps; `MC_AddressWraps.cfg` and `MC_EndWraps.cfg` have those that do. |
| `load` | 170 584 | files to instances, see below. |

The two float formats have 3 and 5 bits of significand where an i32 has 4 and an
i64 has 8, in the order of 24 < 32 < 53 < 64; so each of the four signed range
checks has the shape it has in the code: its lower bound is the float just below
the least integer where the floats there are coarser than the integers, and the
integer just below it where they are finer. f64 reaches further up and down than
f32, so that a demotion overflows, underflows and ties.

**`load`.** Files are of four kinds. The encodings of 53 descriptions of modules
(`BinaryFormat`), with nested code, locals, overlapping segments, element
segments that overrun their table and globals: they must load and link without
an error, and the instance must be the one described, with of a segment that
overruns the part that fits; where a data segment does not fit, nothing is
linked (`InstanceAsEncoded`). One file with every section, with each
of its bytes changed to nine other values and cut at every length. Hand-made
files for the kinds of imports, exports, elements and data that the encoder does
not write, and for wrapped sizes. And a module with every sequence of up to
three bytes, out of 14, as its function body, and as an expression: scopes opened
and closed in any order, immediates that are missing, overlong or look like
opcodes; and a few bodies that go on behind the end of the function. Each is loaded in a debug and
in a release build. A byte has four payload bits, so that LEB128 numbers have one
to three bytes, 32-bit numbers 8 bits and 64-bit ones 16; pages have 4 bytes, at
most 4 pages are allowed, a function has at most 30 locals, and an expression
4 ticks. The 31 opcodes have each kind of immediate, and each kind of refusal.

- `RegionsDisjoint`, `SectionsWhereTheyAre`: whatever the sizes say, and where a
  size wraps and the reader goes back, the file is split into regions that do not
  overlap, and a section ends where its length says.
- `ScanAgrees`: `scan()` while loading and `decode()` while linking take the same
  bytes for opcodes (with the exceptions under Disagreements).
- `DecodedNests`: what `decode()` has emitted nests, at every step of it.
- `InstanceIsModule`: past the programs, there is one program for each function,
  with the results of a type that exists.
- `Advances`: every step makes `Work`, a lexicographic rank of what is left to
  do, smaller. With deadlock checked (only an answer may stay as it is) this
  shows that every file is answered, without any fairness assumed, or comes to
  its start function: `RunStart` is one step whatever that function does, and
  whether it ends is a question to `Machine` (`tick_budget` shows code that does
  not).

Deadlock is checked where the host can always go on; `calls`, `host` and `wild`
may stop (frames left over have filled the bound, or the host was aborted).

Fairness: `FairMachineSpec` adds weak fairness of `MachineEngine` only. `run` is a loop on
the host's own thread: once called, it takes its next step. Nothing is assumed
of the host, which may never call `prepare` or `run` again.

### Disagreements

Each of these runs ends in a counterexample to what a comment, the
documentation or a test of the repository says (quoted in `PROJECT.json`).

| Run | What happens |
|---|---|
| `outer_loop` | the backward scan for a loop ignores the depth: a branch from an inner loop to an outer one lands in the inner loop, with the inner scope popped |
| `if_operand` | the scope of an `if` is opened before its condition is popped, so its recorded width is one too high, and a branch to it leaves one operand too many |
| `stale_frames` | a fault pops one frame, not the whole invocation: the next `run` returns into the callers of the trapped function, and reports their result |
| `out_of_ticks` | a run out of ticks loses its frame, so it cannot be taken up again |
| `tick_budget` | the budget starts again at every call and return: a loop that calls never runs out |

These concern whole invocations and the control flow of any program. Seven more,
about single operations, have a configuration of their own beside the runs; each ends in a counterexample to the property named.

| Configuration | Property | What happens |
|---|---|---|
| `MC_LoopResult.cfg` of `MCFindings` | `MatchesReference` | a branch to a loop carries the loop's *results* (`exec.rs:275`), where its label takes its parameters, so the value below the loop is cut to the result type |
| `MC_TableSet.cfg` of `MCFindings` | `MatchesReference` | `table.set` pops index and reference in the wrong order (`exec.rs:581`) |
| `MC_CallImport.cfg` of `MCFindings` | `MatchesReference` | `Continuation::Call` looks up the arity without the import offset that `frame_for_funcidx` subtracts (`exec.rs:1854`, `instance.rs:282`); `instance.rs:262` says "Funcidx must consider also the imports" |
| `MC_ExtraArgument.cfg` of `MCFindings` | `StoresTyped` | the zipped argument check (`instance.rs:288`) lets an extra argument become a declared local of another type; `instance.rs:284` says "Types of arguments must match the function signature" |
| `MC_ZeroSign.cfg` of `MCNumeric` | `ZeroSigns` | `min` and `max` of two zeros are Rust's (`exec.rs:1202`) and may be either; WebAssembly wants the negative one for `min` and the positive one for `max`, and the repository's `README.md:25` claims "proper IEEE 754 compliance". The WAST tests cannot notice: `eq_w_nan` compares zeros with `==` (`exec.rs:1675`) |
| `MC_AddressWraps.cfg` of `MCMemory` | `BeyondEndFaults` | a base that is negative as an i32 is sign-extended to `usize` (`exec.rs:1570`), so near the top the address wraps in a release build, and a load far beyond the end reads the first bytes; a debug build aborts. A test says "Should not be able to access beyond the page" (`memory/mod.rs:318`) |
| `MC_EndWraps.cfg` of `MCMemory` | `NoAbort` | there the end of the access wraps in the bounds check (`memory/mod.rs:37`), which then passes, and slicing the memory aborts the host, in a release build too |

Seen while modelling, and part of the models as the code has it:

- `scan()` takes the immediates of `call_indirect`, `table.get`, `table.set` and
  `select t` for instructions (`decode.rs:1096`); `ScanAgrees` excepts these four
  (`Misread`). It also lets an expression end with the file (`decode.rs:923`).
- A file whose last data or body runs past its end is accepted
  (`parse.rs:509`), and aborts when it is sliced (`module/mod.rs:246`).
- The size of a body less its locals, and the length of a custom section less its
  name, wrap in a release build and abort a debug build (`parse.rs:199`,
  `parse.rs:487`).
- Flags of an element segment above 7 abort, and so does an f64 constant cut off
  by the end (`leb128.rs:351`), and an expression that `decode()` refuses
  (`exec.rs:1690`).
- An element segment beyond its table is written as far as the table goes;
  segments of expressions are skipped (`instance.rs:122`); a negative offset
  wraps in a release build.
- A passive data segment is copied to the position it has in the file
  (`instance.rs:184`).
- A block type that is a type index but also the code of a value type is read as
  the value type (`lib.rs:104`).
- `global.get` in an initialiser always faults, since the globals are not there
  yet (`instance.rs:194`).

## 4. Proofs

All theorems hold for every value of the constants that satisfies the named
assumptions: `ByteAssumption` (a byte has an even number of values, more than
one), `ModulesAssumption` (what `Module::load` and `mk_instance` let through:
one code entry per function, type indices in range; `InstanceComplete` is the
theorem that they do), `HostAssumption`, `BoundsAssumption`, `NumericAssumption`
(an arithmetic operation takes one or two words and gives a word, or one of the
three faults of arithmetic),
`NumericNames` (and is none of the other operations),
`MemoryAssumption` (a page has a size), `MemoriesAssumption` (an `Execution` gets
a memory of bytes), `OperandsAssumption` (offsets of accesses fit 32 bits, as
`read_memarg` checks; initial sizes are below half the address space),
`LebAssumption` and `WidthAssumption` (the reader's numbers have the width of
the words).

**Interpreter and memory.** The invariant is `MachineInv`: `IInv` and
`MemoryTypeOK`. `IInv` says of every frame that it is well typed,
belongs to a function, has at least its declared locals and, when the host
passes the right arity and nothing is imported (`Strict`), has exactly those, at
their types; of the globals that they have their declared types; and that `run`
has a frame. Neither the type invariant nor the two others is inductive alone:
a store is well typed only if the local is there, a local is there only if the
frame belongs to a function of the module, and a return hands values to a frame
that must be well typed itself. Lemmas in `ValuesProofs` and `NestingProofs`
say what the encodings, the scans and the branch preserve; in `ExecutionProofs`
there is one lemma for each shape a step can have (`Keep`, `Trap`, `RunError`,
`Finish`, `EnterCall`) and one for each action. The memory is needed too: a load
pushes a word only if the memory holds bytes, and a store leaves bytes only if
the operand was a word. `MemoryAccessProofs` says what each access does with
a memory of bytes, whoever asks for it; `MachineProofs` joins the two, and
`LinearMemoryProofs` uses the same lemmas for the memory on its own.

- `TypeCorrect`: `MachineSpec => []TypeOK`.
- `LocalsPresent`: `MachineSpec => []DeclaredLocalsPresent`, whatever the host
  passes.
- `StoresKeepTypes`: with a disciplined host and no imports,
  `MachineSpec => []StoresTyped`, for any code, validated or not. `MC_ExtraArgument.cfg`
  shows why discipline is needed, `MC_CallImport.cfg` why imports are excluded.
- `MachineGrowPreservesData`: `MachineSpec => GrowPreservesData`: over all
  calls, traps and invocations the memory only grows, by zeros.
- `MachineCallersUntouched`: `MachineSpec => CallersUntouched`. Every step
  replaces, covers or pops the top frame (`LowerSame`); only `Finish` touches
  another one, and there the results go behind the operands, because
  `push_values` only appends.
- `MachineScopesMatch`: `MachineSpec => []ScopesMatchNesting`, if `ProgramsNest`:
  the programs are such as `decode()` accepts, and no branch to a loop crosses
  another loop. The first is what `DecodingNests` proves of every program that is
  decoded, the second leaves out exactly the branches of `outer_loop`.
  `MCControl` and `MCCalls` assert `ProgramsNest` of their programs.

**Why the control stack matches.** The pc is moved by scans over the operations
that count starts and ends, mostly of one kind; the control stack is moved by
depths. `NestingProofs` relates both to a third thing: `Nest(ops, n, st)` says
that `st` lists the starts of the scopes that are open at `n`, outermost first,
and that between the k-th of them and `n` there are as many more starts than
ends as scopes are open within it. The last part is what the counters of the
scans see, and what makes the list step with the operations (`NestPlain`,
`NestStart`, `NestEnd`) and unique (`NestUnique`). A scan forwards is followed
step by step (`Above`): as long as a scope is not closed, the scopes within it
that are of the kinds counted are those there were, plus starts, minus ends, for
every set of kinds at once; so at the first place where the count is zero the
scope is still open and none of those kinds is open within it (`FirstStop`). For
`If` and `Else` it follows that the end or `Else` found is their own
(`SkipThenNests`, `SkipElseNests`), although blocks and loops are not counted; for
a branch out of `depth` scopes that the end found is that of the outermost
(`ScopeEndNests`); and for the backward scan of a branch to a loop, which ignores
the depth, that it finds the right loop if no other loop lies between
(`LoopStartNests`, `Uncrossed`). `FramesNest`, the invariant that is inductive
together with `MachineInv`, says of each frame whose pc is in its program that
such a list exists and that the control stack has the kinds and results of its
scopes, above the function's own (`Listed`); `ExecutionProofs` has a lemma for
each shape of step and for each step that enters or leaves a scope. A trap or a
return drops a frame, so it is kept by runs that end in the middle, too.
It is `ScopesMatchNesting` with the list made explicit, which is
what the lemmas step along, and it needs `MachineInv`: without the types of
frames and programs nothing is known of where a step goes.

**Validated code does not run out of operands.** `decode()` checks the nesting
and no operand: that the operands of an operation are there, and above the floor
of its scope, is what validation is for, which an embedder has to do first.

- `MachineOperandsAboveScopes`: `MachineSpec => []OperandsAboveScopes`.
- `MachineNoUnderflow`: `MachineSpec => []NoUnderflow`.

Both assume `ProgramsNest`, `ProgramsValid`, and a host that is `Disciplined` and
prepares only when no frame is left over (`MaxStale = 0`; with frames left over
`stale_frames` shows results pushed where none are expected).

`ProgramsValid` (`Validation`) says that each operation of a function can be given
a height, a number of operands that are there whenever it is reached: what it
pops is there and above the floor of every open scope, and where it goes to, the
height is at most what it leaves. It is stated with the scopes of the program
alone, as validation does: the labels of a scope are its start or the places
behind its ends (`Labels`), the arms of an if are found by which `Else` and which
end belong to it (`Elses`, `Closers`). None of the interpreter's scans occurs in
it, so a scan that stopped elsewhere could break the theorems; `skip_then_to_else`,
which stops one operation early, breaks `NoUnderflow`. That the scans reach those places is proved on
`NestingProofs`: `SkipThenValid`, `SkipElseCloser` and `LandingLabel`.
Programs must be `Closed` (end with the end of their function), as every body of
the binary format is. Two kinds of valid programs have no heights and are not covered:
blocks with parameters, whose body uses operands from below its entry (here
`pop_control` has no notion of parameters), and branches to the scope of a
function with several results, to which `frame_for_funcidx` gives only the first.

The invariant is `HInv`. That the stack is at least as high as the height of the
pc is not inductive: an end or a branch shrinks the stack to the width recorded on
entry, so widths must be compared with heights too. They are not equal, since a
branch to an if can leave the operand that its width counts too much (`if_operand`),
and everything after it runs with one more operand than validation knows of. What is
inductive is that the *surplus*, the width of a scope less the height of its
start, never shrinks from a scope to those inside of it, nor from the innermost
one to the pc (`Ordered`, `Roomy`). A branch or end then shrinks to a place whose
surplus is that of the target, and every scope further out has no more. A
suspended caller is compared with the results it waits for added (`Pending`);
after a trap the frames below never get them, so the heights are claimed of a
prepared or running machine only, and the floors (`FramesFloors`), which is what
`OperandsAboveScopes` says, always. `HInv` needs `MachineInv` and `FramesNest`.
`OperandProofs` has a lemma for each operation, and one for all those that only
pop and push (`StraightSteps`); `MachineProofs` adds the memory operations and the
aborts that are the memory's own.

**Linear memory.**

- `MemoryTypeCorrect`, `MemorySizeWithinLimits`, `MemoryGrowPreservesData`: for
  every page size, limit, set of accesses, and both kinds of build.
- `MemoryNeverAborts`: if no address wraps around (`Unwrapped`: the base is not
  negative as an i32, or the end of the access stays below the end of the address
  space), no access aborts. `MC_EndWraps.cfg` shows that the assumption is needed.
- `MemoryRefines`: under the same assumption, `Spec => RefinesMemory`. A negative
  base is sign-extended far beyond any memory, where WebAssembly has it at 2 GB
  and more; both fault as long as the memory is smaller than that (`SmallBytes`; `grow` stops
  below it, but a module may ask for up to 4 GB to begin with, and such memories
  the assumption leaves out), and `memory.size` is right as long as a
  number of pages fits an i32 (`SmallPages`). The proof maps every step to the
  step of `MemorySpec` of the same name: that `get_bytes` refuses exactly what is
  out of bounds, that little-endian bytes make the same word and the sign is
  extended from the same bit, and that a store writes the bytes of the operand
  and no others. That needs `MemoryTypeOK` and `SizeWithinLimits`, no more.

**Files to instances.**

- `InstanceComplete`: `Spec => []InstanceIsModule`, for every set of files,
  opcode table and width. The invariant `ProgramsInv` adds what holds while the
  programs are made: `load` has compared the numbers of functions and bodies
  (`CountsAgree`), there are as many programs as bodies were handled, and each was
  given the results of a type that was there. Nothing is said of the phases
  before, so nothing need be known of how entries are read; and the module does
  not change after `load`.
- `DecodingNests`: `Spec => []DecodedNests`. The invariant `NestingInv` says that
  the operations emitted so far are accepted and that the decoder's scope stack
  lists the kinds of the scopes open behind them (`NestedBy`), with the
  function's own scope below them until it is closed. It needs
  `OpcodesAssumption`: the scope operations are decode()'s own, and no opcode
  stands for one.

The proof of `DecodingNests` found `decode_accepts` too strict: `decode()` goes on
behind the end of a function and accepts scopes that are opened and closed there,
which an earlier version excluded and no file of `load` had. It was corrected, and
`MCLoad` has such files (`BehindEnd`).

Only model-checked, and why:

- `RunReturns` is liveness.
- `MatchesReference` and `InstanceAsEncoded` compare with recursive definitions;
  `LebCorrect` and the numeric and float properties are about bits.
- `TypeOK` of `Link`, `RegionsDisjoint`, `SectionsWhereTheyAre`, `ScanAgrees` and
  `Advances` depend on what the readers of fields, `scan()` and `decode_from`
  return. These are recursive functions, and what a recursive function computes
  for every input is beyond the provers.

## 5. Not modelled

`add`, `sub`, `mul`, `div` and `sqrt` of floats: one operation of the hardware
each, and products and quotients of magnitudes leave the integers TLC has. Float
operations are not actions of `Execution`: their operands would have to be bits,
and the words of the checked instances are too short for a float format with the
range of the integers. `Display` and error texts, `Clone` of memories, the
accessors of `Execution` and `into_instance*`, which end an `Execution`. The
opcode table is an enumeration, given as a constant. The WAST runner is test
code; the way it uses one `Execution` is the host of the runs.

## 6. How it was built, and what could follow

In this order: `Values`, `FrameOps`, `Execution`, `Numeric`,
`WasmReference`, the instances, `LinearMemory` with `MemorySpec`, and their
proofs; then `Leb128`, `Decode`, `Loader`, `Link` with `BinaryFormat` and
`LinkProofs`; then `Machine`, the composition of interpreter and memory, with
`MachineProofs`; then `Floats`; then the theorems `MachineCallersUntouched`,
`MemoryRefines`, `DecodingNests` and, on `NestingProofs`, `MachineScopesMatch`;
then `Validation` and `OperandProofs`, with `MachineOperandsAboveScopes` and
`MachineNoUnderflow`.

Could follow: that the memory of `Machine` refines `MemorySpec` as `LinearMemory`
does, for code whose addresses do not wrap, which needs the bases such code
computes; and heights for blocks with parameters, once the interpreter supports
them.
