--------------------------- MODULE NestingProofs ---------------------------
(***************************************************************************)
(* Lemmas about the operators on frames, and the nesting of decoded        *)
(* programs.  Which scopes are open at a place is kept as the sequence of  *)
(* their starts (Nest); it changes at the top only when a program is read  *)
(* operation by operation, which is what decode() does, and the jumps of   *)
(* execute() land where it is what they need.                              *)
(***************************************************************************)
EXTENDS FrameOps, ValuesProofs, WellFoundedInduction, FiniteSetTheorems

-----------------------------------------------------------------------------
(* The scans.                                                              *)

\* A set of naturals that is not empty has a least member, and no member is
\* below it.
LEMMA LeastBound ==
  ASSUME NEW T \in SUBSET Nat, T # {}
  PROVE  Least(T) \in T /\ \A j \in T : Least(T) <= j
<1> DEFINE P(i) == i \in T /\ \A j \in T : i <= j
<1>1. PICK x \in T : \A y \in T : ~ (<<y, x>> \in OpToRel(<, Nat))
  BY WFMin, NatLessThanWellFounded
<1>2. \A y \in T : x <= y
  <2> TAKE y \in T
  <2>1. ~ (y < x)
    BY <1>1 DEF OpToRel
  <2> QED
    BY <2>1
<1>3. P(x)
  BY <1>2
<1>4. P(CHOOSE i : P(i))
  BY <1>3, Zenon
<1>5. Least(T) = CHOOSE i : P(i)
  BY Zenon DEF Least
<1> QED
  BY <1>4, <1>5, Zenon

LEMMA LeastMember ==
  ASSUME NEW T \in SUBSET Nat, T # {}
  PROVE  Least(T) \in T
  BY LeastBound

\* A bounded set of naturals that is not empty has a greatest member.
LEMMA GreatestMember ==
  ASSUME NEW n \in Nat, NEW T \in SUBSET (0 .. n), T # {}
  PROVE  Greatest(T) \in T
<1> DEFINE U == {u \in 0 .. n : n - u \in T}
<1>1. U \in SUBSET Nat /\ U # {}
  <2>1. PICK t \in T : TRUE
    OBVIOUS
  <2>2. n - t \in U
    BY <2>1
  <2> QED
    BY <2>2
<1>2. PICK x \in U : \A y \in U : ~ (<<y, x>> \in OpToRel(<, Nat))
  BY <1>1, WFMin, NatLessThanWellFounded
<1>3. n - x \in T
  OBVIOUS
<1>4. \A j \in T : n - x >= j
  <2> TAKE j \in T
  <2>1. n - j \in U /\ n - j \in Nat /\ x \in Nat
    OBVIOUS
  <2>2. ~ (n - j < x)
    BY <1>2, <2>1 DEF OpToRel
  <2> QED
    BY <2>1, <2>2
<1> QED
  BY <1>3, <1>4 DEF Greatest

\* The greatest member is above the others.
LEMMA GreatestBound ==
  ASSUME NEW T, NEW x \in T, \A j \in T : x >= j
  PROVE  Greatest(T) \in T /\ \A j \in T : Greatest(T) >= j
<1> DEFINE P(i) == i \in T /\ \A j \in T : i >= j
<1>1. P(x)
  OBVIOUS
<1>2. P(CHOOSE i : P(i))
  BY <1>1, Zenon
<1>3. Greatest(T) = CHOOSE i : P(i)
  BY Zenon DEF Greatest
<1> QED
  BY <1>2, <1>3, Zenon

\* Every scan ends at a pc of the program, or at its end.
LEMMA SkipThenPc ==
  ASSUME NEW ops, Len(ops) \in Nat, NEW pc \in Nat
  PROVE  skip_then(ops, pc) \in 0 .. Len(ops)
<1> DEFINE stops == {i \in pc .. Len(ops) - 1 :
                  /\ At(ops, i).op = "Else" \/ IsEnd(At(ops, i), {"IfElse"})
                  /\ Starts(ops, pc, i, {"IfElse"})
                       = Ends(ops, pc, i, {"IfElse"})}
<1>1. stops \in SUBSET Nat /\ stops \in SUBSET (0 .. Len(ops) - 1)
  OBVIOUS
<1>2. stops # {} => Least(stops) \in 0 .. Len(ops) - 1
  BY <1>1, LeastMember
<1> HIDE DEF stops
<1>3. (IF stops = {} THEN Len(ops)
       ELSE IF At(ops, Least(stops)).op = "Else" THEN Least(stops) + 1
       ELSE Least(stops)) \in 0 .. Len(ops)
  BY <1>2
<1> QED
  BY <1>3 DEF skip_then, stops

LEMMA SkipElsePc ==
  ASSUME NEW ops, Len(ops) \in Nat, NEW pc \in Nat
  PROVE  skip_else(ops, pc) \in 0 .. Len(ops)
<1> DEFINE stops == {i \in pc .. Len(ops) - 1 :
                  /\ IsEnd(At(ops, i), {"IfElse"})
                  /\ Starts(ops, pc, i, {"IfElse"})
                       = Ends(ops, pc, i, {"IfElse"})}
<1>1. stops \in SUBSET Nat /\ stops \in SUBSET (0 .. Len(ops) - 1)
  OBVIOUS
<1>2. stops # {} => Least(stops) \in 0 .. Len(ops) - 1
  BY <1>1, LeastMember
<1> HIDE DEF stops
<1>3. (IF stops = {} THEN Len(ops) ELSE Least(stops)) \in 0 .. Len(ops)
  BY <1>2
<1> QED
  BY <1>3 DEF skip_else, stops

LEMMA LoopStartPc ==
  ASSUME NEW ops, NEW pc \in Nat
  PROVE  loop_start(ops, pc) \in 0 .. pc
<1> DEFINE stops == {i \in 0 .. pc - 1 :
                  /\ At(ops, i).op = "StartScope" /\ At(ops, i).scope = "Loop"
                  /\ Starts(ops, i + 1, pc, {"Loop"})
                       = Ends(ops, i + 1, pc, {"Loop"})}
<1>1. stops \in SUBSET (0 .. pc) /\ stops \in SUBSET (0 .. pc - 1)
  OBVIOUS
<1>2. ASSUME stops # {} PROVE Greatest(stops) \in 0 .. pc - 1
  <2>1. Greatest(stops) \in stops
    BY <1>1, <1>2, GreatestMember
  <2> QED
    BY <1>1, <2>1
<1> HIDE DEF stops
<1>3. (IF stops = {} THEN pc ELSE Greatest(stops) + 1) \in 0 .. pc
  BY <1>2
<1> QED
  BY <1>3 DEF loop_start, stops

LEMMA ScopeEndPc ==
  ASSUME NEW ops, Len(ops) \in Nat, NEW pc \in Nat, NEW depth
  PROVE  scope_end(ops, pc, depth) \in 0 .. Len(ops)
<1> DEFINE stops == {i \in pc .. Len(ops) - 1 :
                  /\ IsEnd(At(ops, i), ScopeTypes)
                  /\ depth + Starts(ops, pc, i, ScopeTypes)
                       = Ends(ops, pc, i, ScopeTypes)}
<1>1. stops \in SUBSET Nat /\ stops \in SUBSET (0 .. Len(ops) - 1)
  OBVIOUS
<1>2. stops # {} => Least(stops) \in 0 .. Len(ops) - 1
  BY <1>1, LeastMember
<1> HIDE DEF stops
<1>3. (IF stops = {} THEN Len(ops) ELSE Least(stops) + 1) \in 0 .. Len(ops)
  BY <1>2
<1> QED
  BY <1>3 DEF scope_end, stops

-----------------------------------------------------------------------------
(* Frames.                                                                 *)

\* A frame with some of its fields replaced.
LEMMA FrameWith ==
  ASSUME NEW f \in Frame, NEW pc \in Nat, NEW stack \in Seq(Word),
         NEW control \in Seq(Control), NEW locals \in Seq(Value)
  PROVE  [fn |-> f.fn, pc |-> pc, stack |-> stack, control |-> control,
          locals |-> locals] \in Frame
  BY DEF Frame

\* Signatures are lists of value types.
Signature == [fn : BOOLEAN, results : Seq(ValTypes)]

LEMMA ValueSigType ==
  ASSUME NEW ty \in ValTypes \cup {"Unit"}
  PROVE  ValueSig(ty) \in Signature
<1>1. "Unit" \notin ValTypes
  BY DEF ValTypes, RefTypes
<1>2. (IF ty = "Unit" THEN <<>> ELSE <<ty>>) \in Seq(ValTypes)
  BY <1>1
<1> QED
  BY <1>2 DEF ValueSig, Signature

LEMMA PushControlType ==
  ASSUME NEW f \in Frame, NEW sig \in Signature, NEW scope \in ScopeTypes
  PROVE  /\ push_control(f, sig, scope) \in Frame
         /\ push_control(f, sig, scope).fn = f.fn
         /\ push_control(f, sig, scope).locals = f.locals
<1> DEFINE c == [scope |-> scope, fn |-> sig.fn, results |-> sig.results,
                 width |-> Len(f.stack)]
<1>1. c \in Control
  BY DEF Control, Signature, Frame
<1>2. Append(f.control, c) \in Seq(Control)
  BY <1>1 DEF Frame
<1> QED
  BY <1>2 DEF push_control, Frame

\* What is left of an operand stack when results are carried out of a scope.
LEMMA CarriedType ==
  ASSUME NEW s \in Seq(Word), NEW tys \in Seq(ValTypes), CanPop(s, tys),
         NEW width \in Nat
  PROVE  PushValues(shrink_to(DropTop(s, Len(tys)), width), PopValues(s, tys))
           \in Seq(Word)
<1>1. DropTop(s, Len(tys)) \in Seq(Word)
  BY DropTopType DEF CanPop
<1>2. shrink_to(DropTop(s, Len(tys)), width) \in Seq(Word)
  BY <1>1, ShrinkType
<1> QED
  BY <1>2, PopValuesType, PushValuesType

\* The end of a scope, and a branch, keep the frame of the function and leave
\* its locals alone.
LEMMA EndScopeType ==
  ASSUME NEW f \in Frame, end_scope(f).fault = "None"
  PROVE  /\ end_scope(f).frame \in Frame
         /\ end_scope(f).frame.fn = f.fn
         /\ end_scope(f).frame.locals = f.locals
<1> DEFINE c == f.control[Len(f.control)]
           control == DropTop(f.control, 1)
           stack == PushValues(
                      shrink_to(DropTop(f.stack, Len(c.results)), c.width),
                      PopValues(f.stack, c.results))
<1>1. f.control # <<>> /\ CanPop(f.stack, c.results)
  BY DEF end_scope, Faulted
<1>2. end_scope(f).frame = [f EXCEPT !.control = control, !.stack = stack]
  BY <1>1 DEF end_scope, Fine
<1>3. f.control \in Seq(Control) /\ f.stack \in Seq(Word)
  BY DEF Frame
<1>4. c \in Control
  BY <1>1, <1>3
<1>5. control \in Seq(Control)
  BY <1>1, <1>3, DropTopType
<1>6. c.results \in Seq(ValTypes) /\ c.width \in Nat
  BY <1>4 DEF Control
<1>7. stack \in Seq(Word)
  BY <1>1, <1>3, <1>6, CarriedType
<1> HIDE DEF c, control, stack
<1> QED
  BY <1>2, <1>5, <1>7 DEF Frame

LEMMA BranchType ==
  ASSUME NEW f \in Frame, NEW ops, Len(ops) \in Nat, NEW depth \in Nat,
         execute_branch(f, ops, depth).fault = "None"
  PROVE  /\ execute_branch(f, ops, depth).frame \in Frame
         /\ execute_branch(f, ops, depth).frame.fn = f.fn
         /\ execute_branch(f, ops, depth).frame.locals = f.locals
<1> DEFINE n == Len(f.control)
           target == f.control[n - depth]
           popped == IF target.scope = "Loop" THEN depth ELSE depth + 1
           carried == IF ~ target.fn /\ f.stack = <<>> THEN <<>>
                      ELSE target.results
           control == DropTop(f.control, popped)
           stack == PushValues(
                      shrink_to(DropTop(f.stack, Len(carried)), target.width),
                      PopValues(f.stack, carried))
           pc == CASE target.scope = "Function" -> Len(ops)
                   [] target.scope = "Loop" -> loop_start(ops, f.pc)
                   [] OTHER -> scope_end(ops, f.pc, popped - 1)
<1>1. ~ (depth >= n) /\ CanPop(f.stack, carried)
  BY DEF execute_branch, Faulted
<1>2. execute_branch(f, ops, depth).frame
        = [f EXCEPT !.control = control, !.stack = stack, !.pc = pc]
  BY <1>1 DEF execute_branch, Fine
<1>3. f.control \in Seq(Control) /\ f.stack \in Seq(Word) /\ f.pc \in Nat
  BY DEF Frame
<1>4. target \in Control
  BY <1>1, <1>3
<1>5. control \in Seq(Control)
  <2>1. popped \in Nat /\ popped <= n
    BY <1>1, <1>3
  <2> QED
    BY <1>3, <2>1, DropTopType
<1>6. carried \in Seq(ValTypes) /\ target.width \in Nat
  BY <1>4 DEF Control
<1>7. stack \in Seq(Word)
  BY <1>1, <1>3, <1>6, CarriedType
<1>8. pc \in Nat
  BY <1>3, LoopStartPc, ScopeEndPc
<1> HIDE DEF n, target, popped, carried, control, stack, pc
<1> QED
  BY <1>2, <1>5, <1>7, <1>8 DEF Frame

\* What they do to the pc and to the control stack.
LEMMA EndScopeFields ==
  ASSUME NEW f \in Frame, end_scope(f).fault = "None"
  PROVE  /\ end_scope(f).frame.pc = f.pc
         /\ end_scope(f).frame.control = DropTop(f.control, 1)
<1> DEFINE c == f.control[Len(f.control)]
           stack == PushValues(
                      shrink_to(DropTop(f.stack, Len(c.results)), c.width),
                      PopValues(f.stack, c.results))
<1>1. f.control # <<>> /\ CanPop(f.stack, c.results)
  BY DEF end_scope, Faulted
<1>2. end_scope(f).frame
        = [f EXCEPT !.control = DropTop(@, 1), !.stack = stack]
  BY <1>1 DEF end_scope, Fine
<1> HIDE DEF stack
<1> QED
  BY <1>2 DEF Frame

LEMMA BranchFields ==
  ASSUME NEW f \in Frame, NEW ops, NEW depth \in Nat,
         execute_branch(f, ops, depth).fault = "None"
  PROVE  LET target == f.control[Len(f.control) - depth]
             popped == IF target.scope = "Loop" THEN depth ELSE depth + 1
             g == execute_branch(f, ops, depth).frame
         IN /\ depth < Len(f.control)
            /\ g.control = DropTop(f.control, popped)
            /\ g.pc = CASE target.scope = "Function" -> Len(ops)
                        [] target.scope = "Loop" -> loop_start(ops, f.pc)
                        [] OTHER -> scope_end(ops, f.pc, popped - 1)
<1> DEFINE n == Len(f.control)
           target == f.control[n - depth]
           popped == IF target.scope = "Loop" THEN depth ELSE depth + 1
           carried == IF ~ target.fn /\ f.stack = <<>> THEN <<>>
                      ELSE target.results
           control == DropTop(f.control, popped)
           stack == PushValues(
                      shrink_to(DropTop(f.stack, Len(carried)), target.width),
                      PopValues(f.stack, carried))
           pc == CASE target.scope = "Function" -> Len(ops)
                   [] target.scope = "Loop" -> loop_start(ops, f.pc)
                   [] OTHER -> scope_end(ops, f.pc, popped - 1)
<1>1. ~ (depth >= n) /\ CanPop(f.stack, carried)
  BY DEF execute_branch, Faulted
<1>2. execute_branch(f, ops, depth).frame
        = [f EXCEPT !.control = control, !.stack = stack, !.pc = pc]
  BY <1>1 DEF execute_branch, Fine
<1>3. depth < n
  <2>1. n \in Nat
    BY DEF Frame
  <2> HIDE DEF n
  <2> QED
    BY <1>1, <2>1
<1> HIDE DEF control, stack, pc
<1>4. /\ execute_branch(f, ops, depth).frame.control = control
      /\ execute_branch(f, ops, depth).frame.pc = pc
  BY <1>2 DEF Frame
<1> QED
  BY <1>3, <1>4 DEF control, pc

-----------------------------------------------------------------------------
(* The nesting of a program that grows by one operation at a time.         *)

\* The first n operations of two programs are the same.
Agree(ops, more, n) == \A j \in 0 .. n - 1 : At(more, j) = At(ops, j)

\* Counts of scopes are natural numbers.
LEMMA CountType ==
  ASSUME NEW ops, NEW a \in Nat, NEW b \in Nat, NEW S
  PROVE  Starts(ops, a, b, S) \in Nat /\ Ends(ops, a, b, S) \in Nat
<1> DEFINE s == {i \in a .. b - 1 :
                   At(ops, i).op = "StartScope" /\ At(ops, i).scope \in S}
           e == {i \in a .. b - 1 :
                   At(ops, i).op = "EndScope" /\ At(ops, i).scope \in S}
<1>1. IsFiniteSet(a .. b - 1)
  BY FS_Interval
<1>2. s \in SUBSET (a .. b - 1) /\ e \in SUBSET (a .. b - 1)
  OBVIOUS
<1>3. IsFiniteSet(s) /\ IsFiniteSet(e)
  <2> HIDE DEF s, e
  <2> QED
    BY <1>1, <1>2, FS_Subset
<1> QED
  BY <1>3, FS_CardinalityType DEF Starts, Ends

\* What one more operation adds to the counts.
LEMMA CountOne ==
  ASSUME NEW ops, NEW a \in Nat, NEW n \in Nat, a <= n, NEW S
  PROVE  /\ Starts(ops, a, n + 1, S) =
              Starts(ops, a, n, S) +
              (IF At(ops, n).op = "StartScope" /\ At(ops, n).scope \in S
               THEN 1 ELSE 0)
         /\ Ends(ops, a, n + 1, S) =
              Ends(ops, a, n, S) + (IF IsEnd(At(ops, n), S) THEN 1 ELSE 0)
<1> DEFINE s(b) == {i \in a .. b - 1 :
                      At(ops, i).op = "StartScope" /\ At(ops, i).scope \in S}
           e(b) == {i \in a .. b - 1 :
                      At(ops, i).op = "EndScope" /\ At(ops, i).scope \in S}
<1>1. IsFiniteSet(a .. n - 1)
  BY FS_Interval
<1>2. IsFiniteSet(s(n)) /\ IsFiniteSet(e(n))
  <2>1. s(n) \in SUBSET (a .. n - 1) /\ e(n) \in SUBSET (a .. n - 1)
    OBVIOUS
  <2> HIDE DEF s, e
  <2> QED
    BY <1>1, <2>1, FS_Subset
<1>3. a .. (n + 1) - 1 = (a .. n - 1) \cup {n} /\ n \notin a .. n - 1
  OBVIOUS
<1>4. n \notin s(n) /\ n \notin e(n)
  BY <1>3
<1>5. s(n + 1) = IF At(ops, n).op = "StartScope" /\ At(ops, n).scope \in S
                 THEN s(n) \cup {n} ELSE s(n)
  BY <1>3, Zenon
<1>6. e(n + 1) = IF IsEnd(At(ops, n), S) THEN e(n) \cup {n} ELSE e(n)
  BY <1>3, Zenon DEF IsEnd
<1>7. /\ Starts(ops, a, n + 1, S) = Cardinality(s(n + 1))
      /\ Starts(ops, a, n, S) = Cardinality(s(n))
      /\ Ends(ops, a, n + 1, S) = Cardinality(e(n + 1))
      /\ Ends(ops, a, n, S) = Cardinality(e(n))
  BY DEF Starts, Ends
<1> HIDE DEF s, e
<1>8. /\ Cardinality(s(n) \cup {n}) = Cardinality(s(n)) + 1
      /\ Cardinality(e(n) \cup {n}) = Cardinality(e(n)) + 1
      /\ Cardinality(s(n)) \in Nat /\ Cardinality(e(n)) \in Nat
  BY <1>2, <1>4, FS_AddElement, FS_CardinalityType
<1> QED
  BY <1>5, <1>6, <1>7, <1>8

\* No scopes are counted between a place and itself.
LEMMA CountNone ==
  ASSUME NEW ops, NEW a \in Nat, NEW S
  PROVE  Starts(ops, a, a, S) = 0 /\ Ends(ops, a, a, S) = 0
<1>1. a .. a - 1 = {}
  OBVIOUS
<1> QED
  BY <1>1, FS_EmptySet DEF Starts, Ends

\* What lies behind a place does not change the nesting up to it.
LEMMA SamePrefix ==
  ASSUME NEW ops, NEW more, NEW n \in Nat, Agree(ops, more, n)
  PROVE  /\ \A a \in Nat, b \in 0 .. n :
              /\ Starts(more, a, b, ScopeTypes) = Starts(ops, a, b, ScopeTypes)
              /\ Ends(more, a, b, ScopeTypes) = Ends(ops, a, b, ScopeTypes)
         /\ \A p \in 0 .. n : OpenScopes(more, p) = OpenScopes(ops, p)
         /\ \A p \in 0 .. n : Innermost(more, p) = Innermost(ops, p)
<1>1. ASSUME NEW a \in Nat, NEW b \in 0 .. n
      PROVE  /\ Starts(more, a, b, ScopeTypes) = Starts(ops, a, b, ScopeTypes)
             /\ Ends(more, a, b, ScopeTypes) = Ends(ops, a, b, ScopeTypes)
  <2>1. \A i \in a .. b - 1 : At(more, i) = At(ops, i)
    BY DEF Agree
  <2> QED
    BY <2>1, Zenon DEF Starts, Ends
<1>2. ASSUME NEW p \in 0 .. n
      PROVE  OpenScopes(more, p) = OpenScopes(ops, p)
  <2>1. ASSUME NEW i \in 0 .. p - 1
        PROVE  /\ At(more, i) = At(ops, i)
               /\ \A j \in i + 1 .. p - 1 :
                    /\ At(more, j) = At(ops, j)
                    /\ Starts(more, i + 1, j, ScopeTypes)
                         = Starts(ops, i + 1, j, ScopeTypes)
                    /\ Ends(more, i + 1, j, ScopeTypes)
                         = Ends(ops, i + 1, j, ScopeTypes)
    <3>1. At(more, i) = At(ops, i)
      BY DEF Agree
    <3>2. ASSUME NEW j \in i + 1 .. p - 1
          PROVE  At(more, j) = At(ops, j) /\ j \in 0 .. n /\ i + 1 \in Nat
      BY DEF Agree
    <3> QED
      BY <1>1, <3>1, <3>2, Zenon
  <2> QED
    BY <2>1, Zenon DEF OpenScopes
<1>3. ASSUME NEW p \in 0 .. n
      PROVE  Innermost(more, p) = Innermost(ops, p)
  <2>1. CASE OpenScopes(ops, p) = {}
    BY <1>2, <2>1 DEF Innermost
  <2>2. CASE OpenScopes(ops, p) # {}
    <3>1. p \in Nat /\ OpenScopes(ops, p) \in SUBSET (0 .. p)
      BY DEF OpenScopes
    <3>2. Greatest(OpenScopes(ops, p)) \in OpenScopes(ops, p)
      BY <2>2, <3>1, GreatestMember
    <3>3. Greatest(OpenScopes(ops, p)) \in 0 .. n - 1
      BY <3>2 DEF OpenScopes
    <3>4. At(more, Greatest(OpenScopes(ops, p)))
            = At(ops, Greatest(OpenScopes(ops, p)))
      BY <3>3 DEF Agree
    <3> QED
      BY <1>2, <2>2, <3>4, Zenon DEF Innermost
  <2> QED
    BY <2>1, <2>2
<1> QED
  BY <1>1, <1>2, <1>3

\* The scopes that are open behind one more operation.
LEMMA OpenOne ==
  ASSUME NEW ops, NEW n \in Nat
  PROVE  /\ IsEnd(At(ops, n), ScopeTypes) =>
              OpenScopes(ops, n + 1) =
                {i \in OpenScopes(ops, n) :
                   Starts(ops, i + 1, n, ScopeTypes)
                     # Ends(ops, i + 1, n, ScopeTypes)}
         /\ At(ops, n).op = "StartScope" =>
              OpenScopes(ops, n + 1) = OpenScopes(ops, n) \cup {n}
         /\ At(ops, n).op \notin {"StartScope", "EndScope"} =>
              OpenScopes(ops, n + 1) = OpenScopes(ops, n)
<1> DEFINE Open(i, p) ==
             \A j \in i + 1 .. p - 1 :
               IsEnd(At(ops, j), ScopeTypes) =>
                 Starts(ops, i + 1, j, ScopeTypes)
                   # Ends(ops, i + 1, j, ScopeTypes)
<1>1. \A p : OpenScopes(ops, p) =
               {i \in 0 .. p - 1 : At(ops, i).op = "StartScope" /\ Open(i, p)}
  BY DEF OpenScopes
<1>2. 0 .. (n + 1) - 1 = (0 .. n - 1) \cup {n} /\ n \notin 0 .. n - 1
  OBVIOUS
<1>3. ASSUME NEW i \in 0 .. n - 1
      PROVE  Open(i, n + 1) <=>
               /\ Open(i, n)
               /\ IsEnd(At(ops, n), ScopeTypes) =>
                    Starts(ops, i + 1, n, ScopeTypes)
                      # Ends(ops, i + 1, n, ScopeTypes)
  <2>1. i + 1 .. (n + 1) - 1 = (i + 1 .. n - 1) \cup {n}
    OBVIOUS
  <2> QED
    BY <2>1, Zenon
<1>4. Open(n, n + 1)
  <2>1. n + 1 .. (n + 1) - 1 = {}
    OBVIOUS
  <2> QED
    BY <2>1, Zenon
<1> HIDE DEF Open
<1>5. IsEnd(At(ops, n), ScopeTypes) => At(ops, n).op = "EndScope"
  BY DEF IsEnd
<1>6. At(ops, n).op = "EndScope" => At(ops, n).op # "StartScope"
  OBVIOUS
<1>7. CASE IsEnd(At(ops, n), ScopeTypes)
  BY <1>1, <1>2, <1>3, <1>5, <1>6, <1>7, Zenon
<1>8. CASE ~ IsEnd(At(ops, n), ScopeTypes)
  <2>1. \A i \in 0 .. n - 1 : Open(i, n + 1) <=> Open(i, n)
    BY <1>3, <1>8, Zenon
  <2>2. CASE At(ops, n).op = "StartScope"
    <3>1. \A i : i \in OpenScopes(ops, n + 1) <=> i \in OpenScopes(ops, n) \cup {n}
      BY <1>1, <1>2, <1>4, <2>1, <2>2, Zenon
    <3>2. OpenScopes(ops, n + 1) = OpenScopes(ops, n) \cup {n}
      BY <3>1
    <3> QED
      BY <1>8, <2>2, <3>2
  <2>3. CASE At(ops, n).op # "StartScope"
    <3>1. \A i : i \in OpenScopes(ops, n + 1) <=> i \in OpenScopes(ops, n)
      BY <1>1, <1>2, <2>1, <2>3, Zenon
    <3> QED
      BY <1>8, <2>3, <3>1
  <2> QED
    BY <1>8, <2>2, <2>3
<1> QED
  BY <1>5, <1>6, <1>7, <1>8, Zenon

\* Where the scopes that are open behind n operations start, outermost first:
\* behind each start there are as many starts more than ends as there are open
\* scopes within it.
Nest(ops, n, st) ==
  /\ st \in Seq(Nat)
  /\ OpenScopes(ops, n) = {st[k] : k \in 1 .. Len(st)}
  /\ \A k \in 1 .. Len(st) :
       Starts(ops, st[k] + 1, n, ScopeTypes)
         = Ends(ops, st[k] + 1, n, ScopeTypes) + (Len(st) - k)
  /\ \A j, k \in 1 .. Len(st) : j < k => st[j] < st[k]

\* The innermost of them is the one decode() has on top.
LEMMA NestInnermost ==
  ASSUME NEW ops, NEW n \in Nat, NEW st, Nest(ops, n, st)
  PROVE  Innermost(ops, n) =
           IF st = <<>> THEN "Program" ELSE At(ops, st[Len(st)]).scope
<1>1. st \in Seq(Nat) /\ Len(st) \in Nat
  BY DEF Nest
<1>2. CASE st = <<>>
  <2>1. OpenScopes(ops, n) = {}
    BY <1>2 DEF Nest
  <2> QED
    BY <1>2, <2>1 DEF Innermost
<1>3. CASE st # <<>>
  <2> DEFINE open == OpenScopes(ops, n)
             last == st[Len(st)]
  <2>1. Len(st) \in 1 .. Len(st) /\ last \in Nat
    BY <1>1, <1>3
  <2>2. last \in open
    BY <2>1 DEF Nest
  <2>3. \A j \in open : last >= j
    <3> TAKE j \in open
    <3>1. PICK k \in 1 .. Len(st) : j = st[k]
      BY DEF Nest
    <3>2. CASE k = Len(st)
      BY <2>1, <3>1, <3>2
    <3>3. CASE k < Len(st)
      <4>1. st[k] < last
        BY <2>1, <3>3 DEF Nest
      <4>2. st[k] \in Nat
        BY <1>1
      <4> QED
        BY <2>1, <3>1, <4>1, <4>2
    <3> QED
      BY <1>1, <3>2, <3>3
  <2>4. \A j \in open : j \in Nat
    BY DEF OpenScopes
  <2>5. Greatest(open) \in open /\ \A j \in open : Greatest(open) >= j
    <3> HIDE DEF open, last
    <3> QED
      BY <2>2, <2>3, GreatestBound
  <2>6. Greatest(open) = last
    <3> HIDE DEF open, last
    <3>1. Greatest(open) >= last /\ last >= Greatest(open)
      BY <2>2, <2>3, <2>5
    <3>2. Greatest(open) \in Nat /\ last \in Nat
      BY <2>1, <2>4, <2>5
    <3> QED
      BY <3>1, <3>2
  <2> QED
    BY <1>3, <2>2, <2>6, Zenon DEF Innermost
<1> QED
  BY <1>2, <1>3

\* The starts lie before the end of the program, and counts behind them are
\* numbers.
LEMMA NestTypes ==
  ASSUME NEW ops, NEW n \in Nat, NEW st, Nest(ops, n, st)
  PROVE  /\ Len(st) \in Nat
         /\ \A k \in 1 .. Len(st) :
              /\ st[k] \in Nat /\ st[k] < n
              /\ st[k] + 1 \in Nat /\ st[k] + 1 <= n
              /\ Starts(ops, st[k] + 1, n, ScopeTypes) \in Nat
              /\ Ends(ops, st[k] + 1, n, ScopeTypes) \in Nat
<1>1. st \in Seq(Nat) /\ Len(st) \in Nat
  BY DEF Nest
<1>2. ASSUME NEW k \in 1 .. Len(st)
      PROVE  /\ st[k] \in Nat /\ st[k] < n
             /\ st[k] + 1 \in Nat /\ st[k] + 1 <= n
             /\ Starts(ops, st[k] + 1, n, ScopeTypes) \in Nat
             /\ Ends(ops, st[k] + 1, n, ScopeTypes) \in Nat
  <2>1. st[k] \in Nat
    BY <1>1
  <2>2. st[k] \in OpenScopes(ops, n)
    BY DEF Nest
  <2>3. st[k] < n
    BY <2>2 DEF OpenScopes
  <2>4. st[k] + 1 \in Nat /\ st[k] + 1 <= n
    BY <2>1, <2>3
  <2> QED
    BY <2>1, <2>3, <2>4, CountType
<1> QED
  BY <1>1, <1>2

\* An operation that neither opens nor closes a scope leaves them alone.
LEMMA NestPlain ==
  ASSUME NEW ops, NEW n \in Nat, NEW st, Nest(ops, n, st),
         At(ops, n).op \notin {"StartScope", "EndScope"}
  PROVE  Nest(ops, n + 1, st)
<1>1. OpenScopes(ops, n + 1) = OpenScopes(ops, n)
  BY OpenOne
<1>2. ~ IsEnd(At(ops, n), ScopeTypes)
  BY DEF IsEnd
<1>3. ASSUME NEW k \in 1 .. Len(st)
      PROVE  /\ Starts(ops, st[k] + 1, n + 1, ScopeTypes)
                  = Starts(ops, st[k] + 1, n, ScopeTypes)
             /\ Ends(ops, st[k] + 1, n + 1, ScopeTypes)
                  = Ends(ops, st[k] + 1, n, ScopeTypes)
  <2>1. /\ st[k] + 1 \in Nat /\ st[k] + 1 <= n
        /\ Starts(ops, st[k] + 1, n, ScopeTypes) \in Nat
        /\ Ends(ops, st[k] + 1, n, ScopeTypes) \in Nat
    BY NestTypes
  <2> QED
    BY <1>2, <2>1, CountOne
<1> QED
  BY <1>1, <1>3, Zenon DEF Nest

\* The start of a scope opens one more.
LEMMA NestStart ==
  ASSUME NEW ops, NEW n \in Nat, NEW st, Nest(ops, n, st),
         At(ops, n).op = "StartScope", At(ops, n).scope \in ScopeTypes
  PROVE  Nest(ops, n + 1, Append(st, n))
<1> DEFINE more == Append(st, n)
<1>1. st \in Seq(Nat) /\ Len(st) \in Nat
  BY DEF Nest
<1>2. /\ more \in Seq(Nat) /\ Len(more) = Len(st) + 1
      /\ \A k \in 1 .. Len(st) : more[k] = st[k]
      /\ more[Len(st) + 1] = n
  BY <1>1
<1>3. 1 .. Len(more) = (1 .. Len(st)) \cup {Len(st) + 1}
  BY <1>1, <1>2
<1> HIDE DEF more
<1>4. OpenScopes(ops, n + 1) = {more[k] : k \in 1 .. Len(more)}
  <2>1. OpenScopes(ops, n + 1) = OpenScopes(ops, n) \cup {n}
    BY OpenOne
  <2>2. OpenScopes(ops, n) = {st[k] : k \in 1 .. Len(st)}
    BY DEF Nest
  <2>3. \A i : i \in OpenScopes(ops, n + 1) <=>
                 \E k \in 1 .. Len(more) : i = more[k]
    BY <1>2, <1>3, <2>1, <2>2, Zenon
  <2> QED
    BY <2>3
<1>5. ~ IsEnd(At(ops, n), ScopeTypes)
  BY DEF IsEnd
<1>6. ASSUME NEW k \in 1 .. Len(more)
      PROVE  Starts(ops, more[k] + 1, n + 1, ScopeTypes)
               = Ends(ops, more[k] + 1, n + 1, ScopeTypes) + (Len(more) - k)
  <2>1. CASE k \in 1 .. Len(st)
    <3>1. /\ st[k] + 1 \in Nat /\ st[k] + 1 <= n
          /\ Starts(ops, st[k] + 1, n, ScopeTypes) \in Nat
          /\ Ends(ops, st[k] + 1, n, ScopeTypes) \in Nat
      BY <2>1, NestTypes
    <3>2. /\ Starts(ops, st[k] + 1, n + 1, ScopeTypes)
               = Starts(ops, st[k] + 1, n, ScopeTypes) + 1
          /\ Ends(ops, st[k] + 1, n + 1, ScopeTypes)
               = Ends(ops, st[k] + 1, n, ScopeTypes)
      BY <1>5, <3>1, CountOne
    <3>3. Starts(ops, st[k] + 1, n, ScopeTypes)
            = Ends(ops, st[k] + 1, n, ScopeTypes) + (Len(st) - k)
      BY <2>1 DEF Nest
    <3>4. more[k] = st[k]
      BY <1>2, <2>1
    <3> QED
      BY <1>1, <1>2, <3>1, <3>2, <3>3, <3>4
  <2>2. CASE k = Len(st) + 1
    BY <1>1, <1>2, <2>2, CountNone
  <2> QED
    BY <1>3, <2>1, <2>2
<1>7. ASSUME NEW j \in 1 .. Len(more), NEW k \in 1 .. Len(more), j < k
      PROVE  more[j] < more[k]
  <2>1. j \in 1 .. Len(st) /\ more[j] = st[j]
    BY <1>1, <1>2, <1>7
  <2>2. CASE k \in 1 .. Len(st)
    BY <1>2, <1>7, <2>1, <2>2 DEF Nest
  <2>3. CASE k = Len(st) + 1
    BY <1>2, <2>1, <2>3, NestTypes
  <2> QED
    BY <1>3, <2>2, <2>3
<1> QED
  BY <1>2, <1>4, <1>6, <1>7 DEF more, Nest

\* The end of a scope closes the innermost one.
LEMMA NestEnd ==
  ASSUME NEW ops, NEW n \in Nat, NEW st, Nest(ops, n, st),
         IsEnd(At(ops, n), ScopeTypes)
  PROVE  Nest(ops, n + 1, IF st = <<>> THEN <<>> ELSE DropTop(st, 1))
<1>0. st \in Seq(Nat) /\ Len(st) \in Nat
  BY DEF Nest
<1>1. OpenScopes(ops, n + 1) =
        {i \in OpenScopes(ops, n) :
           Starts(ops, i + 1, n, ScopeTypes) # Ends(ops, i + 1, n, ScopeTypes)}
  BY OpenOne
<1>2. OpenScopes(ops, n) = {st[k] : k \in 1 .. Len(st)}
  BY DEF Nest
<1>3. CASE st = <<>>
  <2>1. OpenScopes(ops, n + 1) = {}
    BY <1>1, <1>2, <1>3
  <2> QED
    BY <1>3, <2>1 DEF Nest
<1>4. CASE st # <<>>
  <2> DEFINE fewer == DropTop(st, 1)
  <2>1. /\ fewer \in Seq(Nat) /\ Len(fewer) = Len(st) - 1 /\ Len(fewer) \in Nat
        /\ \A k \in 1 .. Len(fewer) : fewer[k] = st[k]
    <3>1. 1 \in Nat /\ 1 <= Len(st)
      BY <1>0, <1>4
    <3>2. /\ DropTop(st, 1) \in Seq(Nat) /\ Len(DropTop(st, 1)) = Len(st) - 1
          /\ \A k \in 1 .. Len(st) - 1 : DropTop(st, 1)[k] = st[k]
      BY <1>0, <3>1, DropTopType
    <3> QED
      BY <1>0, <3>1, <3>2
  <2> HIDE DEF fewer
  <2>2. 1 .. Len(st) = (1 .. Len(fewer)) \cup {Len(st)}
    BY <1>0, <2>1
  <2>3. ASSUME NEW k \in 1 .. Len(st)
        PROVE  Starts(ops, st[k] + 1, n, ScopeTypes)
                 # Ends(ops, st[k] + 1, n, ScopeTypes) <=> k \in 1 .. Len(fewer)
    <3>1. /\ Starts(ops, st[k] + 1, n, ScopeTypes) \in Nat
          /\ Ends(ops, st[k] + 1, n, ScopeTypes) \in Nat
      BY NestTypes
    <3>2. Starts(ops, st[k] + 1, n, ScopeTypes)
            = Ends(ops, st[k] + 1, n, ScopeTypes) + (Len(st) - k)
      BY DEF Nest
    <3> QED
      BY <1>0, <2>1, <3>1, <3>2
  <2>4. OpenScopes(ops, n + 1) = {fewer[k] : k \in 1 .. Len(fewer)}
    <3>1. \A i : i \in OpenScopes(ops, n + 1) <=>
                   \E k \in 1 .. Len(fewer) : i = st[k]
      BY <1>1, <1>2, <2>2, <2>3, Zenon
    <3> QED
      BY <2>1, <3>1
  <2>5. ASSUME NEW k \in 1 .. Len(fewer)
        PROVE  Starts(ops, fewer[k] + 1, n + 1, ScopeTypes)
                 = Ends(ops, fewer[k] + 1, n + 1, ScopeTypes) + (Len(fewer) - k)
    <3>1. k \in 1 .. Len(st) /\ fewer[k] = st[k]
      BY <2>1, <2>2
    <3>2. /\ st[k] + 1 \in Nat /\ st[k] + 1 <= n
          /\ Starts(ops, st[k] + 1, n, ScopeTypes) \in Nat
          /\ Ends(ops, st[k] + 1, n, ScopeTypes) \in Nat
      BY <3>1, NestTypes
    <3>3. /\ Starts(ops, st[k] + 1, n + 1, ScopeTypes)
               = Starts(ops, st[k] + 1, n, ScopeTypes)
          /\ Ends(ops, st[k] + 1, n + 1, ScopeTypes)
               = Ends(ops, st[k] + 1, n, ScopeTypes) + 1
      <4>1. At(ops, n).op # "StartScope"
        BY DEF IsEnd
      <4> QED
        BY <3>2, <4>1, CountOne
    <3>4. Starts(ops, st[k] + 1, n, ScopeTypes)
            = Ends(ops, st[k] + 1, n, ScopeTypes) + (Len(st) - k)
      BY <3>1 DEF Nest
    <3> QED
      BY <1>0, <2>1, <3>1, <3>2, <3>3, <3>4
  <2>6. ASSUME NEW j \in 1 .. Len(fewer), NEW k \in 1 .. Len(fewer), j < k
        PROVE  fewer[j] < fewer[k]
    BY <2>1, <2>2, <2>6 DEF Nest
  <2>7. Nest(ops, n + 1, fewer)
    BY <2>1, <2>4, <2>5, <2>6 DEF Nest
  <2> QED
    BY <1>4, <2>7 DEF fewer
<1> QED
  BY <1>3, <1>4

\* The function was closed within the first n operations.
Ended(ops, n) == \E j \in 0 .. n - 1 : IsEnd(At(ops, j), {"Program"})

\* The scope stack of decode() behind n operations: the function at the bottom
\* until it is closed, and above it the kinds of the open scopes.
Kinds(ops, n, st, scopes) ==
  LET base == IF Ended(ops, n) THEN 0 ELSE 1
  IN /\ scopes \in Seq(ScopeTypes)
     /\ Len(scopes) = Len(st) + base
     /\ ~ Ended(ops, n) => scopes[1] = "Program"
     /\ \A k \in 1 .. Len(st) :
          scopes[base + k] = At(ops, st[k]).scope /\ scopes[base + k] # "Program"

NestedBy(ops, n, scopes) == \E st : Nest(ops, n, st) /\ Kinds(ops, n, st, scopes)

\* The condition decode_accepts puts on operation i.
Accepted(ops, i) ==
  LET o == At(ops, i)
      opens_if == i > 0 /\ At(ops, i - 1).op = "StartScope"
                        /\ At(ops, i - 1).scope = "IfElse"
  IN /\ o.op = "EndScope" =>
          o.scope = Innermost(ops, i) /\ (o.scope = "Program" => ~ Ended(ops, i))
     /\ o.op = "Else" => Innermost(ops, i) = "IfElse"
     /\ o.op = "If" <=> opens_if
     /\ o.op = "StartScope" => o.scope \in {"Block", "Loop", "IfElse"}

\* What lies behind a place does not change what decode() had there.
LEMMA NestedPrefix ==
  ASSUME NEW ops, NEW more, NEW n \in Nat, Agree(ops, more, n), NEW scopes,
         NestedBy(ops, n, scopes)
  PROVE  NestedBy(more, n, scopes)
<1>1. PICK st : Nest(ops, n, st) /\ Kinds(ops, n, st, scopes)
  BY DEF NestedBy
<1>2. /\ OpenScopes(more, n) = OpenScopes(ops, n)
      /\ \A k \in 1 .. Len(st) :
           /\ Starts(more, st[k] + 1, n, ScopeTypes)
                = Starts(ops, st[k] + 1, n, ScopeTypes)
           /\ Ends(more, st[k] + 1, n, ScopeTypes)
                = Ends(ops, st[k] + 1, n, ScopeTypes)
           /\ At(more, st[k]) = At(ops, st[k])
  <2>1. \A k \in 1 .. Len(st) :
          st[k] + 1 \in Nat /\ st[k] \in 0 .. n - 1
    BY <1>1, NestTypes
  <2>2. n \in 0 .. n
    OBVIOUS
  <2>3. OpenScopes(more, n) = OpenScopes(ops, n)
    BY <2>2, SamePrefix
  <2>4. \A k \in 1 .. Len(st) : At(more, st[k]) = At(ops, st[k])
    BY <2>1 DEF Agree
  <2>5. \A k \in 1 .. Len(st) :
          /\ Starts(more, st[k] + 1, n, ScopeTypes)
               = Starts(ops, st[k] + 1, n, ScopeTypes)
          /\ Ends(more, st[k] + 1, n, ScopeTypes)
               = Ends(ops, st[k] + 1, n, ScopeTypes)
    BY <2>1, <2>2, SamePrefix
  <2> QED
    BY <2>3, <2>4, <2>5
<1>3. Ended(more, n) <=> Ended(ops, n)
  BY Zenon DEF Agree, Ended
<1>4. Nest(more, n, st)
  BY <1>1, <1>2, Zenon DEF Nest
<1>5. Kinds(more, n, st, scopes)
  BY <1>1, <1>2, <1>3, Zenon DEF Kinds
<1> QED
  BY <1>4, <1>5 DEF NestedBy

\* The top of decode()'s scope stack is the innermost scope, and the function
\* is on top only while it is open.
LEMMA NestedTop ==
  ASSUME NEW ops, NEW n \in Nat, NEW scopes, NestedBy(ops, n, scopes),
         scopes # <<>>
  PROVE  /\ Top(scopes) \in ScopeTypes /\ Top(scopes) = Innermost(ops, n)
         /\ Top(scopes) = "Program" => ~ Ended(ops, n)
<1>1. PICK st : Nest(ops, n, st) /\ Kinds(ops, n, st, scopes)
  BY DEF NestedBy
<1> DEFINE base == IF Ended(ops, n) THEN 0 ELSE 1
<1>2. /\ scopes \in Seq(ScopeTypes) /\ Len(scopes) = Len(st) + base
      /\ ~ Ended(ops, n) => scopes[1] = "Program"
      /\ \A k \in 1 .. Len(st) :
           scopes[base + k] = At(ops, st[k]).scope /\ scopes[base + k] # "Program"
  BY <1>1 DEF Kinds
<1>3. st \in Seq(Nat) /\ Len(st) \in Nat /\ base \in {0, 1}
  BY <1>1 DEF Nest
<1>4. Innermost(ops, n) =
        IF st = <<>> THEN "Program" ELSE At(ops, st[Len(st)]).scope
  BY <1>1, NestInnermost
<1>5. Len(scopes) \in 1 .. Len(scopes)
  BY <1>2
<1>6. Top(scopes) = scopes[Len(scopes)] /\ Top(scopes) \in ScopeTypes
  BY <1>2, <1>5 DEF Top
<1>7. CASE st = <<>>
  <2>1. Len(st) = 0
    BY <1>7
  <2>2. base = 1 /\ Len(scopes) = 1
    BY <1>2, <1>3, <1>5, <2>1
  <2>3. ~ Ended(ops, n)
    BY <2>2
  <2> QED
    BY <1>2, <1>4, <1>6, <1>7, <2>2, <2>3
<1>8. CASE st # <<>>
  <2>1. Len(st) \in 1 .. Len(st) /\ Len(scopes) = base + Len(st)
    BY <1>2, <1>3, <1>8
  <2> QED
    BY <1>2, <1>4, <1>6, <1>8, <2>1
<1> QED
  BY <1>7, <1>8

\* Whether the function was closed, one operation later.
LEMMA EndedOne ==
  ASSUME NEW ops, NEW n \in Nat
  PROVE  Ended(ops, n + 1) <=> Ended(ops, n) \/ IsEnd(At(ops, n), {"Program"})
<1>1. 0 .. (n + 1) - 1 = (0 .. n - 1) \cup {n}
  OBVIOUS
<1> QED
  BY <1>1, Zenon DEF Ended

\* decode() translates an opcode that is no scope's.
LEMMA NestedPlain ==
  ASSUME NEW ops, NEW n \in Nat, NEW scopes, NestedBy(ops, n, scopes),
         At(ops, n).op \notin {"StartScope", "EndScope"}
  PROVE  NestedBy(ops, n + 1, scopes)
<1>1. PICK st : Nest(ops, n, st) /\ Kinds(ops, n, st, scopes)
  BY DEF NestedBy
<1>2. Nest(ops, n + 1, st)
  BY <1>1, NestPlain
<1>3. Ended(ops, n + 1) <=> Ended(ops, n)
  BY EndedOne DEF IsEnd
<1>4. Kinds(ops, n + 1, st, scopes)
  BY <1>1, <1>3, Zenon DEF Kinds
<1> QED
  BY <1>2, <1>4 DEF NestedBy

\* decode() opens a scope.
LEMMA NestedStart ==
  ASSUME NEW ops, NEW n \in Nat, NEW scopes, NestedBy(ops, n, scopes),
         At(ops, n).op = "StartScope",
         At(ops, n).scope \in ScopeTypes \ {"Program"}
  PROVE  NestedBy(ops, n + 1, Append(scopes, At(ops, n).scope))
<1>1. PICK st : Nest(ops, n, st) /\ Kinds(ops, n, st, scopes)
  BY DEF NestedBy
<1> DEFINE base == IF Ended(ops, n) THEN 0 ELSE 1
           starts == Append(st, n)
           kind == At(ops, n).scope
           kinds == Append(scopes, kind)
<1>2. Nest(ops, n + 1, starts)
  BY <1>1, NestStart
<1>3. Ended(ops, n + 1) <=> Ended(ops, n)
  BY EndedOne DEF IsEnd
<1>4. /\ scopes \in Seq(ScopeTypes) /\ Len(scopes) = Len(st) + base
      /\ ~ Ended(ops, n) => scopes[1] = "Program"
      /\ \A k \in 1 .. Len(st) :
           scopes[base + k] = At(ops, st[k]).scope /\ scopes[base + k] # "Program"
  BY <1>1 DEF Kinds
<1>5. st \in Seq(Nat) /\ Len(st) \in Nat /\ base \in {0, 1}
  BY <1>1 DEF Nest
<1>6. /\ Len(starts) = Len(st) + 1 /\ starts[Len(st) + 1] = n
      /\ \A k \in 1 .. Len(st) : starts[k] = st[k]
  BY <1>5
<1>7. /\ kinds \in Seq(ScopeTypes) /\ Len(kinds) = Len(scopes) + 1
      /\ kinds[Len(scopes) + 1] = kind
      /\ \A k \in 1 .. Len(scopes) : kinds[k] = scopes[k]
  <2>1. kind \in ScopeTypes
    OBVIOUS
  <2> HIDE DEF kind
  <2> QED
    BY <1>4, <2>1
<1>8. ~ Ended(ops, n) => base = 1
  OBVIOUS
<1> HIDE DEF base, starts, kinds
<1>9. Len(kinds) = Len(starts) + base
  BY <1>4, <1>5, <1>6, <1>7
<1>10. ~ Ended(ops, n) => kinds[1] = "Program"
  <2>1. ~ Ended(ops, n) => 1 \in 1 .. Len(scopes)
    BY <1>4, <1>5, <1>8
  <2> QED
    BY <1>4, <1>7, <2>1
<1>11. ASSUME NEW k \in 1 .. Len(starts)
       PROVE  /\ kinds[base + k] = At(ops, starts[k]).scope
              /\ kinds[base + k] # "Program"
  <2>1. CASE k \in 1 .. Len(st)
    <3>1. base + k \in 1 .. Len(scopes)
      BY <1>4, <1>5, <2>1
    <3> QED
      BY <1>4, <1>6, <1>7, <2>1, <3>1
  <2>2. CASE k = Len(st) + 1
    <3>1. base + k = Len(scopes) + 1
      BY <1>4, <1>5, <2>2
    <3> QED
      BY <1>6, <1>7, <2>2, <3>1
  <2> QED
    BY <1>5, <1>6, <2>1, <2>2
<1>12. Kinds(ops, n + 1, starts, kinds)
  BY <1>3, <1>7, <1>9, <1>10, <1>11, Zenon DEF Kinds, base
<1> QED
  BY <1>2, <1>12 DEF NestedBy, kinds

\* decode() closes a scope, which is the function when no other is open.
LEMMA NestedEnd ==
  ASSUME NEW ops, NEW n \in Nat, NEW scopes, NestedBy(ops, n, scopes),
         scopes # <<>>,
         At(ops, n).op = "EndScope", At(ops, n).scope = Top(scopes)
  PROVE  NestedBy(ops, n + 1, DropTop(scopes, 1))
<1>1. PICK st : Nest(ops, n, st) /\ Kinds(ops, n, st, scopes)
  BY DEF NestedBy
<1> DEFINE base == IF Ended(ops, n) THEN 0 ELSE 1
           kinds == DropTop(scopes, 1)
<1>2. /\ scopes \in Seq(ScopeTypes) /\ Len(scopes) = Len(st) + base
      /\ ~ Ended(ops, n) => scopes[1] = "Program"
      /\ \A k \in 1 .. Len(st) :
           scopes[base + k] = At(ops, st[k]).scope /\ scopes[base + k] # "Program"
  BY <1>1 DEF Kinds
<1>3. st \in Seq(Nat) /\ Len(st) \in Nat /\ base \in {0, 1}
  BY <1>1 DEF Nest
<1>4. 1 \in Nat /\ 1 <= Len(scopes)
  BY <1>2
<1>5. /\ kinds \in Seq(ScopeTypes) /\ Len(kinds) = Len(scopes) - 1
      /\ \A k \in 1 .. Len(scopes) - 1 : kinds[k] = scopes[k]
  BY <1>2, <1>4, DropTopType
<1>6. Top(scopes) \in ScopeTypes
  BY NestedTop
<1>7. IsEnd(At(ops, n), ScopeTypes)
  BY <1>6 DEF IsEnd
<1> HIDE DEF kinds
<1>8. CASE st = <<>>
  <2>1. Len(st) = 0
    BY <1>8
  <2>2. base = 1 /\ Len(scopes) = 1 /\ ~ Ended(ops, n)
    BY <1>2, <1>3, <1>4, <2>1
  <2>3. Ended(ops, n + 1)
    <3>1. Top(scopes) = "Program"
      BY <1>2, <2>2 DEF Top
    <3> QED
      BY <3>1, EndedOne DEF IsEnd
  <2>4. Nest(ops, n + 1, <<>>)
    BY <1>1, <1>7, <1>8, NestEnd
  <2>5. Kinds(ops, n + 1, <<>>, kinds)
    <3>1. Len(kinds) = Len(<<>>) + 0
      BY <1>5, <2>2
    <3>2. \A k \in 1 .. Len(<<>>) : FALSE
      OBVIOUS
    <3> QED
      BY <1>5, <2>3, <3>1, <3>2, Zenon DEF Kinds
  <2> QED
    BY <2>4, <2>5 DEF NestedBy, kinds
<1>9. CASE st # <<>>
  <2> DEFINE starts == DropTop(st, 1)
  <2>1. 1 <= Len(st)
    BY <1>3, <1>9
  <2>2. /\ Len(starts) = Len(st) - 1
        /\ \A k \in 1 .. Len(st) - 1 : starts[k] = st[k]
    BY <1>3, <1>4, <2>1, DropTopType
  <2>3. Nest(ops, n + 1, starts)
    BY <1>1, <1>7, <1>9, NestEnd
  <2>4. Top(scopes) # "Program"
    <3>1. Len(st) \in 1 .. Len(st) /\ Len(scopes) = base + Len(st)
      BY <1>2, <1>3, <2>1
    <3> QED
      BY <1>2, <3>1 DEF Top
  <2>5. Ended(ops, n + 1) <=> Ended(ops, n)
    BY <2>4, EndedOne DEF IsEnd
  <2>6. ~ Ended(ops, n) => base = 1
    OBVIOUS
  <2> HIDE DEF base, starts
  <2>7. Len(kinds) = Len(starts) + base
    BY <1>2, <1>3, <1>5, <2>2
  <2>8. ~ Ended(ops, n) => kinds[1] = "Program"
    <3>1. ~ Ended(ops, n) => 1 \in 1 .. Len(scopes) - 1
      BY <1>2, <1>3, <2>1, <2>6
    <3> QED
      BY <1>2, <1>5, <3>1
  <2>9. ASSUME NEW k \in 1 .. Len(starts)
        PROVE  /\ kinds[base + k] = At(ops, starts[k]).scope
               /\ kinds[base + k] # "Program"
    <3>1. k \in 1 .. Len(st) /\ k \in 1 .. Len(st) - 1
      BY <1>3, <2>2
    <3>2. base + k \in 1 .. Len(scopes) - 1
      BY <1>2, <1>3, <3>1
    <3> QED
      BY <1>2, <1>5, <2>2, <3>1, <3>2
  <2>10. Kinds(ops, n + 1, starts, kinds)
    BY <1>5, <2>5, <2>7, <2>8, <2>9, Zenon DEF Kinds, base
  <2> QED
    BY <2>3, <2>10 DEF NestedBy, kinds
<1> QED
  BY <1>8, <1>9

\* A program decode() could have emitted remains one with one more operation,
\* if it could have emitted that one there.
LEMMA AcceptsOne ==
  ASSUME NEW ops, NEW more, Len(ops) \in Nat, Len(more) = Len(ops) + 1,
         Agree(ops, more, Len(ops)), decode_accepts(ops),
         Accepted(more, Len(ops))
  PROVE  decode_accepts(more)
<1> DEFINE n == Len(ops)
<1>1. ASSUME NEW i \in 0 .. n - 1
      PROVE  Accepted(more, i)
  <2>1. Accepted(ops, i)
    BY DEF decode_accepts, Accepted, Ended
  <2>2. At(more, i) = At(ops, i) /\ (i > 0 => At(more, i - 1) = At(ops, i - 1))
    BY DEF Agree
  <2>3. Innermost(more, i) = Innermost(ops, i)
    <3>1. i \in 0 .. n
      OBVIOUS
    <3> QED
      BY <3>1, SamePrefix
  <2>4. Ended(more, i) <=> Ended(ops, i)
    <3>1. \A j \in 0 .. i - 1 : At(more, j) = At(ops, j)
      BY DEF Agree
    <3> QED
      BY <3>1, Zenon DEF Ended
  <2> QED
    BY <2>1, <2>2, <2>3, <2>4, Zenon DEF Accepted
<1>2. 0 .. Len(more) - 1 = (0 .. n - 1) \cup {n}
  OBVIOUS
<1>3. \A i \in 0 .. Len(more) - 1 : Accepted(more, i)
  BY <1>1, <1>2, Zenon
<1> QED
  BY <1>3 DEF decode_accepts, Accepted, Ended

-----------------------------------------------------------------------------
(* The nesting at any place of a program.                                  *)

\* Every operation has one of the kinds of scopes.
Scoped(ops) == \A i \in 0 .. Len(ops) - 1 : At(ops, i).scope \in ScopeTypes

\* The starts of the open scopes are what they are.
LEMMA NestUnique ==
  ASSUME NEW ops, NEW n \in Nat, NEW s, NEW t, Nest(ops, n, s), Nest(ops, n, t)
  PROVE  s = t
<1>1. s \in Seq(Nat) /\ t \in Seq(Nat) /\ Len(s) \in Nat /\ Len(t) \in Nat
  BY DEF Nest
<1>2. ASSUME NEW j \in 1 .. Len(s), NEW k \in 1 .. Len(t), s[j] = t[k]
      PROVE  Len(s) - j = Len(t) - k
  <2>1. /\ Starts(ops, s[j] + 1, n, ScopeTypes) \in Nat
        /\ Ends(ops, s[j] + 1, n, ScopeTypes) \in Nat
    BY NestTypes
  <2>2. /\ Starts(ops, s[j] + 1, n, ScopeTypes)
             = Ends(ops, s[j] + 1, n, ScopeTypes) + (Len(s) - j)
        /\ Starts(ops, s[j] + 1, n, ScopeTypes)
             = Ends(ops, s[j] + 1, n, ScopeTypes) + (Len(t) - k)
    BY <1>2 DEF Nest
  <2> DEFINE a == Starts(ops, s[j] + 1, n, ScopeTypes)
             b == Ends(ops, s[j] + 1, n, ScopeTypes)
             x == Len(s) - j
             y == Len(t) - k
  <2>3. x \in Int /\ y \in Int
    BY <1>1
  <2>4. a \in Nat /\ b \in Nat /\ a = b + x /\ a = b + y
    BY <2>1, <2>2
  <2> HIDE DEF a, b, x, y
  <2>5. x = y
    BY <2>3, <2>4
  <2> QED
    BY <2>5 DEF x, y
<1>3. /\ \A j \in 1 .. Len(s) : \E k \in 1 .. Len(t) : s[j] = t[k]
      /\ \A k \in 1 .. Len(t) : \E j \in 1 .. Len(s) : s[j] = t[k]
  <2>1. {s[j] : j \in 1 .. Len(s)} = {t[k] : k \in 1 .. Len(t)}
    BY DEF Nest
  <2> QED
    BY <2>1
<1>4. Len(s) = Len(t)
  <2>1. CASE Len(s) = 0 \/ Len(t) = 0
    BY <1>1, <1>3, <2>1
  <2>2. CASE Len(s) # 0 /\ Len(t) # 0
    <3>1. 1 \in 1 .. Len(s) /\ 1 \in 1 .. Len(t)
      BY <1>1, <2>2
    <3>2. PICK k \in 1 .. Len(t) : s[1] = t[k]
      BY <1>3, <3>1
    <3>3. PICK j \in 1 .. Len(s) : s[j] = t[1]
      BY <1>3, <3>1
    <3>4. Len(s) - 1 = Len(t) - k /\ Len(s) - j = Len(t) - 1
      BY <1>2, <3>1, <3>2, <3>3
    <3> QED
      BY <1>1, <3>4
  <2> QED
    BY <2>1, <2>2
<1>5. ASSUME NEW j \in 1 .. Len(s)
      PROVE  s[j] = t[j]
  <2>1. PICK k \in 1 .. Len(t) : s[j] = t[k]
    BY <1>3
  <2>2. Len(s) - j = Len(t) - k
    BY <1>2, <2>1
  <2>3. j = k
    BY <1>1, <1>4, <2>2
  <2> QED
    BY <2>1, <2>3
<1> QED
  BY <1>1, <1>4, <1>5, SeqEqual

\* There is a nest at every place, and it changes at the top.
LEMMA NestNext ==
  ASSUME NEW ops, Len(ops) \in Nat, Scoped(ops), NEW n \in 0 .. Len(ops) - 1,
         NEW st, Nest(ops, n, st)
  PROVE  \E more : Nest(ops, n + 1, more)
<1>1. n \in Nat /\ At(ops, n).scope \in ScopeTypes
  BY DEF Scoped
<1>2. CASE At(ops, n).op = "StartScope"
  BY <1>1, <1>2, NestStart
<1>3. CASE At(ops, n).op = "EndScope"
  <2>1. IsEnd(At(ops, n), ScopeTypes)
    BY <1>1, <1>3 DEF IsEnd
  <2> QED
    BY <1>1, <2>1, NestEnd
<1>4. CASE At(ops, n).op \notin {"StartScope", "EndScope"}
  BY <1>1, <1>4, NestPlain
<1> QED
  BY <1>2, <1>3, <1>4

LEMMA NestAt ==
  ASSUME NEW ops, Len(ops) \in Nat, Scoped(ops), NEW n \in 0 .. Len(ops)
  PROVE  \E st : Nest(ops, n, st)
<1> DEFINE without == {p \in 0 .. Len(ops) : ~ \E st : Nest(ops, p, st)}
<1> SUFFICES ASSUME without # {}
             PROVE  FALSE
  OBVIOUS
<1>1. without \in SUBSET Nat
  OBVIOUS
<1>2. Least(without) \in without /\ \A j \in without : Least(without) <= j
  <2> HIDE DEF without
  <2> QED
    BY <1>1, LeastBound
<1> DEFINE p == Least(without)
<1> HIDE DEF p
<1>3. /\ p \in 0 .. Len(ops) /\ ~ \E st : Nest(ops, p, st)
      /\ \A j \in without : p <= j
  BY <1>2 DEF p
<1>4. p # 0
  <2>1. Nest(ops, 0, <<>>)
    <3>1. OpenScopes(ops, 0) = {}
      BY DEF OpenScopes
    <3> QED
      BY <3>1 DEF Nest
  <2> QED
    BY <1>3, <2>1
<1>5. p - 1 \in 0 .. Len(ops) - 1 /\ p - 1 \in 0 .. Len(ops) /\ (p - 1) + 1 = p
  BY <1>3, <1>4
<1>6. \E st : Nest(ops, p - 1, st)
  <2>1. p - 1 \notin without
    <3> HIDE DEF without
    <3>1. ~ (p <= p - 1)
      BY <1>3
    <3> QED
      BY <1>3, <3>1
  <2> QED
    BY <1>5, <2>1
<1>7. \E st : Nest(ops, (p - 1) + 1, st)
  BY <1>5, <1>6, NestNext
<1> QED
  BY <1>3, <1>5, <1>7

-----------------------------------------------------------------------------
(* Walking through a program within a scope.                               *)

\* How many of the scopes of st within its first l are of a kind in S.
Inner(ops, st, l, S) ==
  Cardinality({k \in l + 1 .. Len(st) : At(ops, st[k]).scope \in S})

LEMMA InnerType ==
  ASSUME NEW ops, NEW st, Len(st) \in Nat, NEW l \in Nat, NEW S
  PROVE  /\ Inner(ops, st, l, S) \in Nat
         /\ Inner(ops, st, l, S) = 0 <=>
              \A k \in l + 1 .. Len(st) : At(ops, st[k]).scope \notin S
<1> DEFINE T == {k \in l + 1 .. Len(st) : At(ops, st[k]).scope \in S}
<1>1. IsFiniteSet(l + 1 .. Len(st))
  BY FS_Interval
<1>2. T \in SUBSET (l + 1 .. Len(st))
  OBVIOUS
<1>3. T = {} <=> \A k \in l + 1 .. Len(st) : At(ops, st[k]).scope \notin S
  OBVIOUS
<1>4. Inner(ops, st, l, S) = Cardinality(T)
  BY DEF Inner
<1> HIDE DEF T
<1>5. IsFiniteSet(T)
  BY <1>1, <1>2, FS_Subset
<1>6. Cardinality(T) \in Nat /\ (Cardinality(T) = 0 <=> T = {})
  BY <1>5, FS_CardinalityType, FS_EmptySet
<1> QED
  BY <1>3, <1>4, <1>6

\* What one more scope at the top adds.
LEMMA InnerOne ==
  ASSUME NEW ops, NEW st, Len(st) \in Nat, NEW more, Len(more) = Len(st) + 1,
         \A k \in 1 .. Len(st) : more[k] = st[k],
         NEW l \in Nat, l <= Len(st), NEW S
  PROVE  Inner(ops, more, l, S) =
           Inner(ops, st, l, S) +
           (IF At(ops, more[Len(more)]).scope \in S THEN 1 ELSE 0)
<1> DEFINE n == Len(st)
           T == {k \in l + 1 .. n : At(ops, st[k]).scope \in S}
           U == {k \in l + 1 .. Len(more) : At(ops, more[k]).scope \in S}
<1>1. IsFiniteSet(T)
  <2>1. IsFiniteSet(l + 1 .. n) /\ T \in SUBSET (l + 1 .. n)
    BY FS_Interval
  <2> HIDE DEF T
  <2> QED
    BY <2>1, FS_Subset
<1>2. /\ l + 1 .. Len(more) = (l + 1 .. n) \cup {n + 1}
      /\ n + 1 \notin l + 1 .. n
      /\ \A k \in l + 1 .. n : more[k] = st[k]
  OBVIOUS
<1>3. U = IF At(ops, more[n + 1]).scope \in S THEN T \cup {n + 1} ELSE T
  BY <1>2, Zenon
<1>4. n + 1 \notin T
  BY <1>2
<1>5. Inner(ops, st, l, S) = Cardinality(T) /\ Inner(ops, more, l, S) = Cardinality(U)
  BY DEF Inner
<1> HIDE DEF T, U
<1>6. /\ Cardinality(T \cup {n + 1}) = Cardinality(T) + 1
      /\ Cardinality(T) \in Nat
  BY <1>1, <1>4, FS_AddElement, FS_CardinalityType
<1> QED
  BY <1>3, <1>5, <1>6

\* Every scope has a kind.
LEMMA InnerAll ==
  ASSUME NEW ops, NEW st, Len(st) \in Nat, NEW l \in Nat, l <= Len(st), NEW S,
         \A k \in 1 .. Len(st) : At(ops, st[k]).scope \in S
  PROVE  Inner(ops, st, l, S) = Len(st) - l
<1> DEFINE n == Len(st)
           a == l + 1
<1>1. {k \in a .. n : At(ops, st[k]).scope \in S} = a .. n
  OBVIOUS
<1>2. Inner(ops, st, l, S) = Cardinality(a .. n)
  BY <1>1 DEF Inner
<1>3. n \in Int /\ a \in Int /\ a = l + 1 /\ l <= n
  OBVIOUS
<1> HIDE DEF n, a
<1>4. Cardinality(a .. n) = IF a > n THEN 0 ELSE n - a + 1
  BY <1>3, FS_Interval
<1>5. Cardinality(a .. n) = n - l
  BY <1>3, <1>4
<1> QED
  BY <1>2, <1>5 DEF n

\* From place a, with the scopes st open, to place b, with the scopes ex open:
\* the first l of them are still the same, and the starts and ends of any kind
\* that lie between account for the others.
Above(ops, a, st, l, b, ex) ==
  /\ Nest(ops, b, ex)
  /\ l <= Len(ex)
  /\ \A k \in 1 .. l : ex[k] = st[k]
  /\ \A T \in SUBSET ScopeTypes :
       Inner(ops, ex, l, T) + Ends(ops, a, b, T)
         = Inner(ops, st, l, T) + Starts(ops, a, b, T)

LEMMA AboveStart ==
  ASSUME NEW ops, NEW a \in Nat, NEW st, Nest(ops, a, st), NEW l \in 0 .. Len(st)
  PROVE  Above(ops, a, st, l, a, st)
<1>1. Len(st) \in Nat /\ l \in Nat /\ l <= Len(st)
  BY DEF Nest
<1>2. ASSUME NEW T \in SUBSET ScopeTypes
      PROVE  Inner(ops, st, l, T) + Ends(ops, a, a, T)
               = Inner(ops, st, l, T) + Starts(ops, a, a, T)
  BY CountNone
<1> QED
  BY <1>1, <1>2 DEF Above

\* One step of the walk, unless it closes the scope it is within, which is of a
\* kind in S.
LEMMA AboveNext ==
  ASSUME NEW ops, Len(ops) \in Nat, Scoped(ops), decode_accepts(ops),
         NEW a \in Nat, NEW st, Len(st) \in Nat, NEW l \in 1 .. Len(st),
         NEW b \in a .. Len(ops) - 1, NEW ex, Above(ops, a, st, l, b, ex),
         NEW S \in SUBSET ScopeTypes, At(ops, st[l]).scope \in S,
         ~ (/\ IsEnd(At(ops, b), S)
            /\ Inner(ops, st, l, S) + Starts(ops, a, b, S) = Ends(ops, a, b, S))
  PROVE  \E more : Above(ops, a, st, l, b + 1, more)
<1>0. /\ b \in Nat /\ a <= b /\ l \in Nat /\ b \in 0 .. Len(ops) - 1
      /\ Len(ex) \in Nat /\ l <= Len(ex) /\ Nest(ops, b, ex)
      /\ \A k \in 1 .. l : ex[k] = st[k]
  BY DEF Above, Nest
<1>1. At(ops, b).scope \in ScopeTypes
  BY <1>0 DEF Scoped
<1>2. ASSUME NEW T \in SUBSET ScopeTypes
      PROVE  /\ Inner(ops, ex, l, T) \in Nat /\ Inner(ops, st, l, T) \in Nat
             /\ Starts(ops, a, b, T) \in Nat /\ Ends(ops, a, b, T) \in Nat
             /\ Inner(ops, ex, l, T) + Ends(ops, a, b, T)
                  = Inner(ops, st, l, T) + Starts(ops, a, b, T)
             /\ Starts(ops, a, b + 1, T) =
                  Starts(ops, a, b, T) +
                  (IF At(ops, b).op = "StartScope" /\ At(ops, b).scope \in T
                   THEN 1 ELSE 0)
             /\ Ends(ops, a, b + 1, T) =
                  Ends(ops, a, b, T) + (IF IsEnd(At(ops, b), T) THEN 1 ELSE 0)
  <2>1. Inner(ops, ex, l, T) \in Nat /\ Inner(ops, st, l, T) \in Nat
    BY <1>0, InnerType
  <2>2. Starts(ops, a, b, T) \in Nat /\ Ends(ops, a, b, T) \in Nat
    BY <1>0, CountType
  <2>3. /\ Starts(ops, a, b + 1, T) =
             Starts(ops, a, b, T) +
             (IF At(ops, b).op = "StartScope" /\ At(ops, b).scope \in T
              THEN 1 ELSE 0)
        /\ Ends(ops, a, b + 1, T) =
             Ends(ops, a, b, T) + (IF IsEnd(At(ops, b), T) THEN 1 ELSE 0)
    BY <1>0, CountOne
  <2> QED
    BY <2>1, <2>2, <2>3 DEF Above
<1>3. CASE At(ops, b).op = "StartScope"
  <2> DEFINE more == Append(ex, b)
  <2>1. Nest(ops, b + 1, more)
    BY <1>0, <1>1, <1>3, NestStart
  <2>2. /\ Len(more) = Len(ex) + 1 /\ more[Len(more)] = b
        /\ \A k \in 1 .. Len(ex) : more[k] = ex[k]
    BY <1>0 DEF Nest
  <2> HIDE DEF more
  <2>3. ASSUME NEW T \in SUBSET ScopeTypes
        PROVE  Inner(ops, more, l, T) + Ends(ops, a, b + 1, T)
                 = Inner(ops, st, l, T) + Starts(ops, a, b + 1, T)
    <3>1. Inner(ops, more, l, T) =
            Inner(ops, ex, l, T) + (IF At(ops, b).scope \in T THEN 1 ELSE 0)
      BY <1>0, <2>2, InnerOne
    <3>2. ~ IsEnd(At(ops, b), T)
      BY <1>3 DEF IsEnd
    <3> DEFINE one == IF At(ops, b).scope \in T THEN 1 ELSE 0
               s == Starts(ops, a, b, T)
               e == Ends(ops, a, b, T)
               i == Inner(ops, ex, l, T)
               j == Inner(ops, st, l, T)
    <3>3. /\ s \in Nat /\ e \in Nat /\ i \in Nat /\ j \in Nat /\ one \in Nat
          /\ i + e = j + s /\ Inner(ops, more, l, T) = i + one
      BY <1>2, <3>1
    <3>4. Starts(ops, a, b + 1, T) = s + one /\ Ends(ops, a, b + 1, T) = e + 0
      BY <1>2, <1>3, <3>2
    <3> HIDE DEF one, s, e, i
    <3>5. (i + one) + (e + 0) = j + (s + one)
      <4> HIDE DEF j
      <4> QED
        BY <3>3
    <3> QED
      BY <3>3, <3>4, <3>5
  <2>4. l <= Len(more) /\ \A k \in 1 .. l : more[k] = st[k]
    BY <1>0, <2>2
  <2> QED
    BY <2>1, <2>3, <2>4 DEF Above
<1>4. CASE At(ops, b).op = "EndScope"
  <2> DEFINE fewer == DropTop(ex, 1)
  <2>1. /\ ex # <<>> /\ ex \in Seq(Nat) /\ 1 <= Len(ex)
        /\ Len(ex) \in 1 .. Len(ex)
    BY <1>0 DEF Nest
  <2>2. /\ Len(fewer) = Len(ex) - 1 /\ Len(fewer) \in Nat
        /\ \A k \in 1 .. Len(fewer) : ex[k] = fewer[k]
    <3>1. /\ Len(DropTop(ex, 1)) = Len(ex) - 1
          /\ \A k \in 1 .. Len(ex) - 1 : DropTop(ex, 1)[k] = ex[k]
      BY <2>1, DropTopType
    <3> QED
      BY <2>1, <3>1
  <2>3. IsEnd(At(ops, b), ScopeTypes)
    BY <1>1, <1>4 DEF IsEnd
  <2>4. Nest(ops, b + 1, fewer)
    BY <1>0, <2>1, <2>3, NestEnd
  <2>5. At(ops, b).scope = At(ops, ex[Len(ex)]).scope
    <3>1. Innermost(ops, b) = At(ops, ex[Len(ex)]).scope
      BY <1>0, <2>1, NestInnermost
    <3>2. At(ops, b).scope = Innermost(ops, b)
      BY <1>0, <1>4 DEF decode_accepts
    <3> QED
      BY <3>1, <3>2
  <2> HIDE DEF fewer
  <2>6. l < Len(ex)
    <3> SUFFICES ASSUME l = Len(ex)
                 PROVE  FALSE
      BY <1>0
    <3>1. IsEnd(At(ops, b), S)
      BY <1>0, <1>4, <2>1, <2>5 DEF IsEnd
    <3>2. Inner(ops, ex, l, S) = 0
      BY <1>0, InnerType
    <3>3. Inner(ops, st, l, S) + Starts(ops, a, b, S) = Ends(ops, a, b, S)
      BY <1>2, <3>2
    <3> QED
      BY <3>1, <3>3
  <2>7. ASSUME NEW T \in SUBSET ScopeTypes
        PROVE  Inner(ops, fewer, l, T) + Ends(ops, a, b + 1, T)
                 = Inner(ops, st, l, T) + Starts(ops, a, b + 1, T)
    <3>1. Inner(ops, ex, l, T) =
            Inner(ops, fewer, l, T) +
            (IF At(ops, ex[Len(ex)]).scope \in T THEN 1 ELSE 0)
      <4>1. Len(ex) = Len(fewer) + 1 /\ l <= Len(fewer) /\ Len(fewer) \in Nat
        BY <1>0, <2>2, <2>6
      <4>2. \A k \in 1 .. Len(fewer) : ex[k] = fewer[k]
        BY <2>2
      <4>3. l \in Nat
        BY <1>0
      <4> QED
        BY <4>1, <4>2, <4>3, InnerOne
    <3>2. IsEnd(At(ops, b), T) <=> At(ops, ex[Len(ex)]).scope \in T
      BY <1>4, <2>5 DEF IsEnd
    <3> DEFINE one == IF At(ops, ex[Len(ex)]).scope \in T THEN 1 ELSE 0
               s == Starts(ops, a, b, T)
               e == Ends(ops, a, b, T)
               i == Inner(ops, fewer, l, T)
               j == Inner(ops, st, l, T)
    <3>3. i \in Nat
      BY <1>0, <2>2, InnerType
    <3>4. /\ s \in Nat /\ e \in Nat /\ j \in Nat /\ one \in Nat
          /\ (i + one) + e = j + s
      BY <1>2, <3>1
    <3>5. Starts(ops, a, b + 1, T) = s + 0 /\ Ends(ops, a, b + 1, T) = e + one
      BY <1>2, <1>4, <3>2
    <3> HIDE DEF one, s, e
    <3>6. i + (e + one) = j + (s + 0)
      <4> HIDE DEF i, j
      <4> QED
        BY <3>3, <3>4
    <3> QED
      BY <3>5, <3>6
  <2>8. l <= Len(fewer) /\ \A k \in 1 .. l : fewer[k] = st[k]
    BY <1>0, <2>2, <2>6
  <2> QED
    BY <2>4, <2>7, <2>8 DEF Above
<1>5. CASE At(ops, b).op \notin {"StartScope", "EndScope"}
  <2>1. Nest(ops, b + 1, ex)
    BY <1>0, <1>5, NestPlain
  <2>2. ASSUME NEW T \in SUBSET ScopeTypes
        PROVE  Inner(ops, ex, l, T) + Ends(ops, a, b + 1, T)
                 = Inner(ops, st, l, T) + Starts(ops, a, b + 1, T)
    <3>1. ~ IsEnd(At(ops, b), T)
      BY <1>5 DEF IsEnd
    <3> QED
      BY <1>2, <1>5, <3>1
  <2> QED
    BY <1>0, <2>1, <2>2 DEF Above
<1> QED
  BY <1>3, <1>4, <1>5

\* The walk as long as the scope is not closed.
LEMMA AboveAll ==
  ASSUME NEW ops, Len(ops) \in Nat, Scoped(ops), decode_accepts(ops),
         NEW a \in Nat, NEW st, Nest(ops, a, st), NEW l \in 1 .. Len(st),
         NEW S \in SUBSET ScopeTypes, At(ops, st[l]).scope \in S,
         NEW c \in a .. Len(ops),
         \A p \in a .. c - 1 :
           ~ (/\ IsEnd(At(ops, p), S)
              /\ Inner(ops, st, l, S) + Starts(ops, a, p, S) = Ends(ops, a, p, S))
  PROVE  \A b \in a .. c : \E ex : Above(ops, a, st, l, b, ex)
<1>0. Len(st) \in Nat /\ l \in 0 .. Len(st)
  BY DEF Nest
<1> DEFINE without == {b \in a .. c : ~ \E ex : Above(ops, a, st, l, b, ex)}
<1> SUFFICES ASSUME without # {}
             PROVE  FALSE
  OBVIOUS
<1>1. without \in SUBSET Nat
  OBVIOUS
<1>2. Least(without) \in without /\ \A j \in without : Least(without) <= j
  <2> HIDE DEF without
  <2> QED
    BY <1>1, LeastBound
<1> DEFINE p == Least(without)
<1> HIDE DEF p
<1>3. /\ p \in a .. c /\ ~ \E ex : Above(ops, a, st, l, p, ex)
      /\ \A j \in without : p <= j
  BY <1>2 DEF p
<1>4. p # a
  BY <1>0, <1>3, AboveStart
<1>5. /\ p - 1 \in a .. Len(ops) - 1 /\ p - 1 \in a .. c - 1 /\ p - 1 \in a .. c
      /\ (p - 1) + 1 = p
  BY <1>3, <1>4
<1>6. PICK ex : Above(ops, a, st, l, p - 1, ex)
  <2>1. p - 1 \notin without
    <3> HIDE DEF without
    <3>1. ~ (p <= p - 1)
      BY <1>3
    <3> QED
      BY <1>3, <3>1
  <2> QED
    BY <1>5, <2>1
<1>7. ~ (/\ IsEnd(At(ops, p - 1), S)
         /\ Inner(ops, st, l, S) + Starts(ops, a, p - 1, S)
              = Ends(ops, a, p - 1, S))
  BY <1>5
<1>8. \E more : Above(ops, a, st, l, (p - 1) + 1, more)
  <2> HIDE DEF without
  <2> QED
    BY <1>0, <1>5, <1>6, <1>7, AboveNext
<1> QED
  BY <1>3, <1>5, <1>8
\* Counts on both sides of a place add up.
LEMMA CountSplit ==
  ASSUME NEW ops, NEW a \in Nat, NEW b \in Nat, NEW c \in Nat, a <= b, b <= c,
         NEW S
  PROVE  /\ Starts(ops, a, c, S) = Starts(ops, a, b, S) + Starts(ops, b, c, S)
         /\ Ends(ops, a, c, S) = Ends(ops, a, b, S) + Ends(ops, b, c, S)
<1> DEFINE Opens(i) == At(ops, i).op = "StartScope" /\ At(ops, i).scope \in S
           Closes(i) == At(ops, i).op = "EndScope" /\ At(ops, i).scope \in S
           s(x, y) == {i \in x .. y - 1 : Opens(i)}
           e(x, y) == {i \in x .. y - 1 : Closes(i)}
<1>1. /\ Starts(ops, a, c, S) = Cardinality(s(a, c))
      /\ Starts(ops, a, b, S) = Cardinality(s(a, b))
      /\ Starts(ops, b, c, S) = Cardinality(s(b, c))
      /\ Ends(ops, a, c, S) = Cardinality(e(a, c))
      /\ Ends(ops, a, b, S) = Cardinality(e(a, b))
      /\ Ends(ops, b, c, S) = Cardinality(e(b, c))
  BY DEF Starts, Ends
<1>2. /\ IsFiniteSet(a .. b - 1) /\ IsFiniteSet(b .. c - 1)
      /\ s(a, b) \in SUBSET (a .. b - 1) /\ e(a, b) \in SUBSET (a .. b - 1)
      /\ s(b, c) \in SUBSET (b .. c - 1) /\ e(b, c) \in SUBSET (b .. c - 1)
  BY FS_Interval
<1> HIDE DEF Opens, Closes
<1>3. /\ a .. c - 1 = (a .. b - 1) \cup (b .. c - 1)
      /\ (a .. b - 1) \cap (b .. c - 1) = {}
  OBVIOUS
<1>4. /\ s(a, c) = s(a, b) \cup s(b, c) /\ s(a, b) \cap s(b, c) = {}
      /\ e(a, c) = e(a, b) \cup e(b, c) /\ e(a, b) \cap e(b, c) = {}
  BY <1>3, Zenon
<1> HIDE DEF s, e
<1>5. /\ IsFiniteSet(s(a, b)) /\ IsFiniteSet(s(b, c))
      /\ IsFiniteSet(e(a, b)) /\ IsFiniteSet(e(b, c))
  BY <1>2, FS_Subset
<1>6. ASSUME NEW X, NEW Y, IsFiniteSet(X), IsFiniteSet(Y), X \cap Y = {}
      PROVE  Cardinality(X \cup Y) = Cardinality(X) + Cardinality(Y)
  <2>1. Cardinality(X) \in Nat /\ Cardinality(Y) \in Nat
    BY <1>6, FS_CardinalityType
  <2>2. Cardinality(X \cup Y)
          = Cardinality(X) + Cardinality(Y) - Cardinality(X \cap Y)
    BY <1>6, FS_Union
  <2>3. Cardinality(X \cap Y) = 0
    BY <1>6, FS_EmptySet
  <2> QED
    BY <2>1, <2>2, <2>3
<1> QED
  BY <1>1, <1>4, <1>5, <1>6

-----------------------------------------------------------------------------
(* Where the jumps land.                                                   *)

\* Where a scan forwards stops that counts the scopes of a kind in S, from a
\* place where st is open, to the end of the l-th scope or an Else of it.
StopsAt(ops, pc, st, l, S, stops) ==
  /\ stops \in SUBSET (pc .. Len(ops) - 1)
  /\ \A p \in pc .. Len(ops) - 1 :
       IsEnd(At(ops, p), S) =>
         (Inner(ops, st, l, S) + Starts(ops, pc, p, S) = Ends(ops, pc, p, S)
            => p \in stops)
  /\ \A p \in stops :
       Inner(ops, st, l, S) + Starts(ops, pc, p, S) = Ends(ops, pc, p, S)

\* The first l scopes of st are open at i, and those within them are of no kind
\* in S.
OpenAt(ops, i, st, l, S) ==
  \E ex : /\ Nest(ops, i, ex)
          /\ l <= Len(ex) /\ \A k \in 1 .. l : ex[k] = st[k]
          /\ \A k \in l + 1 .. Len(ex) : At(ops, ex[k]).scope \notin S

\* At the first place where a scan forwards stops, the first l scopes are still
\* open, and none that is open within them is of the kind the scan counts.
LEMMA FirstStop ==
  ASSUME NEW ops, Len(ops) \in Nat, Scoped(ops), decode_accepts(ops),
         NEW pc \in Nat, NEW st, Nest(ops, pc, st), NEW l \in 1 .. Len(st),
         NEW S \in SUBSET ScopeTypes, At(ops, st[l]).scope \in S,
         NEW stops, StopsAt(ops, pc, st, l, S, stops), stops # {}
  PROVE  /\ Least(stops) \in stops
         /\ OpenAt(ops, Least(stops), st, l, S)
<1>0. stops \in SUBSET (pc .. Len(ops) - 1)
  BY DEF StopsAt
<1>1. stops \in SUBSET Nat
  BY <1>0
<1>2. Least(stops) \in stops /\ \A j \in stops : Least(stops) <= j
  BY <1>1, LeastBound
<1> DEFINE i == Least(stops)
<1> HIDE DEF i
<1>3. /\ i \in stops /\ i \in pc .. Len(ops) - 1 /\ i \in Nat
      /\ i \in pc .. Len(ops) /\ i \in pc .. i
      /\ \A j \in stops : i <= j
  <2>1. i \in stops /\ \A j \in stops : i <= j
    BY <1>2 DEF i
  <2>2. i \in pc .. Len(ops) - 1
    BY <1>0, <2>1
  <2> QED
    BY <2>1, <2>2
<1>4. ASSUME NEW p \in pc .. i - 1
      PROVE  ~ (/\ IsEnd(At(ops, p), S)
                /\ Inner(ops, st, l, S) + Starts(ops, pc, p, S)
                     = Ends(ops, pc, p, S))
  <2>1. p \in pc .. Len(ops) - 1 /\ ~ (i <= p)
    BY <1>3
  <2>2. p \notin stops
    BY <1>3, <2>1
  <2> QED
    BY <2>1, <2>2 DEF StopsAt
<1>5. \E ex : Above(ops, pc, st, l, i, ex)
  BY <1>3, <1>4, AboveAll
<1>6. PICK ex : Above(ops, pc, st, l, i, ex)
  BY <1>5
<1>7. /\ Nest(ops, i, ex) /\ l <= Len(ex) /\ \A k \in 1 .. l : ex[k] = st[k]
      /\ Inner(ops, ex, l, S) + Ends(ops, pc, i, S)
           = Inner(ops, st, l, S) + Starts(ops, pc, i, S)
  BY <1>6 DEF Above
<1>8. Len(ex) \in Nat /\ l \in Nat
  BY <1>7 DEF Nest
<1>9. Inner(ops, ex, l, S) = 0
  <2> DEFINE x == Inner(ops, ex, l, S)
             y == Ends(ops, pc, i, S)
  <2>1. x \in Nat /\ y \in Nat
    BY <1>3, <1>8, InnerType, CountType
  <2>2. x + y = y
    BY <1>3, <1>7 DEF StopsAt
  <2> HIDE DEF x, y
  <2>3. x = 0
    BY <2>1, <2>2
  <2> QED
    BY <2>3 DEF x
<1>10. \A k \in l + 1 .. Len(ex) : At(ops, ex[k]).scope \notin S
  BY <1>8, <1>9, InnerType
<1> QED
  BY <1>3, <1>7, <1>10 DEF i, OpenAt

\* Where a scan stops that looks for the Else or the end of an if.
IfStopsAt(ops, pc, stops) ==
  /\ stops \in SUBSET (pc .. Len(ops) - 1)
  /\ \A p \in pc .. Len(ops) - 1 :
       IsEnd(At(ops, p), {"IfElse"}) =>
         (Starts(ops, pc, p, {"IfElse"}) = Ends(ops, pc, p, {"IfElse"})
            => p \in stops)
  /\ \A p \in stops :
       /\ At(ops, p).op = "Else" \/ IsEnd(At(ops, p), {"IfElse"})
       /\ Starts(ops, pc, p, {"IfElse"}) = Ends(ops, pc, p, {"IfElse"})

\* A scan for the Else or the end of an if, from within it: where it stops the
\* innermost scope is an if again, so it is the same one.
LEMMA IfStop ==
  ASSUME NEW ops, Len(ops) \in Nat, Scoped(ops), decode_accepts(ops),
         NEW pc \in Nat, NEW st, Nest(ops, pc, st), st # <<>>,
         At(ops, st[Len(st)]).scope = "IfElse",
         NEW stops, IfStopsAt(ops, pc, stops), stops # {}
  PROVE  Least(stops) \in stops /\ Nest(ops, Least(stops), st)
<1> DEFINE l == Len(st)
           S == {"IfElse"}
<1>1. /\ st \in Seq(Nat) /\ l \in Nat /\ l \in 1 .. Len(st)
      /\ S \in SUBSET ScopeTypes /\ At(ops, st[l]).scope \in S
  BY DEF Nest, ScopeTypes
<1>2. Inner(ops, st, l, S) = 0
  BY <1>1, InnerType
<1>3. ASSUME NEW p \in pc .. Len(ops) - 1
      PROVE  Inner(ops, st, l, S) + Starts(ops, pc, p, S) = Starts(ops, pc, p, S)
  <2>1. Starts(ops, pc, p, S) \in Nat
    BY CountType
  <2> DEFINE x == Starts(ops, pc, p, S)
  <2> HIDE DEF x
  <2>2. 0 + x = x
    BY <2>1 DEF x
  <2> QED
    BY <1>2, <2>2 DEF x
<1>4. /\ Least(stops) \in stops
      /\ OpenAt(ops, Least(stops), st, l, S)
  <2> HIDE DEF l, S
  <2>1. \A p \in pc .. Len(ops) - 1 :
          IsEnd(At(ops, p), S) =>
            (Inner(ops, st, l, S) + Starts(ops, pc, p, S) = Ends(ops, pc, p, S)
               => p \in stops)
    BY <1>3, Zenon DEF S, IfStopsAt
  <2>2. stops \in SUBSET (pc .. Len(ops) - 1)
    BY DEF IfStopsAt
  <2>3. \A p \in stops :
          Inner(ops, st, l, S) + Starts(ops, pc, p, S) = Ends(ops, pc, p, S)
    BY <1>3, <2>2, Zenon DEF S, IfStopsAt
  <2>4. StopsAt(ops, pc, st, l, S, stops)
    BY <2>1, <2>2, <2>3, Zenon DEF StopsAt
  <2> QED
    BY <1>1, <2>4, FirstStop
<1> DEFINE i == Least(stops)
<1>5. i \in stops /\ i \in 0 .. Len(ops) - 1 /\ i \in Nat
  <2>1. i \in stops /\ stops \in SUBSET (pc .. Len(ops) - 1)
    BY <1>4 DEF IfStopsAt
  <2> HIDE DEF i
  <2>2. i \in pc .. Len(ops) - 1
    BY <2>1
  <2> QED
    BY <2>1, <2>2
<1>6. PICK ex : /\ Nest(ops, i, ex)
                /\ l <= Len(ex) /\ \A k \in 1 .. l : ex[k] = st[k]
                /\ \A k \in l + 1 .. Len(ex) : At(ops, ex[k]).scope \notin S
  BY <1>4 DEF OpenAt
<1>7. Innermost(ops, i) = "IfElse"
  <2>1. At(ops, i).op = "Else" \/ IsEnd(At(ops, i), {"IfElse"})
    BY <1>5 DEF IfStopsAt
  <2> HIDE DEF i
  <2> QED
    BY <1>5, <2>1 DEF decode_accepts, IsEnd
<1> HIDE DEF i
<1>8. ex \in Seq(Nat) /\ Len(ex) \in Nat /\ ex # <<>>
  <2>1. ex \in Seq(Nat)
    BY <1>6 DEF Nest
  <2> QED
    BY <1>1, <1>6, <2>1
<1>9. At(ops, ex[Len(ex)]).scope = "IfElse"
  BY <1>5, <1>6, <1>7, <1>8, NestInnermost
<1>10. Len(ex) = l
  <2> SUFFICES ASSUME Len(ex) \in l + 1 .. Len(ex)
               PROVE  FALSE
    BY <1>1, <1>6, <1>8
  <2>1. At(ops, ex[Len(ex)]).scope \notin {"IfElse"}
    BY <1>6
  <2> QED
    BY <1>9, <2>1
<1>11. ex = st
  BY <1>1, <1>6, <1>8, <1>10, SeqEqual
<1> QED
  BY <1>5, <1>6, <1>11 DEF i

\* Where an If goes when its condition is zero: behind the first Else of its own
\* scope, or to its end if it meets none before.
ArmAt(ops, pc, st, e, to) ==
  /\ Nest(ops, e, st)
  /\ \/ At(ops, e).op = "Else" /\ to = e + 1
     \/ /\ IsEnd(At(ops, e), {"IfElse"}) /\ to = e
        /\ \A p \in pc .. e - 1 :
             At(ops, p).op = "Else" =>
               Starts(ops, pc, p, {"IfElse"}) # Ends(ops, pc, p, {"IfElse"})

LEMMA SkipThenPlace ==
  ASSUME NEW ops, Len(ops) \in Nat, Scoped(ops), decode_accepts(ops),
         NEW pc \in Nat, NEW st, Nest(ops, pc, st), st # <<>>,
         At(ops, st[Len(st)]).scope = "IfElse",
         skip_then(ops, pc) < Len(ops)
  PROVE  \E e \in pc .. Len(ops) - 1 : ArmAt(ops, pc, st, e, skip_then(ops, pc))
<1> DEFINE stops == {i \in pc .. Len(ops) - 1 :
                       /\ At(ops, i).op = "Else" \/ IsEnd(At(ops, i), {"IfElse"})
                       /\ Starts(ops, pc, i, {"IfElse"})
                            = Ends(ops, pc, i, {"IfElse"})}
           e == Least(stops)
<1>1. skip_then(ops, pc) = IF stops = {} THEN Len(ops)
                           ELSE IF At(ops, e).op = "Else" THEN e + 1 ELSE e
  BY DEF skip_then
<1>2. stops # {}
  BY <1>1
<1>3. e \in stops /\ Nest(ops, e, st)
  <2>1. IfStopsAt(ops, pc, stops)
    BY Zenon DEF IfStopsAt
  <2> HIDE DEF stops
  <2> QED
    BY <1>2, <2>1, IfStop
<1>4. /\ e \in pc .. Len(ops) - 1
      /\ At(ops, e).op = "Else" \/ IsEnd(At(ops, e), {"IfElse"})
  BY <1>3
<1>5. ASSUME NEW p \in pc .. e - 1, At(ops, p).op = "Else"
      PROVE  Starts(ops, pc, p, {"IfElse"}) # Ends(ops, pc, p, {"IfElse"})
  <2>1. stops \in SUBSET Nat
    OBVIOUS
  <2>2. \A j \in stops : e <= j
    <3> HIDE DEF stops
    <3> QED
      BY <1>2, <2>1, LeastBound
  <2>3. p \in pc .. Len(ops) - 1 /\ ~ (e <= p)
    <3> HIDE DEF e
    <3> QED
      BY <1>4
  <2>4. p \notin stops
    BY <2>2, <2>3
  <2> QED
    BY <1>5, <2>3, <2>4
<1> HIDE DEF stops, e
<1> QED
  BY <1>1, <1>2, <1>3, <1>4, <1>5 DEF ArmAt

LEMMA SkipThenNests ==
  ASSUME NEW ops, Len(ops) \in Nat, Scoped(ops), decode_accepts(ops),
         NEW pc \in Nat, NEW st, Nest(ops, pc, st), st # <<>>,
         At(ops, st[Len(st)]).scope = "IfElse",
         skip_then(ops, pc) < Len(ops)
  PROVE  Nest(ops, skip_then(ops, pc), st)
<1>1. PICK e \in pc .. Len(ops) - 1 : ArmAt(ops, pc, st, e, skip_then(ops, pc))
  BY SkipThenPlace
<1>2. e \in Nat /\ Nest(ops, e, st)
  BY <1>1 DEF ArmAt
<1>3. CASE At(ops, e).op = "Else" /\ skip_then(ops, pc) = e + 1
  BY <1>2, <1>3, NestPlain
<1> QED
  BY <1>1, <1>2, <1>3 DEF ArmAt

\* Where an Else goes: to the end of its own if.
LEMMA SkipElseNests ==
  ASSUME NEW ops, Len(ops) \in Nat, Scoped(ops), decode_accepts(ops),
         NEW pc \in Nat, NEW st, Nest(ops, pc, st), st # <<>>,
         At(ops, st[Len(st)]).scope = "IfElse",
         skip_else(ops, pc) < Len(ops)
  PROVE  /\ Nest(ops, skip_else(ops, pc), st)
         /\ IsEnd(At(ops, skip_else(ops, pc)), {"IfElse"})
<1> DEFINE stops == {i \in pc .. Len(ops) - 1 :
                       /\ IsEnd(At(ops, i), {"IfElse"})
                       /\ Starts(ops, pc, i, {"IfElse"})
                            = Ends(ops, pc, i, {"IfElse"})}
<1>1. skip_else(ops, pc) = IF stops = {} THEN Len(ops) ELSE Least(stops)
  BY DEF skip_else
<1>2. stops # {}
  BY <1>1
<1>3. /\ Least(stops) \in stops /\ Nest(ops, Least(stops), st)
      /\ IsEnd(At(ops, Least(stops)), {"IfElse"})
  <2>1. IfStopsAt(ops, pc, stops)
    BY Zenon DEF IfStopsAt
  <2>2. Least(stops) \in stops /\ Nest(ops, Least(stops), st)
    <3> HIDE DEF stops
    <3> QED
      BY <1>2, <2>1, IfStop
  <2>3. IsEnd(At(ops, Least(stops)), {"IfElse"})
    BY <2>2
  <2> QED
    BY <2>2, <2>3
<1> HIDE DEF stops
<1> QED
  BY <1>1, <1>2, <1>3

\* An open scope is started by an operation of the program, with its kind.
LEMMA NestKinds ==
  ASSUME NEW ops, Len(ops) \in Nat, Scoped(ops), NEW n \in 0 .. Len(ops),
         NEW st, Nest(ops, n, st), NEW k \in 1 .. Len(st)
  PROVE  /\ st[k] \in 0 .. Len(ops) - 1 /\ st[k] \in Nat
         /\ At(ops, st[k]).op = "StartScope"
         /\ At(ops, st[k]).scope \in ScopeTypes
<1>1. st[k] \in Nat /\ st[k] < n
  BY NestTypes
<1>2. st[k] \in 0 .. Len(ops) - 1
  BY <1>1
<1>3. st[k] \in OpenScopes(ops, n)
  BY DEF Nest
<1> QED
  BY <1>2, <1>3 DEF OpenScopes, Scoped

\* Two sequences begin with the same n entries.
Alike(s, t, n) == \A k \in 1 .. n : s[k] = t[k]

\* What is left of them without the others.
LEMMA DropAlike ==
  ASSUME NEW s \in Seq(Nat), NEW t \in Seq(Nat), NEW n \in Nat, Alike(s, t, n),
         NEW a \in Nat, Len(s) = n + a, NEW b \in Nat, Len(t) = n + b
  PROVE  DropTop(s, a) = DropTop(t, b)
<1> DEFINE x == DropTop(s, a)
           y == DropTop(t, b)
<1>1. Len(s) - a = n /\ Len(t) - b = n /\ a <= Len(s) /\ b <= Len(t)
  OBVIOUS
<1>2. x \in Seq(Nat) /\ Len(x) = n /\ \A k \in 1 .. n : x[k] = s[k]
  BY <1>1, DropTopType
<1>3. y \in Seq(Nat) /\ Len(y) = n /\ \A k \in 1 .. n : y[k] = t[k]
  BY <1>1, DropTopType
<1> HIDE DEF x, y
<1>4. x = y
  BY <1>2, <1>3, SeqEqual DEF Alike
<1> QED
  BY <1>4 DEF x, y

\* Where a branch out of depth + 1 scopes goes: behind the end of the outermost
\* of them.
EndAt(ops, e, st, depth, to) ==
  /\ IsEnd(At(ops, e), ScopeTypes) /\ to = e + 1
  /\ \E out : /\ Nest(ops, e, out) /\ Len(out) = Len(st) - depth
              /\ out[Len(out)] = st[Len(st) - depth]

LEMMA ScopeEndNests ==
  ASSUME NEW ops, Len(ops) \in Nat, Scoped(ops), decode_accepts(ops),
         NEW pc \in 0 .. Len(ops), NEW st, Nest(ops, pc, st),
         NEW depth \in Nat, depth < Len(st),
         scope_end(ops, pc, depth) < Len(ops)
  PROVE  /\ Nest(ops, scope_end(ops, pc, depth), DropTop(st, depth + 1))
         /\ \E e \in pc .. Len(ops) - 1 :
              EndAt(ops, e, st, depth, scope_end(ops, pc, depth))
<1> DEFINE stops == {i \in pc .. Len(ops) - 1 :
                       /\ IsEnd(At(ops, i), ScopeTypes)
                       /\ depth + Starts(ops, pc, i, ScopeTypes)
                            = Ends(ops, pc, i, ScopeTypes)}
           l == Len(st) - depth
           i == Least(stops)
<1>1. scope_end(ops, pc, depth) = IF stops = {} THEN Len(ops) ELSE i + 1
  BY DEF scope_end
<1>2. stops # {}
  BY <1>1
<1>3. /\ st \in Seq(Nat) /\ Len(st) \in Nat /\ l \in Nat /\ l \in 1 .. Len(st)
      /\ l <= Len(st) /\ Len(st) - l = depth /\ pc \in Nat
      /\ ScopeTypes \in SUBSET ScopeTypes
  BY DEF Nest
<1>4. At(ops, st[l]).scope \in ScopeTypes
  <2> HIDE DEF l
  <2> QED
    BY <1>3, NestKinds
<1>5. Inner(ops, st, l, ScopeTypes) = depth
  <2>1. \A k \in 1 .. Len(st) : At(ops, st[k]).scope \in ScopeTypes
    BY NestKinds
  <2> HIDE DEF l
  <2> QED
    BY <1>3, <2>1, InnerAll
<1>6. StopsAt(ops, pc, st, l, ScopeTypes, stops)
  <2> HIDE DEF l
  <2> QED
    BY <1>5, Zenon DEF StopsAt
<1>7. /\ i \in pc .. Len(ops) - 1
      /\ i \in 0 .. Len(ops) - 1 /\ i \in Nat /\ i \in 0 .. Len(ops)
      /\ IsEnd(At(ops, i), ScopeTypes) /\ OpenAt(ops, i, st, l, ScopeTypes)
  <2>1. Least(stops) \in stops /\ OpenAt(ops, Least(stops), st, l, ScopeTypes)
    <3> HIDE DEF l, stops
    <3> QED
      BY <1>2, <1>3, <1>4, <1>6, FirstStop
  <2>2. Least(stops) \in pc .. Len(ops) - 1
    BY <2>1
  <2>3. IsEnd(At(ops, Least(stops)), ScopeTypes)
    BY <2>1
  <2> HIDE DEF l, stops
  <2> QED
    BY <2>1, <2>2, <2>3
<1> HIDE DEF l, i, stops
<1>8. PICK ex : /\ Nest(ops, i, ex)
                /\ l <= Len(ex) /\ \A k \in 1 .. l : ex[k] = st[k]
                /\ \A k \in l + 1 .. Len(ex) :
                     At(ops, ex[k]).scope \notin ScopeTypes
  BY <1>7 DEF OpenAt
<1>9. ex \in Seq(Nat) /\ Len(ex) \in Nat
  BY <1>8 DEF Nest
<1>10. Len(ex) = l
  <2> SUFFICES ASSUME Len(ex) # l PROVE FALSE
    OBVIOUS
  <2>1. Len(ex) \in l + 1 .. Len(ex) /\ Len(ex) \in 1 .. Len(ex)
    BY <1>3, <1>8, <1>9
  <2>2. At(ops, ex[Len(ex)]).scope \in ScopeTypes
    BY <1>7, <1>8, <2>1, NestKinds
  <2> QED
    BY <1>8, <2>1, <2>2
<1>11. ex # <<>>
  BY <1>3, <1>9, <1>10
<1>12. Nest(ops, i + 1, DropTop(ex, 1))
  BY <1>7, <1>8, <1>11, NestEnd
<1>13. DropTop(ex, 1) = DropTop(st, depth + 1)
  <2> DEFINE n == l - 1
             d == depth + 1
  <2>1. Len(ex) = n + 1 /\ d \in Nat /\ Len(st) = n + d /\ n \in Nat
    BY <1>3, <1>10
  <2>2. Alike(ex, st, n)
    BY <1>3, <1>8 DEF Alike
  <2> HIDE DEF n, d
  <2>3. DropTop(ex, 1) = DropTop(st, d)
    BY <1>3, <1>9, <2>1, <2>2, DropAlike
  <2> QED
    BY <2>3 DEF d
<1>14. EndAt(ops, i, st, depth, i + 1)
  <2>1. Len(st) - depth = l /\ ex[Len(ex)] = st[l]
    BY <1>3, <1>8, <1>10 DEF l
  <2> QED
    BY <1>7, <1>8, <1>10, <2>1, Zenon DEF EndAt
<1> QED
  BY <1>1, <1>2, <1>7, <1>12, <1>13, <1>14

\* From behind the start of the l-th open scope, which is not closed before pc.
LEMMA ScopeEntry ==
  ASSUME NEW ops, Len(ops) \in Nat, Scoped(ops), decode_accepts(ops),
         NEW pc \in 0 .. Len(ops), NEW st, Nest(ops, pc, st),
         NEW l \in 1 .. Len(st)
  PROVE  \E in : /\ Nest(ops, st[l] + 1, in) /\ Len(in) = l /\ Alike(in, st, l)
                 /\ \A b \in st[l] + 1 .. pc :
                      \E ex : Above(ops, st[l] + 1, in, l, b, ex)
<1> DEFINE t == st[l]
<1>1. /\ t \in 0 .. Len(ops) - 1 /\ t \in Nat /\ t \in 0 .. Len(ops)
      /\ At(ops, t).op = "StartScope" /\ At(ops, t).scope \in ScopeTypes
  <2>1. /\ t \in 0 .. Len(ops) - 1 /\ t \in Nat
        /\ At(ops, t).op = "StartScope" /\ At(ops, t).scope \in ScopeTypes
    BY NestKinds
  <2> HIDE DEF t
  <2> QED
    BY <2>1
<1>2. t < pc /\ t \in OpenScopes(ops, pc) /\ pc \in Nat
  <2>1. pc \in Nat
    OBVIOUS
  <2>2. t < pc
    BY <2>1, NestTypes
  <2>3. t \in OpenScopes(ops, pc)
    BY DEF Nest
  <2> QED
    BY <2>1, <2>2, <2>3
<1>3. /\ st \in Seq(Nat) /\ Len(st) \in Nat /\ l \in Nat
      /\ \A j, k \in 1 .. Len(st) : j < k => st[j] < st[k]
  BY DEF Nest
<1> HIDE DEF t
<1>4. PICK out : Nest(ops, t, out)
  BY <1>1, NestAt
<1> DEFINE in == Append(out, t)
           m == Len(in)
<1>5. Nest(ops, t + 1, in)
  BY <1>1, <1>4, NestStart
<1>6. in \in Seq(Nat) /\ m \in Nat /\ m \in 1 .. Len(in) /\ in[m] = t
  <2>1. out \in Seq(Nat)
    BY <1>4 DEF Nest
  <2> QED
    BY <1>1, <2>1
<1> HIDE DEF in, m
<1>7. Inner(ops, in, m, ScopeTypes) = 0
  BY <1>6, InnerType DEF m
<1>8. ASSUME NEW p \in t + 1 .. pc - 1
      PROVE  ~ (/\ IsEnd(At(ops, p), ScopeTypes)
                /\ Inner(ops, in, m, ScopeTypes)
                     + Starts(ops, t + 1, p, ScopeTypes)
                     = Ends(ops, t + 1, p, ScopeTypes))
  <2>1. IsEnd(At(ops, p), ScopeTypes) =>
          Starts(ops, t + 1, p, ScopeTypes) # Ends(ops, t + 1, p, ScopeTypes)
    BY <1>2 DEF OpenScopes
  <2> DEFINE x == Starts(ops, t + 1, p, ScopeTypes)
  <2>2. x \in Nat
    BY <1>1, CountType
  <2>3. Inner(ops, in, m, ScopeTypes) + x = x
    <3> HIDE DEF x
    <3> QED
      BY <1>7, <2>2
  <2> QED
    BY <2>1, <2>3
<1>9. \A b \in t + 1 .. pc : \E ex : Above(ops, t + 1, in, m, b, ex)
  <2>1. /\ t + 1 \in Nat /\ pc \in t + 1 .. Len(ops)
        /\ ScopeTypes \in SUBSET ScopeTypes /\ At(ops, in[m]).scope \in ScopeTypes
    BY <1>1, <1>2, <1>6
  <2> DEFINE a == t + 1
  <2>2. /\ Nest(ops, a, in)
        /\ \A p \in a .. pc - 1 :
             ~ (/\ IsEnd(At(ops, p), ScopeTypes)
                /\ Inner(ops, in, m, ScopeTypes) + Starts(ops, a, p, ScopeTypes)
                     = Ends(ops, a, p, ScopeTypes))
    BY <1>5, <1>8
  <2>3. a \in Nat /\ pc \in a .. Len(ops)
    BY <2>1
  <2> HIDE DEF a
  <2>4. \A b \in a .. pc : \E ex : Above(ops, a, in, m, b, ex)
    BY <1>6, <2>1, <2>2, <2>3, AboveAll
  <2> QED
    BY <2>4 DEF a
<1>10. PICK ex : Above(ops, t + 1, in, m, pc, ex)
  <2>1. pc \in t + 1 .. pc
    BY <1>1, <1>2
  <2> QED
    BY <1>9, <2>1
<1>11. ex = st /\ m <= Len(ex) /\ \A k \in 1 .. m : ex[k] = in[k]
  <2>1. Nest(ops, pc, ex) /\ m <= Len(ex) /\ \A k \in 1 .. m : ex[k] = in[k]
    BY <1>10 DEF Above
  <2> QED
    BY <1>2, <2>1, NestUnique
<1>12. m = l
  <2>1. m \in 1 .. Len(st) /\ st[m] = st[l]
    BY <1>6, <1>11 DEF t
  <2>2. m < l => st[m] < st[l]
    BY <1>3, <2>1
  <2>3. l < m => st[l] < st[m]
    BY <1>3, <2>1
  <2>4. st[m] \in Nat /\ st[l] \in Nat
    BY <1>3, <2>1
  <2> QED
    BY <1>3, <1>6, <2>1, <2>2, <2>3, <2>4
<1>13. Alike(in, st, l)
  BY <1>11, <1>12 DEF Alike
<1>14. Len(in) = l
  BY <1>12 DEF m
<1> QED
  BY <1>5, <1>9, <1>12, <1>13, <1>14 DEF t

\* Where a branch to a loop goes: behind the start of the loop it names, unless
\* it has to leave another loop for it.
LEMMA LoopStartNests ==
  ASSUME NEW ops, Len(ops) \in Nat, Scoped(ops), decode_accepts(ops),
         NEW pc \in 0 .. Len(ops), NEW st, Nest(ops, pc, st),
         NEW depth \in Nat, depth < Len(st),
         At(ops, st[Len(st) - depth]).scope = "Loop",
         \A k \in Len(st) - depth + 1 .. Len(st) : At(ops, st[k]).scope # "Loop"
  PROVE  /\ loop_start(ops, pc) = st[Len(st) - depth] + 1
         /\ Nest(ops, loop_start(ops, pc), DropTop(st, depth))
<1> DEFINE l == Len(st) - depth
           t == st[l]
           L == {"Loop"}
           stops == {i \in 0 .. pc - 1 :
                       /\ At(ops, i).op = "StartScope" /\ At(ops, i).scope = "Loop"
                       /\ Starts(ops, i + 1, pc, {"Loop"})
                            = Ends(ops, i + 1, pc, {"Loop"})}
<1>1. /\ st \in Seq(Nat) /\ Len(st) \in Nat /\ l \in Nat /\ l \in 1 .. Len(st)
      /\ pc \in Nat /\ l <= Len(st) /\ Len(st) = l + depth
      /\ L \in SUBSET ScopeTypes /\ At(ops, st[l]).scope = "Loop"
      /\ \A k \in l + 1 .. Len(st) : At(ops, st[k]).scope \notin L
  <2>1. st \in Seq(Nat)
    BY DEF Nest
  <2>2. Len(st) \in Nat
    BY <2>1
  <2>3. /\ l \in Nat /\ l \in 1 .. Len(st) /\ pc \in Nat /\ l <= Len(st)
        /\ Len(st) = l + depth
    BY <2>2
  <2>4. L \in SUBSET ScopeTypes
    BY DEF ScopeTypes
  <2>5. \A k \in l + 1 .. Len(st) : At(ops, st[k]).scope \notin L
    OBVIOUS
  <2> QED
    BY <2>1, <2>2, <2>3, <2>4, <2>5
<1>2. loop_start(ops, pc) = IF stops = {} THEN pc ELSE Greatest(stops) + 1
  BY DEF loop_start
<1> HIDE DEF l
<1>3. PICK in : /\ Nest(ops, t + 1, in) /\ Len(in) = l /\ Alike(in, st, l)
                /\ \A b \in t + 1 .. pc : \E ex : Above(ops, t + 1, in, l, b, ex)
  BY <1>1, ScopeEntry
<1>4. /\ t \in Nat /\ t < pc /\ t + 1 \in Nat /\ t \in 0 .. pc - 1
      /\ At(ops, t).op = "StartScope" /\ At(ops, t).scope = "Loop"
      /\ pc \in t + 1 .. pc
  <2>1. t \in Nat /\ At(ops, t).op = "StartScope"
    BY <1>1, NestKinds
  <2>2. t < pc
    BY <1>1, NestTypes
  <2> HIDE DEF t
  <2> QED
    BY <1>1, <2>1, <2>2 DEF t
<1> HIDE DEF t, stops, L
<1>5. in \in Seq(Nat) /\ Inner(ops, in, l, L) = 0 /\ Inner(ops, st, l, L) = 0
  <2>1. in \in Seq(Nat)
    BY <1>3 DEF Nest
  <2>2. Inner(ops, st, l, L) = 0
    BY <1>1, InnerType
  <2>3. l + 1 .. Len(in) = {}
    BY <1>1, <1>3
  <2>4. Inner(ops, in, l, L) = 0
    BY <1>1, <1>3, <2>3, InnerType
  <2> QED
    BY <2>1, <2>2, <2>4
\* The loops between its start and pc are closed.
<1>6. /\ Starts(ops, t + 1, pc, L) = Ends(ops, t + 1, pc, L)
      /\ Starts(ops, t + 1, pc, L) \in Nat
  <2>1. PICK ex : Above(ops, t + 1, in, l, pc, ex)
    BY <1>3, <1>4
  <2>2. ex = st
    BY <1>1, <2>1, NestUnique DEF Above
  <2>3. Inner(ops, st, l, L) + Ends(ops, t + 1, pc, L)
          = Inner(ops, in, l, L) + Starts(ops, t + 1, pc, L)
    BY <1>1, <2>1, <2>2 DEF Above
  <2> DEFINE x == Ends(ops, t + 1, pc, L)
             y == Starts(ops, t + 1, pc, L)
  <2>4. x \in Nat /\ y \in Nat /\ 0 + x = 0 + y
    BY <1>1, <1>4, <1>5, <2>3, CountType
  <2> HIDE DEF x, y
  <2>5. x = y
    BY <2>4
  <2> QED
    BY <2>4, <2>5 DEF x, y
<1>7. t \in stops
  BY <1>4, <1>6 DEF stops, L
\* Behind a loop that was started later, more loops are ended than started.
<1>8. ASSUME NEW g \in stops, t < g
      PROVE  FALSE
  <2>1. /\ g \in Nat /\ g + 1 \in Nat /\ g < pc /\ g + 1 <= pc /\ t + 1 <= g
        /\ g \in t + 1 .. pc
        /\ At(ops, g).op = "StartScope" /\ At(ops, g).scope \in L
        /\ Starts(ops, g + 1, pc, L) = Ends(ops, g + 1, pc, L)
    <3>1. /\ g \in 0 .. pc - 1
          /\ At(ops, g).op = "StartScope" /\ At(ops, g).scope \in L
          /\ Starts(ops, g + 1, pc, L) = Ends(ops, g + 1, pc, L)
      BY DEF stops, L
    <3>2. g \in Nat /\ g + 1 \in Nat /\ g < pc /\ g + 1 <= pc /\ t + 1 <= g
      BY <1>1, <1>4, <1>8, <3>1
    <3> QED
      BY <1>1, <1>4, <3>1, <3>2
  <2>2. PICK ex : Above(ops, t + 1, in, l, g, ex)
    BY <1>3, <2>1
  <2>3. Inner(ops, ex, l, L) + Ends(ops, t + 1, g, L)
          = Inner(ops, in, l, L) + Starts(ops, t + 1, g, L)
    BY <1>1, <2>2 DEF Above
  <2>4. Inner(ops, ex, l, L) \in Nat
    <3>1. Len(ex) \in Nat
      BY <2>2 DEF Above, Nest
    <3> QED
      BY <1>1, <3>1, InnerType
  <2>5. /\ Starts(ops, t + 1, g, L) \in Nat /\ Ends(ops, t + 1, g, L) \in Nat
        /\ Starts(ops, g + 1, pc, L) \in Nat
    BY <1>1, <1>4, <2>1, CountType
  <2>6. /\ Starts(ops, t + 1, g + 1, L) = Starts(ops, t + 1, g, L) + 1
        /\ Ends(ops, t + 1, g + 1, L) = Ends(ops, t + 1, g, L) + 0
    <3>1. ~ IsEnd(At(ops, g), L)
      BY <2>1 DEF IsEnd
    <3> QED
      BY <1>4, <2>1, <3>1, CountOne
  <2>7. /\ Starts(ops, t + 1, pc, L)
             = Starts(ops, t + 1, g + 1, L) + Starts(ops, g + 1, pc, L)
        /\ Ends(ops, t + 1, pc, L)
             = Ends(ops, t + 1, g + 1, L) + Ends(ops, g + 1, pc, L)
    <3>1. t + 1 <= g + 1
      BY <1>4, <2>1
    <3> QED
      BY <1>1, <1>4, <2>1, <3>1, CountSplit
  <2> DEFINE i == Inner(ops, ex, l, L)
             s == Starts(ops, t + 1, g, L)
             e == Ends(ops, t + 1, g, L)
             r == Starts(ops, g + 1, pc, L)
  <2>8. /\ i \in Nat /\ s \in Nat /\ e \in Nat /\ r \in Nat
        /\ i + e = 0 + s /\ (s + 1) + r = (e + 0) + r
    BY <1>5, <1>6, <2>1, <2>3, <2>4, <2>5, <2>6, <2>7
  <2> HIDE DEF i, s, e, r
  <2> QED
    BY <2>8
<1>9. Greatest(stops) = t
  <2>1. stops \in SUBSET Nat
    BY DEF stops
  <2>2. \A j \in stops : t >= j
    BY <1>4, <1>8, <2>1
  <2>3. Greatest(stops) \in stops /\ Greatest(stops) >= t
    BY <1>7, <2>2, GreatestBound
  <2> DEFINE g == Greatest(stops)
  <2> HIDE DEF g
  <2>4. g \in Nat /\ g >= t /\ t >= g
    BY <2>1, <2>2, <2>3 DEF g
  <2>5. g = t
    BY <1>4, <2>4
  <2> QED
    BY <2>5 DEF g
<1>10. loop_start(ops, pc) = t + 1
  BY <1>2, <1>7, <1>9
<1>11. DropTop(st, depth) = in
  <2>1. DropTop(in, 0) = DropTop(st, depth)
    <3>1. 0 \in Nat /\ Len(in) = l + 0
      BY <1>1, <1>3
    <3> QED
      BY <1>1, <1>3, <1>5, <3>1, DropAlike
  <2>2. DropTop(in, 0) = in
    <3> DEFINE x == DropTop(in, 0)
    <3>1. 0 \in Nat /\ 0 <= Len(in) /\ Len(in) - 0 = Len(in)
      BY <1>1, <1>3
    <3>2. /\ x \in Seq(Nat) /\ Len(x) = Len(in)
          /\ \A k \in 1 .. Len(in) : x[k] = in[k]
      BY <1>5, <3>1, DropTopType
    <3> HIDE DEF x
    <3>3. x = in
      BY <1>5, <3>2, SeqEqual
    <3> QED
      BY <3>3 DEF x
  <2> QED
    BY <2>1, <2>2
<1> QED
  BY <1>3, <1>10, <1>11 DEF t, l

-----------------------------------------------------------------------------
(* How many scopes are open.                                               *)

\* The starts of the scopes from the a-th to the b-th are as many as these.
Some(st, a, b) == {st[j] : j \in a .. b}

LEMMA SomeCount ==
  ASSUME NEW ops, NEW n \in Nat, NEW st, Nest(ops, n, st),
         NEW a \in Nat, a >= 1, NEW b \in Nat, b <= Len(st), a <= b + 1
  PROVE  Cardinality(Some(st, a, b)) = b + 1 - a
<1> DEFINE S == a .. b
           T == {st[j] : j \in S}
           f == [j \in S |-> st[j]]
<1>1. /\ \A j \in S : j \in 1 .. Len(st) /\ st[j] \in Nat /\ j \in Nat
      /\ \A j, k \in 1 .. Len(st) : j < k => st[j] < st[k]
  BY DEF Nest
<1>2. ASSUME NEW j \in S, NEW k \in S, st[j] = st[k]
      PROVE  j = k
  <2> HIDE DEF S
  <2>1. j < k => st[j] < st[k]
    BY <1>1
  <2>2. k < j => st[k] < st[j]
    BY <1>1
  <2>3. j \in Nat /\ k \in Nat /\ st[j] \in Nat /\ st[k] \in Nat
    BY <1>1
  <2> QED
    BY <1>2, <2>1, <2>2, <2>3
<1>3. f \in Bijection(S, T)
  <2> HIDE DEF S
  <2>1. f \in [S -> T]
    OBVIOUS
  <2>2. \A j, k \in S : f[j] = f[k] => j = k
    BY <1>2
  <2>3. \A t \in T : \E j \in S : f[j] = t
    OBVIOUS
  <2> QED
    BY <2>1, <2>2, <2>3 DEF Bijection, Injection, IsInjective, Surjection
<1>4. ExistsBijection(S, T)
  BY <1>3 DEF ExistsBijection
<1>5. IsFiniteSet(S) /\ Cardinality(S) = IF a > b THEN 0 ELSE b - a + 1
  BY FS_Interval
<1>6. Cardinality(T) = Cardinality(S)
  <2> HIDE DEF S, T
  <2> QED
    BY <1>4, <1>5, FS_Bijection
<1>7. Cardinality(S) = b + 1 - a
  <2> HIDE DEF S
  <2> QED
    BY <1>5
<1> QED
  BY <1>6, <1>7 DEF Some

LEMMA NestCount ==
  ASSUME NEW ops, NEW n \in Nat, NEW st, Nest(ops, n, st)
  PROVE  /\ Cardinality(OpenScopes(ops, n)) = Len(st)
         /\ \A k \in 1 .. Len(st) :
              /\ Cardinality({t \in OpenScopes(ops, n) : t < st[k]}) = k - 1
              /\ Cardinality({t \in OpenScopes(ops, n) : t > st[k]}) = Len(st) - k
<1> DEFINE open == OpenScopes(ops, n)
<1>1. /\ open = Some(st, 1, Len(st)) /\ Len(st) \in Nat
      /\ \A j \in 1 .. Len(st) : st[j] \in Nat
      /\ \A j, k \in 1 .. Len(st) : j < k => st[j] < st[k]
  BY DEF Nest, Some
<1> HIDE DEF open
<1>2. Cardinality(Some(st, 1, Len(st))) = Len(st) + 1 - 1
  <2>1. Len(st) \in Nat /\ Len(st) <= Len(st) /\ 1 <= Len(st) + 1
    BY <1>1
  <2> QED
    BY <2>1, SomeCount
<1>3. Cardinality(open) = Len(st)
  BY <1>1, <1>2
<1>4. ASSUME NEW k \in 1 .. Len(st)
      PROVE  /\ Cardinality({t \in open : t < st[k]}) = k - 1
             /\ Cardinality({t \in open : t > st[k]}) = Len(st) - k
  <2>1. ASSUME NEW j \in 1 .. Len(st)
        PROVE  (st[j] < st[k] <=> j < k) /\ (st[j] > st[k] <=> j > k)
    <3>1. st[j] \in Nat /\ st[k] \in Nat /\ j \in Nat /\ k \in Nat
      BY <1>1
    <3>2. (j < k => st[j] < st[k]) /\ (k < j => st[k] < st[j])
      BY <1>1
    <3>3. j = k => st[j] = st[k]
      OBVIOUS
    <3> DEFINE x == st[j]
               y == st[k]
    <3> HIDE DEF x, y
    <3>4. (x < y <=> j < k) /\ (x > y <=> j > k)
      BY <3>1, <3>2, <3>3 DEF x, y
    <3> QED
      BY <3>4 DEF x, y
  <2>2. {t \in open : t < st[k]} = Some(st, 1, k - 1)
    <3>1. \A j : j \in 1 .. k - 1 <=> j \in 1 .. Len(st) /\ j < k
      BY <1>1
    <3> QED
      BY <1>1, <2>1, <3>1 DEF Some
  <2>3. {t \in open : t > st[k]} = Some(st, k + 1, Len(st))
    <3>1. \A j : j \in k + 1 .. Len(st) <=> j \in 1 .. Len(st) /\ j > k
      BY <1>1
    <3> QED
      BY <1>1, <2>1, <3>1 DEF Some
  <2>4. Cardinality(Some(st, 1, k - 1)) = k - 1
    <3> DEFINE b == k - 1
    <3>1. b \in Nat /\ b <= Len(st) /\ 1 <= b + 1
      BY <1>1
    <3> HIDE DEF b
    <3>2. Cardinality(Some(st, 1, b)) = b + 1 - 1
      BY <3>1, SomeCount
    <3> QED
      BY <3>1, <3>2 DEF b
  <2>5. Cardinality(Some(st, k + 1, Len(st))) = Len(st) - k
    <3> DEFINE a == k + 1
    <3>1. a \in Nat /\ a >= 1 /\ a <= Len(st) + 1 /\ Len(st) + 1 - a = Len(st) - k
      BY <1>1
    <3> HIDE DEF a
    <3>2. Cardinality(Some(st, a, Len(st))) = Len(st) + 1 - a
      BY <1>1, <3>1, SomeCount
    <3> QED
      BY <3>1, <3>2 DEF a
  <2> QED
    BY <2>2, <2>3, <2>4, <2>5
<1> QED
  BY <1>3, <1>4 DEF open

-----------------------------------------------------------------------------
(* The control stack of a frame.                                           *)

\* It lists the scopes st, outermost first, and below them the function.
Listed(types, ops, st, control) ==
  /\ Len(control) = Len(st) + 1
  /\ control[1].scope = "Function"
  /\ \A k \in 1 .. Len(st) :
       /\ control[k + 1].scope = At(ops, st[k]).scope
       /\ control[k + 1].results = resolve_type(types, At(ops, st[k])).results

\* The frame's control stack lists the scopes that are open at its pc.
Nests(types, ops, f) ==
  f.pc < Len(ops) =>
    \E st : Nest(ops, f.pc, st) /\ Listed(types, ops, st, f.control)

\* A scope is entered.
LEMMA ListedStart ==
  ASSUME NEW types, NEW ops, NEW st \in Seq(Nat), NEW control \in Seq(Control),
         Listed(types, ops, st, control), NEW n \in Nat, NEW c \in Control,
         c.scope = At(ops, n).scope,
         c.results = resolve_type(types, At(ops, n)).results
  PROVE  Listed(types, ops, Append(st, n), Append(control, c))
<1> DEFINE more == Append(st, n)
           above == Append(control, c)
<1>1. /\ Len(st) \in Nat /\ Len(more) = Len(st) + 1 /\ more[Len(st) + 1] = n
      /\ \A k \in 1 .. Len(st) : more[k] = st[k]
  OBVIOUS
<1>2. /\ Len(above) = Len(control) + 1 /\ above[Len(control) + 1] = c
      /\ \A k \in 1 .. Len(control) : above[k] = control[k]
  OBVIOUS
<1>3. /\ Len(control) = Len(st) + 1 /\ control[1].scope = "Function"
      /\ \A k \in 1 .. Len(st) :
           /\ control[k + 1].scope = At(ops, st[k]).scope
           /\ control[k + 1].results = resolve_type(types, At(ops, st[k])).results
  BY DEF Listed
<1> HIDE DEF more, above
<1>4. Len(above) = Len(more) + 1 /\ above[1].scope = "Function"
  <2>1. 1 \in 1 .. Len(control)
    BY <1>1, <1>3
  <2> QED
    BY <1>1, <1>2, <1>3, <2>1
<1>5. ASSUME NEW k \in 1 .. Len(more)
      PROVE  /\ above[k + 1].scope = At(ops, more[k]).scope
             /\ above[k + 1].results
                  = resolve_type(types, At(ops, more[k])).results
  <2>1. CASE k \in 1 .. Len(st)
    <3>1. k + 1 \in 1 .. Len(control)
      BY <1>1, <1>3, <2>1
    <3>2. above[k + 1] = control[k + 1] /\ more[k] = st[k]
      BY <1>1, <1>2, <2>1, <3>1
    <3> QED
      BY <1>3, <2>1, <3>2
  <2>2. CASE k = Len(st) + 1
    <3>1. above[k + 1] = c /\ more[k] = n
      BY <1>1, <1>2, <1>3, <2>2
    <3> QED
      BY <3>1
  <2> QED
    BY <1>1, <2>1, <2>2
<1> QED
  BY <1>4, <1>5 DEF Listed, more, above

\* The d innermost scopes are left.
LEMMA ListedDrop ==
  ASSUME NEW types, NEW ops, NEW st \in Seq(Nat), NEW control \in Seq(Control),
         Listed(types, ops, st, control), NEW d \in Nat, d <= Len(st)
  PROVE  Listed(types, ops, DropTop(st, d), DropTop(control, d))
<1> DEFINE fewer == DropTop(st, d)
           below == DropTop(control, d)
<1>1. /\ Len(control) = Len(st) + 1 /\ control[1].scope = "Function"
      /\ \A k \in 1 .. Len(st) :
           /\ control[k + 1].scope = At(ops, st[k]).scope
           /\ control[k + 1].results = resolve_type(types, At(ops, st[k])).results
  BY DEF Listed
<1>2. Len(st) \in Nat /\ d <= Len(control)
  BY <1>1
<1>3. /\ Len(fewer) = Len(st) - d
      /\ \A k \in 1 .. Len(st) - d : fewer[k] = st[k]
  BY DropTopType
<1>4. /\ Len(below) = Len(control) - d
      /\ \A k \in 1 .. Len(control) - d : below[k] = control[k]
  BY <1>2, DropTopType
<1> HIDE DEF fewer, below
<1>5. Len(below) = Len(fewer) + 1 /\ below[1].scope = "Function"
  <2>1. 1 \in 1 .. Len(control) - d
    BY <1>1, <1>2
  <2> QED
    BY <1>1, <1>2, <1>3, <1>4, <2>1
<1>6. ASSUME NEW k \in 1 .. Len(fewer)
      PROVE  /\ below[k + 1].scope = At(ops, fewer[k]).scope
             /\ below[k + 1].results
                  = resolve_type(types, At(ops, fewer[k])).results
  <2>1. /\ k \in 1 .. Len(st) /\ k \in 1 .. Len(st) - d
        /\ k + 1 \in 1 .. Len(control) - d
    BY <1>1, <1>2, <1>3
  <2> QED
    BY <1>1, <1>3, <1>4, <2>1
<1> QED
  BY <1>5, <1>6 DEF Listed, fewer, below

\* decode() opens blocks, loops and ifs.
LEMMA NestOpened ==
  ASSUME NEW ops, Len(ops) \in Nat, Scoped(ops), decode_accepts(ops),
         NEW n \in 0 .. Len(ops), NEW st, Nest(ops, n, st), NEW k \in 1 .. Len(st)
  PROVE  At(ops, st[k]).scope \in {"Block", "Loop", "IfElse"}
<1>1. st[k] \in 0 .. Len(ops) - 1 /\ At(ops, st[k]).op = "StartScope"
  BY NestKinds
<1> QED
  BY <1>1 DEF decode_accepts

\* From a to e the starts and ends of kinds S account for the scopes within the
\* l-th one: those of st at a, those of out at e.
Balance(ops, a, st, e, out, l, S) ==
  Inner(ops, st, l, S) + Starts(ops, a, e, S)
    = Inner(ops, out, l, S) + Ends(ops, a, e, S)

\* Between two places inside of the l-th scope that is open at the second one,
\* the starts and ends of any kind account for the scopes within it.
LEMMA Between ==
  ASSUME NEW ops, Len(ops) \in Nat, Scoped(ops), decode_accepts(ops),
         NEW e \in 0 .. Len(ops), NEW out, Nest(ops, e, out),
         NEW l \in 1 .. Len(out), NEW a \in Nat, out[l] < a, a <= e,
         NEW st, Nest(ops, a, st), NEW S \in SUBSET ScopeTypes
  PROVE  /\ l <= Len(st) /\ Alike(st, out, l)
         /\ Balance(ops, a, st, e, out, l, S)
<1> DEFINE t == out[l]
           b == t + 1
<1>1. /\ t \in Nat /\ b \in Nat /\ b <= a /\ b <= e /\ e \in Nat /\ l \in Nat
      /\ a \in b .. e /\ e \in b .. e
  <2>1. e \in Nat
    OBVIOUS
  <2>2. t \in Nat /\ t < a
    BY <2>1, NestTypes
  <2> HIDE DEF t
  <2> QED
    BY <2>1, <2>2
<1>2. PICK in : /\ Nest(ops, b, in) /\ Len(in) = l /\ Alike(in, out, l)
                /\ \A c \in b .. e : \E ex : Above(ops, b, in, l, c, ex)
  BY ScopeEntry
<1> HIDE DEF b
<1>3. Above(ops, b, in, l, a, st)
  <2>1. PICK ex : Above(ops, b, in, l, a, ex)
    BY <1>1, <1>2
  <2>2. ex = st
    BY <2>1, NestUnique DEF Above
  <2> QED
    BY <2>1, <2>2
<1>4. Above(ops, b, in, l, e, out)
  <2>1. PICK ex : Above(ops, b, in, l, e, ex)
    BY <1>1, <1>2
  <2>2. ex = out
    BY <1>1, <2>1, NestUnique DEF Above
  <2> QED
    BY <2>1, <2>2
<1>5. l <= Len(st) /\ Alike(st, out, l)
  BY <1>2, <1>3 DEF Above, Alike
<1> DEFINE x == Inner(ops, st, l, S)
           y == Inner(ops, out, l, S)
           z == Inner(ops, in, l, S)
           s1 == Starts(ops, b, a, S)
           e1 == Ends(ops, b, a, S)
           s2 == Starts(ops, a, e, S)
           e2 == Ends(ops, a, e, S)
<1>6. x + e1 = z + s1 /\ y + Ends(ops, b, e, S) = z + Starts(ops, b, e, S)
  BY <1>3, <1>4 DEF Above
<1>7. Starts(ops, b, e, S) = s1 + s2 /\ Ends(ops, b, e, S) = e1 + e2
  BY <1>1, CountSplit
<1>8. /\ x \in Nat /\ y \in Nat /\ z \in Nat
      /\ s1 \in Nat /\ e1 \in Nat /\ s2 \in Nat /\ e2 \in Nat
  <2>1. Len(st) \in Nat /\ Len(out) \in Nat /\ Len(in) \in Nat
    <3>1. Len(st) \in Nat
      BY DEF Nest
    <3>2. Len(out) \in Nat
      BY DEF Nest
    <3> QED
      BY <1>1, <1>2, <3>1, <3>2
  <2>2. x \in Nat /\ y \in Nat /\ z \in Nat
    BY <1>1, <2>1, InnerType
  <2>3. s1 \in Nat /\ e1 \in Nat /\ s2 \in Nat /\ e2 \in Nat
    BY <1>1, CountType
  <2> QED
    BY <2>2, <2>3
<1>9. x + e1 = z + s1 /\ y + (e1 + e2) = z + (s1 + s2)
  BY <1>6, <1>7
<1> HIDE DEF x, y, z, s1, e1, s2, e2
<1>10. x + s2 = y + e2
  BY <1>8, <1>9
<1> QED
  BY <1>5, <1>10 DEF Balance, x, y, s2, e2

\* The starts of open scopes differ.
LEMMA NestPlaces ==
  ASSUME NEW ops, NEW n \in Nat, NEW st, Nest(ops, n, st),
         NEW j \in 1 .. Len(st), NEW k \in 1 .. Len(st), st[j] = st[k]
  PROVE  j = k
<1>1. Len(st) \in Nat /\ st[j] \in Nat /\ st[k] \in Nat
  BY NestTypes
<1>2. (j < k => st[j] < st[k]) /\ (k < j => st[k] < st[j])
  BY DEF Nest
<1> QED
  BY <1>1, <1>2

\* At the end of a function no scope is open.
LEMMA NoneOpen ==
  ASSUME NEW ops, Len(ops) \in Nat, Scoped(ops), decode_accepts(ops),
         NEW z \in 0 .. Len(ops) - 1, IsEnd(At(ops, z), {"Program"})
  PROVE  OpenScopes(ops, z) = {}
<1>1. PICK st : Nest(ops, z, st)
  BY NestAt
<1>2. Innermost(ops, z) = "Program"
  BY DEF IsEnd, decode_accepts
<1>3. Len(st) \in Nat /\ st \in Seq(Nat)
  BY <1>1 DEF Nest
<1>4. CASE st # <<>>
  <2>1. Len(st) \in 1 .. Len(st) /\ z \in 0 .. Len(ops)
    BY <1>3, <1>4
  <2>2. At(ops, st[Len(st)]).scope = "Program"
    BY <1>1, <1>2, <1>4, NestInnermost
  <2>3. At(ops, st[Len(st)]).scope \in {"Block", "Loop", "IfElse"}
    BY <1>1, <2>1, NestOpened
  <2> QED
    BY <2>2, <2>3
<1>5. CASE st = <<>>
  BY <1>1, <1>5 DEF Nest
<1> QED
  BY <1>4, <1>5

\* In a program that ends with the end of its function every scope is closed.
LEMMA Closing ==
  ASSUME NEW ops, Len(ops) \in Nat, Scoped(ops), decode_accepts(ops),
         NEW z \in 0 .. Len(ops) - 1, IsEnd(At(ops, z), {"Program"}),
         NEW pc \in 0 .. z, NEW st, Nest(ops, pc, st), NEW k \in 1 .. Len(st)
  PROVE  \E j \in pc .. z - 1 :
           /\ IsEnd(At(ops, j), ScopeTypes)
           /\ \E out : Nest(ops, j, out) /\ Len(out) = k /\ Alike(st, out, k)
<1> DEFINE s == st[k]
           closers == {j \in s + 1 .. z - 1 :
                         /\ IsEnd(At(ops, j), ScopeTypes)
                         /\ Starts(ops, s + 1, j, ScopeTypes)
                              = Ends(ops, s + 1, j, ScopeTypes)}
           j == Least(closers)
<1>1. s \in Nat /\ s < pc /\ s \in OpenScopes(ops, pc) /\ pc \in Nat
  <2>1. pc \in Nat
    OBVIOUS
  <2>2. s \in Nat /\ s < pc
    BY <2>1, NestTypes
  <2>3. s \in OpenScopes(ops, pc)
    BY DEF Nest
  <2> QED
    BY <2>1, <2>2, <2>3
<1> HIDE DEF s
<1>2. closers # {}
  <2>1. s \notin OpenScopes(ops, z)
    BY NoneOpen
  <2>2. s \in 0 .. z - 1 /\ At(ops, s).op = "StartScope"
    BY <1>1 DEF OpenScopes
  <2> QED
    BY <2>1, <2>2 DEF OpenScopes
<1>3. j \in closers /\ \A p \in closers : j <= p
  <2>1. closers \in SUBSET Nat
    BY <1>1
  <2> HIDE DEF closers
  <2> QED
    BY <1>2, <2>1, LeastBound
<1>4. /\ j \in s + 1 .. z - 1 /\ IsEnd(At(ops, j), ScopeTypes)
      /\ Starts(ops, s + 1, j, ScopeTypes) = Ends(ops, s + 1, j, ScopeTypes)
  BY <1>3
<1>5. ASSUME NEW p \in s + 1 .. j - 1
      PROVE  IsEnd(At(ops, p), ScopeTypes) =>
               Starts(ops, s + 1, p, ScopeTypes) # Ends(ops, s + 1, p, ScopeTypes)
  <2>1. p \in s + 1 .. z - 1 /\ ~ (j <= p)
    <3> HIDE DEF j
    <3> QED
      BY <1>1, <1>4
  <2>2. p \notin closers
    BY <1>3, <2>1
  <2> QED
    BY <2>1, <2>2
<1> HIDE DEF closers, j
<1>6. j \in Nat /\ s \in 0 .. j - 1 /\ j \in 0 .. Len(ops)
  BY <1>1, <1>4
<1>7. s \in OpenScopes(ops, j)
  BY <1>1, <1>5, <1>6 DEF OpenScopes
<1>8. pc <= j /\ j \in pc .. z - 1
  <2>1. ASSUME j < pc PROVE FALSE
    <3>1. j \in s + 1 .. pc - 1
      BY <1>1, <1>4, <1>6, <2>1
    <3> QED
      BY <1>1, <1>4, <3>1 DEF OpenScopes
  <2> QED
    BY <1>1, <1>4, <1>6, <2>1
<1>9. PICK out : Nest(ops, j, out)
  BY <1>6, NestAt
<1>10. PICK q \in 1 .. Len(out) : s = out[q]
  BY <1>7, <1>9 DEF Nest
<1>11. Len(out) = q /\ q \in Nat
  <2> DEFINE x == Starts(ops, s + 1, j, ScopeTypes)
             y == Ends(ops, s + 1, j, ScopeTypes)
  <2>1. x = y + (Len(out) - q) /\ x = y
    BY <1>4, <1>9, <1>10 DEF Nest
  <2>2. x \in Nat /\ y \in Nat /\ Len(out) \in Nat
    BY <1>6, <1>9, <1>10, NestTypes
  <2> HIDE DEF x, y
  <2> QED
    BY <2>1, <2>2
<1>12. q <= Len(st) /\ Alike(st, out, q)
  <2>1. ScopeTypes \in SUBSET ScopeTypes /\ out[q] < pc
    BY <1>1, <1>10
  <2> QED
    BY <1>1, <1>6, <1>8, <1>9, <2>1, Between
<1>13. q = k
  <2>1. q \in 1 .. Len(st) /\ st[q] = st[k]
    BY <1>10, <1>11, <1>12 DEF Alike, s
  <2> QED
    BY <1>1, <2>1, NestPlaces
<1> QED
  BY <1>4, <1>8, <1>9, <1>11, <1>12, <1>13

\* A branch to a loop that crosses no other.
LEMMA Uncrossed ==
  ASSUME NEW ops, Len(ops) \in Nat, LoopsUncrossed(ops),
         NEW i \in 0 .. Len(ops) - 1, NEW st, Nest(ops, i, st),
         NEW l \in 1 .. Len(st), At(ops, st[l]).scope = "Loop",
         Len(st) - l \in Depths(At(ops, i))
  PROVE  \A k \in l + 1 .. Len(st) : At(ops, st[k]).scope # "Loop"
<1> DEFINE open == OpenScopes(ops, i)
<1>1. /\ i \in Nat /\ Len(st) \in Nat /\ open = {st[k] : k \in 1 .. Len(st)}
      /\ \A j, k \in 1 .. Len(st) : j < k => st[j] < st[k]
      /\ \A k \in 1 .. Len(st) : st[k] \in Nat
  <2>1. i \in Nat
    OBVIOUS
  <2>2. /\ st \in Seq(Nat) /\ open = {st[k] : k \in 1 .. Len(st)}
        /\ \A j, k \in 1 .. Len(st) : j < k => st[j] < st[k]
    BY DEF Nest
  <2> QED
    BY <2>1, <2>2
<1>2. Cardinality({s \in open : s > st[l]}) = Len(st) - l
  BY <1>1, NestCount
<1>3. st[l] \in open
  BY <1>1
<1>4. \A s \in {s \in open : s > st[l]} : At(ops, s).scope # "Loop"
  BY <1>2, <1>3 DEF LoopsUncrossed
<1> HIDE DEF open
<1>5. ASSUME NEW k \in l + 1 .. Len(st)
      PROVE  st[k] \in {s \in open : s > st[l]}
  <2>1. k \in 1 .. Len(st) /\ l < k
    BY <1>1
  <2>2. st[l] < st[k] /\ st[k] \in open /\ st[l] \in Nat /\ st[k] \in Nat
    BY <1>1, <2>1
  <2> QED
    BY <2>2
<1> QED
  BY <1>4, <1>5

\* A branch goes where its target says, and leaves the scopes it leaves.
LEMMA BranchNests ==
  ASSUME NEW types, NEW ops, Len(ops) \in Nat, Scoped(ops), decode_accepts(ops),
         LoopsUncrossed(ops), NEW i \in 0 .. Len(ops) - 1,
         At(ops, i).op \notin {"StartScope", "EndScope"},
         NEW st, Nest(ops, i, st),
         NEW f \in Frame, f.pc = i + 1, Listed(types, ops, st, f.control),
         NEW depth \in Nat, depth \in Depths(At(ops, i)),
         execute_branch(f, ops, depth).fault = "None"
  PROVE  Nests(types, ops, execute_branch(f, ops, depth).frame)
<1> DEFINE target == f.control[Len(f.control) - depth]
           popped == IF target.scope = "Loop" THEN depth ELSE depth + 1
           g == execute_branch(f, ops, depth).frame
           l == Len(st) - depth
<1>1. /\ depth < Len(f.control)
      /\ g.control = DropTop(f.control, popped)
      /\ g.pc = CASE target.scope = "Function" -> Len(ops)
                  [] target.scope = "Loop" -> loop_start(ops, f.pc)
                  [] OTHER -> scope_end(ops, f.pc, popped - 1)
  BY BranchFields
<1>2. /\ Len(f.control) = Len(st) + 1 /\ f.control[1].scope = "Function"
      /\ \A k \in 1 .. Len(st) : f.control[k + 1].scope = At(ops, st[k]).scope
  BY DEF Listed
<1>3. st \in Seq(Nat) /\ Len(st) \in Nat /\ f.control \in Seq(Control)
  BY DEF Nest, Frame
<1>4. i \in Nat /\ f.pc \in Nat /\ f.pc \in 0 .. Len(ops)
  OBVIOUS
<1>5. Nest(ops, f.pc, st)
  BY <1>4, NestPlain
<1> HIDE DEF g
<1> SUFFICES ASSUME g.pc < Len(ops)
             PROVE  \E in : Nest(ops, g.pc, in) /\ Listed(types, ops, in, g.control)
  BY DEF Nests, g
<1>6. CASE depth = Len(st)
  <2>1. Len(f.control) - depth = 1
    BY <1>2, <1>3, <1>6
  <2>2. target.scope = "Function"
    BY <1>2, <2>1
  <2>3. g.pc = Len(ops)
    BY <1>1, <2>2
  <2> QED
    BY <2>3
<1>7. CASE depth < Len(st)
  <2>1. /\ l \in Nat /\ l \in 1 .. Len(st) /\ Len(f.control) - depth = l + 1
        /\ Len(st) - l = depth
    BY <1>2, <1>3, <1>7
  <2>2. target.scope = At(ops, st[l]).scope
    BY <1>2, <2>1
  <2> HIDE DEF target, l
  <2>3. target.scope \in {"Block", "Loop", "IfElse"}
    BY <1>4, <1>5, <2>1, <2>2, NestOpened
  <2>4. CASE target.scope = "Loop"
    <3>1. \A k \in l + 1 .. Len(st) : At(ops, st[k]).scope # "Loop"
      BY <2>1, <2>2, <2>4, Uncrossed
    <3>2. /\ At(ops, st[Len(st) - depth]).scope = "Loop"
          /\ \A k \in Len(st) - depth + 1 .. Len(st) : At(ops, st[k]).scope # "Loop"
      BY <2>2, <2>4, <3>1 DEF l
    <3>3. Nest(ops, loop_start(ops, f.pc), DropTop(st, depth))
      BY <1>4, <1>5, <1>7, <3>2, LoopStartNests
    <3>4. Listed(types, ops, DropTop(st, depth), DropTop(f.control, depth))
      BY <1>3, <1>7, ListedDrop
    <3>5. g.pc = loop_start(ops, f.pc) /\ g.control = DropTop(f.control, depth)
      BY <1>1, <2>4
    <3> QED
      BY <3>3, <3>4, <3>5
  <2>5. CASE target.scope # "Loop"
    <3>1. /\ g.pc = scope_end(ops, f.pc, depth)
          /\ g.control = DropTop(f.control, depth + 1)
      <4>1. popped = depth + 1 /\ popped - 1 = depth
        BY <2>5
      <4> HIDE DEF popped
      <4> QED
        BY <1>1, <2>3, <2>5, <4>1
    <3>2. Nest(ops, scope_end(ops, f.pc, depth), DropTop(st, depth + 1))
      BY <1>4, <1>5, <1>7, <3>1, ScopeEndNests
    <3>3. Listed(types, ops, DropTop(st, depth + 1), DropTop(f.control, depth + 1))
      <4>1. depth + 1 \in Nat /\ depth + 1 <= Len(st)
        BY <1>3, <1>7
      <4> QED
        BY <1>3, <4>1, ListedDrop
    <3> QED
      BY <3>1, <3>2, <3>3
  <2> QED
    BY <2>4, <2>5
<1> QED
  BY <1>1, <1>2, <1>3, <1>6, <1>7

\* What ScopesMatchNesting says of a frame.
Matches(types, ops, pc, control) ==
  LET open == OpenScopes(ops, pc)
  IN /\ Len(control) = Cardinality(open) + 1
     /\ control[1].scope = "Function"
     /\ \A s \in open :
          LET c == control[2 + Cardinality({t \in open : t < s})]
          IN /\ c.scope = At(ops, s).scope
             /\ c.results = resolve_type(types, At(ops, s)).results

LEMMA ListedMatches ==
  ASSUME NEW types, NEW ops, NEW n \in Nat, NEW st, Nest(ops, n, st),
         NEW control, Listed(types, ops, st, control)
  PROVE  Matches(types, ops, n, control)
<1> DEFINE open == OpenScopes(ops, n)
<1>1. Cardinality(open) = Len(st)
  BY NestCount
<1>2. ASSUME NEW k \in 1 .. Len(st)
      PROVE  Cardinality({t \in open : t < st[k]}) = k - 1
  <2>1. /\ Cardinality({t \in open : t < st[k]}) = k - 1
        /\ Cardinality({t \in open : t > st[k]}) = Len(st) - k
    BY NestCount, Zenon
  <2> QED
    BY <2>1
<1>3. open = {st[k] : k \in 1 .. Len(st)} /\ Len(st) \in Nat
  BY DEF Nest
<1>4. Len(control) = Len(st) + 1 /\ control[1].scope = "Function"
  BY DEF Listed
<1> HIDE DEF open
<1>5. ASSUME NEW s \in open
      PROVE  LET c == control[2 + Cardinality({t \in open : t < s})]
             IN /\ c.scope = At(ops, s).scope
                /\ c.results = resolve_type(types, At(ops, s)).results
  <2> DEFINE c == control[2 + Cardinality({t \in open : t < s})]
             x == Cardinality({t \in open : t < s})
  <2>1. PICK k \in 1 .. Len(st) : s = st[k]
    BY <1>3
  <2>2. x = k - 1
    BY <1>2, <2>1
  <2> HIDE DEF x
  <2>3. 2 + x = k + 1
    BY <2>2
  <2>4. c = control[k + 1]
    BY <2>3 DEF x
  <2> HIDE DEF c
  <2>5. /\ c.scope = At(ops, s).scope
        /\ c.results = resolve_type(types, At(ops, s)).results
    BY <2>1, <2>4 DEF Listed
  <2> QED
    BY <2>5 DEF c
<1>6. Len(control) = Cardinality(open) + 1
  BY <1>1, <1>4
<1> QED
  BY <1>4, <1>5, <1>6 DEF Matches, open
=============================================================================
