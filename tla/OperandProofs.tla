--------------------------- MODULE OperandProofs ---------------------------
(***************************************************************************)
(* Validated code never runs out of operands.  What is on the operand      *)
(* stack of a frame is compared with the heights its function was          *)
(* validated with: it may be more, because the end of an if can leave an   *)
(* operand behind, so that scopes are entered with more operands than      *)
(* their start's height.  The surplus never shrinks from a scope to those  *)
(* inside of it, nor from the innermost one to the pc; that is the         *)
(* inductive invariant, and each step needs no more of the program than    *)
(* what validation says of one operation.                                  *)
(***************************************************************************)
EXTENDS Validation, ExecutionProofs

HeightOf(m, fn) == CHOOSE h : Heights(m, fn, h)

\* The height at the start of the k-th scope of a control stack that lists the
\* scopes st, which is the function itself for k = 1.
Level(h, st, k) == IF k = 1 THEN 0 ELSE h[st[k - 1]]

\* The surplus grows from each scope to those inside of it ...
Ordered(h, st, control) ==
  \A j, k \in 1 .. Len(st) + 1 :
    j <= k => control[j].width + Level(h, st, k)
                <= control[k].width + Level(h, st, j)

\* ... and to a place of height at with n operands.
Roomy(h, st, control, at, n) ==
  \A k \in 1 .. Len(st) + 1 : control[k].width + at <= n + Level(h, st, k)

\* What the entries of the control stack were made from.
Grounded(m, fn, st, control) ==
  /\ control[1].width = 0
  /\ Len(control[1].results) = FunctionYields(m, fn)
  /\ \A k \in 1 .. Len(st) :
       control[k + 1].fn => At(At(m.code, fn).ops, st[k]).ty = "Index"

Surplus(m, fn, h, st, control, at, n) ==
  /\ Grounded(m, fn, st, control)
  /\ Ordered(h, st, control)
  /\ Roomy(h, st, control, at, n)

\* A frame that will get p results pushed before it goes on.
FrameHeights(m, f, p) ==
  LET ops == At(m.code, f.fn).ops
      h == HeightOf(m, f.fn)
      n == Len(f.stack) + p
  IN /\ f.pc \in 0 .. Len(ops)
     /\ h[f.pc] <= n
     /\ f.pc < Len(ops) =>
          \E st : /\ Nest(ops, f.pc, st)
                  /\ Surplus(m, f.fn, h, st, f.control, h[f.pc], n)

\* No scope has used up operands from below its entry, with n operands left.
IfBit(c) == IF c.scope = "IfElse" THEN 1 ELSE 0
Floors(control, n) ==
  \A j \in 1 .. Len(control) :
    /\ control[j].width <= n + IfBit(control[j])
    /\ \A k \in j .. Len(control) :
         control[j].width <= control[k].width + IfBit(control[j])

FramesFloors(fs) ==
  \A i \in 1 .. Len(fs) : Floors(fs[i].control, Len(fs[i].stack))

\* A frame below another one waits for its results.
Pending(m, fs, i) ==
  IF i = Len(fs) THEN 0 ELSE Len(ReturnTypes(m, fs[i + 1].fn))
FramesHigh(m, fs) ==
  \A i \in 1 .. Len(fs) : FrameHeights(m, fs[i], Pending(m, fs, i))

Underflows ==
  {"StackUnderflow", "ControlStackUnderflow", "LocalIndexOutOfBounds",
   "UnresolvableTypeIndex"}

\* Frames that a trap left behind do not get what they wait for, so only the
\* frames of a run are as high as they should be.
HInv ==
  /\ status \in {"prepared", "running"} => FramesHigh(mod, frames)
  /\ FramesFloors(frames)
  /\ outcome \notin Underflows
  /\ outcome = "Panic" => status = "panicked"

\* The host prepares only when no frame is left behind.
FreshHost == Disciplined /\ MaxStale = 0

\* What is assumed of the programs, here and of ProgramsNest.
Validated == ProgramsNest /\ ProgramsValid /\ FreshHost

-----------------------------------------------------------------------------
(* Surpluses.                                                              *)

LEMMA ControlWidths ==
  ASSUME NEW control \in Seq(Control), NEW k \in 1 .. Len(control)
  PROVE  control[k].width \in Nat /\ control[k].results \in Seq(ValTypes)
<1>1. control[k] \in Control
  OBVIOUS
<1> QED
  BY <1>1 DEF Control

LEMMA LevelType ==
  ASSUME NEW ops, Len(ops) \in Nat, NEW h \in [0 .. Len(ops) -> Nat],
         NEW i \in 0 .. Len(ops), NEW st, Nest(ops, i, st),
         NEW k \in 1 .. Len(st) + 1
  PROVE  Level(h, st, k) \in Nat
<1>1. CASE k = 1
  BY <1>1 DEF Level
<1>2. CASE k # 1
  <2>1. Len(st) \in Nat /\ i \in Nat
    BY DEF Nest
  <2>2. k - 1 \in 1 .. Len(st)
    BY <1>2, <2>1
  <2>3. st[k - 1] \in Nat /\ st[k - 1] < i
    BY <2>1, <2>2, NestTypes
  <2>4. st[k - 1] \in 0 .. Len(ops)
    BY <2>3
  <2>5. h[st[k - 1]] \in Nat
    BY <2>4
  <2> QED
    BY <1>2, <2>5 DEF Level
<1> QED
  BY <1>1, <1>2

\* The surplus at another place with other operands is no less.
LEMMA MovedSurplus ==
  ASSUME NEW m, NEW fn, NEW ops, Len(ops) \in Nat, NEW h \in [0 .. Len(ops) -> Nat],
         NEW i \in 0 .. Len(ops), NEW st, Nest(ops, i, st),
         NEW control \in Seq(Control), Len(control) = Len(st) + 1,
         NEW at \in Nat, NEW n \in Nat, Surplus(m, fn, h, st, control, at, n),
         NEW at2 \in Nat, NEW n2 \in Nat, n + at2 <= n2 + at
  PROVE  Surplus(m, fn, h, st, control, at2, n2)
<1>1. ASSUME NEW k \in 1 .. Len(st) + 1
      PROVE  control[k].width + at2 <= n2 + Level(h, st, k)
  <2> DEFINE w == control[k].width
             l == Level(h, st, k)
  <2>1. w \in Nat /\ l \in Nat
    BY ControlWidths, LevelType
  <2>2. w + at <= n + l
    BY DEF Surplus, Roomy
  <2> HIDE DEF w, l
  <2>3. w + at2 <= n2 + l
    BY <2>1, <2>2
  <2> QED
    BY <2>3 DEF w, l
<1> QED
  BY <1>1 DEF Surplus, Roomy

\* A function starts with no operands.
LEMMA FirstSurplus ==
  ASSUME NEW m, NEW fn, NEW h, NEW control, control[1].width = 0,
         Len(control[1].results) = FunctionYields(m, fn)
  PROVE  Surplus(m, fn, h, <<>>, control, 0, 0)
<1>1. \A k \in 1 .. Len(<<>>) + 1 : k = 1
  OBVIOUS
<1>2. Level(h, <<>>, 1) = 0
  BY DEF Level
<1>3. Ordered(h, <<>>, control)
  BY <1>1, <1>2 DEF Ordered
<1>4. Roomy(h, <<>>, control, 0, 0)
  BY <1>1, <1>2 DEF Roomy
<1>5. Grounded(m, fn, <<>>, control)
  BY DEF Grounded
<1> QED
  BY <1>3, <1>4, <1>5 DEF Surplus

\* The function itself is the first scope, so a surplus means enough operands.
LEMMA SurplusHeight ==
  ASSUME NEW m, NEW fn, NEW h, NEW st, Len(st) \in Nat, NEW control,
         NEW at \in Nat, NEW n \in Nat, Surplus(m, fn, h, st, control, at, n)
  PROVE  at <= n
<1>1. 1 \in 1 .. Len(st) + 1
  OBVIOUS
<1>2. control[1].width = 0 /\ Level(h, st, 1) = 0
  BY DEF Surplus, Grounded, Level
<1>3. control[1].width + at <= n + Level(h, st, 1)
  BY <1>1 DEF Surplus, Roomy
<1> QED
  BY <1>2, <1>3

\* A scope is entered with n operands, at a place of height at.
LEMMA PushedSurplus ==
  ASSUME NEW m, NEW fn, NEW h, NEW i \in Nat, h[i] \in Nat,
         NEW st \in Seq(Nat), NEW control \in Seq(Control),
         Len(control) = Len(st) + 1,
         \A k \in 1 .. Len(st) + 1 : Level(h, st, k) \in Nat,
         NEW n \in Nat, Surplus(m, fn, h, st, control, h[i], n),
         NEW c \in Control, c.width = n,
         c.fn => At(At(m.code, fn).ops, i).ty = "Index",
         NEW at2 \in Nat, at2 <= h[i]
  PROVE  Surplus(m, fn, h, Append(st, i), Append(control, c), at2, n)
<1> DEFINE more == Append(st, i)
           above == Append(control, c)
           l == Len(st) + 1
<1>1. /\ Len(st) \in Nat /\ Len(more) = Len(st) + 1
      /\ more[Len(st) + 1] = i /\ \A k \in 1 .. Len(st) : more[k] = st[k]
  OBVIOUS
<1>2. /\ above[l + 1] = c /\ \A k \in 1 .. l : above[k] = control[k]
  OBVIOUS
<1> HIDE DEF more, above
<1>3. /\ Level(h, more, l + 1) = h[i]
      /\ \A k \in 1 .. l : Level(h, more, k) = Level(h, st, k)
  <2>1. \A k \in 1 .. l : k # 1 => k - 1 \in 1 .. Len(st)
    BY <1>1
  <2>2. l + 1 # 1 /\ (l + 1) - 1 = Len(st) + 1
    BY <1>1
  <2> QED
    BY <1>1, <2>1, <2>2 DEF Level
<1>4. \A k \in 1 .. l : control[k].width \in Nat
  BY ControlWidths
<1>5. ASSUME NEW k \in 1 .. l
      PROVE  /\ above[k].width + h[i] <= above[l + 1].width + Level(h, more, k)
             /\ above[k].width + at2 <= n + Level(h, more, k)
  <2> DEFINE w == control[k].width
             v == Level(h, st, k)
  <2>1. w + h[i] <= n + v
    BY DEF Surplus, Roomy
  <2>2. w \in Nat /\ v \in Nat
    BY <1>4
  <2>3. above[k].width = w /\ Level(h, more, k) = v /\ above[l + 1].width = n
    BY <1>2, <1>3
  <2> HIDE DEF w, v, l
  <2>4. w + at2 <= n + v
    BY <2>1, <2>2
  <2> QED
    BY <2>1, <2>3, <2>4
<1>6. \A k \in 1 .. Len(more) + 1 : k \in 1 .. l \/ k = l + 1
  BY <1>1
<1>7. Ordered(h, more, above)
  <2>1. ASSUME NEW j \in 1 .. Len(more) + 1, NEW k \in 1 .. Len(more) + 1, j <= k
        PROVE  above[j].width + Level(h, more, k)
                 <= above[k].width + Level(h, more, j)
    <3>1. CASE k \in 1 .. l
      <4>1. j \in 1 .. l
        BY <1>1, <2>1, <3>1
      <4>2. control[j].width + Level(h, st, k) <= control[k].width + Level(h, st, j)
        BY <2>1, <3>1, <4>1 DEF Surplus, Ordered
      <4> QED
        BY <1>2, <1>3, <3>1, <4>1, <4>2
    <3>2. CASE k = l + 1 /\ j \in 1 .. l
      BY <1>3, <1>5, <3>2
    <3>3. CASE k = l + 1 /\ j = l + 1
      BY <1>2, <1>3, <3>3
    <3> QED
      BY <1>6, <3>1, <3>2, <3>3
  <2> QED
    BY <2>1 DEF Ordered
<1>8. Roomy(h, more, above, at2, n)
  <2>1. above[l + 1].width + at2 <= n + Level(h, more, l + 1)
    BY <1>2, <1>3
  <2> QED
    BY <1>5, <1>6, <2>1 DEF Roomy
<1>9. Grounded(m, fn, more, above)
  <2>1. above[1] = control[1]
    BY <1>1, <1>2
  <2>2. ASSUME NEW k \in 1 .. Len(more), above[k + 1].fn
        PROVE  At(At(m.code, fn).ops, more[k]).ty = "Index"
    <3>1. CASE k \in 1 .. Len(st)
      <4>1. above[k + 1] = control[k + 1]
        BY <1>1, <1>2, <3>1
      <4> QED
        BY <1>1, <2>2, <3>1, <4>1 DEF Surplus, Grounded
    <3>2. CASE k = l
      BY <1>1, <1>2, <2>2, <3>2
    <3> QED
      BY <1>1, <3>1, <3>2
  <2> QED
    BY <2>1, <2>2 DEF Surplus, Grounded
<1>10. Surplus(m, fn, h, more, above, at2, n)
  BY <1>7, <1>8, <1>9 DEF Surplus
<1> QED
  BY <1>10 DEF more, above

\* Scopes are left, up to scope u or with it, and the surplus over scope u is
\* no less than on its entry.
LEMMA DroppedSurplus ==
  ASSUME NEW m, NEW fn, NEW h, NEW st \in Seq(Nat),
         NEW control \in Seq(Control), Len(control) = Len(st) + 1,
         \A k \in 1 .. Len(st) + 1 : Level(h, st, k) \in Nat,
         NEW at, NEW n, Surplus(m, fn, h, st, control, at, n),
         NEW u \in 1 .. Len(st) + 1, NEW d \in Nat, d <= Len(st),
         Len(st) + 1 - d <= u,
         NEW at2 \in Nat, NEW n2 \in Nat,
         control[u].width + at2 <= n2 + Level(h, st, u)
  PROVE  Surplus(m, fn, h, DropTop(st, d), DropTop(control, d), at2, n2)
<1> DEFINE less == DropTop(st, d)
           below == DropTop(control, d)
           l == Len(st) - d
<1>1. /\ Len(st) \in Nat /\ l \in Nat
      /\ Len(less) = l /\ \A k \in 1 .. l : less[k] = st[k]
  BY DropTopType
<1>1a. l \in Nat /\ Len(control) - d = l + 1 /\ d <= Len(control)
  BY <1>1
<1>2. \A k \in 1 .. l + 1 : below[k] = control[k]
  <2>1. \A k \in 1 .. Len(control) - d : DropTop(control, d)[k] = control[k]
    BY <1>1a, DropTopType
  <2> QED
    BY <1>1a, <2>1
<1>3. \A k \in 1 .. l + 1 : k \in 1 .. Len(st) + 1 /\ k <= u
  BY <1>1
<1> HIDE DEF less, below, l
<1>3a. \A k \in 1 .. l : k + 1 \in 1 .. l + 1 /\ k \in 1 .. l + 1
  BY <1>1a
<1>3b. \A k \in 1 .. l : k \in 1 .. Len(st)
  <2>1. l <= Len(st)
    BY <1>1 DEF l
  <2> QED
    BY <1>1, <1>1a, <2>1
<1>4. \A k \in 1 .. l + 1 : Level(h, less, k) = Level(h, st, k)
  <2>1. \A k \in 1 .. l + 1 : k # 1 => k - 1 \in 1 .. l
    BY <1>1a
  <2> QED
    BY <1>1, <2>1 DEF Level
<1>5. ASSUME NEW j \in 1 .. l + 1, NEW k \in 1 .. l + 1, j <= k
      PROVE  below[j].width + Level(h, less, k)
               <= below[k].width + Level(h, less, j)
  <2>1. control[j].width + Level(h, st, k) <= control[k].width + Level(h, st, j)
    BY <1>3, <1>5 DEF Surplus, Ordered
  <2> QED
    BY <1>2, <1>4, <2>1
<1>6. ASSUME NEW k \in 1 .. l + 1
      PROVE  below[k].width + at2 <= n2 + Level(h, less, k)
  <2> DEFINE w == control[k].width
             v == Level(h, st, k)
             wu == control[u].width
             vu == Level(h, st, u)
  <2>1. w + vu <= wu + v
    BY <1>3 DEF Surplus, Ordered
  <2>2. w \in Nat /\ wu \in Nat
    BY <1>3, ControlWidths
  <2>2a. v \in Nat /\ vu \in Nat
    BY <1>3
  <2>3. wu + at2 <= n2 + vu
    OBVIOUS
  <2>4. below[k].width = w /\ Level(h, less, k) = v
    BY <1>2, <1>4
  <2> HIDE DEF w, v, wu, vu
  <2>5. w + at2 <= n2 + v
    BY <2>1, <2>2, <2>2a, <2>3
  <2> QED
    BY <2>4, <2>5
<1>7. Grounded(m, fn, less, below)
  <2>1. below[1] = control[1]
    BY <1>1, <1>2
  <2>2. ASSUME NEW k \in 1 .. l, below[k + 1].fn
        PROVE  At(At(m.code, fn).ops, less[k]).ty = "Index"
    <3>1. k + 1 \in 1 .. l + 1 /\ k \in 1 .. Len(st)
      BY <1>3a, <1>3b
    <3>2. control[k + 1].fn /\ less[k] = st[k]
      BY <1>1, <1>2, <2>2, <3>1
    <3> QED
      BY <3>1, <3>2 DEF Surplus, Grounded
  <2> QED
    BY <1>1, <2>1, <2>2 DEF Surplus, Grounded
<1>8. Surplus(m, fn, h, less, below, at2, n2)
  BY <1>1, <1>5, <1>6, <1>7 DEF Surplus, Ordered, Roomy
<1> QED
  BY <1>8 DEF less, below

-----------------------------------------------------------------------------
(* Floors.                                                                 *)

LEMMA BitType ==
  ASSUME NEW c
  PROVE  IfBit(c) \in {0, 1} /\ IfBit(c) \in Nat
  BY DEF IfBit

\* More operands are pushed.
LEMMA FloorsRaise ==
  ASSUME NEW control \in Seq(Control), NEW n \in Nat, Floors(control, n),
         NEW n2 \in Nat, n <= n2
  PROVE  Floors(control, n2)
<1>1. ASSUME NEW j \in 1 .. Len(control)
      PROVE  control[j].width <= n2 + IfBit(control[j])
  <2> DEFINE w == control[j].width
             b == IfBit(control[j])
  <2>1. w \in Nat /\ b \in Nat /\ w <= n + b
    BY ControlWidths, BitType DEF Floors
  <2> HIDE DEF w, b
  <2>2. w <= n2 + b
    BY <2>1
  <2> QED
    BY <2>2 DEF w, b
<1> QED
  BY <1>1 DEF Floors

\* A scope is entered.
LEMMA FloorsPush ==
  ASSUME NEW control \in Seq(Control), NEW n \in Nat, Floors(control, n),
         NEW c \in Control, c.width = n
  PROVE  Floors(Append(control, c), n)
<1> DEFINE above == Append(control, c)
           l == Len(control)
<1>1. /\ l \in Nat /\ Len(above) = l + 1 /\ above[l + 1] = c
      /\ \A k \in 1 .. l : above[k] = control[k]
  OBVIOUS
<1> HIDE DEF above
<1>2. \A j \in 1 .. l + 1 : j \in 1 .. l \/ j = l + 1
  BY <1>1
<1>3. ASSUME NEW j \in 1 .. l + 1
      PROVE  above[j].width <= n + IfBit(above[j])
  <2>1. CASE j \in 1 .. l
    BY <1>1, <2>1 DEF Floors
  <2>2. CASE j = l + 1
    BY <1>1, <2>2, BitType
  <2> QED
    BY <1>2, <2>1, <2>2
<1>4. ASSUME NEW j \in 1 .. l + 1, NEW k \in j .. l + 1
      PROVE  above[j].width <= above[k].width + IfBit(above[j])
  <2>1. CASE k \in 1 .. l
    <3>1. j \in 1 .. l /\ k \in j .. l
      BY <1>1, <2>1
    <3> QED
      BY <1>1, <2>1, <3>1 DEF Floors
  <2>2. CASE k = l + 1
    BY <1>1, <1>3, <2>2
  <2> QED
    BY <1>1, <1>2, <2>1, <2>2
<1>5. Floors(above, n)
  BY <1>1, <1>3, <1>4 DEF Floors
<1> QED
  BY <1>5 DEF above

\* Scopes are left, up to scope u or with it.
LEMMA FloorsDrop ==
  ASSUME NEW control \in Seq(Control), NEW n \in Nat, Floors(control, n),
         NEW u \in 1 .. Len(control), NEW d \in Nat, d <= Len(control),
         Len(control) - d <= u,
         NEW n2 \in Nat, n2 = n \/ control[u].width <= n2
  PROVE  Floors(DropTop(control, d), n2)
<1> DEFINE below == DropTop(control, d)
           l == Len(control) - d
<1>0. l \in Nat
  OBVIOUS
<1>1. /\ l \in Nat /\ Len(below) = l
      /\ \A k \in 1 .. l : below[k] = control[k]
  BY <1>0, DropTopType, Zenon
<1>2. \A k \in 1 .. l : k \in 1 .. Len(control) /\ u \in k .. Len(control)
  BY <1>1
<1>3. \A j \in 1 .. l : \A k \in j .. l : k \in 1 .. l /\ k \in j .. Len(control)
  BY <1>1
<1> HIDE DEF below, l
<1>4. ASSUME NEW j \in 1 .. l
      PROVE  control[j].width <= n2 + IfBit(control[j])
  <2> DEFINE w == control[j].width
             b == IfBit(control[j])
             v == control[u].width
  <2>1. w \in Nat /\ b \in Nat /\ v \in Nat
    BY <1>2, ControlWidths, BitType
  <2>2. w <= n + b /\ w <= v + b
    BY <1>2 DEF Floors
  <2>3. n2 = n \/ v <= n2
    OBVIOUS
  <2> HIDE DEF w, b, v
  <2>4. w <= n2 + b
    BY <2>1, <2>2, <2>3
  <2> QED
    BY <2>4 DEF w, b
<1>5. ASSUME NEW j \in 1 .. l, NEW k \in j .. l
      PROVE  control[j].width <= control[k].width + IfBit(control[j])
  BY <1>2, <1>3 DEF Floors
<1>6. Floors(below, n2)
  BY <1>1, <1>3, <1>4, <1>5 DEF Floors
<1> QED
  BY <1>6 DEF below

\* The height of the floor of an open scope.
Floored(ops, h, i, st, control) ==
  \A k \in 1 .. Len(st) :
    /\ st[k] \in OpenScopes(ops, i)
    /\ Level(h, st, k + 1) = h[st[k]]
    /\ Floor(ops, h, st[k]) = Level(h, st, k + 1) - IfBit(control[k + 1])

LEMMA FloorOf ==
  ASSUME NEW types, NEW ops, NEW h, NEW i, NEW st, Nest(ops, i, st),
         NEW control, Listed(types, ops, st, control)
  PROVE  Floored(ops, h, i, st, control)
<1>1. ASSUME NEW k \in 1 .. Len(st)
      PROVE  /\ st[k] \in OpenScopes(ops, i)
             /\ Level(h, st, k + 1) = h[st[k]]
             /\ Floor(ops, h, st[k])
                  = Level(h, st, k + 1) - IfBit(control[k + 1])
  <2>1. k + 1 # 1 /\ (k + 1) - 1 = k
    OBVIOUS
  <2>2. st[k] \in OpenScopes(ops, i)
    BY DEF Nest
  <2>3. control[k + 1].scope = At(ops, st[k]).scope
    BY DEF Listed
  <2> QED
    BY <2>1, <2>2, <2>3 DEF Level, Floor, IfBit
<1> QED
  BY <1>1 DEF Floored

\* Operands are popped.
LEMMA FloorsTake ==
  ASSUME NEW m, NEW fn, NEW ops, NEW h, NEW i \in Nat, h[i] \in Nat,
         NEW st, Nest(ops, i, st), NEW control \in Seq(Control),
         Listed(m.types, ops, st, control),
         \A k \in 1 .. Len(st) + 1 : Level(h, st, k) \in Nat,
         NEW n \in Nat, Surplus(m, fn, h, st, control, h[i], n),
         Floors(control, n), NEW t \in Nat, CanTake(ops, h, i, t)
  PROVE  t <= n /\ Floors(control, n - t)
<1>1. Len(st) \in Nat /\ Len(control) = Len(st) + 1
  BY DEF Nest, Listed
<1>2. h[i] <= n /\ t <= h[i]
  BY <1>1, SurplusHeight DEF CanTake
<1>3. n - t \in Nat /\ t <= n
  BY <1>2
<1>3a. Floored(ops, h, i, st, control)
  BY FloorOf, Zenon
<1>4. ASSUME NEW j \in 1 .. Len(control)
      PROVE  control[j].width <= n - t + IfBit(control[j])
  <2> DEFINE w == control[j].width
             b == IfBit(control[j])
             v == Level(h, st, j)
             a == h[i]
  <2>1. w \in Nat /\ b \in Nat /\ v \in Nat /\ a \in Nat
    BY <1>1, ControlWidths, BitType
  <2>2. w + a <= n + v
    BY <1>1 DEF Surplus, Roomy
  <2>3. CASE j = 1
    BY <1>3, <2>1, <2>3 DEF Surplus, Grounded
  <2>4. CASE j # 1
    <3>1. j - 1 \in 1 .. Len(st) /\ (j - 1) + 1 = j
      BY <1>1, <2>4
    <3>2. st[j - 1] \in OpenScopes(ops, i) /\ Floor(ops, h, st[j - 1]) = v - b
      <4>1. \A k \in 1 .. Len(st) : k + 1 = j => Floor(ops, h, st[k]) = v - b
        BY <1>3a DEF Floored
      <4> QED
        BY <1>3a, <3>1, <4>1 DEF Floored
    <3>3. (v - b) + t <= a
      BY <3>2 DEF CanTake
    <3> HIDE DEF w, b, v, a
    <3>4. w <= n - t + b
      BY <2>1, <2>2, <3>3
    <3> QED
      BY <3>4 DEF w, b
  <2> QED
    BY <2>3, <2>4
<1> QED
  BY <1>3, <1>4 DEF Floors

-----------------------------------------------------------------------------
(* Lengths.                                                                *)

\* What the end of a scope, or a branch, leaves on the operand stack.
LEMMA CarriedLength ==
  ASSUME NEW s \in Seq(Word), NEW tys \in Seq(ValTypes), CanPop(s, tys),
         NEW width \in Nat
  PROVE  Len(PushValues(shrink_to(DropTop(s, Len(tys)), width),
                        PopValues(s, tys)))
           = IF width + Len(tys) < Len(s) THEN width + Len(tys) ELSE Len(s)
<1> DEFINE low == DropTop(s, Len(tys))
           vals == PopValues(s, tys)
           cut == IF width < Len(low) THEN width ELSE Len(low)
<1>1. low \in Seq(Word) /\ Len(low) = Len(s) - Len(tys)
  BY DropTopType DEF CanPop
<1>2. vals \in Seq(Value) /\ Len(vals) = Len(tys)
  BY PopValuesType
<1>3. Len(tys) \in Nat /\ Len(s) \in Nat /\ Len(tys) <= Len(s)
  BY DEF CanPop
<1> HIDE DEF low, vals
<1>4. cut \in Nat /\ cut <= Len(low)
  BY <1>1
<1>5. Len(SubSeq(low, 1, cut)) = cut
  <2>1. \A k \in 1 .. cut : low[k] \in Word
    BY <1>1, <1>4
  <2>2. Len(SubSeq(low, 1, cut)) = IF 1 <= cut THEN cut - 1 + 1 ELSE 0
    BY <1>4, <2>1, SubSeqProperties
  <2> QED
    BY <1>4, <2>2
<1>6. shrink_to(low, width) \in Seq(Word) /\ Len(shrink_to(low, width)) = cut
  BY <1>1, <1>5, ShrinkType DEF shrink_to
<1>7. Len(PushValues(shrink_to(low, width), vals)) = cut + Len(tys)
  BY <1>2, <1>6, PushValuesType
<1>8. cut + Len(tys)
        = IF width + Len(tys) < Len(s) THEN width + Len(tys) ELSE Len(s)
  BY <1>1, <1>3
<1> QED
  BY <1>7, <1>8 DEF low, vals

-----------------------------------------------------------------------------
(* Frames.                                                                 *)

LEMMA HeightsExist ==
  ASSUME ProgramsValid, NEW m \in Modules, NEW fn \in Nat, fn < Len(m.code)
  PROVE  LET h == HeightOf(m, fn)
             ops == At(m.code, fn).ops
         IN /\ Closed(ops) /\ h \in [0 .. Len(ops) -> Nat]
            /\ h[0] = 0
            /\ Len(ReturnTypes(m, fn)) <= h[Len(ops)]
            /\ \A i \in 0 .. Len(ops) - 1 : OpValid(m, fn, h, i)
<1>1. fn \in 0 .. Len(m.code) - 1
  BY ModuleType
<1>2. \E h : Heights(m, fn, h)
  BY <1>1 DEF ProgramsValid
<1>3. Heights(m, fn, HeightOf(m, fn))
  BY <1>2, Zenon DEF HeightOf
<1> QED
  BY <1>3, Zenon DEF Heights

\* A frame is high enough if it has a surplus over the scopes it is in.
LEMMA HighFrame ==
  ASSUME NEW m, NEW f, NEW p, Len(f.stack) + p \in Nat,
         f.pc \in 0 .. Len(At(m.code, f.fn).ops),
         HeightOf(m, f.fn)[f.pc] \in Nat,
         NEW st, Len(st) \in Nat,
         Surplus(m, f.fn, HeightOf(m, f.fn), st, f.control,
                 HeightOf(m, f.fn)[f.pc], Len(f.stack) + p),
         f.pc < Len(At(m.code, f.fn).ops) => Nest(At(m.code, f.fn).ops, f.pc, st)
  PROVE  FrameHeights(m, f, p)
<1> DEFINE ops == At(m.code, f.fn).ops
           h == HeightOf(m, f.fn)
           n == Len(f.stack) + p
<1>1. h[f.pc] <= n
  BY SurplusHeight
<1>2. /\ f.pc \in 0 .. Len(ops)
      /\ Surplus(m, f.fn, h, st, f.control, h[f.pc], n)
      /\ f.pc < Len(ops) => Nest(ops, f.pc, st)
  OBVIOUS
<1>3. FrameHeights(m, f, p) <=>
        /\ f.pc \in 0 .. Len(ops)
        /\ h[f.pc] <= n
        /\ f.pc < Len(ops) =>
             \E s : /\ Nest(ops, f.pc, s)
                    /\ Surplus(m, f.fn, h, s, f.control, h[f.pc], n)
  BY DEF FrameHeights
<1> HIDE DEF ops, h, n
<1> QED
  BY <1>1, <1>2, <1>3, Zenon

\* Only the number of operands, with those to come, matters of the stack.
LEMMA SameHigh ==
  ASSUME NEW m, NEW f, NEW p, FrameHeights(m, f, p), NEW g, NEW q,
         g.fn = f.fn, g.pc = f.pc, g.control = f.control,
         Len(g.stack) + q = Len(f.stack) + p
  PROVE  FrameHeights(m, g, q)
  BY DEF FrameHeights

LEMMA TopHigh ==
  ASSUME NEW m, NEW fs \in Seq(Frame), FramesHigh(m, fs), fs # <<>>,
         NEW g, g.fn = fs[Len(fs)].fn, FrameHeights(m, g, 0)
  PROVE  FramesHigh(m, [fs EXCEPT ![Len(fs)] = g])
<1> DEFINE gs == [fs EXCEPT ![Len(fs)] = g]
           l == Len(fs)
<1>1. /\ l \in Nat /\ Len(gs) = l /\ gs[l] = g
      /\ \A i \in 1 .. l : i # l => gs[i] = fs[i]
  OBVIOUS
<1> HIDE DEF gs
<1>2. ASSUME NEW i \in 1 .. l
      PROVE  FrameHeights(m, gs[i], Pending(m, gs, i))
  <2>1. CASE i = l
    BY <1>1, <2>1 DEF Pending
  <2>2. CASE i # l
    <3>1. i + 1 \in 1 .. l
      BY <1>1, <2>2
    <3>2. gs[i + 1].fn = fs[i + 1].fn
      BY <1>1, <3>1
    <3>3. Pending(m, gs, i) = Pending(m, fs, i)
      BY <1>1, <2>2, <3>2 DEF Pending
    <3> QED
      BY <1>1, <2>2, <3>3 DEF FramesHigh
  <2> QED
    BY <2>1, <2>2
<1>3. FramesHigh(m, gs)
  BY <1>1, <1>2 DEF FramesHigh
<1> QED
  BY <1>3 DEF gs

\* A call: the caller waits for the results of the new frame.
LEMMA PushHigh ==
  ASSUME NEW m, NEW S, NEW fs \in Seq(S), NEW g, FrameHeights(m, g, 0),
         \A i \in 1 .. Len(fs) :
           FrameHeights(m, fs[i], IF i = Len(fs) THEN Len(ReturnTypes(m, g.fn))
                                  ELSE Pending(m, fs, i))
  PROVE  FramesHigh(m, Append(fs, g))
<1> DEFINE gs == Append(fs, g)
           l == Len(fs)
<1>1. /\ l \in Nat /\ Len(gs) = l + 1 /\ gs[l + 1] = g
      /\ \A i \in 1 .. l : gs[i] = fs[i]
  OBVIOUS
<1> HIDE DEF gs
<1>2. ASSUME NEW i \in 1 .. l + 1
      PROVE  FrameHeights(m, gs[i], Pending(m, gs, i))
  <2>1. CASE i = l + 1
    BY <1>1, <2>1 DEF Pending
  <2>2. CASE i \in 1 .. l /\ i = l
    BY <1>1, <2>2 DEF Pending
  <2>3. CASE i \in 1 .. l /\ i # l
    <3>1. i + 1 \in 1 .. l
      BY <1>1, <2>3
    <3>2. Pending(m, gs, i) = Pending(m, fs, i)
      BY <1>1, <2>3, <3>1 DEF Pending
    <3> QED
      BY <1>1, <2>3, <3>2
  <2> QED
    BY <1>1, <2>1, <2>2, <2>3
<1>3. FramesHigh(m, gs)
  BY <1>1, <1>2 DEF FramesHigh
<1> QED
  BY <1>3 DEF gs

\* The frame that comes back on top gets what it waits for.
LEMMA PopHigh ==
  ASSUME NEW m, NEW fs \in Seq(Frame), FramesHigh(m, fs), Len(fs) > 1,
         NEW below, below = DropTop(fs, 1),
         NEW g, g.fn = below[Len(below)].fn, g.pc = below[Len(below)].pc,
         g.control = below[Len(below)].control,
         Len(g.stack) = Len(below[Len(below)].stack)
                          + Len(ReturnTypes(m, fs[Len(fs)].fn)),
         Len(g.stack) \in Nat
  PROVE  FramesHigh(m, [below EXCEPT ![Len(below)] = g])
<1> DEFINE gs == [below EXCEPT ![Len(below)] = g]
           l == Len(fs) - 1
<1>1. /\ Len(fs) \in Nat /\ l \in Nat /\ l > 0 /\ l + 1 = Len(fs)
      /\ below \in Seq(Frame) /\ Len(below) = l
      /\ \A i \in 1 .. l : below[i] = fs[i]
  BY DropTopType
<1>1a. l \in 1 .. l /\ Len(fs) \in 1 .. Len(fs)
  BY <1>1
<1> HIDE DEF l
<1>2. /\ Len(gs) = l /\ gs[l] = g
      /\ \A i \in 1 .. l : i # l => gs[i] = fs[i]
  BY <1>1, <1>1a
<1> HIDE DEF gs
<1>3. ASSUME NEW i \in 1 .. l
      PROVE  FrameHeights(m, gs[i], Pending(m, gs, i))
  <2>0. i \in 1 .. Len(fs) /\ i # Len(fs) /\ (i # l => i + 1 \in 1 .. l)
    BY <1>1
  <2>1. FrameHeights(m, fs[i], Pending(m, fs, i))
    BY <2>0 DEF FramesHigh
  <2>2. CASE i = l
    <3>1. Pending(m, fs, i) = Len(ReturnTypes(m, fs[Len(fs)].fn))
      BY <1>1, <2>0, <2>2 DEF Pending
    <3>2. Pending(m, gs, i) = 0
      BY <1>2, <2>2 DEF Pending
    <3>3. Len(g.stack) + 0 = Len(fs[i].stack) + Pending(m, fs, i)
      <4>1. Len(g.stack) = Len(fs[i].stack) + Pending(m, fs, i)
        BY <1>1, <1>1a, <2>2, <3>1
      <4>2. Len(g.stack) + 0 = Len(g.stack)
        OBVIOUS
      <4> QED
        BY <4>1, <4>2
    <3>4. g.fn = fs[i].fn /\ g.pc = fs[i].pc /\ g.control = fs[i].control
      BY <1>1, <1>1a, <2>2
    <3>5. FrameHeights(m, g, 0)
      BY <2>1, <3>3, <3>4, SameHigh
    <3> QED
      BY <1>2, <2>2, <3>2, <3>5
  <2>3. CASE i # l
    <3>1. gs[i + 1].fn = fs[i + 1].fn
      BY <1>1, <1>1a, <1>2, <2>0, <2>3
    <3>2. Pending(m, gs, i) = Pending(m, fs, i)
      BY <1>2, <2>0, <2>3, <3>1 DEF Pending
    <3> QED
      BY <1>2, <2>1, <2>3, <3>2
  <2> QED
    BY <2>2, <2>3
<1>4. FramesHigh(m, gs)
  BY <1>2, <1>3 DEF FramesHigh
<1> QED
  BY <1>4 DEF gs

LEMMA TopFloors ==
  ASSUME NEW fs \in Seq(Frame), FramesFloors(fs),
         NEW g, Floors(g.control, Len(g.stack))
  PROVE  FramesFloors([fs EXCEPT ![Len(fs)] = g])
<1> DEFINE gs == [fs EXCEPT ![Len(fs)] = g]
<1>1. Len(gs) = Len(fs) /\ \A i \in 1 .. Len(fs) : gs[i] = g \/ gs[i] = fs[i]
  OBVIOUS
<1> HIDE DEF gs
<1>2. FramesFloors(gs)
  BY <1>1 DEF FramesFloors
<1> QED
  BY <1>2 DEF gs

LEMMA PushFloors ==
  ASSUME NEW S, NEW fs \in Seq(S), FramesFloors(fs),
         NEW g, Floors(g.control, Len(g.stack))
  PROVE  FramesFloors(Append(fs, g))
<1> DEFINE gs == Append(fs, g)
<1>1. /\ Len(gs) = Len(fs) + 1 /\ Len(fs) \in Nat
      /\ \A i \in 1 .. Len(fs) + 1 : gs[i] = g \/ (i \in 1 .. Len(fs) /\ gs[i] = fs[i])
  OBVIOUS
<1> HIDE DEF gs
<1>2. FramesFloors(gs)
  BY <1>1 DEF FramesFloors
<1> QED
  BY <1>2 DEF gs

LEMMA PopFloors ==
  ASSUME NEW fs \in Seq(Frame), FramesFloors(fs), fs # <<>>
  PROVE  DropTop(fs, 1) \in Seq(Frame) /\ FramesFloors(DropTop(fs, 1))
<1>1. Len(fs) \in Nat /\ 1 <= Len(fs)
  OBVIOUS
<1>2. /\ DropTop(fs, 1) \in Seq(Frame)
      /\ Len(DropTop(fs, 1)) = Len(fs) - 1
      /\ \A i \in 1 .. Len(fs) - 1 : DropTop(fs, 1)[i] = fs[i]
  BY <1>1, DropTopType
<1> QED
  BY <1>1, <1>2 DEF FramesFloors

-----------------------------------------------------------------------------
(* What becomes of a step.                                                 *)

\* The machine may still abort when calls are nested deeper than there is
\* memory for.
Good == HInv' /\ (outcome' = "Panic" => Len(frames') >= MaxFrames)

LEMMA RunningFrames ==
  ASSUME IInv, HInv, status = "running"
  PROVE  /\ frames \in Seq(Frame) /\ frames # <<>> /\ Len(frames) \in Nat
         /\ Len(frames) \in 1 .. Len(frames)
         /\ FramesHigh(mod, frames) /\ FramesFloors(frames)
         /\ outcome \notin Underflows /\ outcome # "Panic"
<1>1. frames \in Seq(Frame) /\ frames # <<>>
  BY DEF IInv, FramesOK
<1>2. Len(frames) \in Nat /\ Len(frames) \in 1 .. Len(frames)
  BY <1>1
<1> QED
  BY <1>1, <1>2 DEF HInv

LEMMA KeepHigh ==
  ASSUME IInv, HInv, status = "running", NEW g, g.fn = Current.fn,
         FrameHeights(mod, g, 0), Floors(g.control, Len(g.stack)), Keep(g)
  PROVE  Good
<1>1. /\ frames \in Seq(Frame) /\ frames # <<>>
      /\ FramesHigh(mod, frames) /\ FramesFloors(frames)
      /\ outcome \notin Underflows /\ outcome # "Panic"
  BY RunningFrames
<1>2. FramesHigh(mod, [frames EXCEPT ![Len(frames)] = g])
  BY <1>1, TopHigh DEF Current
<1>3. FramesFloors([frames EXCEPT ![Len(frames)] = g])
  BY <1>1, TopFloors
<1>4. /\ frames' = [frames EXCEPT ![Len(frames)] = g] /\ mod' = mod
      /\ outcome' = outcome
  BY DEF Keep
<1>5. FramesHigh(mod', frames') /\ FramesFloors(frames')
  BY <1>2, <1>3, <1>4
<1> QED
  BY <1>1, <1>4, <1>5 DEF Good, HInv, Underflows

LEMMA ContinueHigh ==
  ASSUME IInv, HInv, status = "running", NEW g, g.fn = Current.fn,
         FrameHeights(mod, g, 0), Floors(g.control, Len(g.stack)), Continue(g)
  PROVE  Good
  BY KeepHigh DEF Continue

LEMMA TrapHigh ==
  ASSUME IInv, HInv, status = "running", NEW fault,
         fault \notin Underflows \cup {"Panic"}, Trap(fault)
  PROVE  Good
<1>1. FramesFloors(DropTop(frames, 1))
  BY RunningFrames, PopFloors
<1>2. frames' = DropTop(frames, 1) /\ status' = "idle" /\ outcome' = fault
  BY DEF Trap
<1>3. FramesFloors(frames')
  BY <1>1, <1>2
<1> QED
  BY <1>2, <1>3 DEF Good, HInv, Underflows

LEMMA RunErrorHigh ==
  ASSUME IInv, HInv, status = "running", NEW fault,
         fault \notin Underflows \cup {"Panic"}, NEW f,
         Floors(f.control, Len(f.stack)), RunError(fault, f)
  PROVE  Good
<1>1. FramesFloors([frames EXCEPT ![Len(frames)] = f])
  BY RunningFrames, TopFloors
<1>2. /\ frames' = [frames EXCEPT ![Len(frames)] = f]
      /\ status' = "idle" /\ outcome' = fault
  BY DEF RunError
<1>3. FramesFloors(frames')
  BY <1>1, <1>2
<1> QED
  BY <1>2, <1>3 DEF Good, HInv, Underflows

\* An abort leaves everything where it is.
LEMMA PanicHigh ==
  ASSUME HInv, Panic
  PROVE  HInv' /\ frames' = frames
<1>1. frames' = frames /\ status' = "panicked" /\ outcome' = "Panic"
  BY DEF Panic
<1>2. FramesFloors(frames')
  BY <1>1 DEF HInv
<1> QED
  BY <1>1, <1>2 DEF HInv, Underflows

\* A return: the results are there, and the caller was waiting for them.
LEMMA FinishHigh ==
  ASSUME IInv, HInv, status = "running", NEW f \in Frame, f.fn = Current.fn,
         Len(ReturnTypes(mod, f.fn)) <= Len(f.stack), Finish(f)
  PROVE  Good
<1> DEFINE tys == ReturnTypes(mod, f.fn)
           vals == PopValues(f.stack, tys)
           below == DropTop(frames, 1)
           top == below[Len(below)]
           g == [top EXCEPT !.stack = PushValues(@, vals)]
<1>1. /\ frames \in Seq(Frame) /\ frames # <<>> /\ Len(frames) \in Nat
      /\ FramesHigh(mod, frames) /\ FramesFloors(frames)
      /\ outcome \notin Underflows /\ outcome # "Panic"
  BY RunningFrames
<1>2. CanPop(f.stack, tys)
  BY DEF CanPop
<1>3. tys \in Seq(ValTypes) /\ f.stack \in Seq(Word)
  BY CurrentOK, FunctionType DEF Frame
<1>4. vals \in Seq(Value) /\ Len(vals) = Len(tys)
  BY <1>2, <1>3, PopValuesType
<1>5. CASE below = <<>>
  <2>1. frames' = <<>> /\ status' = "idle" /\ outcome' = "Ok"
    BY <1>2, <1>5 DEF Finish
  <2>2. FramesFloors(frames')
    BY <2>1 DEF FramesFloors
  <2> QED
    BY <2>1, <2>2 DEF Good, HInv, Underflows
<1>6. CASE below # <<>>
  <2>1. /\ frames' = [below EXCEPT ![Len(below)].stack = PushValues(@, vals)]
        /\ mod' = mod /\ status' = status /\ outcome' = outcome
    BY <1>2, <1>6 DEF Finish
  <2>2. below \in Seq(Frame) /\ FramesFloors(below)
    BY <1>1, PopFloors
  <2> HIDE DEF below
  <2>3. Len(below) \in 1 .. Len(below) /\ top \in Frame /\ Len(below) \in Nat
    BY <1>6, <2>2
  <2>4. frames' = [below EXCEPT ![Len(below)] = g]
    BY <2>1, <2>2, <2>3
  <2>5. top.stack \in Seq(Word) /\ top.control \in Seq(Control)
    BY <2>3 DEF Frame
  <2> HIDE DEF top, vals, tys
  <2>6. PushValues(top.stack, vals) \in Seq(Word)
        /\ Len(PushValues(top.stack, vals)) = Len(top.stack) + Len(tys)
    BY <1>4, <2>5, PushValuesType
  <2>7. /\ g.fn = top.fn /\ g.pc = top.pc /\ g.control = top.control
        /\ g.stack = PushValues(top.stack, vals)
    BY <2>3 DEF Frame, top
  <2>8. Len(g.stack) = Len(top.stack) + Len(tys) /\ Len(g.stack) \in Nat
        /\ Len(top.stack) \in Nat /\ Len(top.stack) <= Len(g.stack)
    BY <1>3, <2>5, <2>6, <2>7
  <2> HIDE DEF g
  <2>9. Len(frames) > 1
    <3>1. Len(below) = Len(frames) - 1
      BY <1>1, DropTopType DEF below
    <3> QED
      BY <1>1, <2>3, <3>1
  <2>10. FramesHigh(mod, [below EXCEPT ![Len(below)] = g])
    <3>1. Len(g.stack) = Len(below[Len(below)].stack)
                           + Len(ReturnTypes(mod, frames[Len(frames)].fn))
      BY <2>8 DEF top, tys, Current
    <3>2. /\ g.fn = below[Len(below)].fn /\ g.pc = below[Len(below)].pc
          /\ g.control = below[Len(below)].control
      BY <2>7 DEF top
    <3>3. below = DropTop(frames, 1)
      BY DEF below
    <3> QED
      BY <1>1, <2>8, <2>9, <3>1, <3>2, <3>3, PopHigh
  <2>11. FramesFloors([below EXCEPT ![Len(below)] = g])
    <3>1. Floors(top.control, Len(top.stack))
      BY <2>2, <2>3 DEF FramesFloors, top
    <3>2. Floors(g.control, Len(g.stack))
      BY <2>5, <2>7, <2>8, <3>1, FloorsRaise
    <3> QED
      BY <2>2, <3>2, TopFloors
  <2>12. FramesHigh(mod', frames') /\ FramesFloors(frames')
    BY <2>1, <2>4, <2>10, <2>11
  <2> QED
    BY <1>1, <2>1, <2>12 DEF Good, HInv, Underflows
<1> QED
  BY <1>5, <1>6

\* A new frame is as high as the start of its function.
LEMMA NewFrameHigh ==
  ASSUME ProgramsValid, NEW m \in Modules, NEW i \in Nat, i < Len(m.code), NEW args
  PROVE  LET f == NewFrame(m, i, args)
         IN f.fn = i /\ FrameHeights(m, f, 0) /\ Floors(f.control, Len(f.stack))
<1> DEFINE ops == At(m.code, i).ops
           h == HeightOf(m, i)
           f == NewFrame(m, i, args)
           rets == ReturnTypes(m, i)
           sig == ValueSig(IF rets = <<>> THEN "Unit" ELSE rets[1])
           c == [scope |-> "Function", fn |-> sig.fn, results |-> sig.results,
                 width |-> 0]
<1>1. f.fn = i /\ f.pc = 0 /\ f.stack = <<>> /\ f.control = Append(<<>>, c)
  <2> HIDE DEF sig
  <2> QED
    BY DEF NewFrame, push_control, sig
<1>2. Len(sig.results) = FunctionYields(m, i)
  <2>1. rets \in Seq(ValTypes)
    BY FunctionType
  <2> HIDE DEF rets
  <2>2. CASE rets = <<>>
    BY <2>2 DEF ValueSig, FunctionYields, rets
  <2>3. CASE rets # <<>>
    <3>1. rets[1] # "Unit"
      BY <2>1, <2>3 DEF ValTypes, RefTypes
    <3>2. sig.results = <<rets[1]>>
      BY <2>3, <3>1 DEF ValueSig
    <3> QED
      BY <2>3, <3>2 DEF FunctionYields, rets
  <2> QED
    BY <2>2, <2>3
<1> HIDE DEF f, sig
<1>3. Len(f.control) = 1 /\ f.control[1] = c /\ Len(f.stack) = 0
  BY <1>1
<1>4. Nest(ops, 0, <<>>)
  <2>1. OpenScopes(ops, 0) = {}
    BY DEF OpenScopes
  <2> QED
    BY <2>1 DEF Nest
<1>5. Surplus(m, i, h, <<>>, f.control, 0, 0)
  BY <1>2, <1>3, FirstSurplus
<1>6. h[0] = 0 /\ Len(ops) \in Nat
  BY HeightsExist, FunctionType
<1>7. FrameHeights(m, f, 0)
  <2>1. Len(<<>>) = 0
    OBVIOUS
  <2>2. Surplus(m, f.fn, HeightOf(m, f.fn), <<>>, f.control,
                HeightOf(m, f.fn)[f.pc], Len(f.stack) + 0)
    BY <1>1, <1>3, <1>5, <1>6
  <2>3. /\ f.pc \in 0 .. Len(At(m.code, f.fn).ops)
        /\ HeightOf(m, f.fn)[f.pc] \in Nat
        /\ Nest(At(m.code, f.fn).ops, f.pc, <<>>)
    BY <1>1, <1>4, <1>6
  <2>4. Len(f.stack) + 0 \in Nat
    BY <1>3
  <2> QED
    BY <2>1, <2>2, <2>3, <2>4, HighFrame
<1>8. Floors(f.control, Len(f.stack))
  <2>1. \A j \in 1 .. 1 : j = 1 /\ \A k \in j .. 1 : k = 1
    OBVIOUS
  <2>2. c.width = 0 /\ IfBit(c) = 0
    BY DEF IfBit
  <2> HIDE DEF c
  <2> QED
    BY <1>3, <2>1, <2>2 DEF Floors
<1> QED
  BY <1>1, <1>7, <1>8 DEF f

\* What a call of function c needs of the calling frame.
CallReady(c, f) ==
  LET k == Len(FuncTypeOf(mod, c).params)
  IN /\ k <= Len(f.stack)
     /\ Floors(f.control, Len(f.stack) - k)
     /\ ~ IsImport(mod, c) =>
          /\ ~ Missing(mod, c)
          /\ FrameHeights(mod, [f EXCEPT !.stack = DropTop(@, k)],
                          Len(ReturnTypes(mod, CodeIndex(mod, c))))

LEMMA EnterCallHigh ==
  ASSUME ProgramsValid, IInv, HInv, status = "running", NEW c \in Nat,
         NEW f \in Frame, f.fn = Current.fn, Floors(f.control, Len(f.stack)),
         c < Len(mod.functions) => CallReady(c, f), EnterCall(c, f)
  PROVE  Good
<1> DEFINE params == FuncTypeOf(mod, c).params
           args == PopValues(f.stack, params)
           caller == [f EXCEPT !.stack = DropTop(@, Len(params))]
           reply == frame_for_funcidx(mod, c, args)
           i == CodeIndex(mod, c)
           called == NewFrame(mod, i, args)
           suspended == [frames EXCEPT ![Len(frames)] = caller]
<1>1. /\ frames \in Seq(Frame) /\ frames # <<>> /\ Len(frames) \in Nat
      /\ Len(frames) \in 1 .. Len(frames)
      /\ FramesHigh(mod, frames) /\ FramesFloors(frames)
      /\ outcome \notin Underflows /\ outcome # "Panic" /\ mod \in Modules
  BY RunningFrames DEF IInv
<1>2. CASE c >= Len(mod.functions)
  <2>1. RunError("GlobalIndexOutOfBounds", f)
    BY <1>2 DEF EnterCall
  <2> QED
    BY <2>1, RunErrorHigh DEF Underflows
<1>3. CASE c < Len(mod.functions)
  <2>1. /\ Len(params) <= Len(f.stack)
        /\ Floors(f.control, Len(f.stack) - Len(params))
        /\ ~ IsImport(mod, c) =>
             /\ ~ Missing(mod, c)
             /\ FrameHeights(mod, caller, Len(ReturnTypes(mod, i)))
    BY <1>3 DEF CallReady
  <2>2. params \in Seq(ValTypes) /\ f.stack \in Seq(Word)
    <3>1. c < Len(mod.code)
      BY <1>1, <1>3, ModuleType
    <3> QED
      BY <1>1, <3>1, FunctionType DEF Frame
  <2>3. DropTop(f.stack, Len(params)) \in Seq(Word)
        /\ Len(DropTop(f.stack, Len(params))) = Len(f.stack) - Len(params)
    <3>1. Len(params) \in Nat
      BY <2>2
    <3> HIDE DEF params
    <3> QED
      BY <2>1, <2>2, <3>1, DropTopType
  <2>4. /\ caller \in Frame /\ caller.fn = f.fn /\ caller.control = f.control
        /\ caller.stack = DropTop(f.stack, Len(params))
    BY <2>3 DEF Frame
  <2>5. Floors(caller.control, Len(caller.stack))
    BY <2>1, <2>3, <2>4
  <2>6. ~ (c >= Len(mod.functions))
    BY <1>1, <1>3, ModuleType
  <2>7. CanPop(f.stack, params)
    BY <2>1 DEF CanPop
  <2>8. /\ reply \in LinkErrors \cup {"Ok"}
        /\ reply \notin LinkErrors =>
             ~ IsImport(mod, c) /\ i \in Nat /\ i < Len(mod.code)
    <3>1. reply \in LinkErrors \cup {"Ok", "Panic"}
          /\ (reply = "Ok" => i \in Nat /\ i < Len(mod.code))
      BY <1>1, LinkReply
    <3>2. reply # "Panic"
      BY <2>1 DEF frame_for_funcidx
    <3>3. reply = "Ok" => ~ IsImport(mod, c)
      BY DEF frame_for_funcidx
    <3> QED
      BY <3>1, <3>2, <3>3
  <2>9. CASE reply \in LinkErrors
    <3>1. RunError(reply, caller)
      BY <2>6, <2>7, <2>9 DEF EnterCall
    <3>2. reply \notin Underflows \cup {"Panic"}
      BY <2>9 DEF LinkErrors, Underflows
    <3> HIDE DEF reply, caller
    <3> QED
      BY <2>5, <3>1, <3>2, RunErrorHigh
  <2>10. CASE reply \notin LinkErrors /\ Len(frames) >= MaxFrames
    <3>1. Panic
      BY <2>6, <2>7, <2>10 DEF EnterCall
    <3>2. HInv' /\ frames' = frames
      BY <3>1, PanicHigh
    <3> QED
      BY <2>10, <3>2 DEF Good
  <2>11. CASE reply \notin LinkErrors /\ ~ (Len(frames) >= MaxFrames)
    <3>1. reply # "Panic" /\ i \in Nat /\ i < Len(mod.code)
          /\ FrameHeights(mod, caller, Len(ReturnTypes(mod, i)))
      BY <2>1, <2>8, <2>11 DEF LinkErrors
    <3>2. /\ frames' = Append(suspended, called)
          /\ mod' = mod /\ status' = status /\ outcome' = outcome
      BY <2>6, <2>7, <2>11, <3>1 DEF EnterCall
    <3>3. /\ called.fn = i /\ FrameHeights(mod, called, 0)
          /\ Floors(called.control, Len(called.stack))
      BY <1>1, <3>1, NewFrameHigh
    <3> HIDE DEF caller, called, reply, i
    <3>4. /\ suspended \in Seq(Frame) /\ Len(suspended) = Len(frames)
          /\ suspended[Len(frames)] = caller
          /\ \A k \in 1 .. Len(frames) : k # Len(frames) => suspended[k] = frames[k]
      BY <1>1, <2>4
    <3>5. FramesFloors(suspended)
      BY <1>1, <2>5, TopFloors
    <3> HIDE DEF suspended
    <3>6. FramesFloors(Append(suspended, called))
      BY <3>3, <3>4, <3>5, PushFloors
    <3>7. ASSUME NEW k \in 1 .. Len(suspended)
          PROVE  FrameHeights(mod, suspended[k],
                   IF k = Len(suspended) THEN Len(ReturnTypes(mod, called.fn))
                   ELSE Pending(mod, suspended, k))
      <4>1. CASE k = Len(suspended)
        BY <3>1, <3>3, <3>4, <4>1
      <4>2. CASE k # Len(suspended)
        <5>1. k + 1 \in 1 .. Len(frames) /\ k \in 1 .. Len(frames)
          BY <1>1, <3>4, <4>2
        <5>2. suspended[k + 1].fn = frames[k + 1].fn
          BY <2>4, <3>4, <5>1 DEF Current
        <5>3. Pending(mod, suspended, k) = Pending(mod, frames, k)
          BY <3>4, <4>2, <5>2 DEF Pending
        <5>4. FrameHeights(mod, frames[k], Pending(mod, frames, k))
          BY <1>1, <5>1 DEF FramesHigh
        <5> QED
          BY <3>4, <4>2, <5>1, <5>3, <5>4
      <4> QED
        BY <4>1, <4>2
    <3>8. FramesHigh(mod, Append(suspended, called))
      BY <3>3, <3>4, <3>7, PushHigh
    <3>9. FramesHigh(mod', frames') /\ FramesFloors(frames')
      BY <3>2, <3>6, <3>8
    <3> QED
      BY <1>1, <3>2, <3>9 DEF Good, HInv, Underflows
  <2> QED
    BY <2>9, <2>10, <2>11
<1>4. Len(mod.functions) \in Nat
  BY <1>1, ModuleType
<1> QED
  BY <1>2, <1>3, <1>4

\* The host prepares a call.
LEMMA PrepareHigh ==
  ASSUME ProgramsValid, FreshHost, IInv, HInv,
         NEW index \in HostFuncs, NEW args \in HostArgs, Prepare(index, args)
  PROVE  Good
<1> DEFINE reply == frame_for_funcidx(mod, index, args)
           i == CodeIndex(mod, index)
           called == NewFrame(mod, i, args)
<1>1. index \in Nat /\ mod \in Modules /\ frames \in Seq(Frame)
  BY HostAssumption DEF IInv, FramesOK
<1>2. status = "idle" /\ ~ Missing(mod, index) /\ Len(frames) <= 0
  BY DEF Prepare, HostMayPrepare, FreshHost
<1>3. frames = <<>>
  <2>1. Len(frames) \in Nat
    BY <1>1
  <2>2. Len(frames) = 0
    BY <1>2, <2>1
  <2> QED
    BY <1>1, <2>2
<1>4. reply # "Panic"
  BY <1>2 DEF frame_for_funcidx
<1>5. CASE reply \in LinkErrors
  <2>1. outcome' = reply /\ frames' = frames /\ mod' = mod /\ status' = status
    BY <1>4, <1>5 DEF Prepare, LinkErrors
  <2>2. reply \notin Underflows \cup {"Panic"}
    BY <1>5 DEF LinkErrors, Underflows
  <2> HIDE DEF reply
  <2>3. FramesFloors(frames')
    BY <2>1 DEF HInv
  <2> QED
    BY <1>2, <2>1, <2>2, <2>3 DEF Good, HInv, Underflows
<1>6. CASE reply = "Ok"
  <2>1. /\ frames' = Append(frames, called) /\ mod' = mod
        /\ status' = "prepared" /\ outcome' = "Ok"
    BY <1>4, <1>6 DEF Prepare, LinkErrors
  <2>2. i \in Nat /\ i < Len(mod.code)
    BY <1>1, <1>6, LinkReply
  <2>3. FrameHeights(mod, called, 0) /\ Floors(called.control, Len(called.stack))
    BY <1>1, <2>2, NewFrameHigh
  <2> HIDE DEF called
  <2>4. \A k \in 1 .. Len(frames) : FALSE
    BY <1>3
  <2>5. FramesHigh(mod, Append(frames, called))
    BY <1>1, <2>3, <2>4, PushHigh
  <2>6. FramesFloors(Append(frames, called))
    BY <1>1, <2>3, PushFloors DEF HInv
  <2>7. FramesHigh(mod', frames') /\ FramesFloors(frames')
    BY <2>1, <2>5, <2>6
  <2> QED
    BY <2>1, <2>7 DEF Good, HInv, Underflows
<1> QED
  BY <1>1, <1>4, <1>5, <1>6, LinkReply

\* The host runs what it prepared.
LEMMA RunHigh ==
  ASSUME FreshHost, HInv, Run
  PROVE  Good
<1>1. /\ status = "prepared" /\ status' = "running"
      /\ mod' = mod /\ frames' = frames /\ outcome' = outcome
  BY DEF Run, FreshHost
<1>2. /\ FramesHigh(mod', frames') <=> FramesHigh(mod, frames)
      /\ FramesFloors(frames') <=> FramesFloors(frames)
  BY <1>1
<1> QED
  BY <1>1, <1>2 DEF HInv, Good

LEMMA StillHigh ==
  ASSUME HInv, UNCHANGED vars
  PROVE  HInv'
<1>1. /\ mod' = mod /\ frames' = frames /\ status' = status
      /\ outcome' = outcome
  BY DEF vars
<1>2. /\ FramesHigh(mod', frames') <=> FramesHigh(mod, frames)
      /\ FramesFloors(frames') <=> FramesFloors(frames)
  BY <1>1
<1> QED
  BY <1>1, <1>2 DEF HInv

-----------------------------------------------------------------------------
(* What operations take and leave.                                         *)

LEMMA LoadNames ==
  \A name \in DOMAIN LoadOps :
    /\ name \in MemoryOps
    /\ name \notin DOMAIN StoreOps \cup ControlOps \cup DataOps
    /\ name \notin {"MemorySize", "MemoryGrow"}
  BY DEF LoadOps, StoreOps, MemoryOps, ControlOps, DataOps, ConstOps

LEMMA StoreNames ==
  \A name \in DOMAIN StoreOps :
    /\ name \in MemoryOps
    /\ name \notin DOMAIN LoadOps \cup ControlOps \cup DataOps
    /\ name \notin {"MemorySize", "MemoryGrow"}
  BY DEF LoadOps, StoreOps, MemoryOps, ControlOps, DataOps, ConstOps

LEMMA OtherNames ==
  \A name \in ControlOps \cup DataOps \cup {"MemorySize", "MemoryGrow"} :
    name \notin NumericOps \cup DOMAIN LoadOps \cup DOMAIN StoreOps
<1>1. ASSUME NEW name \in ControlOps \cup DataOps
      PROVE  name \notin NumericOps \cup DOMAIN LoadOps \cup DOMAIN StoreOps
  BY NumericNames, LoadNames, StoreNames
<1>2. ASSUME NEW name \in {"MemorySize", "MemoryGrow"}
      PROVE  name \notin NumericOps \cup DOMAIN LoadOps \cup DOMAIN StoreOps
  BY NumericNames, LoadNames, StoreNames DEF MemoryOps
<1> QED
  BY <1>1, <1>2

\* Operations that go on behind themselves.
Straight(name) == name \notin Transfers \cup {"StartScope"}

LEMMA NumericTakes ==
  \A name \in NumericOps :
    /\ Takes(name) = Arity(name) /\ Leaves(name) = 1 /\ Straight(name)
    /\ Arity(name) \in {1, 2}
<1> SUFFICES ASSUME NEW name \in NumericOps
             PROVE  /\ Takes(name) = Arity(name) /\ Leaves(name) = 1
                    /\ Straight(name) /\ Arity(name) \in {1, 2}
  OBVIOUS
<1>1. name \notin ControlOps \cup DataOps \cup MemoryOps
  BY NumericNames
<1>2. /\ name \notin DOMAIN LoadOps \cup DOMAIN StoreOps
      /\ name \notin {"MemorySize", "MemoryGrow"}
  BY <1>1 DEF MemoryOps
<1>3. Takes(name) = Arity(name)
  BY <1>1, <1>2 DEF Takes, ControlOps, DataOps
<1>4. Straight(name)
  BY <1>1 DEF Straight, Transfers, ControlOps
<1>5. Leaves(name) = 1
  BY DEF Leaves
<1> QED
  BY <1>3, <1>4, <1>5, NumericAssumption

LEMMA LoadTakes ==
  \A name \in DOMAIN LoadOps :
    Takes(name) = 1 /\ Leaves(name) = 1 /\ Straight(name)
<1> SUFFICES ASSUME NEW name \in DOMAIN LoadOps
             PROVE  Takes(name) = 1 /\ Leaves(name) = 1 /\ Straight(name)
  OBVIOUS
<1>1. name \notin ControlOps \cup DataOps \cup DOMAIN StoreOps
  BY LoadNames
<1>2. Takes(name) = 1
  <2>1. name \notin {"TableSet", "RefEq"} /\ name \notin {"Select", "SelectT"}
    BY <1>1 DEF DataOps
  <2>2. name \notin NumericOps
    BY LoadNames, NumericNames
  <2> QED
    BY <1>1, <2>1, <2>2 DEF Takes
<1>3. Leaves(name) = 1
  BY DEF Leaves
<1>4. Straight(name)
  BY <1>1 DEF Straight, Transfers, ControlOps
<1> QED
  BY <1>2, <1>3, <1>4

LEMMA StoreTakes ==
  \A name \in DOMAIN StoreOps :
    Takes(name) = 2 /\ Leaves(name) = 0 /\ Straight(name)
<1> SUFFICES ASSUME NEW name \in DOMAIN StoreOps
             PROVE  Takes(name) = 2 /\ Leaves(name) = 0 /\ Straight(name)
  OBVIOUS
<1>1. /\ name \notin ControlOps \cup DataOps \cup DOMAIN LoadOps
      /\ name \notin {"MemorySize", "MemoryGrow"}
  BY StoreNames
<1>2. name \notin NumericOps
  BY StoreNames, NumericNames
<1>3. name \notin {"If", "BrIf", "BrTable", "CallIndirect", "Drop", "SetLocal",
                   "TeeLocal", "SetGlobal", "TableGet", "RefIsNull",
                   "RefAsNonNull", "MemoryGrow"}
  BY <1>1 DEF DataOps, ControlOps
<1>4. name \notin {"Select", "SelectT", "GetLocal", "TeeLocal", "GetGlobal",
                   "TableGet", "RefNull", "RefFunc", "RefIsNull",
                   "RefAsNonNull", "RefEq", "MemorySize", "MemoryGrow"}
                  \cup ConstOps
  BY <1>1 DEF DataOps
<1>5. Takes(name) = 2
  BY <1>1, <1>2, <1>3, <1>4 DEF Takes
<1>6. Leaves(name) = 0
  BY <1>1, <1>2, <1>4 DEF Leaves
<1>7. Straight(name)
  BY <1>1 DEF Straight, Transfers, ControlOps
<1> QED
  BY <1>5, <1>6, <1>7

LEMMA ConstTakes ==
  \A name \in ConstOps :
    Takes(name) = 0 /\ Leaves(name) = 1 /\ Straight(name)
<1> SUFFICES ASSUME NEW name \in ConstOps
             PROVE  Takes(name) = 0 /\ Leaves(name) = 1 /\ Straight(name)
  OBVIOUS
<1>1. name \notin NumericOps \cup DOMAIN LoadOps \cup DOMAIN StoreOps
  BY OtherNames DEF DataOps
<1>2. name \in {"I32Const", "I64Const", "F32Const", "F64Const"}
  BY DEF ConstOps
<1>3. Takes(name) = 0
  BY <1>1, <1>2 DEF Takes
<1>4. Leaves(name) = 1
  BY DEF Leaves
<1> QED
  BY <1>2, <1>3, <1>4 DEF Straight, Transfers

\* The others, by name.
LEMMA ControlTakes ==
  /\ Takes("If") = 1 /\ Takes("BrIf") = 1 /\ Takes("BrTable") = 1
  /\ Takes("CallIndirect") = 1 /\ Leaves("BrIf") = 0 /\ Leaves("If") = 0
  /\ \A name \in {"Nop", "StartScope", "EndScope", "Else", "Br", "Return",
                  "Call", "Unreachable"} : Takes(name) = 0 /\ Leaves(name) = 0
<1>1. \A name \in ControlOps :
        name \notin NumericOps \cup DOMAIN LoadOps \cup DOMAIN StoreOps
  BY OtherNames
<1>2. \A name \in ControlOps : name \notin ConstOps
  BY DEF ControlOps, ConstOps
<1>3. Takes("If") = 1 /\ Takes("BrIf") = 1 /\ Takes("BrTable") = 1
      /\ Takes("CallIndirect") = 1
  BY <1>1 DEF Takes, ControlOps
<1>4. ASSUME NEW name \in ControlOps PROVE Leaves(name) = 0
  <2>1. name \notin {"Select", "SelectT", "GetLocal", "TeeLocal", "GetGlobal",
                     "TableGet", "RefNull", "RefFunc", "RefIsNull",
                     "RefAsNonNull", "RefEq", "MemorySize", "MemoryGrow"}
    BY DEF ControlOps
  <2> QED
    BY <1>1, <1>2, <2>1 DEF Leaves
<1>5. ASSUME NEW name \in {"Nop", "StartScope", "EndScope", "Else", "Br",
                           "Return", "Call", "Unreachable"}
      PROVE  Takes(name) = 0 /\ name \in ControlOps
  <2>1. name \in ControlOps
    BY DEF ControlOps
  <2> QED
    BY <1>1, <2>1 DEF Takes
<1> QED
  BY <1>3, <1>4, <1>5 DEF ControlOps

\* What an operation on data takes and leaves.
DataTakes(name) ==
  CASE name \in {"Select", "SelectT"} -> <<3, 1>>
    [] name \in {"GetLocal", "GetGlobal", "RefNull", "RefFunc", "MemorySize"} ->
         <<0, 1>>
    [] name \in {"TeeLocal", "TableGet", "RefIsNull", "RefAsNonNull",
                 "MemoryGrow"} -> <<1, 1>>
    [] name \in {"Drop", "SetLocal", "SetGlobal"} -> <<1, 0>>
    [] name = "TableSet" -> <<2, 0>>
    [] name = "RefEq" -> <<2, 1>>

LEMMA DataOpTakes ==
  \A name \in (DataOps \ ConstOps) \cup {"MemorySize", "MemoryGrow"} :
    /\ Takes(name) = DataTakes(name)[1] /\ Leaves(name) = DataTakes(name)[2]
    /\ Straight(name)
<1> SUFFICES ASSUME NEW name \in (DataOps \ ConstOps)
                                   \cup {"MemorySize", "MemoryGrow"}
             PROVE  /\ Takes(name) = DataTakes(name)[1]
                    /\ Leaves(name) = DataTakes(name)[2] /\ Straight(name)
  OBVIOUS
<1>1. /\ name \notin NumericOps \cup DOMAIN LoadOps \cup DOMAIN StoreOps
      /\ name \notin ConstOps
  BY OtherNames DEF ConstOps
<1>2. name \in {"Drop", "Select", "SelectT", "GetLocal", "SetLocal", "TeeLocal",
                "GetGlobal", "SetGlobal", "TableGet", "TableSet", "RefNull",
                "RefFunc", "RefIsNull", "RefAsNonNull", "RefEq", "MemorySize",
                "MemoryGrow"}
  BY DEF DataOps
<1>3. Takes(name) = DataTakes(name)[1]
  BY <1>1, <1>2 DEF Takes, DataTakes
<1>4. Leaves(name) = DataTakes(name)[2]
  BY <1>1, <1>2 DEF Leaves, DataTakes
<1>5. Straight(name)
  BY <1>2 DEF Straight, Transfers
<1> QED
  BY <1>3, <1>4, <1>5

-----------------------------------------------------------------------------
(* What a step finds.                                                      *)

H == HeightOf(mod, Current.fn)
Size == Len(Current.stack)

\* A step of the execute loop, under everything that holds before it.
Facing(name) ==
  Validated /\ IInv /\ HInv /\ FramesNest(mod, frames) /\ Stepping(name)

\* The scopes the pc is in, with what is known of them.
Place(st) ==
  /\ st \in Seq(Nat) /\ Nest(Ops, Current.pc, st)
  /\ Listed(mod.types, Ops, st, Current.control)
  /\ Len(Current.control) = Len(st) + 1
  /\ Surplus(mod, Current.fn, H, st, Current.control, H[Current.pc], Size)
  /\ \A k \in 1 .. Len(st) + 1 : Level(H, st, k) \in Nat

LEMMA CurrentHigh ==
  ASSUME Validated, IInv, HInv, status = "running"
  PROVE  /\ Current \in Frame /\ mod \in Modules
         /\ Current.fn \in Nat /\ Current.fn < Len(mod.code)
         /\ Current.control \in Seq(Control) /\ Current.stack \in Seq(Word)
         /\ Size \in Nat /\ Len(Ops) \in Nat
         /\ Closed(Ops) /\ H \in [0 .. Len(Ops) -> Nat]
         /\ Len(ReturnTypes(mod, Current.fn)) <= H[Len(Ops)]
         /\ \A i \in 0 .. Len(Ops) - 1 : OpValid(mod, Current.fn, H, i)
         /\ FrameHeights(mod, Current, 0)
         /\ Floors(Current.control, Size)
<1>1. /\ Current \in Frame /\ mod \in Modules /\ Ops \in Seq(OpRecord)
      /\ Current.fn \in Nat /\ Current.fn < Len(mod.code)
      /\ Current.stack \in Seq(Word)
  BY CurrentOK
<1>2. Current.control \in Seq(Control) /\ Size \in Nat /\ Len(Ops) \in Nat
  BY <1>1 DEF Frame, Size
<1>3. /\ Closed(Ops) /\ H \in [0 .. Len(Ops) -> Nat]
      /\ Len(ReturnTypes(mod, Current.fn)) <= H[Len(Ops)]
      /\ \A i \in 0 .. Len(Ops) - 1 : OpValid(mod, Current.fn, H, i)
  BY <1>1, HeightsExist DEF H, Ops, Validated
<1>4. /\ Len(frames) \in 1 .. Len(frames)
      /\ FramesHigh(mod, frames) /\ FramesFloors(frames)
  BY RunningFrames
<1>5. FrameHeights(mod, Current, Pending(mod, frames, Len(frames)))
  BY <1>4 DEF FramesHigh, Current
<1>6. FrameHeights(mod, Current, 0)
  BY <1>5 DEF Pending
<1>7. Floors(Current.control, Size)
  BY <1>4 DEF FramesFloors, Current, Size
<1> QED
  BY <1>1, <1>2, <1>3, <1>6, <1>7

LEMMA Found ==
  ASSUME NEW name, Facing(name)
  PROVE  /\ status = "running" /\ Current.pc \in Nat
         /\ Current.pc \in 0 .. Len(Ops) - 1 /\ Current.pc \in 0 .. Len(Ops)
         /\ Current.pc + 1 \in 0 .. Len(Ops)
         /\ At(Ops, Current.pc) = Arg /\ Arg.op = name
         /\ Scoped(Ops) /\ decode_accepts(Ops) /\ LoopsUncrossed(Ops)
         /\ H[Current.pc] \in Nat /\ H[Current.pc + 1] \in Nat
         /\ OpValid(mod, Current.fn, H, Current.pc)
         /\ \E st : Place(st)
<1>1. Validated /\ IInv /\ HInv /\ FramesNest(mod, frames) /\ Stepping(name)
  BY DEF Facing
<1>2. status = "running" /\ Current.pc < Len(Ops)
  BY <1>1 DEF Stepping
<1>3. /\ Current.pc \in Nat /\ Current.pc \in 0 .. Len(Ops) - 1
      /\ At(Ops, Current.pc) = Arg /\ Arg.op = name
      /\ Scoped(Ops) /\ decode_accepts(Ops) /\ LoopsUncrossed(Ops)
  BY <1>1, CurrentNests DEF Validated
<1>4. /\ Len(Ops) \in Nat /\ H \in [0 .. Len(Ops) -> Nat]
      /\ \A i \in 0 .. Len(Ops) - 1 : OpValid(mod, Current.fn, H, i)
      /\ FrameHeights(mod, Current, 0) /\ Size \in Nat
  BY <1>1, <1>2, CurrentHigh
<1>5. Current.pc \in 0 .. Len(Ops) /\ Current.pc + 1 \in 0 .. Len(Ops)
  BY <1>3, <1>4
<1>6. PICK st : /\ Nest(Ops, Current.pc, st)
                /\ Surplus(mod, Current.fn, H, st, Current.control,
                           H[Current.pc], Size + 0)
  BY <1>2, <1>4, Zenon DEF FrameHeights, Ops, H, Size
<1>7. PICK ex : /\ Nest(Ops, Current.pc, ex) /\ ex \in Seq(Nat)
                /\ Listed(mod.types, Ops, ex, Current.control)
  BY <1>1, CurrentNests DEF Validated
<1>8. ex = st
  BY <1>3, <1>6, <1>7, NestUnique
<1>9. Size + 0 = Size
  BY <1>4
<1>10. ASSUME NEW k \in 1 .. Len(st) + 1 PROVE Level(H, st, k) \in Nat
  BY <1>4, <1>5, <1>6, LevelType
<1>11. Len(Current.control) = Len(st) + 1
  BY <1>7, <1>8 DEF Listed
<1>12. Place(st)
  BY <1>6, <1>7, <1>8, <1>9, <1>10, <1>11 DEF Place
<1>13. H[Current.pc] \in Nat /\ H[Current.pc + 1] \in Nat
  BY <1>4, <1>5
<1>14. OpValid(mod, Current.fn, H, Current.pc)
  BY <1>3, <1>4
<1> QED
  BY <1>2, <1>3, <1>5, <1>12, <1>13, <1>14

\* The frame goes on elsewhere within the same scopes, with p results to come.
LEMMA MovedHigh ==
  ASSUME NEW name, Facing(name), NEW st, Place(st),
         NEW g, g.fn = Current.fn, g.control = Current.control,
         g.pc \in 0 .. Len(Ops), g.pc < Len(Ops) => Nest(Ops, g.pc, st),
         NEW p, Len(g.stack) + p \in Nat,
         Size + H[g.pc] <= Len(g.stack) + p + H[Current.pc]
  PROVE  FrameHeights(mod, g, p)
<1>1. /\ Len(Ops) \in Nat /\ H \in [0 .. Len(Ops) -> Nat] /\ Size \in Nat
      /\ Current.control \in Seq(Control)
  BY Found, CurrentHigh DEF Facing
<1>2. Current.pc \in 0 .. Len(Ops) /\ H[Current.pc] \in Nat
  BY Found
<1>3. /\ Nest(Ops, Current.pc, st) /\ Len(Current.control) = Len(st) + 1
      /\ Surplus(mod, Current.fn, H, st, Current.control, H[Current.pc], Size)
      /\ st \in Seq(Nat) /\ Len(st) \in Nat
  BY DEF Place
<1>4. H[g.pc] \in Nat
  BY <1>1
<1> DEFINE n2 == Len(g.stack) + p
           at2 == H[g.pc]
           at == H[Current.pc]
<1>5. n2 \in Nat /\ at2 \in Nat /\ Size + at2 <= n2 + at /\ at \in Nat
  BY <1>2, <1>4
<1>6. Surplus(mod, Current.fn, H, st, Current.control, at2, n2)
  <2>1. Surplus(mod, Current.fn, H, st, Current.control, at, Size)
    BY <1>3
  <2> HIDE DEF n2, at2, at
  <2> QED
    BY <1>1, <1>2, <1>3, <1>5, <2>1, MovedSurplus
<1>7. HeightOf(mod, g.fn) = H /\ At(mod.code, g.fn).ops = Ops
  BY DEF H, Ops
<1>8. Surplus(mod, g.fn, HeightOf(mod, g.fn), st, g.control,
              HeightOf(mod, g.fn)[g.pc], Len(g.stack) + p)
  BY <1>6, <1>7
<1>9. /\ g.pc \in 0 .. Len(At(mod.code, g.fn).ops)
      /\ HeightOf(mod, g.fn)[g.pc] \in Nat
      /\ g.pc < Len(At(mod.code, g.fn).ops)
           => Nest(At(mod.code, g.fn).ops, g.pc, st)
  BY <1>4, <1>7
<1> QED
  BY <1>3, <1>8, <1>9, HighFrame

\* Operands that can be taken are there, and taking them spares the floors.
LEMMA TakeHigh ==
  ASSUME NEW name, Facing(name), NEW t \in Nat, CanTake(Ops, H, Current.pc, t)
  PROVE  t <= Size /\ Floors(Current.control, Size - t)
<1>1. /\ Size \in Nat /\ Current.control \in Seq(Control)
      /\ Floors(Current.control, Size)
  BY Found, CurrentHigh DEF Facing
<1>2. PICK st : Place(st)
  BY Found
<1>3. Current.pc \in Nat /\ H[Current.pc] \in Nat
  BY Found
<1> QED
  BY <1>1, <1>2, <1>3, FloorsTake DEF Place

LEMMA TakesType ==
  ASSUME NEW name
  PROVE  Takes(name) \in Nat /\ Leaves(name) \in Nat
<1>1. Leaves(name) \in Nat
  BY DEF Leaves
<1>2. name \in NumericOps => Arity(name) \in Nat
  BY NumericAssumption
<1>3. Takes(name) \in Nat
  BY <1>2 DEF Takes
<1> QED
  BY <1>1, <1>3

LEMMA HasTakes ==
  ASSUME NEW name, Facing(name)
  PROVE  /\ Takes(name) \in Nat /\ Has(Takes(name))
         /\ Takes(name) <= Size /\ Floors(Current.control, Size - Takes(name))
<1>1. CanTake(Ops, H, Current.pc, Takes(name))
  BY Found, Zenon DEF OpValid, Ops
<1>2. Takes(name) <= Size /\ Floors(Current.control, Size - Takes(name))
  BY <1>1, TakeHigh, TakesType
<1>3. Takes(name) \in Nat /\ Size \in Nat
  BY TakesType, Found, CurrentHigh DEF Facing
<1>4. Has(Takes(name))
  BY <1>2, <1>3 DEF Has, Size
<1> QED
  BY <1>2, <1>3, <1>4

\* The frame goes on behind an operation that only takes and leaves operands.
LEMMA StraightHigh ==
  ASSUME NEW name, Facing(name), Straight(name), NEW g, Behind(g),
         Len(g.stack) = Size - Takes(name) + Leaves(name)
  PROVE  /\ g.fn = Current.fn /\ FrameHeights(mod, g, 0)
         /\ Floors(g.control, Len(g.stack))
<1> DEFINE t == Takes(name)
           l == Leaves(name)
           i == Current.pc
<1>1. t \in Nat /\ l \in Nat /\ t <= Size /\ Floors(Current.control, Size - t)
  BY HasTakes, TakesType
<1>2. /\ Size \in Nat /\ Current.control \in Seq(Control) /\ Len(Ops) \in Nat
  BY Found, CurrentHigh DEF Facing
<1>3. PICK st : Place(st)
  BY Found
<1>4. /\ i \in Nat /\ i + 1 \in 0 .. Len(Ops) /\ At(Ops, i) = Arg /\ Arg.op = name
      /\ H[i] \in Nat /\ H[i + 1] \in Nat
  BY Found
<1>5. H[i + 1] <= H[i] - t + l
  <2>1. OpValid(mod, Current.fn, H, i) /\ At(Ops, i).op \notin Transfers
    BY <1>4, Found DEF Straight
  <2> QED
    BY <1>4, <2>1 DEF OpValid, Ops
<1>6. /\ g.fn = Current.fn /\ g.control = Current.control /\ g.pc = i + 1
  BY DEF Behind
<1>7. Nest(Ops, i + 1, st)
  <2>1. At(Ops, i).op \notin {"StartScope", "EndScope"}
    BY <1>4 DEF Straight, Transfers
  <2> QED
    BY <1>3, <1>4, <2>1, NestPlain DEF Place
<1>8. /\ Size + H[i + 1] <= Len(g.stack) + 0 + H[i]
      /\ Len(g.stack) + 0 \in Nat /\ Len(g.stack) \in Nat
      /\ Size - t \in Nat /\ Size - t <= Len(g.stack)
  <2> DEFINE a == H[i]
             b == H[i + 1]
             n == Len(g.stack)
             s == Size
  <2>1. n = s - t + l /\ b <= a - t + l /\ a \in Nat /\ b \in Nat /\ s \in Nat
    BY <1>2, <1>4, <1>5
  <2> HIDE DEF t, l, a, b, n, s
  <2>2. /\ s + b <= n + 0 + a /\ n + 0 \in Nat /\ n \in Nat
        /\ s - t \in Nat /\ s - t <= n
    BY <1>1, <2>1 DEF s
  <2> QED
    BY <2>2 DEF a, b, n, s
<1>9. FrameHeights(mod, g, 0)
  BY <1>3, <1>4, <1>6, <1>7, <1>8, MovedHigh
<1>10. Floors(g.control, Len(g.stack))
  BY <1>1, <1>2, <1>6, <1>8, FloorsRaise
<1> QED
  BY <1>6, <1>9, <1>10

-----------------------------------------------------------------------------
(* Operations that only take and leave operands.                           *)

LEMMA Lengths ==
  ASSUME NEW name, Facing(name), NEW n \in Nat, n <= Size
  PROVE  /\ Len(Popped(n).stack) = Size - n
         /\ \A w : Len(PopPush(n, w).stack) = Size - n + 1
         /\ Len(Fetched.stack) = Size
         /\ \A i, v : Len([Fetched EXCEPT !.locals[i] = v].stack) = Size
         /\ \A i, v : Len([Popped(n) EXCEPT !.locals[i] = v].stack) = Size - n
<1>1. Current.stack \in Seq(Word) /\ Current \in Frame
  BY Found, CurrentHigh DEF Facing
<1>2. Fetched \in Frame /\ Fetched.stack = Current.stack
  BY FetchedOK DEF Facing
<1>3. /\ DropTop(Current.stack, n) \in Seq(Word)
      /\ Len(DropTop(Current.stack, n)) = Size - n
  BY <1>1, DropTopType DEF Size
<1>4. ASSUME NEW s PROVE [Fetched EXCEPT !.stack = s].stack = s
  BY <1>2 DEF Frame
<1>5. ASSUME NEW s, NEW l
      PROVE  [[Fetched EXCEPT !.stack = s] EXCEPT !.locals = l].stack = s
  BY <1>2 DEF Frame
<1>6. ASSUME NEW l PROVE [Fetched EXCEPT !.locals = l].stack = Fetched.stack
  BY <1>2 DEF Frame
<1>7. Popped(n).stack = DropTop(Current.stack, n)
  BY <1>2, <1>4 DEF Popped
<1>8. ASSUME NEW w PROVE Len(PopPush(n, w).stack) = Size - n + 1
  <2>1. PopPush(n, w).stack = Append(DropTop(Current.stack, n), w)
    BY <1>2, <1>4 DEF PopPush
  <2>2. DropTop(Current.stack, n) \in Seq(Word \cup {w})
    BY <1>3
  <2> QED
    BY <1>3, <2>1, <2>2
<1>9. ASSUME NEW i, NEW v
      PROVE  /\ Len([Fetched EXCEPT !.locals[i] = v].stack) = Size
             /\ Len([Popped(n) EXCEPT !.locals[i] = v].stack) = Size - n
  BY <1>2, <1>3, <1>5, <1>6 DEF Popped, Size
<1> QED
  BY <1>2, <1>3, <1>7, <1>8, <1>9 DEF Size

\* What can become of such an operation.
LEMMA StraightSteps ==
  ASSUME NEW name, Facing(name), Straight(name)
  PROVE  /\ Leaves(name) = 1 => \A w : Keep(PopPush(Takes(name), w)) => Good
         /\ Leaves(name) = 0 => (Keep(Popped(Takes(name))) => Good)
         /\ Leaves(name) = 0 =>
              \A i, v : Keep([Popped(Takes(name)) EXCEPT !.locals[i] = v]) => Good
         /\ Leaves(name) = Takes(name) =>
              \A i, v : Keep([Fetched EXCEPT !.locals[i] = v]) => Good
         /\ Leaves(name) = Takes(name) => (Keep(Fetched) => Good)
         /\ Has(Takes(name))
         /\ \A fault : Trap(fault) /\ fault \notin Underflows \cup {"Panic"} => Good
<1> DEFINE t == Takes(name)
           l == Leaves(name)
<1>1. /\ t \in Nat /\ t <= Size /\ Size \in Nat /\ l \in Nat /\ Has(t)
  BY HasTakes, TakesType, Found, CurrentHigh DEF Facing
<1>2. IInv /\ HInv /\ status = "running" /\ Stepping(name)
  BY Found DEF Facing
<1>3. ASSUME NEW g, Behind(g), Len(g.stack) = Size - t + l, Keep(g) PROVE Good
  BY <1>2, <1>3, StraightHigh, KeepHigh
<1>4. /\ Behind(Fetched) /\ Behind(Popped(t)) /\ \A w : Behind(PopPush(t, w))
      /\ \A i, v : Behind([Fetched EXCEPT !.locals[i] = v])
      /\ \A i, v : Behind([Popped(t) EXCEPT !.locals[i] = v])
  BY <1>2, BehindFrames
<1>5. /\ Len(Popped(t).stack) = Size - t
      /\ \A w : Len(PopPush(t, w).stack) = Size - t + 1
      /\ Len(Fetched.stack) = Size
      /\ \A i, v : Len([Fetched EXCEPT !.locals[i] = v].stack) = Size
      /\ \A i, v : Len([Popped(t) EXCEPT !.locals[i] = v].stack) = Size - t
  BY <1>1, Lengths
<1>6. /\ l = 0 => Size - t + l = Size - t
      /\ l = 1 => Size - t + l = Size - t + 1
      /\ l = t => Size - t + l = Size
  BY <1>1
<1>7. ASSUME NEW fault, Trap(fault), fault \notin Underflows \cup {"Panic"}
      PROVE  Good
  BY <1>2, <1>7, TrapHigh
<1>8. ASSUME l = 1, NEW w, Keep(PopPush(t, w)) PROVE Good
  BY <1>3, <1>4, <1>5, <1>6, <1>8
<1>9. ASSUME l = 0, Keep(Popped(t)) PROVE Good
  BY <1>3, <1>4, <1>5, <1>6, <1>9
<1>10. ASSUME l = 0, NEW i, NEW v, Keep([Popped(t) EXCEPT !.locals[i] = v])
       PROVE  Good
  BY <1>3, <1>4, <1>5, <1>6, <1>10
<1>11. ASSUME l = t, NEW i, NEW v, Keep([Fetched EXCEPT !.locals[i] = v])
       PROVE  Good
  BY <1>3, <1>4, <1>5, <1>6, <1>11
<1>12. ASSUME l = t, Keep(Fetched) PROVE Good
  BY <1>3, <1>4, <1>5, <1>6, <1>12
<1> QED
  BY <1>1, <1>7, <1>8, <1>9, <1>10, <1>11, <1>12

\* The declared locals are there, and validated code uses no others.
LEMMA LocalThere ==
  ASSUME NEW name \in {"GetLocal", "SetLocal", "TeeLocal"}, Facing(name)
  PROVE  /\ Arg.n < Len(Current.locals)
         /\ ~ (Arg.n >= Len(Current.locals))
         /\ ~ (Arg.n >= Len(LocalTypes(mod, Current.fn)))
<1>1. /\ OpValid(mod, Current.fn, H, Current.pc) /\ At(Ops, Current.pc) = Arg
      /\ Arg.op = name
  BY Found
<1>2. Arg.n < Len(LocalTypes(mod, Current.fn))
  BY <1>1 DEF OpValid, Ops
<1>3. /\ FrameOK(mod, Current) /\ Current.locals \in Seq(Value) /\ mod \in Modules
      /\ Current.fn \in Nat /\ Current.fn < Len(mod.code)
  BY Found, CurrentOK DEF Facing
<1>4. Len(Current.locals) >= Len(LocalTypes(mod, Current.fn))
  BY <1>3 DEF FrameOK
<1>5. Arg.n \in Nat
  BY FetchedOK DEF Facing
<1>6. Len(Current.locals) \in Nat /\ Len(LocalTypes(mod, Current.fn)) \in Nat
  BY <1>3, FunctionType
<1> QED
  BY <1>2, <1>4, <1>5, <1>6

\* What the step lemmas assume.
Ready == Validated /\ IInv /\ HInv /\ FramesNest(mod, frames)

LEMMA StackOpsHigh ==
  ASSUME Ready, Nop \/ Drop \/ Select \/ ConstOp
  PROVE  Good
<1>1. ASSUME NEW name, Stepping(name) PROVE Facing(name)
  BY <1>1 DEF Ready, Facing
<1>2. CASE Nop
  <2>1. Facing("Nop") /\ Keep(Fetched)
    BY <1>1, <1>2 DEF Nop, Continue
  <2>2. Straight("Nop") /\ Takes("Nop") = 0 /\ Leaves("Nop") = 0
    BY ControlTakes DEF Straight, Transfers
  <2> QED
    BY <2>1, <2>2, StraightSteps
<1>3. CASE Drop
  <2>1. Facing("Drop") /\ Popping(1, Continue(Popped(1)))
    BY <1>1, <1>3 DEF Drop
  <2>2. Straight("Drop") /\ Takes("Drop") = 1 /\ Leaves("Drop") = 0
    BY DataOpTakes DEF DataTakes, DataOps, ConstOps
  <2>3. Has(1)
    BY <2>1, <2>2, StraightSteps
  <2>4. Keep(Popped(1))
    BY <2>1, <2>3 DEF Popping, Continue
  <2> QED
    BY <2>1, <2>2, <2>4, StraightSteps
<1>4. CASE Select
  <2>1. PICK name \in {"Select", "SelectT"} :
          /\ Stepping(name)
          /\ Popping(3, Continue(PopPush(3, IF U32(Operand(0)) # 0 THEN Operand(2)
                                                                  ELSE Operand(1))))
    BY <1>4 DEF Select
  <2>2. Straight(name) /\ Takes(name) = 3 /\ Leaves(name) = 1
    BY DataOpTakes DEF DataTakes, DataOps, ConstOps
  <2>3. Facing(name)
    BY <1>1, <2>1
  <2>4. Has(3)
    BY <2>2, <2>3, StraightSteps
  <2>5. \E w : Keep(PopPush(3, w))
    BY <2>1, <2>4 DEF Popping, Continue
  <2> QED
    BY <2>2, <2>3, <2>5, StraightSteps
<1>5. CASE ConstOp
  <2>1. PICK name \in ConstOps : Stepping(name) /\ Continue(PopPush(0, Arg.k % M64))
    BY <1>5 DEF ConstOp
  <2>2. Straight(name) /\ Takes(name) = 0 /\ Leaves(name) = 1
    BY ConstTakes
  <2>3. Facing(name)
    BY <1>1, <2>1
  <2>4. \E w : Keep(PopPush(0, w))
    BY <2>1 DEF Continue
  <2> QED
    BY <2>2, <2>3, <2>4, StraightSteps
<1> QED
  BY <1>2, <1>3, <1>4, <1>5

LEMMA NumericHigh ==
  ASSUME Ready, NumericOp
  PROVE  Good
<1>1. PICK name \in NumericOps :
        /\ Stepping(name)
        /\ Popping(Arity(name),
             LET reply == Numeric(name, IF Arity(name) = 1 THEN <<Operand(0)>>
                                        ELSE <<Operand(1), Operand(0)>>)
             IN IF reply.fault = "None"
                THEN Continue(PopPush(Arity(name), reply.w))
                ELSE Trap(reply.fault))
  BY DEF NumericOp
<1> DEFINE args == IF Arity(name) = 1 THEN <<Operand(0)>>
                   ELSE <<Operand(1), Operand(0)>>
           reply == Numeric(name, args)
<1>2. Facing(name) /\ IInv /\ status = "running"
  BY <1>1, Found DEF Ready, Facing
<1>3. /\ Takes(name) = Arity(name) /\ Leaves(name) = 1 /\ Straight(name)
      /\ Arity(name) \in {1, 2}
  BY NumericTakes
<1>4. Has(Arity(name))
  BY <1>2, <1>3, StraightSteps
<1>5. IF reply.fault = "None" THEN Continue(PopPush(Arity(name), reply.w))
      ELSE Trap(reply.fault)
  BY <1>1, <1>4 DEF Popping
<1>6. reply \in NumericReply
  <2>1. CASE Arity(name) = 1
    <3>1. Operand(0) \in Word
      BY <1>2, <1>4, <2>1, OperandWord
    <3> QED
      BY <2>1, <3>1, NumericAssumption
  <2>2. CASE Arity(name) = 2
    <3>1. Operand(0) \in Word /\ Operand(1) \in Word
      BY <1>2, <1>4, <2>2, OperandWord
    <3> QED
      BY <2>2, <3>1, NumericAssumption
  <2> QED
    BY <1>3, <2>1, <2>2
<1> HIDE DEF reply
<1>7. CASE reply.fault = "None"
  <2>1. \E w : Keep(PopPush(Takes(name), w))
    BY <1>3, <1>5, <1>7 DEF Continue
  <2> QED
    BY <1>2, <1>3, <2>1, StraightSteps
<1>8. CASE reply.fault # "None"
  <2>1. reply.fault \notin Underflows \cup {"Panic"}
    BY <1>6, <1>8 DEF NumericReply, NumericFaults, Underflows
  <2> QED
    BY <1>2, <1>3, <1>5, <1>8, <2>1, StraightSteps
<1> QED
  BY <1>7, <1>8

LEMMA VariablesHigh ==
  ASSUME Ready, GetLocal \/ SetLocal \/ TeeLocal \/ GetGlobal \/ SetGlobal
  PROVE  Good
<1>1. ASSUME NEW name, Stepping(name) PROVE Facing(name)
  BY <1>1 DEF Ready, Facing
<1>2. CASE GetLocal
  <2>1. Facing("GetLocal")
    BY <1>1, <1>2 DEF GetLocal
  <2>2. /\ Straight("GetLocal") /\ Takes("GetLocal") = 0
        /\ Leaves("GetLocal") = 1
    BY DataOpTakes DEF DataTakes, DataOps, ConstOps
  <2>3. \E w : Keep(PopPush(0, w))
    BY <1>2, <2>1, LocalThere DEF GetLocal, Continue
  <2> QED
    BY <2>1, <2>2, <2>3, StraightSteps
<1>3. CASE SetLocal
  <2>1. Facing("SetLocal")
    BY <1>1, <1>3 DEF SetLocal
  <2>2. /\ Straight("SetLocal") /\ Takes("SetLocal") = 1
        /\ Leaves("SetLocal") = 0
    BY DataOpTakes DEF DataTakes, DataOps, ConstOps
  <2>3. Has(1)
    BY <2>1, <2>2, StraightSteps
  <2>4. \E i, v : Keep([Popped(1) EXCEPT !.locals[i] = v])
    BY <1>3, <2>1, <2>3, LocalThere
       DEF SetLocal, set_local_from_stack, Popping, Continue
  <2> QED
    BY <2>1, <2>2, <2>4, StraightSteps
<1>4. CASE TeeLocal
  <2>1. Facing("TeeLocal")
    BY <1>1, <1>4 DEF TeeLocal
  <2>2. /\ Straight("TeeLocal") /\ Takes("TeeLocal") = 1
        /\ Leaves("TeeLocal") = 1
    BY DataOpTakes DEF DataTakes, DataOps, ConstOps
  <2>3. Has(1)
    BY <2>1, <2>2, StraightSteps
  <2>4. \E i, v : Keep([Fetched EXCEPT !.locals[i] = v])
    BY <1>4, <2>1, <2>3, LocalThere
       DEF TeeLocal, set_local_from_stack, Popping, Continue
  <2> QED
    BY <2>1, <2>2, <2>4, StraightSteps
<1>5. CASE GetGlobal
  <2>1. Facing("GetGlobal")
    BY <1>1, <1>5 DEF GetGlobal
  <2>2. /\ Straight("GetGlobal") /\ Takes("GetGlobal") = 0
        /\ Leaves("GetGlobal") = 1
    BY DataOpTakes DEF DataTakes, DataOps, ConstOps
  <2>3. (\E w : Keep(PopPush(0, w))) \/ Trap("GlobalIndexOutOfBounds")
    BY <1>5 DEF GetGlobal, Continue
  <2> QED
    BY <2>1, <2>2, <2>3, StraightSteps DEF Underflows
<1>6. CASE SetGlobal
  <2>1. Facing("SetGlobal")
    BY <1>1, <1>6 DEF SetGlobal
  <2>2. /\ Straight("SetGlobal") /\ Takes("SetGlobal") = 1
        /\ Leaves("SetGlobal") = 0
    BY DataOpTakes DEF DataTakes, DataOps, ConstOps
  <2>3. Has(1)
    BY <2>1, <2>2, StraightSteps
  <2>4. Keep(Popped(1)) \/ Trap("GlobalIndexOutOfBounds")
    BY <1>6, <2>3 DEF SetGlobal, Popping
  <2> QED
    BY <2>1, <2>2, <2>4, StraightSteps DEF Underflows
<1> QED
  BY <1>2, <1>3, <1>4, <1>5, <1>6

LEMMA ReferencesHigh ==
  ASSUME Ready, \/ TableGet \/ TableSet \/ RefNull \/ RefFunc \/ RefIsNull
                \/ RefAsNonNull \/ RefEq
  PROVE  Good
<1>1. ASSUME NEW name, Stepping(name) PROVE Facing(name)
  BY <1>1 DEF Ready, Facing
<1>2. ASSUME NEW name, Facing(name), Straight(name), Leaves(name) = 1,
             \/ \E w : Keep(PopPush(Takes(name), w))
             \/ \E fault : Trap(fault) /\ fault \notin Underflows \cup {"Panic"}
      PROVE  Good
  BY <1>2, StraightSteps
<1>3. CASE TableGet
  <2>1. Facing("TableGet")
    BY <1>1, <1>3 DEF TableGet
  <2>2. /\ Straight("TableGet") /\ Takes("TableGet") = 1
        /\ Leaves("TableGet") = 1
    BY DataOpTakes DEF DataTakes, DataOps, ConstOps
  <2>3. Has(1)
    BY <2>1, <2>2, StraightSteps
  <2>4. \/ \E w : Keep(PopPush(1, w))
        \/ Trap("GlobalIndexOutOfBounds") \/ Trap("MemoryOutOfBounds")
    BY <1>3, <2>3 DEF TableGet, Popping, Continue
  <2> QED
    BY <1>2, <2>1, <2>2, <2>4 DEF Underflows
<1>4. CASE TableSet
  <2>1. Facing("TableSet")
    BY <1>1, <1>4 DEF TableSet
  <2>2. /\ Straight("TableSet") /\ Takes("TableSet") = 2
        /\ Leaves("TableSet") = 0
    BY DataOpTakes DEF DataTakes, DataOps, ConstOps
  <2>3. Has(2)
    BY <2>1, <2>2, StraightSteps
  <2>4. Has(1)
    <3>1. Size \in Nat
      BY <2>1, Found, CurrentHigh DEF Facing
    <3> QED
      BY <2>3, <3>1 DEF Has, Size
  <2>5. \/ Keep(Popped(2))
        \/ Trap("GlobalIndexOutOfBounds") \/ Trap("MemoryOutOfBounds")
    BY <1>4, <2>3, <2>4 DEF TableSet, Popping
  <2> QED
    BY <2>1, <2>2, <2>5, StraightSteps DEF Underflows
<1>5. CASE RefNull \/ RefFunc
  <2>1. PICK name \in {"RefNull", "RefFunc"} : Stepping(name)
    BY <1>5 DEF RefNull, RefFunc
  <2>2. Straight(name) /\ Takes(name) = 0 /\ Leaves(name) = 1
    BY DataOpTakes DEF DataTakes, DataOps, ConstOps
  <2>3. (\E w : Keep(PopPush(0, w))) \/ Trap("InvalidRefType")
    BY <1>5 DEF RefNull, RefFunc, Continue
  <2> QED
    BY <1>1, <1>2, <2>1, <2>2, <2>3 DEF Underflows
<1>6. CASE RefIsNull
  <2>1. Facing("RefIsNull")
    BY <1>1, <1>6 DEF RefIsNull
  <2>2. /\ Straight("RefIsNull") /\ Takes("RefIsNull") = 1
        /\ Leaves("RefIsNull") = 1
    BY DataOpTakes DEF DataTakes, DataOps, ConstOps
  <2>3. Has(1)
    BY <2>1, <2>2, StraightSteps
  <2>4. \E w : Keep(PopPush(1, w))
    BY <1>6, <2>3 DEF RefIsNull, Popping, Continue
  <2> QED
    BY <1>2, <2>1, <2>2, <2>4
<1>7. CASE RefAsNonNull
  <2>1. Facing("RefAsNonNull")
    BY <1>1, <1>7 DEF RefAsNonNull
  <2>2. /\ Straight("RefAsNonNull") /\ Takes("RefAsNonNull") = 1
        /\ Leaves("RefAsNonNull") = 1
    BY DataOpTakes DEF DataTakes, DataOps, ConstOps
  <2>3. Has(1)
    BY <2>1, <2>2, StraightSteps
  <2>4. (\E w : Keep(PopPush(1, w))) \/ Trap("NullReference")
    BY <1>7, <2>3 DEF RefAsNonNull, Popping, Continue
  <2> QED
    BY <1>2, <2>1, <2>2, <2>4 DEF Underflows
<1>8. CASE RefEq
  <2>1. Facing("RefEq")
    BY <1>1, <1>8 DEF RefEq
  <2>2. Straight("RefEq") /\ Takes("RefEq") = 2 /\ Leaves("RefEq") = 1
    BY DataOpTakes DEF DataTakes, DataOps, ConstOps
  <2>3. Has(2)
    BY <2>1, <2>2, StraightSteps
  <2>4. \E w : Keep(PopPush(2, w))
    BY <1>8, <2>3 DEF RefEq, Popping, Continue
  <2> QED
    BY <1>2, <2>1, <2>2, <2>4
<1> QED
  BY <1>3, <1>4, <1>5, <1>6, <1>7, <1>8

-----------------------------------------------------------------------------
(* Operations that end an execute(), or the function.                      *)

LEMMA ProgramEndHigh ==
  ASSUME Ready, ProgramEnd
  PROVE  Good
<1>1. Validated /\ IInv /\ HInv /\ status = "running" /\ Finish(Current)
  BY DEF Ready, ProgramEnd
<1>2. /\ Current \in Frame /\ Size \in Nat /\ Len(Ops) \in Nat
      /\ H \in [0 .. Len(Ops) -> Nat]
      /\ Len(ReturnTypes(mod, Current.fn)) <= H[Len(Ops)]
      /\ FrameHeights(mod, Current, 0)
  BY <1>1, CurrentHigh
<1>3. Current.pc \in 0 .. Len(Ops) /\ H[Current.pc] <= Size + 0
  BY <1>2, Zenon DEF FrameHeights, Ops, H, Size
<1>4. Current.pc = Len(Ops)
  BY <1>2, <1>3 DEF ProgramEnd
<1>5. Len(ReturnTypes(mod, Current.fn)) \in Nat
  BY <1>1, CurrentOK, FunctionType, LenProperties
<1>6. Len(ReturnTypes(mod, Current.fn)) <= Len(Current.stack)
  <2> DEFINE a == H[Len(Ops)]
             r == Len(ReturnTypes(mod, Current.fn))
  <2>1. a \in Nat /\ r \in Nat /\ r <= a /\ a <= Size + 0
    BY <1>2, <1>3, <1>4, <1>5
  <2> HIDE DEF a, r
  <2>2. r <= Size
    BY <1>2, <2>1
  <2> QED
    BY <2>2 DEF r, Size
<1> QED
  BY <1>1, <1>2, <1>6, FinishHigh

\* There are the function's results when it returns.
LEMMA ReturnedHigh ==
  ASSUME Ready, NEW name, Stepping(name),
         Arg.op = "Return" \/ IsEnd(Arg, {"Program"}), Finish(Fetched)
  PROVE  Good
<1>1. /\ Validated /\ IInv /\ HInv /\ Facing(name)
  BY DEF Ready, Facing
<1>2. /\ status = "running" /\ H[Current.pc] \in Nat
      /\ OpValid(mod, Current.fn, H, Current.pc) /\ At(Ops, Current.pc) = Arg
  BY <1>1, Found
<1>3. Len(ReturnTypes(mod, Current.fn)) <= H[Current.pc]
  BY <1>2, Zenon DEF OpValid, Ops
<1>4. Size \in Nat /\ FrameHeights(mod, Current, 0)
  BY <1>1, <1>2, CurrentHigh
<1>5. H[Current.pc] <= Size + 0
  BY <1>4, Zenon DEF FrameHeights, Ops, H, Size
<1>6. Len(ReturnTypes(mod, Current.fn)) \in Nat
  BY <1>1, <1>2, CurrentOK, FunctionType, LenProperties
<1>7. Fetched \in Frame /\ Fetched.fn = Current.fn /\ Len(Fetched.stack) = Size
  <2>1. Fetched \in Frame /\ Behind(Fetched)
    BY <1>1, BehindFrames
  <2>2. 0 \in Nat /\ 0 <= Size
    BY <1>4
  <2>3. Len(Fetched.stack) = Size
    BY <1>1, <2>2, Lengths
  <2> QED
    BY <2>1, <2>3 DEF Behind
<1>8. Len(ReturnTypes(mod, Fetched.fn)) <= Len(Fetched.stack)
  <2> DEFINE a == H[Current.pc]
             r == Len(ReturnTypes(mod, Current.fn))
  <2>1. a \in Nat /\ r \in Nat /\ r <= a /\ a <= Size + 0
    BY <1>2, <1>3, <1>5, <1>6
  <2> HIDE DEF a, r
  <2>2. r <= Size
    BY <1>4, <2>1
  <2> QED
    BY <1>7, <2>2 DEF r
<1> QED
  BY <1>1, <1>2, <1>7, <1>8, FinishHigh

LEMMA EndingHigh ==
  ASSUME Ready, ProgramEnd \/ OutOfTicks \/ Unreachable \/ Return
  PROVE  Good
<1>1. IInv /\ HInv /\ "OutOfTicks" \notin Underflows \cup {"Panic"}
      /\ "Unreachable" \notin Underflows \cup {"Panic"}
  BY DEF Ready, Underflows
<1>2. CASE ProgramEnd
  BY <1>2, ProgramEndHigh
<1>3. CASE OutOfTicks
  BY <1>1, <1>3, TrapHigh DEF OutOfTicks
<1>4. CASE Unreachable
  BY <1>1, <1>4, TrapHigh DEF Unreachable, Stepping
<1>5. CASE Return
  <2>1. Stepping("Return") /\ Finish(Fetched) /\ Arg.op = "Return"
    BY <1>5 DEF Return, Stepping, Arg
  <2> QED
    BY <2>1, ReturnedHigh
<1> QED
  BY <1>2, <1>3, <1>4, <1>5

-----------------------------------------------------------------------------
(* Scopes.                                                                 *)

LEMMA EnterScopeHigh ==
  ASSUME Ready, EnterScope
  PROVE  Good
<1>1. IInv /\ HInv /\ Facing("StartScope") /\ mod \in Modules /\ Stepping("StartScope")
  BY DEF Ready, Facing, EnterScope, IInv
<1>2. /\ status = "running" /\ Fetched \in Frame /\ Behind(Fetched)
      /\ Arg.scope \in ScopeTypes /\ Arg.ty \in BlockTypes /\ Arg.n \in Nat
  BY <1>1, FetchedOK, BehindFrames
<1> DEFINE i == Current.pc
           sig == resolve_type(mod.types, Arg)
           g == push_control(Fetched, sig, Arg.scope)
           c == [scope |-> Arg.scope, fn |-> sig.fn, results |-> sig.results,
                 width |-> Len(Fetched.stack)]
<1>3. /\ i \in Nat /\ i + 1 \in 0 .. Len(Ops) /\ At(Ops, i) = Arg
      /\ Arg.op = "StartScope" /\ H[i] \in Nat /\ H[i + 1] \in Nat
      /\ OpValid(mod, Current.fn, H, i)
  BY <1>1, Found
<1>4. /\ Size \in Nat /\ Current.control \in Seq(Control) /\ Len(Ops) \in Nat
      /\ Floors(Current.control, Size)
  BY <1>1, <1>2, CurrentHigh DEF Ready
<1>5. Resolvable(mod.types, Arg)
  BY <1>3, Zenon DEF OpValid, Ops
<1>6. H[i + 1] <= H[i]
  <2>1. Arg.op \notin Transfers /\ Takes(Arg.op) = 0 /\ Leaves(Arg.op) = 0
    BY <1>3, ControlTakes DEF Transfers
  <2>2. H[i + 1] <= H[i] - 0 + 0
    BY <1>3, <2>1, Zenon DEF OpValid, Ops
  <2> DEFINE a == H[i]
             b == H[i + 1]
  <2> HIDE DEF a, b
  <2>3. a \in Nat /\ b \in Nat /\ b <= a - 0 + 0
    BY <1>3, <2>2 DEF a, b
  <2>4. b <= a
    BY <2>3
  <2> QED
    BY <2>4 DEF a, b
<1>7. sig \in Signature
  BY <1>1, <1>2, <1>5, ResolvedType
<1>8. sig.fn => Arg.ty = "Index"
  BY DEF resolve_type, ValueSig
<1>9. Len(Fetched.stack) = Size
  <2>1. 0 \in Nat /\ 0 <= Size
    BY <1>4
  <2> QED
    BY <1>1, <2>1, Lengths
<1>10. Continue(g)
  BY <1>5 DEF EnterScope
<1> HIDE DEF sig
<1>11. c \in Control /\ c.width = Size /\ c.fn = sig.fn
  BY <1>2, <1>4, <1>7, <1>9 DEF Control, Signature
<1>12. /\ g.fn = Current.fn /\ g.pc = i + 1 /\ g.stack = Fetched.stack
       /\ g.control = Append(Current.control, c)
  BY <1>2 DEF push_control, Frame, Behind
<1> HIDE DEF g, c
<1>13. PICK st : Place(st)
  BY <1>1, Found
<1>14. Nest(Ops, g.pc, Append(st, i))
  BY <1>2, <1>3, <1>12, <1>13, NestStart DEF Place
<1>15. At(At(mod.code, Current.fn).ops, i) = Arg
  BY <1>3 DEF Ops
<1>16. Surplus(mod, Current.fn, H, Append(st, i), Append(Current.control, c),
               H[i + 1], Size)
  <2>1. c.fn => At(At(mod.code, Current.fn).ops, i).ty = "Index"
    BY <1>8, <1>11, <1>15
  <2>2. /\ st \in Seq(Nat) /\ Len(Current.control) = Len(st) + 1
        /\ \A k \in 1 .. Len(st) + 1 : Level(H, st, k) \in Nat
        /\ Surplus(mod, Current.fn, H, st, Current.control, H[i], Size)
    BY <1>13 DEF Place
  <2> HIDE DEF i
  <2> QED
    BY <1>3, <1>4, <1>6, <1>11, <2>1, <2>2, PushedSurplus
<1>17. FrameHeights(mod, g, 0)
  <2>1. st \in Seq(Nat)
    BY <1>13 DEF Place
  <2>2. Len(Append(st, i)) \in Nat
    BY <1>3, <2>1
  <2>3. Len(g.stack) + 0 = Size /\ Len(g.stack) + 0 \in Nat
    BY <1>4, <1>9, <1>12
  <2>4. HeightOf(mod, g.fn) = H /\ At(mod.code, g.fn).ops = Ops
    BY <1>12 DEF H, Ops
  <2>5. Surplus(mod, g.fn, HeightOf(mod, g.fn), Append(st, i), g.control,
                HeightOf(mod, g.fn)[g.pc], Len(g.stack) + 0)
    BY <1>12, <1>16, <2>3, <2>4
  <2>6. g.pc \in 0 .. Len(Ops) /\ H[g.pc] \in Nat
    BY <1>3, <1>12
  <2> QED
    BY <1>14, <2>2, <2>3, <2>4, <2>5, <2>6, HighFrame
<1>18. Floors(g.control, Len(g.stack))
  BY <1>4, <1>9, <1>11, <1>12, FloorsPush
<1> QED
  BY <1>1, <1>2, <1>10, <1>12, <1>17, <1>18, ContinueHigh

\* The frame goes on outside of d scopes, with the surplus that scope u had.
LEMMA OutsideHigh ==
  ASSUME NEW name, Facing(name), NEW st, Place(st),
         NEW u \in 1 .. Len(st) + 1, NEW d \in Nat, d <= Len(st),
         Len(st) + 1 - d <= u,
         NEW g, g.fn = Current.fn, g.control = DropTop(Current.control, d),
         g.pc \in 0 .. Len(Ops), g.pc < Len(Ops) => Nest(Ops, g.pc, DropTop(st, d)),
         Len(g.stack) \in Nat,
         Current.control[u].width + H[g.pc] <= Len(g.stack) + Level(H, st, u)
  PROVE  FrameHeights(mod, g, 0)
<1>1. /\ Len(Ops) \in Nat /\ H \in [0 .. Len(Ops) -> Nat]
      /\ Current.control \in Seq(Control)
  BY Found, CurrentHigh DEF Facing
<1>2. /\ Len(Current.control) = Len(st) + 1
      /\ Surplus(mod, Current.fn, H, st, Current.control, H[Current.pc], Size)
      /\ st \in Seq(Nat) /\ Len(st) \in Nat
      /\ \A k \in 1 .. Len(st) + 1 : Level(H, st, k) \in Nat
  BY DEF Place
<1>3. H[g.pc] \in Nat
  BY <1>1
<1> DEFINE n2 == Len(g.stack)
           at2 == H[g.pc]
           at == H[Current.pc]
<1>4. /\ n2 \in Nat /\ at2 \in Nat
      /\ Current.control[u].width + at2 <= n2 + Level(H, st, u)
      /\ Surplus(mod, Current.fn, H, st, Current.control, at, Size)
  BY <1>2, <1>3
<1> HIDE DEF n2, at2, at
<1>5. Surplus(mod, Current.fn, H, DropTop(st, d), DropTop(Current.control, d),
              at2, n2)
  BY <1>1, <1>2, <1>4, DroppedSurplus
<1>6. HeightOf(mod, g.fn) = H /\ At(mod.code, g.fn).ops = Ops
  BY DEF H, Ops
<1>7. n2 = Len(g.stack) + 0 /\ Len(g.stack) + 0 \in Nat
  BY <1>4 DEF n2
<1>8. Surplus(mod, g.fn, HeightOf(mod, g.fn), DropTop(st, d), g.control,
              HeightOf(mod, g.fn)[g.pc], Len(g.stack) + 0)
  BY <1>5, <1>6, <1>7 DEF at2
<1>9. DropTop(st, d) \in Seq(Nat)
  BY <1>2, DropTopType
<1>10. Len(DropTop(st, d)) \in Nat
  BY <1>9
<1> QED
  BY <1>3, <1>6, <1>7, <1>8, <1>10, HighFrame

\* A scope opened by an if had the condition on the stack.
LEMMA FloorNat ==
  ASSUME NEW name, Facing(name), NEW st, Place(st), NEW k \in 1 .. Len(st)
  PROVE  /\ H[st[k]] \in Nat /\ Floor(Ops, H, st[k]) \in Nat
         /\ Floor(Ops, H, st[k]) = H[st[k]] - IfBit(Current.control[k + 1])
         /\ Level(H, st, k + 1) = H[st[k]]
         /\ st[k] \in OpenScopes(Ops, Current.pc)
<1> DEFINE s == st[k]
           i == Current.pc
<1>1. /\ i \in 0 .. Len(Ops) - 1 /\ i \in 0 .. Len(Ops) /\ i \in Nat
      /\ Scoped(Ops) /\ decode_accepts(Ops)
  BY Found
<1>2. Nest(Ops, i, st) /\ Listed(mod.types, Ops, st, Current.control)
  BY DEF Place
<1>3. /\ Len(Ops) \in Nat /\ H \in [0 .. Len(Ops) -> Nat]
      /\ \A j \in 0 .. Len(Ops) - 1 : OpValid(mod, Current.fn, H, j)
  BY Found, CurrentHigh DEF Facing
<1>4. s \in Nat /\ s < i /\ At(Ops, s).op = "StartScope"
  BY <1>1, <1>2, <1>3, NestTypes, NestKinds
<1>5. Floored(Ops, H, i, st, Current.control)
  BY <1>2, FloorOf, Zenon
<1>6. /\ Level(H, st, k + 1) = H[s] /\ s \in OpenScopes(Ops, i)
      /\ Floor(Ops, H, s) = H[s] - IfBit(Current.control[k + 1])
  BY <1>5 DEF Floored
<1> HIDE DEF s, i
<1>7. /\ s \in 0 .. Len(Ops) - 1 /\ s + 1 \in 0 .. Len(Ops) - 1
      /\ s + 1 > 0 /\ (s + 1) - 1 = s
  BY <1>1, <1>3, <1>4
<1>8. H[s] \in Nat /\ H[s + 1] \in Nat
  BY <1>3, <1>7
<1>9. ASSUME At(Ops, s).scope = "IfElse" PROVE 1 <= H[s]
  <2>1. At(Ops, s + 1).op = "If"
    BY <1>1, <1>4, <1>7, <1>9, Zenon DEF decode_accepts
  <2>2. CanTake(Ops, H, s + 1, Takes("If"))
    BY <1>3, <1>7, <2>1, Zenon DEF OpValid, Ops
  <2>3. 1 <= H[s + 1]
    BY <2>2, ControlTakes DEF CanTake
  <2>4. Takes("StartScope") = 0 /\ Leaves("StartScope") = 0
        /\ "StartScope" \notin Transfers
    BY ControlTakes DEF Transfers
  <2>5. H[s + 1] <= H[s] - 0 + 0
    BY <1>3, <1>4, <1>7, <2>4, Zenon DEF OpValid, Ops
  <2> DEFINE a == H[s]
             b == H[s + 1]
  <2>6. a \in Nat /\ b \in Nat /\ b <= a - 0 + 0 /\ 1 <= b
    BY <1>8, <2>3, <2>5
  <2> HIDE DEF a, b
  <2>7. 1 <= a
    BY <2>6
  <2> QED
    BY <2>7 DEF a
<1>10. Floor(Ops, H, s) \in Nat
  <2> DEFINE a == H[s]
  <2>1. a \in Nat /\ (At(Ops, s).scope = "IfElse" => 1 <= a)
        /\ Floor(Ops, H, s) = a - (IF At(Ops, s).scope = "IfElse" THEN 1 ELSE 0)
    BY <1>8, <1>9 DEF Floor
  <2> HIDE DEF a
  <2> QED
    BY <2>1
<1> QED
  BY <1>6, <1>8, <1>10 DEF s, i

\* What is left when a scope of entry width w with height l is left with r
\* results, at height a with n operands, b of them belonging to an if.
LEMMA WhatIsLeft ==
  ASSUME NEW w \in Nat, NEW l \in Nat, NEW r \in Nat, NEW a \in Nat,
         NEW n \in Nat, NEW b \in Nat, l - b \in Nat,
         w + a <= n + l, a <= n, l - b + r <= a,
         NEW n2, n2 = IF w + r < n THEN w + r ELSE n,
         NEW next \in Nat, next <= l - b + r
  PROVE  r <= n /\ n2 \in Nat /\ w + next <= n2 + l /\ (n2 = n \/ w <= n2)
  OBVIOUS

LEMMA EndScopeStack ==
  ASSUME NEW f \in Frame, f.control # <<>>,
         Len(f.control[Len(f.control)].results) <= Len(f.stack)
  PROVE  LET c == f.control[Len(f.control)]
             n == c.width + Len(c.results)
         IN /\ end_scope(f).fault = "None"
            /\ Len(end_scope(f).frame.stack)
                 = IF n < Len(f.stack) THEN n ELSE Len(f.stack)
<1> DEFINE c == f.control[Len(f.control)]
           control == DropTop(f.control, 1)
           stack == PushValues(
                      shrink_to(DropTop(f.stack, Len(c.results)), c.width),
                      PopValues(f.stack, c.results))
           x == [f EXCEPT !.control = control, !.stack = stack]
<1>1. f.control # <<>> /\ CanPop(f.stack, c.results)
  BY DEF CanPop
<1>2. end_scope(f) = Fine(x)
  BY <1>1 DEF end_scope
<1>3. f.control \in Seq(Control) /\ f.stack \in Seq(Word)
  BY DEF Frame
<1>4. c \in Control
  BY <1>1, <1>3
<1>5. c.results \in Seq(ValTypes) /\ c.width \in Nat
  BY <1>4 DEF Control
<1>6. Len(stack) = IF c.width + Len(c.results) < Len(f.stack)
                   THEN c.width + Len(c.results) ELSE Len(f.stack)
  BY <1>1, <1>3, <1>5, CarriedLength
<1> HIDE DEF stack, control
<1>7. x.stack = stack
  BY DEF Frame
<1> HIDE DEF x
<1>8. end_scope(f).fault = "None" /\ end_scope(f).frame.stack = stack
  BY <1>2, <1>7 DEF Fine
<1> QED
  BY <1>6, <1>8

LEMMA LeaveScopeHigh ==
  ASSUME Ready, LeaveScope
  PROVE  Good
<1>1. IInv /\ HInv /\ Facing("EndScope") /\ Stepping("EndScope")
  BY DEF Ready, Facing, LeaveScope
<1>2. /\ status = "running" /\ Fetched \in Frame /\ Behind(Fetched)
      /\ Arg.scope \in ScopeTypes
  BY <1>1, FetchedOK, BehindFrames
<1> DEFINE i == Current.pc
<1>3. /\ i \in 0 .. Len(Ops) - 1 /\ i \in 0 .. Len(Ops) /\ i \in Nat
      /\ i + 1 \in 0 .. Len(Ops) /\ Scoped(Ops) /\ decode_accepts(Ops)
      /\ H[i] \in Nat /\ H[i + 1] \in Nat
      /\ At(Ops, i) = Arg /\ Arg.op = "EndScope"
      /\ OpValid(mod, Current.fn, H, i)
  BY <1>1, Found
<1>4. CASE Arg.scope = "Program"
  <2>1. IsEnd(Arg, {"Program"}) /\ Finish(Fetched)
    BY <1>3, <1>4 DEF IsEnd, LeaveScope
  <2> QED
    BY <1>1, <2>1, ReturnedHigh
<1>5. CASE Arg.scope # "Program"
  <2>1. PICK st : Place(st)
    BY <1>1, Found
  <2>2. /\ st \in Seq(Nat) /\ Len(st) \in Nat /\ Nest(Ops, i, st)
        /\ Listed(mod.types, Ops, st, Current.control)
        /\ Len(Current.control) = Len(st) + 1
        /\ Surplus(mod, Current.fn, H, st, Current.control, H[i], Size)
    BY <2>1 DEF Place
  <2>3. /\ Size \in Nat /\ Current.control \in Seq(Control) /\ Len(Ops) \in Nat
        /\ Floors(Current.control, Size)
    BY <1>1, <1>2, CurrentHigh DEF Ready
  <2>4. st # <<>>
    <3>1. Arg.scope = Innermost(Ops, i)
      BY <1>3, Zenon DEF decode_accepts
    <3>2. Innermost(Ops, i) =
            IF st = <<>> THEN "Program" ELSE At(Ops, st[Len(st)]).scope
      BY <1>3, <2>2, NestInnermost
    <3> QED
      BY <1>5, <3>1, <3>2
  <2> DEFINE l == Len(st)
             s == st[l]
             c == Current.control[l + 1]
  <2>5. l \in 1 .. l /\ l + 1 \in 1 .. l + 1 /\ l + 1 \in 1 .. Len(Current.control)
    BY <2>2, <2>4
  <2>6. /\ H[s] \in Nat /\ Floor(Ops, H, s) \in Nat
        /\ Floor(Ops, H, s) = H[s] - IfBit(c)
        /\ Level(H, st, l + 1) = H[s] /\ s \in OpenScopes(Ops, i)
    BY <1>1, <2>1, <2>5, FloorNat
  <2>7. \A t \in OpenScopes(Ops, i) : t <= s
    <3>1. ASSUME NEW k \in 1 .. l PROVE st[k] <= s
      <4>1. k = l \/ k < l
        BY <2>2
      <4>2. st[k] \in Nat /\ s \in Nat
        BY <2>2, <2>5
      <4>3. k < l => st[k] < s
        BY <2>2, <2>5 DEF Nest
      <4> QED
        BY <4>1, <4>2, <4>3
    <3>2. OpenScopes(Ops, i) = {st[k] : k \in 1 .. l}
      BY <2>2 DEF Nest
    <3> QED
      BY <3>1, <3>2
  <2> DEFINE r == Len(c.results)
  <2>8. c.width \in Nat /\ c.results \in Seq(ValTypes)
    BY <2>3, <2>5, ControlWidths
  <2>9. r \in Nat /\ c.results = resolve_type(mod.types, At(Ops, s)).results
    BY <2>2, <2>5, <2>8 DEF Listed
  <2>10. Floor(Ops, H, s) + r <= H[i] /\ H[i + 1] <= Floor(Ops, H, s) + r
    <3>1. EndValid(mod, Current.fn, H, i)
      BY <1>3, Zenon DEF OpValid, Ops
    <3>2. LET height == Floor(Ops, H, s)
                          + Len(resolve_type(mod.types, At(Ops, s)).results)
          IN height <= H[i] /\ H[i + 1] <= height
      BY <2>6, <2>7, <3>1, Zenon DEF EndValid, Directly, Ops
    <3> QED
      BY <2>9, <3>2
  <2>11. c.width + H[i] <= Size + H[s] /\ H[i] <= Size
    <3>1. Current.control[l + 1].width + H[i] <= Size + Level(H, st, l + 1)
      BY <2>2, <2>5 DEF Surplus, Roomy
    <3>2. H[i] <= Size
      BY <1>3, <2>2, <2>3, SurplusHeight
    <3> QED
      BY <2>6, <3>1, <3>2
  <2>12. Len(Fetched.stack) = Size
    <3>1. 0 \in Nat /\ 0 <= Size
      BY <2>3
    <3> QED
      BY <1>1, <3>1, Lengths
  <2> DEFINE n2 == IF c.width + r < Size THEN c.width + r ELSE Size
             reply == end_scope(Fetched)
             g == reply.frame
  <2>13. /\ r <= Size /\ n2 \in Nat
         /\ c.width + H[i + 1] <= n2 + H[s] /\ (n2 = Size \/ c.width <= n2)
    <3> DEFINE w == c.width
               a == H[i]
               lev == H[s]
               b == IfBit(c)
               next == H[i + 1]
               m == IF w + r < Size THEN w + r ELSE Size
    <3>1. b \in Nat
      BY BitType
    <3>2. lev - b \in Nat
      BY <2>6
    <3>3. lev - b + r <= a /\ next <= lev - b + r
      BY <2>6, <2>10
    <3>4. w + a <= Size + lev /\ a <= Size /\ a \in Nat /\ next \in Nat
      BY <1>3, <2>11
    <3>5. w \in Nat /\ lev \in Nat /\ r \in Nat
      BY <2>6, <2>8, <2>9
    <3> HIDE DEF w, a, lev, b, next, r
    <3>6. /\ r <= Size /\ m \in Nat /\ w + next <= m + lev
          /\ (m = Size \/ w <= m)
      BY <2>3, <3>1, <3>2, <3>3, <3>4, <3>5, WhatIsLeft
    <3> QED
      BY <3>6 DEF w, lev, next
  <2>14. Fetched.control = Current.control /\ Fetched.fn = Current.fn
         /\ Fetched.pc = i + 1
    BY <1>2 DEF Behind
  <2>15. Fetched.control # <<>> /\ Fetched.control[Len(Fetched.control)] = c
    BY <2>2, <2>3, <2>5, <2>14
  <2>16. reply.fault = "None" /\ Len(g.stack) = n2
    BY <1>2, <2>12, <2>13, <2>15, EndScopeStack
  <2>17. /\ g.pc = i + 1 /\ g.fn = Current.fn
         /\ g.control = DropTop(Current.control, 1)
    BY <1>2, <2>14, <2>16, EndScopeFields, EndScopeType
  <2>18. Continue(g)
    BY <1>5, <2>16 DEF LeaveScope, Settle
  <2>19. Nest(Ops, i + 1, DropTop(st, 1))
    <3>1. Nest(Ops, i + 1, IF st = <<>> THEN <<>> ELSE DropTop(st, 1))
      BY <1>2, <1>3, <2>2, NestEnd DEF IsEnd
    <3> QED
      BY <2>4, <3>1
  <2> HIDE DEF n2, reply, g, r, s, i
  <2>20. FrameHeights(mod, g, 0)
    <3>1. 1 \in Nat /\ 1 <= Len(st) /\ Len(st) + 1 - 1 <= l + 1
          /\ l + 1 \in 1 .. Len(st) + 1
      BY <2>2, <2>5
    <3>2. Current.control[l + 1].width + H[g.pc] <= Len(g.stack) + Level(H, st, l + 1)
      BY <2>6, <2>13, <2>16, <2>17
    <3>3. g.pc \in 0 .. Len(Ops) /\ Len(g.stack) \in Nat
      BY <1>3, <2>13, <2>16, <2>17
    <3> QED
      BY <1>1, <2>1, <2>17, <2>19, <3>1, <3>2, <3>3, OutsideHigh
  <2>21. Floors(g.control, Len(g.stack))
    <3>1. 1 \in Nat /\ 1 <= Len(Current.control)
          /\ Len(Current.control) - 1 <= l + 1
      BY <2>2, <2>5
    <3>2. n2 = Size \/ Current.control[l + 1].width <= n2
      BY <2>13
    <3>3. Floors(DropTop(Current.control, 1), n2)
      BY <2>3, <2>5, <2>13, <3>1, <3>2, FloorsDrop
    <3> QED
      BY <2>16, <2>17, <3>3
  <2> QED
    BY <1>1, <1>2, <2>17, <2>18, <2>20, <2>21, ContinueHigh
<1> QED
  BY <1>4, <1>5

\* A jump within the innermost scope, with its operand popped.
LEMMA JumpHigh ==
  ASSUME NEW name, Facing(name), NEW st, Place(st), NEW f \in Frame, Behind(f),
         Len(f.stack) = Size - Takes(name), NEW pc \in 0 .. Len(Ops),
         pc < Len(Ops) => Nest(Ops, pc, st), H[pc] <= H[Current.pc] - Takes(name),
         Continue([f EXCEPT !.pc = pc])
  PROVE  Good
<1> DEFINE g == [f EXCEPT !.pc = pc]
           t == Takes(name)
<1>1. /\ g.pc = pc /\ g.fn = Current.fn /\ g.control = Current.control
      /\ g.stack = f.stack
  BY DEF Frame, Behind
<1>2. Continue(g)
  OBVIOUS
<1> HIDE DEF g
<1>3. IInv /\ HInv /\ status = "running" /\ H[Current.pc] \in Nat
  BY Found DEF Facing
<1>4. Size \in Nat /\ Len(Ops) \in Nat /\ H \in [0 .. Len(Ops) -> Nat]
  BY Found, CurrentHigh DEF Facing
<1>5. t \in Nat /\ t <= Size /\ Floors(Current.control, Size - t)
  BY HasTakes
<1>6. /\ Len(g.stack) + 0 \in Nat
      /\ Size + H[g.pc] <= Len(g.stack) + 0 + H[Current.pc]
  <2> DEFINE a == H[Current.pc]
             b == H[pc]
  <2>1. a \in Nat /\ b \in Nat /\ b <= a - t /\ Len(g.stack) = Size - t
    BY <1>1, <1>3, <1>4
  <2> DEFINE n == Len(g.stack)
  <2>2. n = Size - t /\ g.pc = pc
    BY <1>1, <2>1
  <2> HIDE DEF a, b, t, n
  <2>3. n + 0 \in Nat /\ Size + b <= n + 0 + a
    <3> DEFINE z == Size
    <3>1. z \in Nat /\ t \in Nat /\ t <= z /\ n = z - t
      BY <1>4, <1>5, <2>2
    <3> HIDE DEF z
    <3>2. n + 0 \in Nat /\ z + b <= n + 0 + a
      BY <2>1, <3>1
    <3> QED
      BY <3>2 DEF z
  <2>4. H[g.pc] = b /\ H[Current.pc] = a /\ Len(g.stack) = n
    BY <2>2 DEF a, b, n
  <2> QED
    BY <2>3, <2>4, Zenon
<1>7. FrameHeights(mod, g, 0)
  BY <1>1, <1>6, MovedHigh
<1>8. Floors(g.control, Len(g.stack))
  BY <1>1, <1>5
<1> QED
  BY <1>1, <1>2, <1>3, <1>7, <1>8, ContinueHigh

-----------------------------------------------------------------------------
(* Validation speaks of the places structured control goes to, the         *)
(* interpreter finds them by scans: they are the same.                     *)

LEMMA DirectlyTop ==
  ASSUME NEW ops, NEW e \in Nat, NEW out, Nest(ops, e, out), NEW s
  PROVE  Directly(ops, s, e) <=> out # <<>> /\ s = out[Len(out)]
<1> DEFINE open == OpenScopes(ops, e)
           l == Len(out)
<1>1. /\ open = {out[k] : k \in 1 .. l} /\ out \in Seq(Nat) /\ l \in Nat
      /\ \A j, k \in 1 .. l : j < k => out[j] < out[k]
  BY DEF Nest
<1>2. out # <<>> => l \in 1 .. l
  BY <1>1
<1>3. ASSUME out # <<>>, NEW t \in open PROVE t <= out[l]
  <2>1. PICK k \in 1 .. l : t = out[k]
    BY <1>1
  <2>2. out[k] \in Nat /\ out[l] \in Nat
    BY <1>1, <1>2, <1>3
  <2>3. k < l => out[k] < out[l]
    BY <1>1, <1>2, <1>3
  <2> QED
    BY <1>1, <2>1, <2>2, <2>3
<1>4. ASSUME Directly(ops, s, e) PROVE out # <<>> /\ s = out[l]
  <2>1. s \in open /\ \A t \in open : t <= s
    BY <1>4 DEF Directly
  <2>2. out # <<>>
    BY <1>1, <2>1
  <2>3. out[l] <= s /\ s <= out[l] /\ s \in Nat /\ out[l] \in Nat
    BY <1>1, <1>2, <1>3, <2>1, <2>2
  <2> HIDE DEF l
  <2> QED
    BY <2>2, <2>3
<1>5. ASSUME out # <<>>, s = out[l] PROVE Directly(ops, s, e)
  BY <1>1, <1>2, <1>3, <1>5 DEF Directly
<1> QED
  BY <1>4, <1>5

\* Between two places directly in a scope as many scopes start as end.
LEMMA SameLevel ==
  ASSUME NEW ops, Len(ops) \in Nat, Scoped(ops), decode_accepts(ops),
         NEW a \in Nat, NEW e \in 0 .. Len(ops), a <= e,
         NEW st, Nest(ops, a, st), st # <<>>,
         NEW out, Nest(ops, e, out), out # <<>>,
         st[Len(st)] = out[Len(out)], NEW S \in SUBSET ScopeTypes
  PROVE  Starts(ops, a, e, S) = Ends(ops, a, e, S)
<1> DEFINE k == Len(st)
           l == Len(out)
<1>1. /\ st \in Seq(Nat) /\ out \in Seq(Nat) /\ e \in Nat
      /\ k \in 1 .. Len(st) /\ l \in 1 .. Len(out) /\ k \in Nat /\ l \in Nat
  <2>1. st \in Seq(Nat)
    BY DEF Nest
  <2>2. out \in Seq(Nat)
    BY DEF Nest
  <2> QED
    BY <2>1, <2>2
<1>2. out[l] < a
  <2>1. st[k] < a
    BY <1>1, NestTypes
  <2> QED
    BY <2>1
<1>3. /\ l <= Len(st) /\ Alike(st, out, l)
      /\ Balance(ops, a, st, e, out, l, S)
  <2> HIDE DEF l, k
  <2> QED
    BY <1>1, <1>2, Between
<1>4. l = k
  <2>1. l \in 1 .. Len(st) /\ st[l] = st[k]
    BY <1>1, <1>3 DEF Alike
  <2> QED
    BY <1>1, <2>1, NestPlaces
<1>5. Inner(ops, st, l, S) = 0 /\ Inner(ops, out, l, S) = 0
  <2>1. l + 1 .. Len(st) = {} /\ l + 1 .. Len(out) = {}
    BY <1>1, <1>4
  <2> QED
    BY <1>1, <2>1, InnerType
<1> DEFINE x == Starts(ops, a, e, S)
           y == Ends(ops, a, e, S)
<1>6. x \in Nat /\ y \in Nat /\ 0 + x = 0 + y
  <2>1. x \in Nat /\ y \in Nat
    BY <1>1, CountType
  <2>2. Inner(ops, st, l, S) + x = Inner(ops, out, l, S) + y
    BY <1>3 DEF Balance
  <2> QED
    BY <1>5, <2>1, <2>2
<1> HIDE DEF x, y
<1>7. x = y
  BY <1>6
<1> QED
  BY <1>7 DEF x, y

\* The end of the innermost scope, with the kind of its start.
LEMMA InnermostEnd ==
  ASSUME NEW ops, Len(ops) \in Nat, Scoped(ops), decode_accepts(ops),
         Closed(ops), NEW pc \in 0 .. Len(ops) - 1, NEW st, Nest(ops, pc, st),
         st # <<>>
  PROVE  \E j \in pc .. Len(ops) - 2 :
           /\ IsEnd(At(ops, j), {At(ops, st[Len(st)]).scope})
           /\ \E out : /\ Nest(ops, j, out) /\ out # <<>>
                       /\ st[Len(st)] = out[Len(out)]
<1> DEFINE z == Len(ops) - 1
           k == Len(st)
<1>1. /\ z \in 0 .. Len(ops) - 1 /\ IsEnd(At(ops, z), {"Program"})
      /\ pc \in 0 .. z /\ z - 1 = Len(ops) - 2
  BY DEF Closed
<1>2. k \in 1 .. Len(st) /\ k \in Nat
  BY DEF Nest
<1> HIDE DEF z, k
<1>0. PICK j \in pc .. z - 1 :
        /\ IsEnd(At(ops, j), ScopeTypes)
        /\ \E out : Nest(ops, j, out) /\ Len(out) = k /\ Alike(st, out, k)
  BY <1>1, <1>2, Closing
<1>3. PICK out : /\ IsEnd(At(ops, j), ScopeTypes) /\ Nest(ops, j, out)
                 /\ Len(out) = k /\ Alike(st, out, k)
  BY <1>0
<1>4. /\ j \in Nat /\ j \in pc .. Len(ops) - 2 /\ j \in 0 .. Len(ops) - 1
      /\ out # <<>> /\ st[k] = out[k]
  <2>1. out \in Seq(Nat)
    BY <1>3 DEF Nest
  <2>2. out # <<>> /\ st[k] = out[k]
    BY <1>2, <1>3, <2>1 DEF Alike
  <2> QED
    BY <1>1, <1>3, <2>2
<1>5. IsEnd(At(ops, j), {At(ops, st[k]).scope})
  <2>1. At(ops, j).scope = Innermost(ops, j) /\ At(ops, j).op = "EndScope"
    BY <1>3, <1>4 DEF decode_accepts, IsEnd
  <2>2. Innermost(ops, j) = At(ops, out[Len(out)]).scope
    BY <1>3, <1>4, NestInnermost
  <2> QED
    BY <1>3, <1>4, <2>1, <2>2 DEF IsEnd
<1> QED
  BY <1>3, <1>4, <1>5 DEF k

\* A scan forwards stops no later than where it could.
LEMMA StopsBefore ==
  ASSUME NEW ops, Len(ops) \in Nat, NEW pc \in Nat,
         NEW j \in pc .. Len(ops) - 2
  PROVE  /\ IsEnd(At(ops, j), {"IfElse"})
              /\ Starts(ops, pc, j, {"IfElse"}) = Ends(ops, pc, j, {"IfElse"})
            => skip_then(ops, pc) < Len(ops) /\ skip_else(ops, pc) < Len(ops)
         /\ \A depth :
              IsEnd(At(ops, j), ScopeTypes)
                /\ depth + Starts(ops, pc, j, ScopeTypes)
                     = Ends(ops, pc, j, ScopeTypes)
              => scope_end(ops, pc, depth) < Len(ops)
<1>1. ASSUME NEW T \in SUBSET (pc .. Len(ops) - 1), j \in T
      PROVE  /\ T # {} /\ Least(T) < Len(ops) /\ Least(T) + 1 < Len(ops)
  <2>1. T \in SUBSET Nat /\ T # {}
    BY <1>1
  <2>2. Least(T) \in T /\ Least(T) <= j
    BY <1>1, <2>1, LeastBound
  <2> DEFINE x == Least(T)
  <2>3. x \in Nat /\ x <= j
    BY <2>1, <2>2
  <2> HIDE DEF x
  <2>4. x < Len(ops) /\ x + 1 < Len(ops)
    BY <2>3
  <2> QED
    BY <2>1, <2>4 DEF x
<1>2. j \in pc .. Len(ops) - 1
  OBVIOUS
<1> DEFINE Even(i) == Starts(ops, pc, i, {"IfElse"}) = Ends(ops, pc, i, {"IfElse"})
           Shut(i, depth) ==
             depth + Starts(ops, pc, i, ScopeTypes) = Ends(ops, pc, i, ScopeTypes)
           thens == {i \in pc .. Len(ops) - 1 :
                       /\ At(ops, i).op = "Else" \/ IsEnd(At(ops, i), {"IfElse"})
                       /\ Even(i)}
           elses == {i \in pc .. Len(ops) - 1 :
                       IsEnd(At(ops, i), {"IfElse"}) /\ Even(i)}
           ends(depth) == {i \in pc .. Len(ops) - 1 :
                             IsEnd(At(ops, i), ScopeTypes) /\ Shut(i, depth)}
<1>3. skip_then(ops, pc) = IF thens = {} THEN Len(ops)
                           ELSE IF At(ops, Least(thens)).op = "Else"
                           THEN Least(thens) + 1 ELSE Least(thens)
  BY DEF skip_then
<1>4. skip_else(ops, pc) = IF elses = {} THEN Len(ops) ELSE Least(elses)
  BY DEF skip_else
<1>5. ASSUME NEW depth
      PROVE  scope_end(ops, pc, depth)
               = IF ends(depth) = {} THEN Len(ops) ELSE Least(ends(depth)) + 1
  BY DEF scope_end
<1>6. ASSUME IsEnd(At(ops, j), {"IfElse"}), Even(j)
      PROVE  skip_then(ops, pc) < Len(ops) /\ skip_else(ops, pc) < Len(ops)
  <2>1. /\ j \in thens /\ j \in elses /\ thens \in SUBSET (pc .. Len(ops) - 1)
        /\ elses \in SUBSET (pc .. Len(ops) - 1)
    BY <1>2, <1>6, Zenon
  <2> HIDE DEF thens, elses
  <2> QED
    BY <1>1, <1>3, <1>4, <2>1
<1>7. ASSUME NEW depth, IsEnd(At(ops, j), ScopeTypes), Shut(j, depth)
      PROVE  scope_end(ops, pc, depth) < Len(ops)
  <2>1. j \in ends(depth) /\ ends(depth) \in SUBSET (pc .. Len(ops) - 1)
    BY <1>2, <1>7, Zenon
  <2> HIDE DEF ends
  <2> QED
    BY <1>1, <1>5, <2>1
<1> QED
  BY <1>6, <1>7, Zenon

\* An If with a zero condition.
LEMMA SkipThenValid ==
  ASSUME NEW ops, Len(ops) \in Nat, Scoped(ops), decode_accepts(ops),
         Closed(ops), NEW i \in 0 .. Len(ops) - 1, At(ops, i).op = "If",
         NEW st, Nest(ops, i, st), NEW h, IfValid(ops, h, i)
  PROVE  h[skip_then(ops, i + 1)] <= h[i] - 1
<1> DEFINE pc == i + 1
           s == i - 1
           S == {"IfElse"}
<1>1. i \in Nat /\ pc \in Nat /\ pc \in 0 .. Len(ops) - 1 /\ S \in SUBSET ScopeTypes
  <2>1. i # Len(ops) - 1
    BY DEF Closed, IsEnd
  <2> QED
    BY <2>1 DEF ScopeTypes
<1>2. st # <<>> /\ st[Len(st)] = s /\ At(ops, st[Len(st)]).scope = "IfElse"
  BY <1>1, IfInside
<1>3. Nest(ops, pc, st)
  BY <1>1, NestPlain
<1>4. skip_then(ops, pc) < Len(ops)
  <2> HIDE DEF pc
  <2>0. PICK j \in pc .. Len(ops) - 2 :
          /\ IsEnd(At(ops, j), {At(ops, st[Len(st)]).scope})
          /\ \E out : /\ Nest(ops, j, out) /\ out # <<>>
                      /\ st[Len(st)] = out[Len(out)]
    BY <1>1, <1>2, <1>3, InnermostEnd
  <2>1. PICK out : /\ IsEnd(At(ops, j), S) /\ Nest(ops, j, out) /\ out # <<>>
                   /\ st[Len(st)] = out[Len(out)]
    BY <1>2, <2>0
  <2>2. j \in 0 .. Len(ops) /\ pc <= j
    BY <1>1
  <2>3. Starts(ops, pc, j, S) = Ends(ops, pc, j, S)
    BY <1>1, <1>2, <1>3, <2>1, <2>2, SameLevel
  <2> QED
    BY <1>1, <2>1, <2>3, StopsBefore
<1>5. PICK e \in pc .. Len(ops) - 1 : ArmAt(ops, pc, st, e, skip_then(ops, pc))
  <2> HIDE DEF pc
  <2> QED
    BY <1>1, <1>2, <1>3, <1>4, SkipThenPlace
<1>6. e \in Nat /\ e \in 0 .. Len(ops) - 1 /\ Nest(ops, e, st)
  BY <1>1, <1>5 DEF ArmAt
<1>7. Directly(ops, s, e)
  BY <1>2, <1>6, DirectlyTop
<1>8. CASE At(ops, e).op = "Else" /\ skip_then(ops, pc) = e + 1
  <2>1. e \in Elses(ops, i - 1)
    BY <1>6, <1>7, <1>8 DEF Elses
  <2> QED
    BY <1>8, <2>1 DEF IfValid
<1>9. CASE /\ IsEnd(At(ops, e), {"IfElse"}) /\ skip_then(ops, pc) = e
           /\ \A p \in pc .. e - 1 :
                At(ops, p).op = "Else" =>
                  Starts(ops, pc, p, {"IfElse"}) # Ends(ops, pc, p, {"IfElse"})
  <2>1. e \in Closers(ops, i - 1)
    BY <1>6, <1>7, <1>9 DEF Closers, IsEnd
  <2>2. ASSUME NEW p \in Elses(ops, i - 1) PROVE FALSE
    <3>1. /\ p \in 0 .. Len(ops) - 1 /\ At(ops, p).op = "Else"
          /\ Directly(ops, s, p) /\ p \in Nat /\ p \in 0 .. Len(ops)
      BY DEF Elses
    <3>2. PICK out : Nest(ops, p, out)
      BY <3>1, NestAt
    <3>3. out # <<>> /\ s = out[Len(out)]
      BY <3>1, <3>2, DirectlyTop
    <3>4. pc <= p
      <4>1. s \in 0 .. p - 1 /\ p # i
        BY <3>1 DEF Directly, OpenScopes
      <4> QED
        BY <1>1, <3>1, <4>1
    <3>5. Starts(ops, pc, p, S) = Ends(ops, pc, p, S)
      <4> HIDE DEF pc, s
      <4> QED
        BY <1>1, <1>2, <1>3, <3>1, <3>2, <3>3, <3>4, SameLevel
    <3>6. e < p
      <4>1. p \notin pc .. e - 1
        BY <1>9, <3>1, <3>5
      <4>2. p # e
        BY <1>9, <3>1 DEF IsEnd
      <4> QED
        BY <1>1, <1>6, <3>1, <3>4, <4>1, <4>2
    <3>7. Starts(ops, s + 1, e, ScopeTypes) = Ends(ops, s + 1, e, ScopeTypes)
      <4> DEFINE x == Starts(ops, s + 1, e, ScopeTypes)
                 y == Ends(ops, s + 1, e, ScopeTypes)
                 l == Len(st)
      <4>1. l \in 1 .. Len(st) /\ l \in Nat
        BY <1>2, <1>6 DEF Nest
      <4>2. x = y + (l - l)
        BY <1>2, <1>6, <4>1 DEF Nest
      <4>3. x \in Nat /\ y \in Nat
        BY <1>2, <1>6, <4>1, NestTypes
      <4> HIDE DEF x, y, l
      <4>4. x = y
        BY <4>1, <4>2, <4>3
      <4> QED
        BY <4>4 DEF x, y
    <3>8. s \in OpenScopes(ops, p)
      BY <3>1 DEF Directly
    <3>9. e \in s + 1 .. p - 1
      BY <1>1, <1>5, <1>6, <3>1, <3>6
    <3>10. IsEnd(At(ops, e), ScopeTypes)
      BY <1>9 DEF IsEnd, ScopeTypes
    <3> HIDE DEF s
    <3> QED
      BY <3>7, <3>8, <3>9, <3>10 DEF OpenScopes
  <2>3. Elses(ops, i - 1) = {}
    BY <2>2
  <2> QED
    BY <1>9, <2>1, <2>3 DEF IfValid
<1> QED
  BY <1>5, <1>8, <1>9 DEF ArmAt

\* An Else at the end of its then branch.
LEMMA SkipElseCloser ==
  ASSUME NEW ops, Len(ops) \in Nat, Scoped(ops), decode_accepts(ops),
         Closed(ops), NEW i \in 0 .. Len(ops) - 1, At(ops, i).op = "Else",
         NEW st, Nest(ops, i, st), st # <<>>,
         At(ops, st[Len(st)]).scope = "IfElse"
  PROVE  /\ Directly(ops, st[Len(st)], i)
         /\ skip_else(ops, i + 1) \in Closers(ops, st[Len(st)])
<1> DEFINE pc == i + 1
           s == st[Len(st)]
           S == {"IfElse"}
           e == skip_else(ops, pc)
<1>1. i \in Nat /\ pc \in Nat /\ pc \in 0 .. Len(ops) - 1 /\ S \in SUBSET ScopeTypes
  <2>1. i # Len(ops) - 1
    BY DEF Closed, IsEnd
  <2> QED
    BY <2>1 DEF ScopeTypes
<1>2. Nest(ops, pc, st)
  BY <1>1, NestPlain
<1> HIDE DEF pc
<1>3. e < Len(ops)
  <2>0. PICK j \in pc .. Len(ops) - 2 :
          /\ IsEnd(At(ops, j), {At(ops, st[Len(st)]).scope})
          /\ \E out : /\ Nest(ops, j, out) /\ out # <<>>
                      /\ st[Len(st)] = out[Len(out)]
    BY <1>1, <1>2, InnermostEnd
  <2>1. PICK out : /\ IsEnd(At(ops, j), S) /\ Nest(ops, j, out) /\ out # <<>>
                   /\ st[Len(st)] = out[Len(out)]
    BY <2>0
  <2>2. j \in 0 .. Len(ops) /\ pc <= j
    BY <1>1
  <2>3. Starts(ops, pc, j, S) = Ends(ops, pc, j, S)
    BY <1>1, <1>2, <2>1, <2>2, SameLevel
  <2> QED
    BY <1>1, <2>1, <2>3, StopsBefore
<1>4. Nest(ops, e, st) /\ IsEnd(At(ops, e), S)
  BY <1>1, <1>2, <1>3, SkipElseNests
<1>5. e \in 0 .. Len(ops) - 1 /\ e \in Nat
  <2>1. e \in 0 .. Len(ops)
    BY <1>1, SkipElsePc
  <2> HIDE DEF e
  <2> QED
    BY <1>3, <2>1
<1>6. Directly(ops, s, e) /\ Directly(ops, s, i)
  <2> HIDE DEF e
  <2> QED
    BY <1>1, <1>4, <1>5, DirectlyTop
<1>7. e \in Closers(ops, s)
  BY <1>4, <1>5, <1>6 DEF Closers, IsEnd
<1> QED
  BY <1>6, <1>7 DEF pc

\* A branch out of depth scopes, to scope s.
Landing(ops, i, depth, s) ==
  IF At(ops, s).scope = "Loop" THEN loop_start(ops, i + 1)
                               ELSE scope_end(ops, i + 1, depth)

LEMMA LandingLabel ==
  ASSUME NEW ops, Len(ops) \in Nat, Scoped(ops), decode_accepts(ops),
         LoopsUncrossed(ops), Closed(ops), NEW i \in 0 .. Len(ops) - 1,
         At(ops, i).op \notin {"StartScope", "EndScope"},
         NEW st, Nest(ops, i, st), NEW depth \in Nat, depth < Len(st),
         depth \in Depths(At(ops, i))
  PROVE  LET s == st[Len(st) - depth]
         IN Landing(ops, i, depth, s) \in Labels(ops, s)
<1> DEFINE pc == i + 1
           k == Len(st) - depth
           s == st[k]
           z == Len(ops) - 1
           S == ScopeTypes
<1>1. /\ i \in Nat /\ pc \in Nat /\ pc \in 0 .. z /\ z \in 0 .. Len(ops) - 1
      /\ IsEnd(At(ops, z), {"Program"}) /\ pc \in 0 .. Len(ops)
  <2>1. i # Len(ops) - 1
    BY DEF Closed, IsEnd
  <2> QED
    BY <2>1 DEF Closed
<1>2. Nest(ops, pc, st) /\ Len(st) \in Nat
  <2>1. Len(st) \in Nat
    BY DEF Nest
  <2> QED
    BY <1>1, <2>1, NestPlain
<1>3. k \in 1 .. Len(st) /\ k \in Nat /\ Len(st) - k = depth /\ k <= Len(st)
  BY <1>2
<1>4. CASE At(ops, s).scope = "Loop"
  <2>1. \A q \in k + 1 .. Len(st) : At(ops, st[q]).scope # "Loop"
    <3> HIDE DEF k
    <3> QED
      BY <1>1, <1>3, <1>4, Uncrossed
  <2>2. loop_start(ops, pc) = s + 1
    <3> HIDE DEF pc
    <3> QED
      BY <1>1, <1>2, <1>4, <2>1, LoopStartNests
  <2> QED
    BY <1>4, <2>2 DEF Landing, Labels
<1>5. CASE At(ops, s).scope # "Loop"
  <2> HIDE DEF pc, z
  <2>0. PICK j \in pc .. z - 1 :
          /\ IsEnd(At(ops, j), S)
          /\ \E out : Nest(ops, j, out) /\ Len(out) = k /\ Alike(st, out, k)
    <3> HIDE DEF k
    <3> QED
      BY <1>1, <1>2, <1>3, Closing
  <2>1. PICK out : /\ IsEnd(At(ops, j), S) /\ Nest(ops, j, out)
                   /\ Len(out) = k /\ Alike(st, out, k)
    BY <2>0
  <2>2. j \in 0 .. Len(ops) /\ pc <= j /\ j \in Nat /\ j \in pc .. Len(ops) - 2
    BY <1>1 DEF z
  <2>3. /\ k \in 1 .. Len(out) /\ out[k] < pc /\ S \in SUBSET ScopeTypes
    <3>1. out[k] = st[k] /\ k \in 1 .. Len(out)
      BY <1>3, <2>1 DEF Alike
    <3>2. st[k] < pc
      BY <1>1, <1>2, <1>3, NestTypes
    <3> QED
      BY <3>1, <3>2
  <2>4. Balance(ops, pc, st, j, out, k, S)
    <3> HIDE DEF k, S
    <3> QED
      BY <1>1, <1>2, <2>1, <2>2, <2>3, Between
  <2>5. Inner(ops, st, k, S) = depth
    <3>1. \A q \in 1 .. Len(st) : At(ops, st[q]).scope \in S
      BY <1>1, <1>2, NestKinds
    <3> HIDE DEF k, S
    <3> QED
      BY <1>2, <1>3, <3>1, InnerAll
  <2>6. Inner(ops, out, k, S) = 0
    <3>1. k + 1 .. Len(out) = {} /\ Len(out) \in Nat
      BY <1>3, <2>1
    <3> HIDE DEF k, S
    <3> QED
      BY <1>3, <3>1, InnerType
  <2>7. depth + Starts(ops, pc, j, S) = Ends(ops, pc, j, S)
    <3> DEFINE x == Starts(ops, pc, j, S)
               y == Ends(ops, pc, j, S)
    <3>1. x \in Nat /\ y \in Nat
      BY <1>1, <2>2, CountType
    <3>2. Inner(ops, st, k, S) + x = Inner(ops, out, k, S) + y
      BY <2>4 DEF Balance
    <3>3. depth + x = 0 + y
      BY <2>5, <2>6, <3>2
    <3> HIDE DEF x, y
    <3>4. depth + x = y
      BY <3>1, <3>3
    <3> QED
      BY <3>4 DEF x, y
  <2>8. scope_end(ops, pc, depth) < Len(ops)
    BY <1>1, <2>1, <2>2, <2>7, StopsBefore
  <2>9. PICK e \in pc .. Len(ops) - 1 :
          EndAt(ops, e, st, depth, scope_end(ops, pc, depth))
    BY <1>1, <1>2, <2>8, ScopeEndNests
  <2>10. PICK in : Nest(ops, e, in) /\ Len(in) = k /\ in[Len(in)] = s
    BY <2>9 DEF EndAt
  <2>11. /\ scope_end(ops, pc, depth) = e + 1 /\ At(ops, e).op = "EndScope"
         /\ e \in 0 .. Len(ops) - 1 /\ e \in Nat /\ in # <<>>
    <3>1. scope_end(ops, pc, depth) = e + 1 /\ At(ops, e).op = "EndScope"
      BY <2>9 DEF EndAt, IsEnd
    <3>2. in # <<>>
      BY <1>3, <2>10
    <3> QED
      BY <1>1, <3>1, <3>2
  <2>12. e \in Closers(ops, s)
    BY <2>10, <2>11, DirectlyTop DEF Closers
  <2>13. e + 1 \in Labels(ops, s)
    BY <1>5, <2>12 DEF Labels
  <2> QED
    BY <1>5, <2>11, <2>13 DEF Landing, pc
<1> QED
  BY <1>4, <1>5

-----------------------------------------------------------------------------
(* The arms of an if.                                                      *)

LEMMA IfHigh ==
  ASSUME Ready, If
  PROVE  Good
<1>1. IInv /\ Facing("If") /\ Stepping("If")
  BY DEF Ready, Facing, If
<1> DEFINE i == Current.pc
<1>2. PICK st : Place(st)
  BY <1>1, Found
<1>3. /\ i \in 0 .. Len(Ops) - 1 /\ i \in Nat /\ i + 1 \in 0 .. Len(Ops)
      /\ Scoped(Ops) /\ decode_accepts(Ops) /\ At(Ops, i).op = "If"
      /\ OpValid(mod, Current.fn, H, i)
  BY <1>1, Found
<1>4. Nest(Ops, i, st) /\ Len(Ops) \in Nat
  BY <1>1, <1>2, Found, CurrentHigh DEF Place, Facing
<1>5. st # <<>> /\ At(Ops, st[Len(st)]).scope = "IfElse"
  BY <1>3, <1>4, IfInside
<1>6. Nest(Ops, i + 1, st)
  BY <1>3, <1>4, NestPlain
<1>7. Takes("If") = 1 /\ Has(1) /\ 1 <= Size
  BY <1>1, HasTakes, ControlTakes
<1>8. /\ Popped(1) \in Frame /\ Behind(Popped(1)) /\ Popped(1).pc = i + 1
      /\ Len(Popped(1).stack) = Size - Takes("If")
  BY <1>1, <1>7, PoppedOK, BehindFrames, Lengths DEF Behind
<1> DEFINE pc == skip_then(Ops, Popped(1).pc)
<1>9. \/ Continue(Popped(1))
      \/ Continue([Popped(1) EXCEPT !.pc = pc])
  BY <1>7 DEF If, Popping
<1>10. pc = skip_then(Ops, i + 1)
  BY <1>8
<1>11. CASE Continue(Popped(1))
  <2>1. Straight("If") /\ Leaves("If") = 0
    BY ControlTakes DEF Straight, Transfers
  <2> QED
    BY <1>1, <1>7, <1>11, <2>1, StraightSteps DEF Continue
<1>12. CASE Continue([Popped(1) EXCEPT !.pc = pc])
  <2>1. pc \in 0 .. Len(Ops)
    BY <1>3, <1>4, <1>10, SkipThenPc
  <2>2. pc < Len(Ops) => Nest(Ops, pc, st)
    BY <1>3, <1>4, <1>5, <1>6, <1>10, SkipThenNests
  <2>3. H[skip_then(Ops, i + 1)] <= H[i] - 1
    <3>1. IfValid(Ops, H, i)
      BY <1>3, Zenon DEF OpValid, Ops
    <3>2. Closed(Ops)
      BY <1>1, Found, CurrentHigh DEF Facing
    <3> QED
      BY <1>3, <1>4, <3>1, <3>2, SkipThenValid
  <2>4. H[pc] <= H[i] - Takes("If")
    BY <1>7, <1>10, <2>3
  <2> HIDE DEF pc
  <2> QED
    BY <1>1, <1>2, <1>8, <1>12, <2>1, <2>2, <2>4, JumpHigh
<1> QED
  BY <1>9, <1>11, <1>12

LEMMA ElseHigh ==
  ASSUME Ready, Else
  PROVE  Good
<1> DEFINE pc == skip_else(Ops, Fetched.pc)
           i == Current.pc
<1>1. /\ IInv /\ Facing("Else") /\ Stepping("Else")
      /\ Continue([Fetched EXCEPT !.pc = pc])
  BY DEF Ready, Facing, Else
<1>2. PICK st : Place(st)
  BY <1>1, Found
<1>3. /\ i \in 0 .. Len(Ops) - 1 /\ i \in Nat /\ i + 1 \in 0 .. Len(Ops)
      /\ Scoped(Ops) /\ decode_accepts(Ops) /\ At(Ops, i).op = "Else"
      /\ OpValid(mod, Current.fn, H, i) /\ H[i] \in Nat
  BY <1>1, Found
<1>4. Nest(Ops, i, st) /\ Len(Ops) \in Nat /\ Size \in Nat
      /\ H \in [0 .. Len(Ops) -> Nat]
  BY <1>1, <1>2, Found, CurrentHigh DEF Place, Facing
<1>5. st # <<>> /\ At(Ops, st[Len(st)]).scope = "IfElse"
  <2>1. Innermost(Ops, i) = "IfElse"
    BY <1>3, Zenon DEF decode_accepts
  <2>2. Innermost(Ops, i) =
          IF st = <<>> THEN "Program" ELSE At(Ops, st[Len(st)]).scope
    BY <1>3, <1>4, NestInnermost
  <2> QED
    BY <2>1, <2>2
<1>6. Nest(Ops, i + 1, st)
  BY <1>3, <1>4, NestPlain
<1>7. Takes("Else") = 0
  BY ControlTakes
<1>8. Fetched \in Frame /\ Behind(Fetched) /\ Fetched.pc = i + 1
  BY <1>1, BehindFrames DEF Behind
<1>9. Len(Fetched.stack) = Size - Takes("Else")
  <2>1. 0 \in Nat /\ 0 <= Size
    BY <1>4
  <2>2. Len(Fetched.stack) = Size
    BY <1>1, <2>1, Lengths
  <2> QED
    BY <1>4, <1>7, <2>2
<1>10. pc = skip_else(Ops, i + 1) /\ pc \in 0 .. Len(Ops)
  <2>1. i + 1 \in Nat
    BY <1>3
  <2>2. skip_else(Ops, i + 1) \in 0 .. Len(Ops)
    BY <1>4, <2>1, SkipElsePc
  <2>3. pc = skip_else(Ops, i + 1)
    BY <1>8
  <2> QED
    BY <2>2, <2>3
<1>11. pc < Len(Ops) => Nest(Ops, pc, st)
  BY <1>3, <1>4, <1>5, <1>6, <1>10, SkipElseNests
<1>12. H[pc] <= H[i] - Takes("Else")
  <2>1. H[skip_else(Ops, i + 1)] <= H[i]
    <3>1. \A s \in OpenScopes(Ops, i) :
            Directly(Ops, s, i) => \A j \in Closers(Ops, s) : H[j] <= H[i]
      BY <1>3, Zenon DEF OpValid, Ops
    <3>2. Closed(Ops)
      BY <1>1, Found, CurrentHigh DEF Facing
    <3>3. /\ Directly(Ops, st[Len(st)], i)
          /\ skip_else(Ops, i + 1) \in Closers(Ops, st[Len(st)])
      BY <1>3, <1>4, <1>5, <3>2, SkipElseCloser
    <3> QED
      BY <3>1, <3>3, Zenon DEF Directly
  <2> DEFINE a == H[i]
             b == H[pc]
  <2>2. a \in Nat /\ b \in Nat /\ b <= a
    BY <1>3, <1>4, <1>10, <2>1
  <2> HIDE DEF a, b
  <2>3. b <= a - 0
    BY <2>2
  <2> QED
    BY <1>7, <2>3 DEF a, b
<1> HIDE DEF pc
<1> QED
  BY <1>1, <1>2, <1>8, <1>9, <1>10, <1>11, <1>12, JumpHigh

-----------------------------------------------------------------------------
(* Branches.                                                               *)

LEMMA BranchStack ==
  ASSUME NEW f \in Frame, NEW ops, NEW depth \in Nat, depth < Len(f.control),
         NEW target, target = f.control[Len(f.control) - depth],
         NEW carried, carried = IF ~ target.fn /\ f.stack = <<>> THEN <<>>
                                ELSE target.results,
         Len(carried) <= Len(f.stack)
  PROVE  /\ execute_branch(f, ops, depth).fault = "None"
         /\ Len(execute_branch(f, ops, depth).frame.stack)
              = IF target.width + Len(carried) < Len(f.stack)
                THEN target.width + Len(carried) ELSE Len(f.stack)
<1> DEFINE n == Len(f.control)
           popped == IF target.scope = "Loop" THEN depth ELSE depth + 1
           control == DropTop(f.control, popped)
           stack == PushValues(
                      shrink_to(DropTop(f.stack, Len(carried)), target.width),
                      PopValues(f.stack, carried))
           pc == CASE target.scope = "Function" -> Len(ops)
                   [] target.scope = "Loop" -> loop_start(ops, f.pc)
                   [] OTHER -> scope_end(ops, f.pc, popped - 1)
           x == [f EXCEPT !.control = control, !.stack = stack, !.pc = pc]
<1>1. f.control \in Seq(Control) /\ f.stack \in Seq(Word) /\ n \in Nat
  BY DEF Frame
<1>2. ~ (depth >= n) /\ CanPop(f.stack, carried)
  <2>1. ~ (depth >= n)
    BY <1>1
  <2> QED
    BY <2>1 DEF CanPop
<1>3. execute_branch(f, ops, depth) = Fine(x)
  BY <1>2, Zenon DEF execute_branch
<1>4. target \in Control
  BY <1>1, <1>2
<1>5. carried \in Seq(ValTypes) /\ target.width \in Nat
  BY <1>4 DEF Control
<1>6. Len(stack) = IF target.width + Len(carried) < Len(f.stack)
                   THEN target.width + Len(carried) ELSE Len(f.stack)
  <2> DEFINE s == f.stack
             w == target.width
  <2>1. s \in Seq(Word) /\ w \in Nat /\ CanPop(s, carried)
    BY <1>1, <1>2, <1>5
  <2> HIDE DEF s, w
  <2>2. Len(PushValues(shrink_to(DropTop(s, Len(carried)), w),
                       PopValues(s, carried)))
          = IF w + Len(carried) < Len(s) THEN w + Len(carried) ELSE Len(s)
    BY <1>5, <2>1, CarriedLength
  <2> QED
    BY <2>2 DEF s, w
<1> HIDE DEF stack, control, pc
<1>7. x.stack = stack
  BY DEF Frame
<1> HIDE DEF x
<1>8. /\ execute_branch(f, ops, depth).fault = "None"
      /\ execute_branch(f, ops, depth).frame.stack = stack
  BY <1>3, <1>7 DEF Fine
<1> QED
  BY <1>6, <1>8

\* A branch that finds what it carries, and leaves g.
LEMMA SettledHigh ==
  ASSUME NEW name, Facing(name), NEW f, NEW depth,
         Settle(execute_branch(f, Ops, depth)),
         execute_branch(f, Ops, depth).fault = "None",
         NEW g, g = execute_branch(f, Ops, depth).frame, g.fn = Current.fn,
         FrameHeights(mod, g, 0), Floors(g.control, Len(g.stack))
  PROVE  Good
<1>1. IInv /\ HInv /\ status = "running"
  BY Found DEF Facing
<1>2. Continue(g)
  BY DEF Settle
<1> QED
  BY <1>1, <1>2, ContinueHigh

\* Before a branch: the operand is popped, and the branch is valid.
Branching(name, st, f, depth) ==
  /\ Facing(name) /\ Place(st) /\ f \in Frame /\ Behind(f)
  /\ Len(f.stack) = Size - Takes(name)
  /\ depth \in Nat /\ depth \in Depths(Arg)

LEMMA BranchFacts ==
  ASSUME NEW name, NEW st, NEW f, NEW depth, Branching(name, st, f, depth)
  PROVE  LET n == Len(f.stack)
             height == H[Current.pc] - Takes(name)
         IN /\ n \in Nat /\ height \in Nat /\ height <= n
            /\ Floors(Current.control, n)
            /\ \A k \in 1 .. Len(st) + 1 :
                 Current.control[k].width + height <= n + Level(H, st, k)
            /\ BranchValid(mod, Current.fn, H, Current.pc, depth)
            /\ f.control = Current.control /\ f.fn = Current.fn
            /\ f.pc = Current.pc + 1
            /\ Len(Current.control) = Len(st) + 1 /\ Len(st) \in Nat
            /\ st \in Seq(Nat) /\ Nest(Ops, Current.pc, st)
<1> DEFINE n == Len(f.stack)
           a == H[Current.pc]
           t == Takes(name)
<1>1. /\ Facing(name) /\ Place(st) /\ f \in Frame /\ Behind(f)
      /\ n = Size - t /\ depth \in Depths(Arg)
  BY DEF Branching
<1>2. t \in Nat /\ t <= Size /\ Floors(Current.control, Size - t)
  BY <1>1, HasTakes
<1>3. /\ Size \in Nat /\ Current.control \in Seq(Control)
  BY <1>1, Found, CurrentHigh DEF Facing
<1>4. /\ st \in Seq(Nat) /\ Len(st) \in Nat /\ Nest(Ops, Current.pc, st)
      /\ Len(Current.control) = Len(st) + 1
      /\ Surplus(mod, Current.fn, H, st, Current.control, a, Size)
      /\ \A k \in 1 .. Len(st) + 1 : Level(H, st, k) \in Nat
  BY <1>1 DEF Place
<1>5. /\ a \in Nat /\ OpValid(mod, Current.fn, H, Current.pc)
      /\ At(Ops, Current.pc) = Arg /\ Arg.op = name
  BY <1>1, Found
<1>6. a <= Size /\ t <= a
  <2>1. CanTake(Ops, H, Current.pc, t)
    BY <1>5, Zenon DEF OpValid, Ops
  <2>2. t <= a
    BY <2>1 DEF CanTake
  <2> HIDE DEF a
  <2>3. a <= Size
    BY <1>3, <1>4, <1>5, SurplusHeight
  <2> QED
    BY <2>2, <2>3
<1>7. BranchValid(mod, Current.fn, H, Current.pc, depth)
  <2>1. depth \in Depths(At(At(mod.code, Current.fn).ops, Current.pc))
    BY <1>1, <1>5 DEF Ops
  <2> QED
    BY <1>5, <2>1, Zenon DEF OpValid
<1>8. n \in Nat /\ a - t \in Nat /\ a - t <= n
  <2> HIDE DEF a, t, n
  <2> DEFINE z == Size
  <2>1. z \in Nat /\ n = z - t /\ t <= z /\ a <= z /\ t <= a
    BY <1>1, <1>2, <1>3, <1>6
  <2> HIDE DEF z
  <2> QED
    BY <1>2, <1>5, <2>1
<1>9. ASSUME NEW k \in 1 .. Len(st) + 1
      PROVE  Current.control[k].width + (a - t) <= n + Level(H, st, k)
  <2> DEFINE w == Current.control[k].width
             l == Level(H, st, k)
             z == Size
  <2>1. w \in Nat /\ l \in Nat
    BY <1>3, <1>4, ControlWidths
  <2>2. w + a <= z + l
    BY <1>4 DEF Surplus, Roomy
  <2>3. z \in Nat /\ n = z - t /\ t <= z
    BY <1>1, <1>2, <1>3
  <2> HIDE DEF w, l, z, a, t, n
  <2>4. w + (a - t) <= n + l
    BY <1>2, <1>5, <2>1, <2>2, <2>3
  <2> QED
    BY <2>4 DEF w, l
<1>10. Floors(Current.control, n)
  BY <1>1, <1>2
<1>11. f.control = Current.control /\ f.fn = Current.fn /\ f.pc = Current.pc + 1
  BY <1>1 DEF Behind
<1> QED
  BY <1>4, <1>7, <1>8, <1>9, <1>10, <1>11

\* A branch carries nothing from an empty stack unless it must, so the number
\* of operands it carries is that of the results when there are enough.
LEMMA CarriedResults ==
  ASSUME NEW s \in Seq(Word), NEW c \in Control,
         NEW carried, carried = IF ~ c.fn /\ s = <<>> THEN <<>> ELSE c.results
  PROVE  /\ Len(carried) \in Nat /\ Len(c.results) \in Nat
         /\ Len(c.results) <= Len(s) =>
              Len(carried) = Len(c.results) /\ Len(carried) <= Len(s)
         /\ ~ c.fn /\ Len(c.results) <= 1 => Len(carried) <= Len(s)
<1>1. c.results \in Seq(ValTypes)
  BY DEF Control
<1>2. Len(c.results) \in Nat /\ Len(s) \in Nat /\ (Len(s) = 0 <=> s = <<>>)
  BY <1>1
<1>3. CASE ~ c.fn /\ s = <<>>
  <2>1. carried = <<>> /\ Len(carried) = 0 /\ Len(s) = 0
    BY <1>3
  <2> DEFINE r == Len(c.results)
  <2>2. r <= 0 => r = 0
    BY <1>2
  <2> QED
    BY <1>2, <2>1, <2>2
<1>4. CASE ~ (~ c.fn /\ s = <<>>)
  <2>1. carried = c.results
    BY <1>4
  <2>2. ~ c.fn => Len(s) >= 1
    BY <1>2, <1>4
  <2> DEFINE r == Len(c.results)
             n == Len(s)
  <2>3. Len(carried) = r /\ r \in Nat /\ n \in Nat /\ (~ c.fn => n >= 1)
    BY <1>2, <2>1, <2>2
  <2> HIDE DEF r, n
  <2>4. ~ c.fn /\ r <= 1 => r <= n
    BY <2>3
  <2> QED
    BY <2>3, <2>4 DEF r, n
<1> QED
  BY <1>3, <1>4

\* A branch out of the function's own scope ends the function.
LEMMA FunctionBranchHigh ==
  ASSUME NEW name, NEW st, NEW f, NEW depth, Branching(name, st, f, depth),
         depth = Len(st), Settle(execute_branch(f, Ops, depth))
  PROVE  Good
<1> DEFINE n == Len(f.stack)
           c == Current.control[1]
           height == H[Current.pc] - Takes(name)
           carried == IF ~ c.fn /\ f.stack = <<>> THEN <<>> ELSE c.results
           y == FunctionYields(mod, Current.fn)
           g == execute_branch(f, Ops, depth).frame
<1>1. /\ Facing(name) /\ Place(st) /\ f \in Frame /\ depth \in Nat
  BY DEF Branching
<1>2. /\ n \in Nat /\ height \in Nat /\ height <= n
      /\ BranchValid(mod, Current.fn, H, Current.pc, depth)
      /\ f.control = Current.control /\ f.fn = Current.fn
      /\ Len(Current.control) = Len(st) + 1 /\ Len(st) \in Nat
      /\ Nest(Ops, Current.pc, st)
  BY BranchFacts
<1>3. /\ Current.control \in Seq(Control) /\ Len(Ops) \in Nat
      /\ H \in [0 .. Len(Ops) -> Nat]
  BY <1>1, Found, CurrentHigh DEF Facing
<1>4. /\ c \in Control /\ c.width = 0 /\ Len(c.results) = y
      /\ c.scope = "Function"
  <2>1. c \in Control
    BY <1>2, <1>3
  <2>2. c.scope = "Function" /\ c.width = 0 /\ Len(c.results) = y
    BY <1>1 DEF Place, Listed, Surplus, Grounded
  <2> QED
    BY <2>1, <2>2
<1>5. Current.pc \in Nat /\ At(Ops, Current.pc).op = name
  BY <1>1, Found
<1>6. y <= height /\ H[Len(Ops)] <= y
  <2>1. Cardinality(OpenScopes(Ops, Current.pc)) = depth
    BY <1>2, <1>5, NestCount
  <2> QED
    BY <1>2, <1>5, <2>1, Zenon DEF BranchValid, Ops
<1>7. f.stack \in Seq(Word)
  BY <1>1 DEF Frame
<1>8. y \in Nat /\ H[Len(Ops)] \in Nat
  BY <1>3 DEF FunctionYields
<1>9. y <= n
  <2> HIDE DEF y, height, n
  <2> QED
    BY <1>2, <1>6, <1>8
<1>10. Len(carried) = y /\ Len(carried) <= n
  BY <1>4, <1>7, <1>9, CarriedResults
<1>11. f.control[Len(f.control) - depth] = c /\ depth < Len(f.control)
  <2>1. Len(f.control) - depth = 1 /\ depth < Len(f.control)
    BY <1>1, <1>2
  <2> QED
    BY <1>2, <2>1
<1>12. /\ execute_branch(f, Ops, depth).fault = "None"
       /\ Len(g.stack) = IF c.width + Len(carried) < n
                         THEN c.width + Len(carried) ELSE n
  BY <1>1, <1>10, <1>11, BranchStack
<1>13. Len(g.stack) = y
  <2> HIDE DEF y, n, g, c, carried
  <2> QED
    BY <1>2, <1>4, <1>8, <1>9, <1>10, <1>12
<1>14. g.fn = Current.fn
  BY <1>1, <1>2, <1>3, <1>12, BranchType
<1>15. /\ g.pc = Len(Ops) /\ g.control = DropTop(Current.control, depth + 1)
  <2>1. /\ g.control = DropTop(f.control,
                         IF c.scope = "Loop" THEN depth ELSE depth + 1)
        /\ c.scope = "Function" => g.pc = Len(Ops)
    BY <1>1, <1>11, <1>12, BranchFields
  <2> QED
    BY <1>2, <1>4, <2>1
<1> HIDE DEF g
<1>16. FrameHeights(mod, g, 0)
  <2>1. HeightOf(mod, g.fn) = H /\ At(mod.code, g.fn).ops = Ops
    BY <1>14 DEF H, Ops
  <2>2. /\ g.pc \in 0 .. Len(Ops) /\ ~ (g.pc < Len(Ops))
    BY <1>3, <1>15
  <2>3. H[g.pc] <= Len(g.stack) + 0
    <3> HIDE DEF y
    <3>1. Len(g.stack) + 0 = y
      BY <1>8, <1>13
    <3> QED
      BY <1>6, <1>15, <3>1
  <2> QED
    BY <2>1, <2>2, <2>3, Zenon DEF FrameHeights
<1>17. Floors(g.control, Len(g.stack))
  <2>1. depth + 1 \in Nat /\ depth + 1 <= Len(Current.control)
        /\ Len(Current.control) - (depth + 1) = 0
    BY <1>1, <1>2
  <2>2. Len(g.control) = 0
    BY <1>3, <1>15, <2>1, DropTopType
  <2>3. \A j \in 1 .. Len(g.control) : FALSE
    BY <2>2
  <2> QED
    BY <2>3 DEF Floors
<1> QED
  BY <1>1, <1>12, <1>14, <1>16, <1>17, SettledHigh DEF g

\* What validation says of the target of a branch, scope k of st.
LEMMA TargetFacts ==
  ASSUME NEW name, NEW st, NEW f, NEW depth, Branching(name, st, f, depth),
         name \notin {"StartScope", "EndScope"},
         depth < Len(st), NEW k, k = Len(st) - depth
  PROVE  LET s == st[k]
             o == At(Ops, s)
             c == Current.control[k + 1]
             height == H[Current.pc] - Takes(name)
             target == Floor(Ops, H, s) + Yields(mod, o)
         IN /\ k \in 1 .. Len(st)
            /\ target <= height
            /\ H[Landing(Ops, Current.pc, depth, s)] <= target
            /\ o.ty = "Index" => Len(c.results) <= height
            /\ o.ty # "Index" => ~ c.fn /\ Len(c.results) <= 1
            /\ c.scope = o.scope
            /\ c.scope # "Loop" => Yields(mod, o) = Len(c.results)
            /\ c.scope = "Loop" => Yields(mod, o) = 0 /\ IfBit(c) = 0
            /\ c.scope \in {"Block", "Loop", "IfElse"}
<1> DEFINE s == st[k]
           o == At(Ops, s)
           c == Current.control[k + 1]
           height == H[Current.pc] - Takes(name)
           target == Floor(Ops, H, s) + Yields(mod, o)
           open == OpenScopes(Ops, Current.pc)
<1>1. Facing(name) /\ Place(st) /\ depth \in Nat
  BY DEF Branching
<1>2. /\ BranchValid(mod, Current.fn, H, Current.pc, depth)
      /\ Len(st) \in Nat /\ Nest(Ops, Current.pc, st)
  BY BranchFacts
<1>3. k \in 1 .. Len(st) /\ Len(st) - k = depth
  BY <1>1, <1>2
<1>4. /\ Current.pc \in Nat /\ At(Ops, Current.pc).op = name
      /\ Current.pc \in 0 .. Len(Ops) /\ Scoped(Ops) /\ decode_accepts(Ops)
  BY <1>1, Found
<1>5. s \in open
  BY <1>1, <1>3, FloorNat
<1>6. Cardinality({t \in open : t > s}) = depth
  BY <1>2, <1>3, <1>4, NestCount
<1>7. LET w == At(Ops, s)
          goal == Floor(Ops, H, s) + Yields(mod, w)
      IN /\ goal <= H[Current.pc] - Takes(At(Ops, Current.pc).op)
         /\ \A j \in Labels(Ops, s) : H[j] <= goal
         /\ w.ty = "Index" =>
              Len(resolve_type(mod.types, w).results)
                <= H[Current.pc] - Takes(At(Ops, Current.pc).op)
  BY <1>2, <1>5, <1>6, Zenon DEF BranchValid, Ops
<1>12. Landing(Ops, Current.pc, depth, s) \in Labels(Ops, s)
  <2>1. /\ Closed(Ops) /\ Len(Ops) \in Nat /\ LoopsUncrossed(Ops)
        /\ Current.pc \in 0 .. Len(Ops) - 1 /\ depth \in Depths(Arg)
        /\ At(Ops, Current.pc) = Arg
    BY <1>1, Found, CurrentHigh DEF Facing, Branching
  <2>2. s = st[Len(st) - depth]
    OBVIOUS
  <2> HIDE DEF s
  <2> QED
    BY <1>1, <1>2, <1>4, <2>1, <2>2, LandingLabel
<1>8. /\ c.scope = o.scope /\ c.results = resolve_type(mod.types, o).results
      /\ c.fn => o.ty = "Index"
  <2>1. /\ Listed(mod.types, Ops, st, Current.control)
        /\ Grounded(mod, Current.fn, st, Current.control)
    BY <1>1 DEF Place, Surplus
  <2>2. c.scope = o.scope /\ c.results = resolve_type(mod.types, o).results
    BY <1>3, <2>1 DEF Listed
  <2>3. c.fn => o.ty = "Index"
    BY <1>3, <2>1 DEF Grounded, Ops
  <2> QED
    BY <2>2, <2>3
<1>9. o.ty # "Index" => ~ c.fn /\ Len(c.results) <= 1
  BY <1>8 DEF resolve_type, ValueSig
<1>10. o.scope \in {"Block", "Loop", "IfElse"}
  <2>1. Len(Ops) \in Nat
    BY <1>1, Found, CurrentHigh DEF Facing
  <2> QED
    BY <1>2, <1>3, <1>4, <2>1, NestOpened
<1>11. /\ c.scope # "Loop" => Yields(mod, o) = Len(c.results)
       /\ c.scope = "Loop" => Yields(mod, o) = 0 /\ IfBit(c) = 0
  BY <1>8 DEF Yields, IfBit
<1> QED
  BY <1>3, <1>4, <1>7, <1>8, <1>9, <1>10, <1>11, <1>12

\* What a branch to a scope leaves on the stack.
LEMMA BranchRemainder ==
  ASSUME NEW name, NEW st, NEW f, NEW depth, Branching(name, st, f, depth),
         name \notin {"StartScope", "EndScope"},
         depth < Len(st), NEW k, k = Len(st) - depth
  PROVE  LET s == st[k]
             c == Current.control[k + 1]
             n == Len(f.stack)
             r == Len(IF ~ c.fn /\ f.stack = <<>> THEN <<>> ELSE c.results)
             n2 == IF c.width + r < n THEN c.width + r ELSE n
             next == H[Landing(Ops, Current.pc, depth, s)]
         IN /\ r <= n /\ n2 \in Nat
            /\ next \in Nat => c.width + next <= n2 + Level(H, st, k + 1)
            /\ n2 = n \/ c.width <= n2
<1> DEFINE s == st[k]
           o == At(Ops, s)
           c == Current.control[k + 1]
           carried == IF ~ c.fn /\ f.stack = <<>> THEN <<>> ELSE c.results
           n == Len(f.stack)
           r == Len(carried)
           w == c.width
           n2 == IF w + r < n THEN w + r ELSE n
           next == H[Landing(Ops, Current.pc, depth, s)]
           height == H[Current.pc] - Takes(name)
           l == H[s]
           b == IfBit(c)
           y == Yields(mod, o)
<1>1. Facing(name) /\ Place(st) /\ f \in Frame /\ depth \in Nat
  BY DEF Branching
<1>2. /\ n \in Nat /\ height \in Nat /\ height <= n
      /\ \A j \in 1 .. Len(st) + 1 :
           Current.control[j].width + height <= n + Level(H, st, j)
      /\ Len(Current.control) = Len(st) + 1 /\ Len(st) \in Nat
  BY BranchFacts
<1>3. /\ k \in 1 .. Len(st)
      /\ Floor(Ops, H, s) + y <= height /\ next <= Floor(Ops, H, s) + y
      /\ o.ty = "Index" => Len(c.results) <= height
      /\ o.ty # "Index" => ~ c.fn /\ Len(c.results) <= 1
      /\ c.scope # "Loop" => y = Len(c.results)
      /\ c.scope = "Loop" => y = 0 /\ b = 0
  BY TargetFacts
<1>4. /\ l \in Nat /\ Floor(Ops, H, s) \in Nat /\ Floor(Ops, H, s) = l - b
      /\ Level(H, st, k + 1) = l
  BY <1>1, <1>3, FloorNat
<1>5. k + 1 \in 1 .. Len(st) + 1 /\ k + 1 \in 1 .. Len(Current.control)
  BY <1>2, <1>3
<1>6. w \in Nat /\ c \in Control /\ b \in Nat
  <2>1. Current.control \in Seq(Control)
    BY <1>1, Found, CurrentHigh DEF Facing
  <2> QED
    BY <1>5, <2>1, ControlWidths, BitType
<1>7. w + height <= n + l
  BY <1>2, <1>4, <1>5
<1>8. f.stack \in Seq(Word)
  BY <1>1 DEF Frame
<1>9. /\ r \in Nat /\ Len(c.results) \in Nat
      /\ Len(c.results) <= n => r = Len(c.results) /\ r <= n
      /\ ~ c.fn /\ Len(c.results) <= 1 => r <= n
  BY <1>6, <1>8, CarriedResults
<1> DEFINE res == Len(c.results)
           fl == Floor(Ops, H, s)
<1>10. r <= n
  <2>1. o.ty = "Index" => res <= n
    <3>1. o.ty = "Index" => res <= height
      BY <1>3
    <3>2. res \in Nat
      BY <1>9
    <3> HIDE DEF res, height, n
    <3> QED
      BY <1>2, <3>1, <3>2
  <2> QED
    BY <1>3, <1>9, <2>1
<1>11. CASE c.scope # "Loop"
  <2>1. y = res /\ y \in Nat
    BY <1>3, <1>9, <1>11
  <2>2. /\ l - b \in Nat /\ l - b + y <= height /\ next <= l - b + y
    BY <1>3, <1>4
  <2>3. /\ w \in Nat /\ l \in Nat /\ height \in Nat /\ n \in Nat /\ b \in Nat
        /\ height <= n /\ w + height <= n + l
    BY <1>2, <1>4, <1>6, <1>7
  <2>4. y <= n
    <3> HIDE DEF w, l, b, y, height, n, next, res
    <3> QED
      BY <2>1, <2>2, <2>3
  <2>5. r = y
    BY <1>9, <2>1, <2>4
  <2>6. n2 = IF w + y < n THEN w + y ELSE n
    BY <2>5
  <2> HIDE DEF w, l, y, height, n, b, n2, next, r, res
  <2>7. n2 \in Nat /\ (n2 = n \/ w <= n2)
    BY <2>1, <2>3, <2>6
  <2>8. next \in Nat => w + next <= n2 + l
    BY <2>1, <2>2, <2>3, <2>6, WhatIsLeft
  <2> QED
    BY <1>4, <1>10, <2>7, <2>8 DEF w, l, n, n2, next, r
<1>12. CASE c.scope = "Loop"
  <2>1. l <= height /\ next <= l
    <3>1. y = 0 /\ b = 0 /\ fl = l - b /\ fl + y <= height /\ next <= fl + y
          /\ l \in Nat
      BY <1>3, <1>4, <1>12
    <3> HIDE DEF l, height, next, y, b, fl
    <3>2. l - b + y = l
      BY <3>1
    <3> QED
      BY <3>1, <3>2
  <2>2. /\ w \in Nat /\ l \in Nat /\ height \in Nat /\ n \in Nat /\ r \in Nat
        /\ w + height <= n + l /\ l <= height
        /\ n2 = IF w + r < n THEN w + r ELSE n
    BY <1>2, <1>4, <1>6, <1>7, <1>9, <2>1
  <2> HIDE DEF w, l, height, n, next, r, n2
  <2>3. w <= n
    BY <2>2
  <2>3a. n2 \in Nat /\ w <= n2
    BY <2>2, <2>3
  <2>4. next \in Nat => w + next <= n2 + l
    BY <2>1, <2>2, <2>3a
  <2> QED
    BY <1>4, <1>10, <2>3a, <2>4 DEF w, l, n, n2, next, r
<1> QED
  BY <1>11, <1>12

\* A branch to a scope inside of the function.
LEMMA ScopeBranchHigh ==
  ASSUME NEW name, NEW st, NEW f, NEW depth, Branching(name, st, f, depth),
         name \notin {"StartScope", "EndScope"},
         depth < Len(st), Settle(execute_branch(f, Ops, depth))
  PROVE  Good
<1> DEFINE i == Current.pc
           k == Len(st) - depth
           s == st[k]
           c == Current.control[k + 1]
           carried == IF ~ c.fn /\ f.stack = <<>> THEN <<>> ELSE c.results
           n == Len(f.stack)
           n2 == IF c.width + Len(carried) < n THEN c.width + Len(carried) ELSE n
           landing == Landing(Ops, i, depth, s)
           d == IF c.scope = "Loop" THEN depth ELSE depth + 1
           g == execute_branch(f, Ops, depth).frame
<1>1. Facing(name) /\ Place(st) /\ f \in Frame /\ depth \in Nat
      /\ depth \in Depths(Arg)
  BY DEF Branching
<1>2. /\ Len(Current.control) = Len(st) + 1 /\ Len(st) \in Nat /\ st \in Seq(Nat)
      /\ f.control = Current.control /\ f.fn = Current.fn /\ f.pc = i + 1
      /\ Nest(Ops, i, st) /\ n \in Nat /\ Floors(Current.control, n)
  BY BranchFacts
<1>3. /\ i \in Nat /\ i \in 0 .. Len(Ops) - 1 /\ i + 1 \in 0 .. Len(Ops)
      /\ Scoped(Ops) /\ decode_accepts(Ops) /\ LoopsUncrossed(Ops)
      /\ At(Ops, i) = Arg /\ Arg.op = name
  BY <1>1, Found
<1>4. /\ Current.control \in Seq(Control) /\ Len(Ops) \in Nat
      /\ H \in [0 .. Len(Ops) -> Nat]
  BY <1>1, Found, CurrentHigh DEF Facing
<1>5. /\ k \in 1 .. Len(st) /\ c.scope = At(Ops, s).scope
      /\ c.scope \in {"Block", "Loop", "IfElse"}
  BY TargetFacts
<1>6. /\ k + 1 \in 1 .. Len(st) + 1 /\ k + 1 \in 1 .. Len(Current.control)
      /\ Len(f.control) - depth = k + 1 /\ depth < Len(f.control)
      /\ d \in Nat /\ d <= Len(st) /\ Len(st) + 1 - d <= k + 1
      /\ d <= Len(Current.control) /\ Len(Current.control) - d <= k + 1
      /\ Len(st) - k = depth
  <2> DEFINE z == Len(st)
             y == Len(Current.control)
  <2>1. /\ z \in Nat /\ y = z + 1 /\ depth \in Nat /\ depth < z
        /\ k = z - depth /\ Len(f.control) = y
    BY <1>1, <1>2
  <2>2. d = depth \/ d = depth + 1
    OBVIOUS
  <2> HIDE DEF z, y, d, k
  <2>3. /\ k + 1 \in 1 .. z + 1 /\ k + 1 \in 1 .. y
        /\ y - depth = k + 1 /\ depth < y
        /\ z - k = depth
    BY <2>1
  <2>4. /\ d \in Nat /\ d <= z /\ z + 1 - d <= k + 1
        /\ d <= y /\ y - d <= k + 1
    BY <2>1, <2>2
  <2> QED
    BY <2>1, <2>3, <2>4 DEF z, y
<1>7. /\ Len(carried) <= n /\ n2 \in Nat
      /\ H[landing] \in Nat =>
           c.width + H[landing] <= n2 + Level(H, st, k + 1)
      /\ n2 = n \/ c.width <= n2
  BY BranchRemainder
<1>8. f.control[Len(f.control) - depth] = c
  BY <1>2, <1>6
<1>9. execute_branch(f, Ops, depth).fault = "None" /\ Len(g.stack) = n2
  <2>1. depth < Len(f.control) /\ Len(carried) <= Len(f.stack)
    BY <1>6, <1>7
  <2>2. c = f.control[Len(f.control) - depth]
    BY <1>8
  <2>3. carried = IF ~ c.fn /\ f.stack = <<>> THEN <<>> ELSE c.results
    OBVIOUS
  <2>4. f \in Frame /\ depth \in Nat
    BY <1>1
  <2> HIDE DEF k, c, carried
  <2>5. /\ execute_branch(f, Ops, depth).fault = "None"
        /\ Len(execute_branch(f, Ops, depth).frame.stack)
             = IF c.width + Len(carried) < Len(f.stack)
               THEN c.width + Len(carried) ELSE Len(f.stack)
    <3> HIDE DEF g, n, n2, landing, d, i, s
    <3> QED
      BY <2>1, <2>2, <2>3, <2>4, BranchStack
  <2> QED
    BY <2>5
<1>10. g.fn = Current.fn
  BY <1>1, <1>2, <1>4, <1>9, BranchType
<1>11. /\ g.control = DropTop(Current.control, d) /\ g.pc = landing
  <2>1. /\ g.control = DropTop(f.control, d)
        /\ g.pc = CASE c.scope = "Function" -> Len(Ops)
                    [] c.scope = "Loop" -> loop_start(Ops, f.pc)
                    [] OTHER -> scope_end(Ops, f.pc, d - 1)
    BY <1>1, <1>8, <1>9, BranchFields
  <2>2. (depth + 1) - 1 = depth
    BY <1>1
  <2> HIDE DEF g
  <2>3. g.pc = IF c.scope = "Loop" THEN loop_start(Ops, i + 1)
                                   ELSE scope_end(Ops, i + 1, depth)
    BY <1>2, <1>5, <2>1, <2>2
  <2> QED
    BY <1>2, <1>5, <2>1, <2>3 DEF Landing
<1>12. Nest(Ops, i + 1, st)
  BY <1>2, <1>3, NestPlain
<1>13. /\ g.pc \in 0 .. Len(Ops)
       /\ g.pc < Len(Ops) => Nest(Ops, g.pc, DropTop(st, d))
  <2>1. CASE c.scope = "Loop"
    <3>1. landing = loop_start(Ops, i + 1) /\ d = depth
      BY <1>5, <2>1 DEF Landing
    <3>2. \A j \in k + 1 .. Len(st) : At(Ops, st[j]).scope # "Loop"
      BY <1>1, <1>2, <1>3, <1>4, <1>5, <1>6, <2>1, Uncrossed
    <3>3. Nest(Ops, loop_start(Ops, i + 1), DropTop(st, depth))
      BY <1>1, <1>3, <1>4, <1>5, <1>12, <2>1, <3>2, LoopStartNests
    <3>4. loop_start(Ops, i + 1) \in 0 .. i + 1
      BY <1>3, LoopStartPc
    <3>5. \A q \in 0 .. i + 1 : q \in 0 .. Len(Ops)
      BY <1>3, <1>4
    <3> QED
      BY <1>11, <3>1, <3>3, <3>4, <3>5
  <2>2. CASE c.scope # "Loop"
    <3>1. landing = scope_end(Ops, i + 1, depth) /\ d = depth + 1
      BY <1>5, <2>2 DEF Landing
    <3>2. /\ scope_end(Ops, i + 1, depth) \in 0 .. Len(Ops)
      BY <1>3, <1>4, ScopeEndPc
    <3>3. scope_end(Ops, i + 1, depth) < Len(Ops) =>
            Nest(Ops, scope_end(Ops, i + 1, depth), DropTop(st, depth + 1))
      BY <1>1, <1>3, <1>4, <1>12, ScopeEndNests
    <3> QED
      BY <1>11, <3>1, <3>2, <3>3
  <2> QED
    BY <2>1, <2>2
<1> HIDE DEF g, d, c, n2, landing, k, i
<1>14. H[g.pc] \in Nat
  BY <1>4, <1>13
<1>15. FrameHeights(mod, g, 0)
  <2>1. Current.control[k + 1].width + H[g.pc]
          <= Len(g.stack) + Level(H, st, k + 1)
    BY <1>7, <1>9, <1>11, <1>14 DEF c
  <2>2. Len(g.stack) \in Nat
    BY <1>7, <1>9
  <2> QED
    BY <1>1, <1>6, <1>10, <1>11, <1>13, <2>1, <2>2, OutsideHigh
<1>16. Floors(g.control, Len(g.stack))
  <2>1. n2 = n \/ Current.control[k + 1].width <= n2
    BY <1>7 DEF c
  <2>2. Floors(DropTop(Current.control, d), n2)
    BY <1>2, <1>4, <1>6, <1>7, <2>1, FloorsDrop
  <2> QED
    BY <1>9, <1>11, <2>2
<1> QED
  BY <1>1, <1>9, <1>10, <1>15, <1>16, SettledHigh DEF g

LEMMA BranchHigh ==
  ASSUME NEW name, Facing(name), name \notin {"StartScope", "EndScope"},
         NEW f \in Frame, Behind(f), Len(f.stack) = Size - Takes(name),
         NEW depth \in Nat, depth \in Depths(Arg),
         Settle(execute_branch(f, Ops, depth))
  PROVE  Good
<1>1. PICK st : Place(st)
  BY Found
<1>2. Branching(name, st, f, depth)
  BY <1>1 DEF Branching
<1>3. depth <= Len(st) /\ Len(st) \in Nat
  <2>1. /\ BranchValid(mod, Current.fn, H, Current.pc, depth)
        /\ Len(st) \in Nat /\ Nest(Ops, Current.pc, st)
    BY <1>2, BranchFacts
  <2>2. Current.pc \in Nat
    BY Found
  <2>3. depth <= Cardinality(OpenScopes(Ops, Current.pc))
    BY <2>1, Zenon DEF BranchValid, Ops
  <2>4. Cardinality(OpenScopes(Ops, Current.pc)) = Len(st)
    BY <2>1, <2>2, NestCount
  <2> QED
    BY <2>1, <2>3, <2>4
<1>4. CASE depth = Len(st)
  BY <1>2, <1>4, FunctionBranchHigh
<1>5. CASE depth < Len(st)
  BY <1>2, <1>5, ScopeBranchHigh
<1> QED
  BY <1>3, <1>4, <1>5

LEMMA BranchesHigh ==
  ASSUME Ready, Br \/ BrIf \/ BrTable
  PROVE  Good
<1>1. ASSUME NEW name, Stepping(name)
      PROVE  /\ Facing(name) /\ Arg.op = name /\ Arg.n \in Nat
             /\ Arg.tbl \in Seq(Nat) /\ Fetched \in Frame /\ Behind(Fetched)
             /\ Has(1) => Popped(1) \in Frame /\ Behind(Popped(1))
  <2>1. IInv /\ ProgramsNest /\ FramesNest(mod, frames)
    BY DEF Ready, Validated
  <2>2. Facing(name)
    BY <1>1 DEF Ready, Facing
  <2> QED
    BY <1>1, <2>1, <2>2, FetchedOK, CurrentNests, PoppedOK, BehindFrames
<1>2. CASE Br
  <2>1. Stepping("Br") /\ Settle(execute_branch(Fetched, Ops, Arg.n))
    BY <1>2 DEF Br
  <2>2. Arg.n \in Depths(Arg) /\ Facing("Br")
    BY <1>1, <2>1 DEF Depths
  <2>3. Len(Fetched.stack) = Size - Takes("Br")
    <3>1. Size \in Nat /\ Takes("Br") = 0
      BY <2>2, Found, CurrentHigh, ControlTakes DEF Facing
    <3>2. 0 \in Nat /\ 0 <= Size
      BY <3>1
    <3>3. Len(Fetched.stack) = Size
      BY <2>2, <3>2, Lengths
    <3> QED
      BY <3>1, <3>3
  <2> QED
    BY <1>1, <2>1, <2>2, <2>3, BranchHigh
<1>3. ASSUME NEW name \in {"BrIf", "BrTable"}, Stepping(name)
      PROVE  Has(1) /\ Len(Popped(1).stack) = Size - Takes(name)
  <2>1. Facing(name) /\ Takes(name) = 1
    BY <1>1, <1>3, ControlTakes
  <2>2. Has(1) /\ 1 <= Size /\ 1 \in Nat
    BY <2>1, HasTakes
  <2> QED
    BY <2>1, <2>2, Lengths
<1>4. CASE BrIf
  <2>1. Stepping("BrIf") /\ Has(1)
    BY <1>3, <1>4 DEF BrIf
  <2>2. \/ Continue(Popped(1))
        \/ Settle(execute_branch(Popped(1), Ops, Arg.n))
    BY <1>4, <2>1 DEF BrIf, Popping
  <2>3. Arg.n \in Depths(Arg) /\ Arg.n \in Nat /\ Facing("BrIf")
    BY <1>1, <2>1 DEF Depths
  <2>4. CASE Continue(Popped(1))
    <3>1. Straight("BrIf") /\ Leaves("BrIf") = 0 /\ Takes("BrIf") = 1
      BY ControlTakes DEF Straight, Transfers
    <3> QED
      BY <2>3, <2>4, <3>1, StraightSteps DEF Continue
  <2>5. CASE Settle(execute_branch(Popped(1), Ops, Arg.n))
    BY <1>1, <1>3, <2>1, <2>3, <2>5, BranchHigh
  <2> QED
    BY <2>2, <2>4, <2>5
<1>5. CASE BrTable
  <2> DEFINE index == U32(Operand(0))
             depth == IF index < Len(Arg.tbl) THEN At(Arg.tbl, index)
                                              ELSE Arg.n
  <2>1. Stepping("BrTable") /\ Has(1)
    BY <1>3, <1>5 DEF BrTable
  <2>2. Settle(execute_branch(Popped(1), Ops, depth))
    BY <1>5, <2>1 DEF BrTable, Popping
  <2>3. index \in Nat
    <3>1. IInv /\ status = "running" /\ Has(1)
      BY <2>1 DEF Ready, Stepping
    <3> QED
      BY <3>1, OperandWord
  <2>4. Arg.tbl \in Seq(Nat) /\ Arg.n \in Nat /\ Arg.op = "BrTable"
    BY <1>1, <2>1
  <2> HIDE DEF index
  <2>5. depth \in Nat
    BY <2>3, <2>4 DEF At
  <2>6. depth \in Depths(Arg)
    <3>1. Depths(Arg) = {Arg.n} \cup {Arg.tbl[k] : k \in 1 .. Len(Arg.tbl)}
      BY <2>4 DEF Depths
    <3>2. index < Len(Arg.tbl) => index + 1 \in 1 .. Len(Arg.tbl)
      BY <2>3, <2>4
    <3> QED
      BY <3>1, <3>2 DEF At
  <2> HIDE DEF depth
  <2> QED
    BY <1>1, <1>3, <2>1, <2>2, <2>5, <2>6, BranchHigh
<1> QED
  BY <1>2, <1>4, <1>5

-----------------------------------------------------------------------------
(* Calls.                                                                  *)

\* A valid call leaves the caller high enough to go on when it gets the results.
LEMMA CalleeReady ==
  ASSUME NEW name \in {"Call", "CallIndirect"}, Facing(name),
         NEW f \in Frame, Behind(f), Len(f.stack) = Size - Takes(name),
         NEW c \in Nat, c < Len(mod.functions), c \in Callees(mod, Arg)
  PROVE  CallReady(c, f)
<1> DEFINE i == Current.pc
           params == FuncTypeOf(mod, c).params
           k == Len(params)
           t == Takes(name)
           g == [f EXCEPT !.stack = DropTop(@, k)]
           code == CodeIndex(mod, c)
           p == Len(ReturnTypes(mod, code))
<1>1. /\ i \in Nat /\ i + 1 \in 0 .. Len(Ops) /\ At(Ops, i) = Arg
      /\ Arg.op = name /\ H[i] \in Nat /\ H[i + 1] \in Nat
      /\ OpValid(mod, Current.fn, H, i)
  BY Found
<1>2. mod \in Modules /\ Size \in Nat /\ Current.control \in Seq(Control)
      /\ Len(Ops) \in Nat
  BY Found, CurrentHigh DEF Facing
<1>3. t \in Nat /\ t <= Size
  BY HasTakes
<1>4. params \in Seq(ValTypes) /\ k \in Nat /\ f.stack \in Seq(Word)
  <2>1. c < Len(mod.code)
    BY <1>2, ModuleType
  <2>2. params \in Seq(ValTypes)
    BY <1>2, <2>1, FunctionType
  <2> HIDE DEF params
  <2> QED
    BY <2>2 DEF Frame
<1>5. CallValid(mod, Current.fn, H, i, c)
  BY <1>1, Zenon DEF OpValid, Ops
<1>6. /\ CanTake(Ops, H, i, t + k)
      /\ ~ IsImport(mod, c) =>
           ~ Missing(mod, c) /\ H[i + 1] <= H[i] - (t + k) + p
  BY <1>1, <1>5, Zenon DEF CallValid, Ops
<1> HIDE DEF k, params, t
<1>7. t + k \in Nat
  BY <1>3, <1>4
<1>8. t + k <= Size /\ Floors(Current.control, Size - (t + k))
  BY <1>6, <1>7, TakeHigh
<1>9. /\ k <= Len(f.stack) /\ Len(f.stack) - k = Size - (t + k)
      /\ Len(f.stack) = Size - t
  <2> DEFINE z == Size
             n == Len(f.stack)
  <2>1. z \in Nat /\ n = z - t /\ t + k <= z
    BY <1>2, <1>8 DEF t
  <2> HIDE DEF z, n
  <2>2. k <= n /\ n - k = z - (t + k) /\ n = z - t
    BY <1>3, <1>4, <2>1
  <2> QED
    BY <2>2 DEF z, n
<1>10. f.fn = Current.fn /\ f.pc = i + 1 /\ f.control = Current.control
  BY DEF Behind
<1>11. Floors(f.control, Len(f.stack) - k)
  BY <1>8, <1>9, <1>10
<1>12. ASSUME ~ IsImport(mod, c)
       PROVE  ~ Missing(mod, c) /\ FrameHeights(mod, g, p)
  <2>1. ~ Missing(mod, c) /\ H[i + 1] <= H[i] - (t + k) + p
    BY <1>6, <1>12
  <2>2. code \in Nat /\ code < Len(mod.code)
    <3> DEFINE a == Len(mod.imports)
               n == Len(mod.functions)
    <3>1. a \in Nat /\ n \in Nat /\ n = Len(mod.code)
      BY <1>2, ModuleType
    <3>2. ~ (c < a) /\ ~ (c - a >= n) /\ code = c - a
      BY <2>1 DEF Missing, CodeIndex
    <3> HIDE DEF a, n, code
    <3> QED
      BY <3>1, <3>2
  <2>3. p \in Nat
    <3>1. ReturnTypes(mod, code) \in Seq(ValTypes)
      BY <1>2, <2>2, FunctionType
    <3> QED
      BY <3>1
  <2>4. Len(DropTop(f.stack, k)) = Len(f.stack) - k
    BY <1>4, <1>9, DropTopType
  <2>5. /\ g.fn = f.fn /\ g.pc = f.pc /\ g.control = f.control
        /\ g.stack = DropTop(f.stack, k)
    BY DEF Frame
  <2> HIDE DEF g
  <2>6. /\ Len(g.stack) + p \in Nat
        /\ Size + H[g.pc] <= Len(g.stack) + p + H[Current.pc]
    <3> DEFINE n == Len(g.stack)
               z == Size
               a == H[i]
               b == H[i + 1]
    <3>1. /\ n = z - (t + k) /\ z \in Nat /\ a \in Nat /\ b \in Nat
          /\ t + k <= z /\ b <= a - (t + k) + p /\ p \in Nat
      BY <1>1, <1>2, <1>8, <1>9, <2>1, <2>3, <2>4, <2>5
    <3> HIDE DEF n, z, a, b, p
    <3>2. n + p \in Nat /\ z + b <= n + p + a
      BY <1>3, <1>4, <3>1
    <3>3. Len(g.stack) = n /\ Size = z /\ H[g.pc] = b /\ H[Current.pc] = a
      BY <1>10, <2>5 DEF n, z, a, b
    <3> QED
      BY <3>2, <3>3
  <2>7. PICK st : Place(st)
    BY Found
  <2>8. Nest(Ops, i + 1, st)
    BY <1>1, <2>7, NestPlain DEF Place
  <2>9. /\ g.fn = Current.fn /\ g.control = Current.control
        /\ g.pc = i + 1
    BY <1>10, <2>5
  <2> HIDE DEF p
  <2>10. FrameHeights(mod, g, p)
    BY <1>1, <2>6, <2>7, <2>8, <2>9, MovedHigh
  <2> QED
    BY <2>1, <2>10
<1>13. k <= Len(f.stack)
  BY <1>9
<1> QED
  BY <1>11, <1>12, <1>13 DEF CallReady, k, params

LEMMA CallHigh ==
  ASSUME Ready, Call
  PROVE  Good
<1>1. /\ Validated /\ IInv /\ HInv /\ Facing("Call") /\ Stepping("Call")
      /\ EnterCall(Arg.n, Fetched)
  BY DEF Ready, Facing, Call
<1>2. /\ status = "running" /\ Fetched \in Frame /\ Behind(Fetched)
      /\ Arg.n \in Nat /\ Arg.op = "Call"
  BY <1>1, FetchedOK, BehindFrames, Found
<1>3. Size \in Nat /\ Takes("Call") = 0 /\ Floors(Current.control, Size)
  BY <1>1, <1>2, CurrentHigh, ControlTakes
<1>4. Len(Fetched.stack) = Size
  <2>1. 0 \in Nat /\ 0 <= Size
    BY <1>3
  <2> QED
    BY <1>1, <2>1, Lengths
<1>5. Len(Fetched.stack) = Size - Takes("Call")
  BY <1>3, <1>4
<1>6. Arg.n < Len(mod.functions) => CallReady(Arg.n, Fetched)
  <2>1. Arg.n < Len(mod.functions) => Arg.n \in Callees(mod, Arg)
    BY <1>2 DEF Callees
  <2> QED
    BY <1>1, <1>2, <1>5, <2>1, CalleeReady
<1>7. Fetched.fn = Current.fn /\ Floors(Fetched.control, Len(Fetched.stack))
  BY <1>2, <1>3, <1>4 DEF Behind
<1> QED
  BY <1>1, <1>2, <1>6, <1>7, EnterCallHigh DEF Validated

LEMMA CallIndirectHigh ==
  ASSUME Ready, CallIndirect
  PROVE  Good
<1>1. /\ Validated /\ IInv /\ HInv /\ Facing("CallIndirect")
      /\ Stepping("CallIndirect") /\ mod \in Modules
  BY DEF Ready, Facing, CallIndirect, IInv
<1>2. /\ status = "running" /\ Arg.n \in Nat /\ Arg.op = "CallIndirect"
      /\ OpValid(mod, Current.fn, H, Current.pc) /\ At(Ops, Current.pc) = Arg
  BY <1>1, FetchedOK, Found
<1>3. /\ Has(1) /\ 1 <= Size /\ Takes("CallIndirect") = 1
      /\ Floors(Current.control, Size - 1)
  BY <1>1, HasTakes, ControlTakes
<1>4. /\ Popped(1) \in Frame /\ Behind(Popped(1))
      /\ Len(Popped(1).stack) = Size - 1
  BY <1>1, <1>3, PoppedOK, BehindFrames, Lengths
<1>5. Arg.n < Len(mod.types)
  BY <1>2, Zenon DEF OpValid, Ops
<1>6. ~ (Arg.n >= Len(mod.types))
  <2>1. Len(mod.types) \in Nat
    BY <1>1, ModuleType
  <2> QED
    BY <1>2, <1>5, <2>1
<1>7. CASE \/ Trap("UndefinedElement")
           \/ Trap("UninitializedElement")
           \/ Trap("IndirectCallTypeMismatch")
  <2>1. \A x \in {"UndefinedElement", "UninitializedElement",
                  "IndirectCallTypeMismatch"} : x \notin Underflows \cup {"Panic"}
    BY DEF Underflows
  <2> QED
    BY <1>1, <1>2, <1>7, <2>1, TrapHigh
<1>8. ASSUME NEW c \in Nat, c < Len(mod.functions),
             FuncTypeOf(mod, c) = At(mod.types, Arg.n), EnterCall(c, Popped(1))
      PROVE  Good
  <2>1. c \in Callees(mod, Arg)
    <3>1. Callees(mod, Arg) = {x \in 0 .. Len(mod.functions) - 1 :
                                 FuncTypeOf(mod, x) = At(mod.types, Arg.n)}
      BY <1>2 DEF Callees
    <3>2. c \in 0 .. Len(mod.functions) - 1
      <4>1. Len(mod.functions) \in Nat
        BY <1>1, ModuleType
      <4> QED
        BY <1>8, <4>1
    <3> QED
      BY <1>8, <3>1, <3>2
  <2>2. CallReady(c, Popped(1))
    BY <1>1, <1>3, <1>4, <1>8, <2>1, CalleeReady
  <2>3. Popped(1).fn = Current.fn /\ Floors(Popped(1).control, Len(Popped(1).stack))
    BY <1>3, <1>4 DEF Behind
  <2> QED
    BY <1>1, <1>2, <1>4, <1>8, <2>2, <2>3, EnterCallHigh DEF Validated
<1> QED
  BY <1>1, <1>3, <1>6, <1>7, <1>8, CallIndirectDetail

-----------------------------------------------------------------------------
(* Every step.                                                             *)

LEMMA StepHigh ==
  ASSUME Ready, HostPrepare \/ Run \/ EngineStep
  PROVE  Good
<1>1. Validated /\ IInv /\ HInv
  BY DEF Ready
<1>2. CASE HostPrepare
  <2>1. PICK index \in HostFuncs, args \in HostArgs : Prepare(index, args)
    BY <1>2 DEF HostPrepare
  <2> QED
    BY <1>1, <2>1, PrepareHigh DEF Validated
<1>3. CASE Run
  BY <1>1, <1>3, RunHigh DEF Validated
<1>4. CASE EngineStep
  BY <1>4, EndingHigh, StackOpsHigh, EnterScopeHigh, LeaveScopeHigh, IfHigh,
     ElseHigh, BranchesHigh, CallHigh, CallIndirectHigh, VariablesHigh,
     NumericHigh, ReferencesHigh DEF EngineStep
<1> QED
  BY <1>2, <1>3, <1>4

\* Before the first step there is no frame.
LEMMA InitHigh ==
  ASSUME Init
  PROVE  HInv
<1>1. frames = <<>> /\ status = "idle" /\ outcome = "None"
  BY DEF Init
<1>2. \A i \in 1 .. Len(frames) : FALSE
  BY <1>1
<1> QED
  BY <1>1, <1>2 DEF HInv, FramesFloors, Underflows

LEMMA HighOperands ==
  ASSUME HInv
  PROVE  OperandsAboveScopes
  BY DEF HInv, FramesFloors, Floors, OperandsAboveScopes, IfBit
=============================================================================
