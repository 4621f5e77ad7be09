------------------------- MODULE RecalculationProofs -------------------------
(***************************************************************************)
(* Theorems about Recalculation, for every table, every set of texts and   *)
(* every bound of the stack.  The inductive invariant says what the frames *)
(* on the stack have in common: either none of them reads a value, or none *)
(* of them has changed a text; and whoever still waits for the refresh of  *)
(* a reference has it in its loop or in the frame above its own.           *)
(***************************************************************************)
EXTENDS Recalculation, SheetProofs, PositionProofs, SequenceTheorems,
        FiniteSetTheorems, WellFoundedInduction

Changing == {"InvalidateCache", "CreateMissing", "ClearCell"}
Evaluating == {"Update", "CheckDependency", "HandleFormulaCreation", "GetValue"}

\* A table and the call it is in.
TableOK == content \in Contents /\ usedBy \in Graph /\ cache \in Cache

CallOK ==
  ~Idle => /\ call.cell \in Pos /\ call.text \in Text
           /\ call.content \in Contents

SameAsBefore == \A q \in Pos : GetText(content[q]) = GetText(call.content[q])

\* No frame of the stack reads values, or none has changed a text.
KindsOK(s) ==
  \/ \A i \in 1 .. Len(s) : s[i].fn \in Changing
  \/ (\A i \in 1 .. Len(s) : s[i].fn \in Evaluating) /\ SameAsBefore

\* The frame i of s refreshes a formula, and all it will read and has not in its
\* loop any more is fresh or being refreshed by the frame above it.
WaitsOK(s, c, invalid) ==
  \A i \in 1 .. Len(s) : s[i].fn = "Update" =>
    /\ c[s[i].cell] \in Formula
    /\ i > 1 => s[i - 1].fn = "Update"
    /\ \A r \in Refs(c[s[i].cell]) \cap invalid :
         r \in s[i].left \/ (i > 1 /\ r = s[i - 1].cell)

StackOK(s) == s \in Seq(Frames) /\ Len(s) <= MaxDepth

WalkInv ==
  /\ TableOK /\ CallOK /\ StackOK(stack) /\ KindsOK(stack)
  /\ WaitsOK(stack, content, InvalidNow)
  /\ outcome \in Outcome \cup {"Dangling"}

-----------------------------------------------------------------------------
(* The references in their order.                                          *)

\* Some position of a set of positions comes before all others of it.
LEMMA FirstIsLeast ==
  ASSUME NEW S \in SUBSET Pos, S # {}
  PROVE  First(S) \in S /\ \A q \in S \ {First(S)} : PosLess(First(S), q)
<1>1. S \subseteq [row : Nat, col : Nat]
  BY DEF Pos, At
<1>2. \A T \in SUBSET Nat : T # {} => \E n \in T : \A m \in T : n <= m
  <2> SUFFICES ASSUME NEW T \in SUBSET Nat, T # {} PROVE \E n \in T : \A m \in T : n <= m
    OBVIOUS
  <2>1. PICK n \in T : \A m \in T : ~(<<m, n>> \in OpToRel(<, Nat))
    BY NatLessThanWellFounded, WFMin, Zenon
  <2>2. \A m \in T : ~(m < n)
    BY <2>1 DEF OpToRel
  <2>. QED BY <2>2
<1>3. PICK c \in {q.col : q \in S} : \A d \in {q.col : q \in S} : c <= d
  <2>1. {q.col : q \in S} \in SUBSET Nat /\ {q.col : q \in S} # {}
    BY <1>1
  <2>. QED BY <2>1, <1>2
<1>4. PICK n \in {q.row : q \in {x \in S : x.col = c}} :
        \A m \in {q.row : q \in {x \in S : x.col = c}} : n <= m
  <2>1. /\ {q.row : q \in {x \in S : x.col = c}} \in SUBSET Nat
        /\ {q.row : q \in {x \in S : x.col = c}} # {}
    BY <1>1, <1>3
  <2>. QED BY <2>1, <1>2
<1>5. PICK p \in S : p.col = c /\ p.row = n
  BY <1>4
<1>6. \A q \in S \ {p} : PosLess(p, q)
  <2> TAKE q \in S \ {p}
  <2>1. /\ p \in [row : Nat, col : Nat] /\ q \in [row : Nat, col : Nat]
        /\ p \in Positions /\ q \in Positions
    BY <1>1 DEF Positions
  <2>2. p.col <= q.col /\ (q.col = p.col => p.row <= q.row)
    BY <1>3, <1>4, <1>5
  <2>3. p.col # q.col \/ p.row # q.row
    BY <2>1
  <2>. QED BY <2>1, <2>2, <2>3, ColumnFirst
<1>. QED BY <1>6 DEF First

-----------------------------------------------------------------------------
(* The stack.                                                              *)

\* The current frame and the others.
LEMMA StackParts ==
  ASSUME stack \in Seq(Frames), ~Idle
  PROVE  /\ Len(stack) \in Nat \ {0} /\ Top = stack[1] /\ Top \in Frames
         /\ Below \in Seq(Frames) /\ Len(Below) = Len(stack) - 1
         /\ \A i \in 1 .. Len(Below) : Below[i] = stack[i + 1]
<1>1. Top \in Frames /\ Top = stack[1]
  BY HeadTailProperties DEF Top, Idle
<1>. QED BY <1>1, HeadTailProperties, EmptySeq DEF Idle, Below

\* The stack of a call of f that leaves S to the loop of its caller.
Left(S) == [Top EXCEPT !.left = S]
Pushed(f, S) == <<f, Left(S)>> \o Below

LEMMA PushParts ==
  ASSUME stack \in Seq(Frames), ~Idle, NEW f \in Frames, NEW S \in SUBSET Pos
  PROVE  /\ Pushed(f, S) \in Seq(Frames) /\ Pushed(f, S) # <<>>
         /\ Len(Pushed(f, S)) = Len(stack) + 1
         /\ Left(S) \in Frames /\ Left(S).fn = Top.fn
         /\ Left(S).cell = Top.cell /\ Left(S).left = S
         /\ \A i \in 1 .. Len(Pushed(f, S)) :
              \/ i = 1 /\ Pushed(f, S)[i] = f
              \/ i = 2 /\ Pushed(f, S)[i] = Left(S)
              \/ i > 2 /\ i - 1 \in 2 .. Len(stack) /\ Pushed(f, S)[i] = stack[i - 1]
<1>1. /\ Left(S) \in Frames /\ Left(S).fn = Top.fn
      /\ Left(S).cell = Top.cell /\ Left(S).left = S
  BY StackParts DEF Frames, Left
<1> PICK s : s = Pushed(f, S)
  OBVIOUS
<1>2. <<f, Left(S)>> \in Seq(Frames) /\ Len(<<f, Left(S)>>) = 2
  BY <1>1
<1>3. /\ s \in Seq(Frames) /\ Len(s) = 2 + Len(Below)
      /\ \A i \in 1 .. 2 + Len(Below) : s[i] = IF i <= 2 THEN <<f, Left(S)>>[i] ELSE Below[i - 2]
  BY <1>2, StackParts, ConcatProperties DEF Pushed
<1>4. Len(Below) \in Nat /\ Len(s) = Len(stack) + 1 /\ Len(stack) \in Nat
  BY <1>3, StackParts
<1>5. \A i \in 1 .. Len(s) :
        \/ i = 1 /\ s[i] = f
        \/ i = 2 /\ s[i] = Left(S)
        \/ i > 2 /\ i - 1 \in 2 .. Len(stack) /\ s[i] = stack[i - 1]
  <2> TAKE i \in 1 .. Len(s)
  <2>1. CASE i <= 2
    BY <1>3, <1>4, <2>1
  <2>2. CASE i > 2
    <3>1. i - 2 \in 1 .. Len(Below) /\ s[i] = Below[i - 2] /\ (i - 2) + 1 = i - 1
      BY <1>3, <1>4, <2>2
    <3>2. Below[i - 2] = stack[(i - 2) + 1]
      BY <3>1, StackParts
    <3>. QED BY <1>4, <2>2, <3>1, <3>2
  <2>. QED BY <1>4, <2>1, <2>2
<1>6. s # <<>>
  BY <1>3, <1>4, EmptySeq
<1>. QED BY <1>1, <1>3, <1>4, <1>5, <1>6

\* A stack with a changing frame on top refreshes nothing.
LEMMA NoUpdateAmongChanging ==
  ASSUME KindsOK(stack), Len(stack) \in Nat \ {0}, stack[1].fn \in Changing
  PROVE  \A i \in 1 .. Len(stack) : stack[i].fn \in Changing /\ stack[i].fn # "Update"
<1>1. \A x \in Changing : x \notin Evaluating /\ x # "Update"
  BY DEF Changing, Evaluating
<1>2. 1 \in 1 .. Len(stack)
  OBVIOUS
<1>. QED BY <1>1, <1>2, Zenon DEF KindsOK

\* A call that ends leaves nothing to show about the stack.
LEMMA EndKeeps ==
  ASSUME TableOK', stack' = <<>>, outcome' \in Outcome \cup {"Dangling"}
  PROVE  WalkInv'
<1>1. Len(stack') = 0 /\ stack' \in Seq(Frames)
  BY EmptySeq
<1>. QED BY <1>1, WalkAssumption DEF WalkInv, CallOK, StackOK, KindsOK, WaitsOK, Idle

\* The return of the current frame.
LEMMA ReturnKeeps ==
  ASSUME WalkInv, ~Idle, TableOK', Resume(Below),
         \/ Top.fn \in Changing
         \/ /\ content' = content /\ InvalidNow' \subseteq InvalidNow
            /\ Top.fn = "Update" => Top.cell \notin InvalidNow'
  PROVE  WalkInv'
<1>1. /\ TableOK /\ CallOK /\ stack \in Seq(Frames) /\ Len(stack) <= MaxDepth
      /\ KindsOK(stack) /\ WaitsOK(stack, content, InvalidNow)
  BY DEF WalkInv, StackOK
<1>2. /\ Len(stack) \in Nat \ {0} /\ Top = stack[1]
      /\ Below \in Seq(Frames) /\ Len(Below) = Len(stack) - 1
      /\ \A i \in 1 .. Len(Below) : Below[i] = stack[i + 1]
  BY <1>1, StackParts
<1>3. CASE Below = <<>>
  BY <1>3, EndKeeps DEF Resume, End, Outcome
<1>4. CASE Below # <<>>
  <2>1. stack' = Below /\ UNCHANGED <<outcome, call>>
    BY <1>4 DEF Resume
  <2>2. StackOK(stack') /\ CallOK'
    BY <1>1, <1>2, <2>1, WalkAssumption DEF StackOK, CallOK, Idle, WalkInv
  <2>3. KindsOK(stack)'
    <3>1. CASE \A i \in 1 .. Len(stack) : stack[i].fn \in Changing
      BY <1>2, <2>1, <3>1 DEF KindsOK
    <3>2. CASE (\A i \in 1 .. Len(stack) : stack[i].fn \in Evaluating) /\ SameAsBefore
      <4>1. content' = content
        BY <1>2, <3>2 DEF Changing, Evaluating
      <4>2. SameAsBefore'
        BY <2>1, <3>2, <4>1 DEF SameAsBefore
      <4>3. \A i \in 1 .. Len(Below) : Below[i].fn \in Evaluating
        BY <1>2, <3>2
      <4>. QED BY <2>1, <4>2, <4>3 DEF KindsOK
    <3>. QED BY <1>1, <3>1, <3>2 DEF KindsOK
  <2>4. WaitsOK(stack, content, InvalidNow)'
    <3>1. CASE Top.fn \in Changing
      <4>1. \A i \in 1 .. Len(stack) : stack[i].fn # "Update"
        BY <1>1, <1>2, <3>1, NoUpdateAmongChanging
      <4>. QED BY <1>2, <2>1, <4>1 DEF WaitsOK
    <3>2. CASE Top.fn \notin Changing
      <4> SUFFICES ASSUME NEW i \in 1 .. Len(Below), Below[i].fn = "Update"
                   PROVE  /\ content[Below[i].cell] \in Formula
                          /\ i > 1 => Below[i - 1].fn = "Update"
                          /\ \A r \in Refs(content[Below[i].cell]) \cap InvalidNow' :
                               r \in Below[i].left \/ (i > 1 /\ r = Below[i - 1].cell)
        BY <2>1, <3>2 DEF WaitsOK
      <4>1. /\ i + 1 \in 1 .. Len(stack) /\ Below[i] = stack[i + 1]
            /\ i > 1 => Below[i - 1] = stack[i]
        BY <1>2
      <4>2. /\ content[stack[i + 1].cell] \in Formula
            /\ stack[i].fn = "Update"
            /\ \A r \in Refs(content[stack[i + 1].cell]) \cap InvalidNow :
                 r \in stack[i + 1].left \/ r = stack[i].cell
        BY <1>1, <4>1 DEF WaitsOK
      <4>3. CASE i = 1
        BY <1>2, <3>2, <4>1, <4>2, <4>3
      <4>4. CASE i > 1
        BY <3>2, <4>1, <4>2, <4>4
      <4>. QED BY <4>3, <4>4
    <3>. QED BY <3>1, <3>2
  <2>. QED BY <1>1, <2>1, <2>2, <2>3, <2>4 DEF WalkInv
<1>. QED BY <1>3, <1>4

\* The call of f.
LEMMA CallKeeps ==
  ASSUME WalkInv, ~Idle, TableOK', content' = content, NEW f \in Frames,
         NEW S \in SUBSET Pos, Call(f, S),
         \/ Top.fn \in Changing /\ f.fn \in Changing
         \/ /\ Top.fn \in Evaluating /\ f.fn \in Evaluating /\ cache' = cache
            /\ f.fn = "Update" => /\ content[f.cell] \in Formula
                                  /\ f.left = Refs(content[f.cell])
            /\ Top.fn = "Update" =>
                 /\ f.fn = "Update"
                 /\ \A r \in Refs(content[Top.cell]) \cap InvalidNow : r \in S \/ r = f.cell
  PROVE  WalkInv'
<1>1. /\ TableOK /\ CallOK /\ stack \in Seq(Frames) /\ Len(stack) <= MaxDepth
      /\ KindsOK(stack) /\ WaitsOK(stack, content, InvalidNow)
  BY DEF WalkInv, StackOK
<1>2. Len(stack) \in Nat \ {0} /\ Top = stack[1] /\ Top \in Frames
  BY <1>1, StackParts
<1>3. CASE Len(stack) = MaxDepth
  BY <1>3, EndKeeps DEF Call, End, Outcome
<1>4. CASE Len(stack) # MaxDepth
  <2> DEFINE g == Left(S)
             s == Pushed(f, S)
  <2>1. /\ s \in Seq(Frames) /\ Len(s) = Len(stack) + 1 /\ s # <<>>
        /\ g.fn = Top.fn /\ g.cell = Top.cell /\ g.left = S
    BY <1>1, PushParts
  <2>a. \A i \in 1 .. Len(s) :
          \/ i = 1 /\ s[i] = f
          \/ i = 2 /\ s[i] = g
          \/ i > 2 /\ i - 1 \in 2 .. Len(stack) /\ s[i] = stack[i - 1]
    BY <1>1, PushParts
  <2>0. g.fn = Top.fn /\ g.cell = Top.cell /\ g.left = S
    BY <2>1
  <2>b. s = <<f, [Top EXCEPT !.left = S]>> \o Below
    BY DEF Pushed, Left
  <2>c. 1 \in 1 .. Len(s) /\ 2 \in 1 .. Len(s) /\ s[1] = f /\ s[2] = g
    <3>1. 1 \in 1 .. Len(s) /\ 2 \in 1 .. Len(s)
      BY <1>2, <2>1
    <3>. QED BY <2>a, <3>1
  <2> HIDE DEF g, s
  <2>2. stack' = s /\ UNCHANGED <<outcome, call>>
    BY <1>4, <2>1, <2>b DEF Call, Resume
  <2>3. StackOK(stack') /\ CallOK'
    <3>1. Len(s) <= MaxDepth
      BY <1>1, <1>2, <1>4, <2>1, WalkAssumption
    <3>2. call.cell \in Pos /\ call.text \in Text /\ call.content \in Contents
      BY <1>1 DEF CallOK
    <3>. QED BY <2>1, <2>2, <3>1, <3>2 DEF StackOK, CallOK
  <2>4. KindsOK(stack)'
    <3>1. SameAsBefore' = SameAsBefore
      BY <2>2 DEF SameAsBefore
    <3>2. CASE \A i \in 1 .. Len(stack) : stack[i].fn \in Changing
      <4>1. Top.fn \in Changing /\ f.fn \in Changing
        BY <1>2, <3>2 DEF Changing, Evaluating
      <4>2. \A i \in 1 .. Len(s) : s[i].fn \in Changing
        <5> TAKE i \in 1 .. Len(s)
        <5>1. i > 2 => i - 1 \in 1 .. Len(stack)
          BY <2>a
        <5>. QED BY <2>0, <2>a, <3>2, <4>1, <5>1
      <4>. QED BY <2>2, <4>2 DEF KindsOK
    <3>3. CASE (\A i \in 1 .. Len(stack) : stack[i].fn \in Evaluating) /\ SameAsBefore
      <4>1. Top.fn \in Evaluating /\ f.fn \in Evaluating
        BY <1>2, <3>3 DEF Changing, Evaluating
      <4>2. \A i \in 1 .. Len(s) : s[i].fn \in Evaluating
        <5> TAKE i \in 1 .. Len(s)
        <5>1. i > 2 => i - 1 \in 1 .. Len(stack)
          BY <2>a
        <5>. QED BY <2>0, <2>a, <3>3, <4>1, <5>1
      <4>. QED BY <2>2, <3>1, <3>3, <4>2 DEF KindsOK
    <3>. QED BY <1>1, <3>2, <3>3 DEF KindsOK
  <2>5. WaitsOK(stack, content, InvalidNow)'
    <3>1. CASE Top.fn \in Changing
      <4>1. f.fn \in Changing
        BY <3>1 DEF Changing, Evaluating
      <4>2. \A i \in 1 .. Len(stack) : stack[i].fn # "Update"
        BY <1>1, <1>2, <3>1, NoUpdateAmongChanging
      <4>3. \A i \in 1 .. Len(s) : s[i].fn # "Update"
        <5> TAKE i \in 1 .. Len(s)
        <5>1. i > 2 => i - 1 \in 1 .. Len(stack)
          BY <2>a
        <5>. QED BY <2>0, <2>a, <3>1, <4>1, <4>2, <5>1 DEF Changing
      <4>. QED BY <2>2, <4>3 DEF WaitsOK
    <3>2. CASE Top.fn \in Evaluating
      <4>0. cache' = cache /\ InvalidNow' = InvalidNow /\ Top.fn \notin Changing
        BY <3>2 DEF InvalidNow, Changing, Evaluating
      <4> SUFFICES ASSUME NEW i \in 1 .. Len(s), s[i].fn = "Update"
                   PROVE  /\ content[s[i].cell] \in Formula
                          /\ i > 1 => s[i - 1].fn = "Update"
                          /\ \A r \in Refs(content[s[i].cell]) \cap InvalidNow :
                               r \in s[i].left \/ (i > 1 /\ r = s[i - 1].cell)
        BY <2>2, <4>0 DEF WaitsOK
      <4>1. CASE i = 1
        BY <2>c, <4>0, <4>1
      <4>2. CASE i = 2
        BY <1>1, <1>2, <2>0, <2>c, <4>0, <4>2 DEF WaitsOK
      <4>3. CASE i > 2
        <5>1. i - 1 \in 2 .. Len(stack) /\ s[i] = stack[i - 1]
          BY <2>a, <4>3
        <5>2. /\ content[stack[i - 1].cell] \in Formula
              /\ stack[i - 2].fn = "Update"
              /\ \A r \in Refs(content[stack[i - 1].cell]) \cap InvalidNow :
                   r \in stack[i - 1].left \/ r = stack[i - 2].cell
          <6>1. i - 1 \in 1 .. Len(stack) /\ i - 1 > 1 /\ (i - 1) - 1 = i - 2
            BY <1>2, <5>1
          <6>. QED BY <1>1, <5>1, <6>1 DEF WaitsOK
        <5>3. s[i - 1].fn = stack[i - 2].fn /\ s[i - 1].cell = stack[i - 2].cell
          <6>1. CASE i = 3
            BY <1>2, <2>0, <2>c, <6>1
          <6>2. CASE i > 3
            <7>1. i - 1 \in 1 .. Len(s) /\ i - 1 > 2 /\ (i - 1) - 1 = i - 2
              BY <2>1, <6>2
            <7>. QED BY <2>a, <7>1
          <6>. QED BY <4>3, <6>1, <6>2
        <5>. QED BY <5>1, <5>2, <5>3
      <4>. QED BY <4>1, <4>2, <4>3
    <3>. QED BY <3>1, <3>2
  <2>. QED BY <1>1, <2>2, <2>3, <2>4, <2>5 DEF WalkInv
<1>. QED BY <1>3, <1>4

\* The table is finite, so a stack that is deep enough for a walk through all of
\* it has room for the frames a call begins with.
LEMMA DepthSuffices ==
  /\ IsFiniteSet(Pos) /\ Cardinality(Pos) \in Nat
  /\ MaxDepth >= Cardinality(Pos) + 3 /\ MaxDepth >= 3
<1>1. Cardinality(Pos) \in Nat
  BY PosIsFinite, FS_CardinalityType
<1>. QED BY <1>1, PosIsFinite, WalkAssumption

\* A stack set up by a call, or by the end of HandleFormulaCreation.
LEMMA SetUpKeeps ==
  ASSUME TableOK', CallOK', stack' \in Seq(Frames), Len(stack') \in 1 .. 3,
         outcome' \in Outcome \cup {"Dangling"},
         \A i \in 1 .. Len(stack') : stack'[i].fn # "Update",
         KindsOK(stack)'
  PROVE  WalkInv'
<1>1. StackOK(stack)'
  BY DepthSuffices, WalkAssumption DEF StackOK
<1>2. WaitsOK(stack, content, InvalidNow)'
  BY DEF WaitsOK
<1>. QED BY <1>1, <1>2 DEF WalkInv

-----------------------------------------------------------------------------
(* The steps of a call.                                                    *)

\* The state has its type, and what depends on a cell is a set of positions.
LEMMA WalkTypes ==
  ASSUME WalkInv
  PROVE  /\ content \in Contents /\ usedBy \in Graph /\ cache \in Cache
         /\ \A q \in Pos : InvalidateUsers(q, usedBy) \in Frames
         /\ InvalidNow \subseteq Pos
         /\ \A q \in InvalidNow :
              /\ content[q] \in Formula /\ Refreshing(q) \in Frames
              /\ Refreshing(q) = Frame("Update", q, Refs(content[q]))
<1>1. \A q \in InvalidNow : q \in Pos /\ content[q] \in Formula /\ Refs(content[q]) \subseteq Pos
  BY FormulaAssumption DEF InvalidNow, Invalid
<1>2. \A q \in InvalidNow : Refreshing(q) = Frame("Update", q, Refs(content[q]))
  BY <1>1 DEF Refreshing, GetReferencedCells
<1>3. \A q \in InvalidNow : Refreshing(q) \in Frames
  BY <1>1, <1>2 DEF Frame, Frames, Loops
<1>4. \A q \in Pos : InvalidateUsers(q, usedBy) \in Frames
  BY DEF InvalidateUsers, Frame, Frames, Loops
<1>. QED BY <1>1, <1>2, <1>3, <1>4 DEF WalkInv, TableOK

\* The frame on top of the stack, and what its fn says about the rest.
LEMMA TopFacts ==
  ASSUME WalkInv, ~Idle
  PROVE  /\ Top \in Frames /\ Top.cell \in Pos /\ Top.left \in SUBSET Pos
         /\ Top.fn \in Evaluating => SameAsBefore
         /\ Top.fn = "Update" =>
              /\ content[Top.cell] \in Formula
              /\ \A r \in Refs(content[Top.cell]) \cap InvalidNow : r \in Top.left
<1>1. Len(stack) \in Nat \ {0} /\ Top = stack[1] /\ Top \in Frames
  BY StackParts DEF WalkInv, StackOK
<1>2. 1 \in 1 .. Len(stack)
  BY <1>1
<1>3. Top.fn \in Evaluating => SameAsBefore
  <2>1. KindsOK(stack) /\ \A x \in Changing : x \notin Evaluating
    BY DEF WalkInv, Changing, Evaluating
  <2>. QED BY <1>1, <1>2, <2>1, Zenon DEF KindsOK
<1>4. Top.fn = "Update" =>
        /\ content[Top.cell] \in Formula
        /\ \A r \in Refs(content[Top.cell]) \cap InvalidNow : r \in Top.left
  BY <1>1, <1>2 DEF WalkInv, WaitsOK
<1>. QED BY <1>1, <1>3, <1>4 DEF Frames

LEMMA InvalidateNextKeeps == WalkInv /\ InvalidateNext => WalkInv'
<1> SUFFICES ASSUME WalkInv, InvalidateNext PROVE WalkInv'
  OBVIOUS
<1>1. ~Idle /\ Top.fn \in Changing
  BY DEF InvalidateNext, In, Changing
<1>2. content' = content /\ usedBy' = usedBy
  BY DEF InvalidateNext
<1>3. CASE Top.left \ InvalidNow = {}
  <2>1. Resume(Below) /\ cache' = cache
    BY <1>3 DEF InvalidateNext
  <2>2. TableOK'
    BY <1>2, <2>1 DEF WalkInv, TableOK
  <2>. QED BY <1>1, <2>1, <2>2, ReturnKeeps
<1>4. CASE Top.left \ InvalidNow # {}
  <2>1. PICK d \in Top.left \ InvalidNow : Invalidated(d)
    BY <1>4 DEF InvalidateNext
  <2>2. d \in Pos /\ Top.left \ {d} \in SUBSET Pos
    BY <1>1, TopFacts
  <2>3. TableOK'
    BY <1>2, <2>1, <2>2 DEF Invalidated, WalkInv, TableOK, Cache
  <2>4. InvalidateUsers(d, usedBy) \in Frames /\ InvalidateUsers(d, usedBy).fn \in Changing
    BY <2>2, WalkTypes DEF InvalidateUsers, Frame, Changing
  <2>5. Call(InvalidateUsers(d, usedBy), Top.left \ {d})
    BY <2>1 DEF Invalidated
  <2>. QED BY <1>1, <1>2, <2>2, <2>3, <2>4, <2>5, CallKeeps
<1>. QED BY <1>3, <1>4

\* The call that refreshes r and leaves S to the loop of its caller.
LEMMA RefreshKeepsInv ==
  ASSUME WalkInv, ~Idle, Top.fn \in Evaluating, NEW r \in InvalidNow,
         NEW S \in SUBSET Pos, Call(Refreshing(r), S),
         Top.fn = "Update" => \A q \in Top.left \cap InvalidNow : q \in S \/ q = r,
         UNCHANGED <<content, usedBy, cache>>
  PROVE  WalkInv'
<1> DEFINE f == Refreshing(r)
<1>1. /\ f \in Frames /\ f.fn = "Update" /\ f.cell = r /\ f.left = Refs(content[r])
      /\ content[r] \in Formula
  BY WalkTypes DEF Frame
<1>2. TableOK'
  BY DEF WalkInv, TableOK
<1>3. f.fn \in Evaluating
  BY <1>1 DEF Evaluating
<1>4. Top.fn = "Update" =>
        \A q \in Refs(content[Top.cell]) \cap InvalidNow : q \in S \/ q = f.cell
  BY <1>1, TopFacts
<1>5. Call(f, S) /\ content' = content /\ cache' = cache
  OBVIOUS
<1> HIDE DEF f
<1>. QED BY <1>1, <1>2, <1>3, <1>4, <1>5, CallKeeps

LEMMA RefreshNextKeeps == WalkInv /\ RefreshNext => WalkInv'
<1> SUFFICES ASSUME WalkInv, RefreshNext PROVE WalkInv'
  OBVIOUS
<1>1. ~Idle /\ Top.fn \in Evaluating /\ Pending # {}
  BY DEF RefreshNext, In, Evaluating
<1>2. Pending \in SUBSET Pos /\ Pending = Top.left \cap InvalidNow
  BY WalkTypes DEF Pending
<1> DEFINE r == First(Pending)
<1>3. r \in Pending /\ \A q \in Pending \ {r} : PosLess(r, q)
  BY <1>1, <1>2, FirstIsLeast
<1>4. /\ Call(Refreshing(r), After(Top.left, r))
      /\ UNCHANGED <<content, usedBy, cache>>
  BY DEF RefreshNext
<1>5. /\ After(Top.left, r) \in SUBSET Pos
      /\ \A q \in Top.left \cap InvalidNow : q \in After(Top.left, r) \/ q = r
  BY <1>1, <1>2, <1>3, TopFacts DEF After
<1> HIDE DEF r
<1>. QED BY <1>1, <1>2, <1>3, <1>4, <1>5, RefreshKeepsInv

LEMMA ReadNextKeeps == WalkInv /\ ReadNext => WalkInv'
<1> SUFFICES ASSUME WalkInv, ReadNext PROVE WalkInv'
  OBVIOUS
<1>1. ~Idle /\ Top.fn \in Evaluating /\ Top.fn # "Update"
  BY DEF ReadNext, In, Evaluating
<1>2. PICK r \in Pending : Call(Refreshing(r), Top.left \ {r})
  BY DEF ReadNext
<1>3. r \in InvalidNow /\ Top.left \ {r} \in SUBSET Pos
  BY <1>1, <1>2, TopFacts DEF Pending
<1>4. UNCHANGED <<content, usedBy, cache>>
  BY DEF ReadNext
<1>. QED BY <1>1, <1>2, <1>3, <1>4, RefreshKeepsInv

LEMMA ReadsEndKeeps == WalkInv /\ ReadsEnd => WalkInv'
<1> SUFFICES ASSUME WalkInv, ReadsEnd PROVE WalkInv'
  OBVIOUS
<1>1. ~Idle /\ Top.fn # "Update" /\ Resume(Below) /\ UNCHANGED <<content, usedBy, cache>>
  BY DEF ReadsEnd, In
<1>2. TableOK' /\ InvalidNow' = InvalidNow
  BY <1>1 DEF WalkInv, TableOK, InvalidNow
<1>. QED BY <1>1, <1>2, ReturnKeeps

\* What a formula reads from the caches is a value at every position.
LEMMA ReadingHasValues ==
  ASSUME TableOK
  PROVE  Reading(content, cache, NoFresh) \in [Pos -> Value]
BY ValueAssumption DEF TableOK, Reading, NoFresh, Cache

LEMMA EvaluateKeeps == WalkInv /\ Evaluate => WalkInv'
<1> SUFFICES ASSUME WalkInv, Evaluate PROVE WalkInv'
  OBVIOUS
<1> DEFINE p == Top.cell
           value == Apply(content[p], Reading(content, cache, NoFresh))
<1>1. ~Idle /\ Top.fn = "Update" /\ content' = content /\ usedBy' = usedBy
  BY DEF Evaluate, In
<1>2. TableOK /\ p \in Pos /\ content[p] \in Formula
  BY <1>1, TopFacts DEF WalkInv
<1>3. CASE CanRead(Refs(content[p]))
  <2>1. cache' = [cache EXCEPT ![p] = value] /\ Resume(Below)
    BY <1>3 DEF Evaluate
  <2>2. value \in Value /\ value # Stale
    BY <1>2, ReadingHasValues, FormulaAssumption, ValueAssumption
  <2> HIDE DEF value
  <2>3. TableOK'
    BY <1>1, <1>2, <2>1, <2>2 DEF TableOK, Cache
  <2>4. InvalidNow' \subseteq InvalidNow /\ p \notin InvalidNow'
    BY <1>1, <1>2, <2>1, <2>2 DEF TableOK, Cache, InvalidNow, Invalid
  <2>. QED BY <1>1, <2>1, <2>3, <2>4, ReturnKeeps
<1>4. CASE ~CanRead(Refs(content[p]))
  <2>1. cache' = cache /\ End("out_of_range")
    BY <1>4 DEF Evaluate
  <2>2. TableOK'
    BY <1>1, <1>2, <2>1 DEF TableOK
  <2>. QED BY <2>1, <2>2, EndKeeps DEF End, Outcome
<1>. QED BY <1>3, <1>4

LEMMA CheckNextKeeps == WalkInv /\ CheckNext => WalkInv'
<1> SUFFICES ASSUME WalkInv, CheckNext PROVE WalkInv'
  OBVIOUS
<1> DEFINE suspects == {r \in Top.left : Suspect(r)}
           r == First(suspects)
<1>1. /\ ~Idle /\ Top.fn \in Evaluating /\ Top.fn # "Update"
      /\ UNCHANGED <<content, usedBy, cache>>
  BY DEF CheckNext, In, Evaluating
<1>2. TableOK' /\ InvalidNow' = InvalidNow
  BY <1>1 DEF WalkInv, TableOK, InvalidNow
<1>3. CASE suspects = {}
  <2>1. Resume(Below)
    BY <1>3 DEF CheckNext
  <2>. QED BY <1>1, <1>2, <2>1, ReturnKeeps
<1>4. CASE suspects # {}
  <2>1. /\ r # call.cell
        /\ IF r \in InvalidNow THEN Call(Refreshing(r), Top.left)
           ELSE Call(Frame("CheckDependency", r, Refs(content[r])), After(Top.left, r))
    BY <1>4 DEF CheckNext
  <2>2. suspects \in SUBSET Pos
    BY <1>1, TopFacts
  <2>3. r \in suspects
    BY <1>4, <2>2, FirstIsLeast
  <2>4. r \in Pos /\ Suspect(r) /\ After(Top.left, r) \in SUBSET Pos /\ Top.left \in SUBSET Pos
    BY <1>1, <2>2, <2>3, TopFacts DEF After
  <2> HIDE DEF r
  <2>5. CASE r \in InvalidNow
    BY <1>1, <2>1, <2>4, <2>5, RefreshKeepsInv
  <2>6. CASE r \notin InvalidNow
    <3> DEFINE f == Frame("CheckDependency", r, Refs(content[r]))
    <3>1. content[r] \in Formula
      BY <2>1, <2>4, <2>6 DEF Suspect
    <3>2. f \in Frames /\ f.fn \in Evaluating /\ f.fn # "Update"
      BY <2>4, <3>1, FormulaAssumption DEF Frame, Frames, Loops, Evaluating
    <3>3. Call(f, After(Top.left, r))
      BY <2>1, <2>6
    <3> HIDE DEF f
    <3>. QED BY <1>1, <1>2, <2>4, <3>2, <3>3, CallKeeps
  <2>. QED BY <2>5, <2>6
<1>. QED BY <1>3, <1>4

\* What Reject does, if it ends a walk that has changed no text.
LEMMA RejectFacts ==
  ASSUME WalkInv, ~Idle, SameAsBefore, NEW result \in Outcome, Reject(result)
  PROVE  /\ WalkInv'
         /\ \A q \in Pos : GetText(content'[q]) = GetText(call.content[q])
<1>1. TableOK /\ call.cell \in Pos /\ call.text \in Text /\ call.content \in Contents
  BY DEF WalkInv, CallOK
<1>2. usedBy' \in Graph
  BY <1>1, UnlinkFacts DEF Reject, TableOK
<1>3. content' = [content EXCEPT ![call.cell] =
                    IF CellExists(call.content, call.cell) THEN @ ELSE Absent]
  BY DEF Reject
<1>4. content' \in Contents
  BY <1>1, <1>3 DEF TableOK, Contents, Content
<1>5. TableOK'
  BY <1>1, <1>2, <1>4 DEF TableOK, Reject
<1>6. \A q \in Pos : GetText(content'[q]) = GetText(call.content[q])
  BY <1>1, <1>3 DEF TableOK, Contents, SameAsBefore, CellExists
<1>7. stack' = <<>> /\ outcome' = result
  BY DEF Reject, End
<1>. QED BY <1>5, <1>6, <1>7, EndKeeps

LEMMA CycleIsFoundKeeps == WalkInv /\ CycleIsFound => WalkInv'
<1> SUFFICES ASSUME WalkInv, CycleIsFound PROVE WalkInv'
  OBVIOUS
<1>1. ~Idle /\ Top.fn \in Evaluating /\ Reject("CircularDependencyException")
  BY DEF CycleIsFound, In, Evaluating
<1>. QED BY <1>1, TopFacts, RejectFacts DEF Outcome

LEMMA EvaluationFailsKeeps == WalkInv /\ EvaluationFails => WalkInv'
<1> SUFFICES ASSUME WalkInv, EvaluationFails PROVE WalkInv'
  OBVIOUS
<1>1. ~Idle /\ Top.fn \in Evaluating /\ Reject("FormulaException")
  BY DEF EvaluationFails, In, Evaluating
<1>. QED BY <1>1, TopFacts, RejectFacts DEF Outcome

LEMMA EvaluationThrowsKeeps == WalkInv /\ EvaluationThrows => WalkInv'
<1> SUFFICES ASSUME WalkInv, EvaluationThrows PROVE WalkInv'
  OBVIOUS
<1>1. TableOK'
  BY DEF EvaluationThrows, WalkInv, TableOK
<1>2. stack' = <<>> /\ outcome' = "out_of_range"
  BY DEF EvaluationThrows, End
<1>. QED BY <1>1, <1>2, EndKeeps DEF Outcome

LEMMA InstallKeeps == WalkInv /\ Install => WalkInv'
<1> SUFFICES ASSUME WalkInv, Install PROVE WalkInv'
  OBVIOUS
<1> DEFINE f == InvalidateUsers(call.cell, usedBy)
           g == Frame("CreateMissing", call.cell, {})
<1>1. ~Idle /\ call.text \in Formula /\ usedBy' = usedBy
  BY DEF Install, In
<1>2. TableOK /\ CallOK /\ call.cell \in Pos
  BY <1>1 DEF WalkInv, CallOK
<1>3. TableOK'
  BY <1>1, <1>2 DEF Install, TableOK, Contents, Content, Cache
<1>4. f \in Frames /\ g \in Frames /\ f.fn = "InvalidateCache" /\ g.fn = "CreateMissing"
  BY <1>2, WalkTypes DEF InvalidateUsers, Frame, Frames, Loops
<1>5. stack' = <<f, g, f>> /\ UNCHANGED <<outcome, call>>
  BY DEF Install, Resume
<1>6. CallOK'
  BY <1>1, <1>2, <1>5 DEF CallOK
<1> HIDE DEF f, g
<1>7. stack' \in Seq(Frames) /\ Len(stack') = 3
  BY <1>4, <1>5
<1>8. \A i \in 1 .. Len(stack') : stack'[i].fn \in Changing /\ stack'[i].fn # "Update"
  BY <1>4, <1>5, <1>7 DEF Changing
<1>9. KindsOK(stack)'
  BY <1>8 DEF KindsOK
<1>. QED BY <1>3, <1>5, <1>6, <1>7, <1>8, <1>9, SetUpKeeps DEF WalkInv

LEMMA CreateMissingKeeps == WalkInv /\ CreateMissing => WalkInv'
<1> SUFFICES ASSUME WalkInv, CreateMissing PROVE WalkInv'
  OBVIOUS
<1>1. ~Idle /\ Top.fn \in Changing /\ cache' = cache /\ Resume(Below)
  BY DEF CreateMissing, In, Changing
<1>2. TableOK /\ call.cell \in Pos
  BY <1>1 DEF WalkInv, CallOK
<1>3. content' \in Contents
  BY <1>2 DEF CreateMissing, TableOK, Contents, Content
<1>4. usedBy' \in Graph
  BY <1>2, LinkFacts DEF CreateMissing, TableOK
<1>5. TableOK'
  BY <1>1, <1>2, <1>3, <1>4 DEF TableOK
<1>. QED BY <1>1, <1>5, ReturnKeeps

LEMMA DestroyKeeps == WalkInv /\ Destroy => WalkInv'
<1> SUFFICES ASSUME WalkInv, Destroy PROVE WalkInv'
  OBVIOUS
<1> DEFINE p == Top.cell
<1>1. ~Idle /\ cache' = cache
  BY DEF Destroy, In
<1>2. TableOK /\ p \in Pos
  BY <1>1, TopFacts DEF WalkInv
<1>3. content' \in Contents
  BY <1>2 DEF Destroy, TableOK, Contents, Content
<1>4. Unlink(usedBy, GetReferencedCells(content[p]), p) \in Graph
  BY <1>2, UnlinkFacts DEF TableOK
<1>5. usedBy' \in Graph
  BY <1>2, <1>4 DEF Destroy, Graph
<1>6. TableOK'
  BY <1>1, <1>2, <1>3, <1>5 DEF TableOK
<1>7. stack' = <<>> /\ outcome' \in {"Ok", "Dangling"}
  BY DEF Destroy, End
<1>. QED BY <1>6, <1>7, EndKeeps DEF Outcome

-----------------------------------------------------------------------------
(* The beginning of a call.                                                *)

\* A call that starts with the frames of a sequence, having changed texts only
\* if none of them reads values.
LEMMA BeginKeeps ==
  ASSUME NEW op, NEW p \in Pos, NEW t \in Text, NEW frames, Begin(op, p, t, frames),
         content \in Contents, TableOK',
         frames \in Seq(Frames), Len(frames) \in 1 .. 3,
         \A i \in 1 .. Len(frames) : frames[i].fn # "Update",
         \/ \A i \in 1 .. Len(frames) : frames[i].fn \in Changing
         \/ /\ \A i \in 1 .. Len(frames) : frames[i].fn \in Evaluating
            /\ \A q \in Pos : GetText(content'[q]) = GetText(content[q])
  PROVE  WalkInv'
<1>1. /\ stack' = frames /\ outcome' = "Ok"
      /\ call'.cell = p /\ call'.text = t /\ call'.content = content
  BY DEF Begin
<1>2. CallOK'
  BY <1>1 DEF CallOK
<1>3. KindsOK(stack)'
  <2>1. (\A q \in Pos : GetText(content'[q]) = GetText(content[q])) => SameAsBefore'
    BY <1>1 DEF SameAsBefore
  <2>. QED BY <1>1, <2>1 DEF KindsOK
<1>. QED BY <1>1, <1>2, <1>3, SetUpKeeps DEF Outcome

\* Started and Forgotten are a table and a graph, and no text has changed.
LEMMA StartedTypes ==
  ASSUME TableOK, NEW p \in Pos
  PROVE  /\ Started(p) \in Contents /\ Forgotten(p) \in Graph
         /\ \A q \in Pos : GetText(Started(p)[q]) = GetText(content[q])
<1>1. Started(p) \in Contents
  BY DEF TableOK, Started, Created, Contents, Content
<1>2. Forgotten(p) \in Graph
  BY UnlinkFacts DEF TableOK, Forgotten
<1>3. \A q \in Pos : GetText(Started(p)[q]) = GetText(content[q])
  BY DEF TableOK, Started, Created, Contents, GetText
<1>. QED BY <1>1, <1>2, <1>3

LEMMA CallWithoutWalkKeeps == WalkInv /\ CallWithoutWalk => WalkInv'
<1> SUFFICES ASSUME WalkInv, CallWithoutWalk PROVE WalkInv'
  OBVIOUS
<1>1. TableOK /\ stack' = <<>>
  BY DEF WalkInv, CallWithoutWalk, Ready, Idle
<1>2. CASE RejectPosition
  BY <1>1, <1>2, EndKeeps DEF RejectPosition, TableOK, Outcome
<1>3. ASSUME NEW p \in Pos, SetCellToSameText(p)
      PROVE  WalkInv'
  BY <1>1, <1>3, StartedTypes, EndKeeps DEF SetCellToSameText, TableOK, Outcome
<1>4. ASSUME NEW p \in Pos, ~CellExists(content, p), ClearCell(p)
      PROVE  WalkInv'
  <2>1. cache' \in Cache
    BY <1>1, <1>4, InvalidateReach DEF ClearCell, StaleFrom, TableOK
  <2>2. Unlink(usedBy, GetReferencedCells(content[p]), p) \in Graph
    BY <1>1, UnlinkFacts DEF TableOK
  <2>3. usedBy' \in Graph
    BY <1>4, <2>2 DEF ClearCell, Graph
  <2>4. content' \in Contents
    BY <1>1, <1>4 DEF ClearCell, TableOK, Contents, Content
  <2>5. outcome' = "Ok"
    BY <1>4 DEF ClearCell
  <2>. QED BY <1>1, <2>1, <2>3, <2>4, <2>5, EndKeeps DEF TableOK, Outcome
<1>5. ASSUME NEW p \in Pos, NEW t \in Entered(p), SetCellThrows(p, t)
      PROVE  WalkInv'
  BY <1>1, <1>5, StartedTypes, EndKeeps DEF SetCellThrows, TableOK, Outcome
<1>. QED BY <1>2, <1>3, <1>4, <1>5 DEF CallWithoutWalk

LEMMA BeginTextKeeps ==
  ASSUME WalkInv, NEW p \in Pos, NEW t \in Text, BeginText(p, t)
  PROVE  WalkInv'
<1> DEFINE f == Frame("InvalidateCache", p, {d \in Pos : usedBy'[p][d] > 0})
<1>1. TableOK /\ content \in Contents
  BY DEF WalkInv, TableOK
<1>2. TableOK'
  BY <1>1, StartedTypes DEF BeginText, TableOK, Contents, Content, Cache
<1>3. Begin("SetCell", p, t, <<f, f>>)
  BY DEF BeginText, InvalidateUsers
<1>4. f \in Frames /\ f.fn = "InvalidateCache"
  BY DEF Frame, Frames, Loops
<1> HIDE DEF f
<1>5. /\ <<f, f>> \in Seq(Frames) /\ Len(<<f, f>>) = 2
      /\ \A i \in 1 .. 2 : <<f, f>>[i].fn \in Changing /\ <<f, f>>[i].fn # "Update"
  BY <1>4 DEF Changing
<1> PICK frames : frames = <<f, f>>
  OBVIOUS
<1>9. /\ frames \in Seq(Frames) /\ Len(frames) \in 1 .. 3
      /\ \A i \in 1 .. Len(frames) : frames[i].fn # "Update"
      /\ \A i \in 1 .. Len(frames) : frames[i].fn \in Changing
  BY <1>5
<1>. QED BY <1>1, <1>2, <1>3, <1>5, <1>9, BeginKeeps

LEMMA BeginFormulaKeeps ==
  ASSUME WalkInv, NEW p \in Pos, NEW t \in Text, BeginFormula(p, t)
  PROVE  WalkInv'
<1> DEFINE f == Frame("CheckDependency", p, Refs(t))
           g == Frame("HandleFormulaCreation", p, Refs(t))
<1>1. TableOK /\ content \in Contents
  BY DEF WalkInv, TableOK
<1>2. /\ content' = Started(p) /\ usedBy' = Registered(p, t) /\ cache' = cache
      /\ Begin("SetCell", p, t, <<f, g>>) /\ Refs(t) \in SUBSET Pos
  BY FormulaAssumption DEF BeginFormula
<1>3. TableOK'
  BY <1>1, <1>2, StartedTypes, LinkFacts DEF Registered, TableOK
<1>4. \A q \in Pos : GetText(content'[q]) = GetText(content[q])
  BY <1>1, <1>2, StartedTypes
<1>5. f \in Frames /\ g \in Frames /\ f.fn = "CheckDependency" /\ g.fn = "HandleFormulaCreation"
  BY <1>2 DEF Frame, Frames, Loops
<1> HIDE DEF f, g
<1>6. /\ <<f, g>> \in Seq(Frames) /\ Len(<<f, g>>) = 2
      /\ \A i \in 1 .. 2 : <<f, g>>[i].fn \in Evaluating /\ <<f, g>>[i].fn # "Update"
  BY <1>5 DEF Evaluating
<1> PICK frames : frames = <<f, g>>
  OBVIOUS
<1>9. /\ frames \in Seq(Frames) /\ Len(frames) \in 1 .. 3
      /\ \A i \in 1 .. Len(frames) : frames[i].fn # "Update"
      /\ \A i \in 1 .. Len(frames) : frames[i].fn \in Evaluating
  BY <1>6
<1>. QED BY <1>1, <1>2, <1>3, <1>4, <1>6, <1>9, BeginKeeps

LEMMA BeginClearKeeps ==
  ASSUME WalkInv, NEW p \in Pos, BeginClear(p)
  PROVE  WalkInv'
<1> DEFINE f == InvalidateUsers(p, usedBy)
           g == Frame("ClearCell", p, {})
<1>1. TableOK /\ content \in Contents
  BY DEF WalkInv, TableOK
<1>2. TableOK' /\ Begin("ClearCell", p, EmptyText, <<f, g>>) /\ EmptyText \in Text
  BY <1>1 DEF BeginClear, TableOK, Cache, Text
<1>3. f \in Frames /\ g \in Frames /\ f.fn = "InvalidateCache" /\ g.fn = "ClearCell"
  BY DEF InvalidateUsers, Frame, Frames, Loops
<1> HIDE DEF f, g
<1>4. /\ <<f, g>> \in Seq(Frames) /\ Len(<<f, g>>) = 2
      /\ \A i \in 1 .. 2 : <<f, g>>[i].fn \in Changing /\ <<f, g>>[i].fn # "Update"
  BY <1>3 DEF Changing
<1> PICK frames : frames = <<f, g>>
  OBVIOUS
<1>9. /\ frames \in Seq(Frames) /\ Len(frames) \in 1 .. 3
      /\ \A i \in 1 .. Len(frames) : frames[i].fn # "Update"
      /\ \A i \in 1 .. Len(frames) : frames[i].fn \in Changing
  BY <1>4
<1>. QED BY <1>1, <1>2, <1>4, <1>9, BeginKeeps

LEMMA BeginReadsKeeps ==
  ASSUME WalkInv, NEW op, NEW p \in Pos, NEW S \in SUBSET Pos, BeginReads(op, p, S)
  PROVE  WalkInv'
<1> DEFINE f == Frame("GetValue", p, S)
<1>1. TableOK /\ content \in Contents
  BY DEF WalkInv, TableOK
<1>2. /\ TableOK' /\ content' = content
      /\ Begin(op, p, EmptyText, <<f>>) /\ EmptyText \in Text
  BY <1>1 DEF BeginReads, TableOK, Text
<1>3. f \in Frames /\ f.fn = "GetValue"
  BY DEF Frame, Frames, Loops
<1> HIDE DEF f
<1>4. /\ <<f>> \in Seq(Frames) /\ Len(<<f>>) = 1
      /\ \A i \in 1 .. 1 : <<f>>[i].fn \in Evaluating /\ <<f>>[i].fn # "Update"
  BY <1>3 DEF Evaluating
<1> PICK frames : frames = <<f>>
  OBVIOUS
<1>9. /\ frames \in Seq(Frames) /\ Len(frames) \in 1 .. 3
      /\ \A i \in 1 .. Len(frames) : frames[i].fn # "Update"
      /\ \A i \in 1 .. Len(frames) : frames[i].fn \in Evaluating
  BY <1>4
<1>. QED BY <1>1, <1>2, <1>4, <1>9, BeginKeeps

LEMMA BeginCallKeeps == WalkInv /\ BeginCall => WalkInv'
<1> SUFFICES ASSUME WalkInv, BeginCall PROVE WalkInv'
  OBVIOUS
<1>1. CASE BeginReads("PrintValues", At(0, 0), {q \in Pos : q.row < rowsCount /\ q.col < colsCount})
  <2>1. At(0, 0) \in Pos
    BY TableAssumption DEF Pos
  <2>. QED BY <1>1, <2>1, BeginReadsKeeps
<1>2. ASSUME NEW p \in Pos, BeginClear(p)
      PROVE  WalkInv'
  BY <1>2, BeginClearKeeps
<1>3. ASSUME NEW p \in Pos, BeginReads("GetValue", p, {p})
      PROVE  WalkInv'
  BY <1>3, BeginReadsKeeps
<1>4. ASSUME NEW p \in Pos, NEW t \in Entered(p), BeginText(p, t) \/ BeginFormula(p, t)
      PROVE  WalkInv'
  <2>1. t \in Text
    BY WalkAssumption
  <2>. QED BY <1>4, <2>1, BeginTextKeeps, BeginFormulaKeeps
<1>. QED BY <1>1, <1>2, <1>3, <1>4 DEF BeginCall

-----------------------------------------------------------------------------
(* The theorems.                                                           *)

LEMMA InitWalkInv == InitWalk => WalkInv
<1> SUFFICES ASSUME InitWalk PROVE WalkInv
  OBVIOUS
<1>1. TableOK /\ stack = <<>> /\ outcome = "Ok"
  BY DEF InitWalk, Init, TableOK, Contents, Content, Graph, Cache
<1>2. Len(stack) = 0 /\ stack \in Seq(Frames)
  BY <1>1, EmptySeq
<1>. QED BY <1>1, <1>2, WalkAssumption
     DEF WalkInv, CallOK, StackOK, KindsOK, WaitsOK, Idle, Outcome

LEMMA NextWalkInv == WalkInv /\ [NextWalk]_walkVars => WalkInv'
<1> SUFFICES ASSUME WalkInv, [NextWalk]_walkVars PROVE WalkInv'
  OBVIOUS
<1>1. CASE CallWithoutWalk
  BY <1>1, CallWithoutWalkKeeps
<1>2. CASE BeginCall
  BY <1>2, BeginCallKeeps
<1>3. CASE Step
  BY <1>3, InvalidateNextKeeps, RefreshNextKeeps, EvaluateKeeps, CheckNextKeeps,
     CycleIsFoundKeeps, EvaluationFailsKeeps, EvaluationThrowsKeeps, InstallKeeps,
     CreateMissingKeeps, DestroyKeeps, ReadNextKeeps, ReadsEndKeeps DEF Step
<1>4. CASE UNCHANGED walkVars
  BY <1>4 DEF walkVars, WalkInv, TableOK, CallOK, StackOK, KindsOK, WaitsOK,
     InvalidNow, SameAsBefore, Idle
<1>. QED BY <1>1, <1>2, <1>3, <1>4 DEF NextWalk

\* The invariant holds in every state of every walk.
THEOREM WalkInvariance == SpecWalk => []WalkInv
<1>. QED BY InitWalkInv, NextWalkInv, PTL DEF SpecWalk

\* The table, the outcome and the stack keep their types, in the middle of every
\* walk and after every exception.
THEOREM WalkTypeCorrect == SpecWalk => []WalkTypeOK
<1>1. WalkInv => WalkTypeOK
  BY DEF WalkInv, WalkTypeOK, TableOK, StackOK, Contents, Graph, Cache
<1>. QED BY <1>1, WalkInvariance, PTL

\* When FormulaCell::Update comes to Evaluate, whatever the formula reads is
\* fresh, however many exceptions and stale entries came before.
THEOREM FreshReads == SpecWalk => []EvaluatesFreshCells
<1>1. WalkInv => EvaluatesFreshCells
  <2> SUFFICES ASSUME WalkInv, ~Idle, Top.fn = "Update", Pending = {}
               PROVE  GetReferencedCells(content[Top.cell]) \cap InvalidNow = {}
    BY DEF EvaluatesFreshCells, In
  <2>1. /\ content[Top.cell] \in Formula
        /\ \A r \in Refs(content[Top.cell]) \cap InvalidNow : r \in Top.left
    BY TopFacts
  <2>. QED BY <2>1 DEF GetReferencedCells, Pending
<1>. QED BY <1>1, WalkInvariance, PTL

\* A step that ends a call with an exception has left every text as it was when
\* the call began.
LEMMA EndKeepsTexts ==
  ASSUME WalkInv, [NextWalk]_walkVars, Ends,
         outcome' \notin {"Ok", "Dangling", "StackOverflow"}
  PROVE  \A p \in Pos : GetText(content'[p]) = GetText(call.content[p])
<1>1. ~Idle /\ stack # <<>> /\ stack' = <<>>
  BY DEF Ends, Idle
<1>2. ~CallWithoutWalk /\ ~BeginCall /\ ~UNCHANGED walkVars
  BY <1>1 DEF CallWithoutWalk, BeginCall, BeginReads, BeginClear, BeginText,
     BeginFormula, Ready, walkVars
<1>3. \A frames : ~Resume(frames)
  BY <1>1 DEF Resume, End
<1>4. \A f, S : ~Call(f, S)
  BY <1>3 DEF Call, End
<1>5. ~InvalidateNext /\ ~RefreshNext /\ ~CheckNext /\ ~Install /\ ~CreateMissing
      /\ ~ReadNext /\ ~ReadsEnd
  BY <1>3, <1>4 DEF InvalidateNext, Invalidated, RefreshNext, CheckNext, Install,
     CreateMissing, ReadNext, ReadsEnd
<1>6. ~Destroy
  BY DEF Destroy, End
<1>7. CASE Evaluate \/ EvaluationThrows
  <2>1. content' = content /\ Top.fn \in Evaluating
    BY <1>7 DEF Evaluate, EvaluationThrows, In, Evaluating
  <2>. QED BY <1>1, <2>1, TopFacts DEF SameAsBefore
<1>8. CASE CycleIsFound \/ EvaluationFails
  <2>1. PICK result \in Outcome : Reject(result)
    BY <1>8 DEF CycleIsFound, EvaluationFails, Outcome
  <2>2. Top.fn \in Evaluating
    BY <1>8 DEF CycleIsFound, EvaluationFails, In, Evaluating
  <2>. QED BY <1>1, <2>1, <2>2, TopFacts, RejectFacts
<1>. QED BY <1>2, <1>5, <1>6, <1>7, <1>8 DEF NextWalk, Step

\* A call that throws in the middle of a walk leaves every text as it was when
\* the call began (the strong guarantee of SetCell that common.h promises).
THEOREM BrokenCallsKeepTexts == SpecWalk => ThrowKeepsTexts
<1>1. WalkInv /\ [NextWalk]_walkVars =>
        [(Ends /\ outcome' \notin {"Ok", "Dangling", "StackOverflow"}) =>
           \A p \in Pos : GetText(content'[p]) = GetText(call.content[p])]_walkVars
  BY EndKeepsTexts
<1>. QED BY <1>1, WalkInvariance, PTL DEF SpecWalk, ThrowKeepsTexts

-----------------------------------------------------------------------------
(* What the walks do to a table that was right when their call began.  If  *)
(* every entry of usedBy stood for a formula, so does every entry an       *)
(* InvalidateCache meets, and its stack is no deeper than there are cells  *)
(* to mark.  If the caches were right as well, they are right after each   *)
(* refresh, so wherever an exception breaks the walk off.                  *)

\* The table the call in progress began with.
EdgesBefore == EdgesOK(call.content, call.usedBy)

CachesBefore ==
  /\ EdgesBefore
  /\ StaleOK(call.content, call.usedBy, call.cache)
  /\ CurrentOK(call.content, call.usedBy, call.cache)

\* While a call runs, that is the table its caller sees.
LEMMA SeenBefore ==
  ASSUME ~Idle
  PROVE  /\ Seen!EdgesMatchFormulas <=> EdgesBefore
         /\ (Seen!EdgesMatchFormulas /\ Seen!StaleUpwards /\ Seen!LinkedCellsAreCurrent)
              => CachesBefore
<1>1. Seen!EdgesMatchFormulas <=> EdgesBefore
  BY DEF Unseen, EdgesBefore, Seen!EdgesMatchFormulas, EdgesOK, Seen!Pos, Pos, Seen!At, At,
     Seen!CellExists, CellExists, Seen!GetReferencedCells, GetReferencedCells
<1>2. Seen!StaleUpwards => StaleOK(call.content, call.usedBy, call.cache)
  BY DEF Unseen, Seen!StaleUpwards, StaleOK, Seen!Pos, Pos, Seen!At, At, Seen!Invalid
<1>3. Seen!LinkedCellsAreCurrent => CurrentOK(call.content, call.usedBy, call.cache)
  BY DEF Unseen, Seen!LinkedCellsAreCurrent, CurrentOK, HasValue, Seen!Pos, Pos, Seen!At, At,
     Seen!Invalid, Invalid, Seen!Linked, Seen!GetReferencedCells, Seen!Reading, Reading,
     Seen!NoFresh, NoFresh
<1>. QED BY <1>1, <1>2, <1>3 DEF CachesBefore

-----------------------------------------------------------------------------
(* The steps that neither end the call nor change a text.                  *)

\* A return that does not end the call, and a call that does not overflow.
LEMMA Returned ==
  ASSUME NEW frames, Resume(frames), ~Idle'
  PROVE  stack' = frames /\ frames # <<>> /\ UNCHANGED <<outcome, call>>
BY DEF Resume, End, Idle

LEMMA Called ==
  ASSUME NEW f, NEW S, Call(f, S), ~Idle'
  PROVE  stack' = Pushed(f, S) /\ UNCHANGED <<outcome, call>> /\ Len(stack) # MaxDepth
<1>1. Len(stack) # MaxDepth /\ Resume(Pushed(f, S))
  BY DEF Call, End, Idle, Pushed, Left
<1>. QED BY <1>1, Returned

\* A walk that reads values goes on reading values: the current frame returns,
\* or it calls another one, a refresh only of a cell that is invalid.
LEMMA EvaluatingShape ==
  ASSUME WalkInv, ~Idle, ~Idle',
         RefreshNext \/ Evaluate \/ CheckNext \/ ReadNext \/ ReadsEnd
  PROVE  /\ Top.fn \in Evaluating /\ UNCHANGED <<content, usedBy, outcome, call>>
         /\ \/ /\ stack' = Below /\ Below # <<>>
               /\ Evaluate \/ (Top.fn # "Update" /\ cache' = cache)
            \/ /\ cache' = cache
               /\ \E f \in Frames, S \in SUBSET Pos :
                    /\ stack' = Pushed(f, S) /\ f.fn \in Evaluating
                    /\ f.fn = "Update" => f.cell \in InvalidNow /\ f.left = Refs(content[f.cell])
                    /\ Top.fn = "Update" => S \subseteq Top.left /\ f.cell \in Top.left
<1>1. Top.fn \in Evaluating /\ UNCHANGED <<content, usedBy>>
  BY DEF RefreshNext, Evaluate, CheckNext, ReadNext, ReadsEnd, In, Evaluating
<1>2. Top \in Frames /\ Top.left \in SUBSET Pos /\ InvalidNow \subseteq Pos
  BY TopFacts, WalkTypes
<1>3. ASSUME NEW r \in InvalidNow, NEW S \in SUBSET Pos, Call(Refreshing(r), S), cache' = cache,
             Top.fn = "Update" => S \subseteq Top.left /\ r \in Top.left
      PROVE  /\ UNCHANGED <<outcome, call>>
             /\ \E f \in Frames, R \in SUBSET Pos :
                    /\ stack' = Pushed(f, R) /\ f.fn \in Evaluating
                    /\ f.fn = "Update" => f.cell \in InvalidNow /\ f.left = Refs(content[f.cell])
                    /\ Top.fn = "Update" => R \subseteq Top.left /\ f.cell \in Top.left
  <2> PICK f : f = Refreshing(r)
    OBVIOUS
  <2>1. f \in Frames /\ f.fn = "Update" /\ f.cell = r /\ f.left = Refs(content[r])
    BY WalkTypes DEF Frame
  <2>2. f.fn \in Evaluating
    BY <2>1 DEF Evaluating
  <2>3. stack' = Pushed(f, S) /\ UNCHANGED <<outcome, call>>
    BY <1>3, Called
  <2>. QED BY <1>3, <2>1, <2>2, <2>3
<1>4. CASE RefreshNext
  <2> DEFINE r == First(Pending)
  <2>1. Pending # {} /\ Pending \in SUBSET Pos /\ Pending \subseteq Top.left \cap InvalidNow
    BY <1>2, <1>4 DEF RefreshNext, Pending
  <2>2. r \in Pending
    BY <2>1, FirstIsLeast
  <2>3. Call(Refreshing(r), After(Top.left, r)) /\ cache' = cache
    BY <1>4 DEF RefreshNext
  <2>4. After(Top.left, r) \subseteq Top.left /\ r \in InvalidNow /\ r \in Top.left
    BY <2>1, <2>2 DEF After
  <2> HIDE DEF r
  <2>. QED BY <1>1, <1>2, <1>3, <2>3, <2>4
<1>5. CASE ReadNext
  <2>1. PICK r \in Pending : Call(Refreshing(r), Top.left \ {r})
    BY <1>5 DEF ReadNext
  <2>2. r \in InvalidNow /\ Top.fn # "Update" /\ cache' = cache
    BY <1>5, <2>1 DEF ReadNext, Pending, In
  <2>. QED BY <1>1, <1>2, <1>3, <2>1, <2>2
<1>6. CASE ReadsEnd
  BY <1>1, <1>6, Returned DEF ReadsEnd, In
<1>7. CASE Evaluate
  <2>1. Resume(Below)
    BY <1>7 DEF Evaluate, End, Idle
  <2>. QED BY <1>1, <1>7, <2>1, Returned
<1>8. CASE CheckNext
  <2> DEFINE suspects == {r \in Top.left : Suspect(r)}
             r == First(suspects)
  <2>1. Top.fn # "Update" /\ cache' = cache
    BY <1>8 DEF CheckNext, In
  <2>2. CASE suspects = {}
    <3>1. Resume(Below)
      BY <1>8, <2>2 DEF CheckNext
    <3>. QED BY <1>1, <2>1, <3>1, Returned
  <2>3. CASE suspects # {}
    <3>1. r \in suspects
      <4>1. suspects \in SUBSET Pos
        BY <1>2
      <4>. QED BY <2>3, <4>1, FirstIsLeast
    <3>2. /\ r # call.cell
          /\ IF r \in InvalidNow THEN Call(Refreshing(r), Top.left)
             ELSE Call(Frame("CheckDependency", r, Refs(content[r])), After(Top.left, r))
      BY <1>8, <2>3 DEF CheckNext
    <3>3. r \in Pos /\ Suspect(r) /\ After(Top.left, r) \in SUBSET Pos
      BY <1>2, <3>1 DEF After
    <3> HIDE DEF r
    <3>4. CASE r \in InvalidNow
      BY <1>1, <1>2, <1>3, <2>1, <3>2, <3>4
    <3>5. CASE r \notin InvalidNow
      <4> PICK f : f = Frame("CheckDependency", r, Refs(content[r]))
        OBVIOUS
      <4>1. content[r] \in Formula
        BY <3>2, <3>3, <3>5 DEF Suspect
      <4>2. f \in Frames /\ f.fn \in Evaluating /\ f.fn # "Update"
        BY <3>3, <4>1, FormulaAssumption DEF Frame, Frames, Loops, Evaluating
      <4>3. stack' = Pushed(f, After(Top.left, r)) /\ UNCHANGED <<outcome, call>>
        BY <3>2, <3>5, Called
      <4>. QED BY <1>1, <2>1, <3>3, <4>2, <4>3
    <3>. QED BY <3>4, <3>5
  <2>. QED BY <2>2, <2>3
<1>. QED BY <1>4, <1>5, <1>6, <1>7, <1>8

\* The frame that is current after such a step, and with it all others, read
\* values too.
LEMMA EvaluatingGoesOn ==
  ASSUME WalkInv, WalkInv', ~Idle, ~Idle',
         RefreshNext \/ Evaluate \/ CheckNext \/ ReadNext \/ ReadsEnd
  PROVE  Top'.fn \in Evaluating
<1>1. /\ stack \in Seq(Frames) /\ Len(stack) \in Nat \ {0} /\ Top = stack[1]
      /\ Len(Below) = Len(stack) - 1
      /\ \A i \in 1 .. Len(Below) : Below[i] = stack[i + 1]
  BY StackParts DEF WalkInv, StackOK
<1>2. Len(stack') \in Nat \ {0} /\ Top' = stack'[1] /\ stack' \in Seq(Frames)
  <2>1. stack' \in Seq(Frames) /\ stack' # <<>>
    BY DEF WalkInv, StackOK, Idle
  <2>. QED BY <2>1, EmptySeq DEF Top
<1>3. Top.fn \in Evaluating
  BY EvaluatingShape
<1>4. \A i \in 1 .. Len(stack) : stack[i].fn \in Evaluating
  BY <1>1, <1>3 DEF WalkInv, KindsOK, Changing, Evaluating
<1>5. CASE stack' = Below
  <2>1. 1 \in 1 .. Len(Below) /\ 2 \in 1 .. Len(stack) /\ Below[1] = stack[2]
    BY <1>1, <1>2, <1>5
  <2>. QED BY <1>2, <1>4, <1>5, <2>1
<1>6. ASSUME NEW f \in Frames, NEW S \in SUBSET Pos, stack' = Pushed(f, S), f.fn \in Evaluating
      PROVE  Top'.fn \in Evaluating
  <2>1. stack'[1] = f
    BY <1>6 DEF Pushed
  <2>. QED BY <1>2, <1>6, <2>1
<1>7. \/ stack' = Below
      \/ \E f \in Frames, S \in SUBSET Pos :
           /\ stack' = Pushed(f, S) /\ f.fn \in Evaluating
           /\ f.fn = "Update" => f.cell \in InvalidNow /\ f.left = Refs(content[f.cell])
           /\ Top.fn = "Update" => S \subseteq Top.left /\ f.cell \in Top.left
  BY EvaluatingShape
<1>8. CASE stack' # Below
  <2>1. PICK f \in Frames, S \in SUBSET Pos : stack' = Pushed(f, S) /\ f.fn \in Evaluating
    BY <1>7, <1>8
  <2>. QED BY <1>6, <2>1
<1>. QED BY <1>5, <1>8

-----------------------------------------------------------------------------
(* InvalidateCache.                                                        *)

\* Whoever a usedBy lists holds a formula; the cell that is to be set may get
\* its own only when it has been evaluated.
UsersAreFormulas ==
  \A r, q \in Pos : usedBy[r][q] > 0 =>
    content[q] \in Formula \/ (q = call.cell /\ Top.fn \in Evaluating)

\* The loops of InvalidateCache go through formulas, and after the frames the
\* call has set up there is one for each cell that it has marked, at most.
MarksOK ==
  /\ Len(stack) <= 3 + Cardinality(InvalidNow)
  /\ \A i \in 1 .. Len(stack) :
       /\ stack[i].fn = "InvalidateCache" => \A d \in stack[i].left : content[d] \in Formula
       /\ stack[i].fn = "CreateMissing" => content[call.cell] \in Formula

InvalidationInv ==
  ~Idle => /\ outcome = "Ok"
           /\ EdgesBefore => UsersAreFormulas /\ (Top.fn \in Changing => MarksOK)

\* The cells that have to be refreshed can be counted.
LEMMA InvalidCount ==
  /\ Cardinality(InvalidNow) \in Nat /\ IsFiniteSet(InvalidNow)
  /\ Cardinality(InvalidNow') \in Nat
<1>1. InvalidNow \in SUBSET Pos /\ InvalidNow' \in SUBSET Pos
  BY DEF InvalidNow, Invalid
<1>2. \A S \in SUBSET Pos : IsFiniteSet(S) /\ Cardinality(S) \in Nat
  BY DepthSuffices, FS_Subset, FS_CardinalityType
<1>. QED BY <1>1, <1>2

\* The frame that a call starts with.
LEMMA Started1 ==
  ASSUME NEW op, NEW p, NEW t, NEW frames, Begin(op, p, t, frames), Len(frames) \in Nat \ {0}
  PROVE  /\ Top' = frames[1] /\ outcome' = "Ok" /\ call'.cell = p
         /\ call'.content = content /\ call'.usedBy = usedBy /\ call'.cache = cache
         /\ call'.op = op
BY DEF Begin, Top

\* The holder a SetCell makes sure of, and the entries it forgets.
LEMMA BareStart ==
  ASSUME TableOK, NEW p \in Pos
  PROVE  /\ \A q \in Pos : q # p => Started(p)[q] = content[q]
         /\ Forgotten(p) \in Graph
         /\ \A r, q \in Pos : q # p => Forgotten(p)[r][q] = usedBy[r][q]
         /\ EdgesOK(content, usedBy) => \A r \in Pos : Forgotten(p)[r][p] = 0
<1>1. content \in Contents /\ usedBy \in Graph
  BY DEF TableOK
<1>2. /\ \A q \in Pos : q # p => Started(p)[q] = content[q]
      /\ GetReferencedCells(Started(p)[p]) = GetReferencedCells(content[p])
  BY <1>1, TextAssumption DEF Started, Created, Contents, Content, GetReferencedCells, Text
<1>3. /\ Forgotten(p) \in Graph
      /\ \A r, q \in Pos : q # p => Forgotten(p)[r][q] = usedBy[r][q]
      /\ \A r \in Pos : Forgotten(p)[r][p] =
           IF r \in GetReferencedCells(content[p]) /\ usedBy[r][p] > 0
           THEN usedBy[r][p] - 1 ELSE usedBy[r][p]
  BY <1>1, <1>2, UnlinkFacts DEF Forgotten
<1>4. \A r \in Pos : usedBy[r][p] \in Nat
  BY <1>1 DEF Graph
<1>5. EdgesOK(content, usedBy) => \A r \in Pos : Forgotten(p)[r][p] = 0
  BY <1>3, <1>4 DEF EdgesOK
<1>. QED BY <1>2, <1>3, <1>5

LEMMA BeginTextMarks ==
  ASSUME WalkInv, NEW p \in Pos, NEW t, BeginText(p, t)
  PROVE  InvalidationInv'
<1> DEFINE f == InvalidateUsers(p, usedBy')
<1>1. /\ stack' = <<f, f>> /\ content' = [content EXCEPT ![p] = t]
      /\ usedBy' = Forgotten(p) /\ Begin("SetCell", p, t, <<f, f>>)
  BY DEF BeginText, Begin
<1>2. f.fn = "InvalidateCache" /\ f.left = {d \in Pos : usedBy'[p][d] > 0}
  BY DEF InvalidateUsers, Frame
<1> HIDE DEF f
<1>3. /\ Top' = f /\ outcome' = "Ok" /\ call'.content = content /\ call'.usedBy = usedBy
  BY <1>1, Started1
<1>4. ASSUME EdgesOK(content, usedBy)
      PROVE  \A r, q \in Pos : usedBy'[r][q] > 0 => content'[q] \in Formula
  <2> SUFFICES ASSUME NEW r \in Pos, NEW q \in Pos, usedBy'[r][q] > 0
               PROVE  content'[q] \in Formula
    OBVIOUS
  <2>1. q # p /\ usedBy[r][q] > 0
    BY <1>1, <1>4, BareStart DEF WalkInv
  <2>2. content[q] \in Formula
    BY <1>4, <2>1 DEF EdgesOK, GetReferencedCells
  <2>. QED BY <1>1, <2>1, <2>2 DEF WalkInv, TableOK, Contents
<1>5. ASSUME EdgesOK(content, usedBy)
      PROVE  MarksOK'
  <2>1. Len(stack') = 2 /\ \A i \in 1 .. 2 : stack'[i] = f
    BY <1>1
  <2>2. \A d \in f.left : content'[d] \in Formula
    BY <1>2, <1>4, <1>5
  <2>. QED BY <1>2, <2>1, <2>2, InvalidCount DEF MarksOK
<1>. QED BY <1>3, <1>4, <1>5 DEF InvalidationInv, UsersAreFormulas, EdgesBefore

LEMMA BeginFormulaMarks ==
  ASSUME WalkInv, NEW p \in Pos, NEW t, BeginFormula(p, t)
  PROVE  InvalidationInv'
<1> DEFINE f == Frame("CheckDependency", p, Refs(t))
           g == Frame("HandleFormulaCreation", p, Refs(t))
           refs == {r \in Refs(t) : CellExists(Started(p), r)}
<1>1. /\ content' = Started(p) /\ usedBy' = Link(Forgotten(p), refs, p)
      /\ Begin("SetCell", p, t, <<f, g>>)
  BY DEF BeginFormula, Registered
<1>2. f.fn = "CheckDependency"
  BY DEF Frame
<1> HIDE DEF f, g, refs
<1>3. /\ Top' = f /\ outcome' = "Ok" /\ call'.cell = p
      /\ call'.content = content /\ call'.usedBy = usedBy
  BY <1>1, Started1
<1>4. Top'.fn \in Evaluating /\ Top'.fn \notin Changing
  BY <1>2, <1>3 DEF Evaluating, Changing
<1>5. ASSUME EdgesOK(content, usedBy), NEW r \in Pos, NEW q \in Pos, usedBy'[r][q] > 0, q # p
      PROVE  content'[q] \in Formula
  <2>1. usedBy[r][q] > 0 /\ content'[q] = content[q]
    BY <1>1, <1>5, BareStart, LinkFacts DEF WalkInv
  <2>. QED BY <1>5, <2>1 DEF EdgesOK, GetReferencedCells
<1>. QED BY <1>3, <1>4, <1>5 DEF InvalidationInv, UsersAreFormulas, EdgesBefore

LEMMA BeginClearMarks ==
  ASSUME WalkInv, NEW p \in Pos, BeginClear(p)
  PROVE  InvalidationInv'
<1> DEFINE f == InvalidateUsers(p, usedBy)
           g == Frame("ClearCell", p, {})
<1>1. UNCHANGED <<content, usedBy>> /\ Begin("ClearCell", p, EmptyText, <<f, g>>)
  BY DEF BeginClear
<1>2. /\ f.fn = "InvalidateCache" /\ f.left = {d \in Pos : usedBy[p][d] > 0}
      /\ g.fn = "ClearCell"
  BY DEF InvalidateUsers, Frame
<1> HIDE DEF f, g
<1>3. /\ Top' = f /\ outcome' = "Ok" /\ call'.content = content /\ call'.usedBy = usedBy
      /\ stack' = <<f, g>>
  BY <1>1, Started1 DEF Begin
<1>4. EdgesOK(content, usedBy) => \A r, q \in Pos : usedBy[r][q] > 0 => content[q] \in Formula
  BY DEF EdgesOK, GetReferencedCells
<1>5. EdgesOK(content, usedBy) => MarksOK'
  <2>1. Len(stack') = 2 /\ stack'[1] = f /\ stack'[2] = g
    BY <1>3
  <2>2. EdgesOK(content, usedBy) => \A d \in f.left : content'[d] \in Formula
    BY <1>1, <1>2, <1>4
  <2>3. \A i \in 1 .. Len(stack') : i = 1 \/ i = 2
    BY <2>1
  <2>. QED BY <1>2, <2>1, <2>2, <2>3, InvalidCount DEF MarksOK
<1>. QED BY <1>1, <1>3, <1>4, <1>5 DEF InvalidationInv, UsersAreFormulas, EdgesBefore

LEMMA BeginReadsMarks ==
  ASSUME WalkInv, NEW op, NEW p, NEW S, BeginReads(op, p, S)
  PROVE  InvalidationInv'
<1> DEFINE f == Frame("GetValue", p, S)
<1>1. UNCHANGED <<content, usedBy>> /\ Begin(op, p, EmptyText, <<f>>)
  BY DEF BeginReads
<1>2. f.fn \notin Changing
  BY DEF Frame, Changing
<1> HIDE DEF f
<1>3. /\ Top' = f /\ outcome' = "Ok" /\ call'.content = content /\ call'.usedBy = usedBy
  BY <1>1, Started1
<1>4. EdgesOK(content, usedBy) => \A r, q \in Pos : usedBy[r][q] > 0 => content[q] \in Formula
  BY DEF EdgesOK, GetReferencedCells
<1>. QED BY <1>1, <1>2, <1>3, <1>4 DEF InvalidationInv, UsersAreFormulas, EdgesBefore

LEMMA InstallMarks ==
  ASSUME WalkInv, InvalidationInv, Install, ~Idle'
  PROVE  InvalidationInv'
<1> DEFINE p == call.cell
           f == InvalidateUsers(p, usedBy)
           g == Frame("CreateMissing", p, {})
<1>1. /\ ~Idle /\ Top.fn \notin Changing /\ usedBy' = usedBy
      /\ content' = [content EXCEPT ![p] = call.text] /\ call.text \in Formula
  BY DEF Install, In, Changing
<1>2. stack' = <<f, g, f>> /\ UNCHANGED <<outcome, call>>
  BY Returned DEF Install
<1>3. /\ f.fn = "InvalidateCache" /\ f.left = {d \in Pos : usedBy[p][d] > 0}
      /\ g.fn = "CreateMissing"
  BY DEF InvalidateUsers, Frame
<1> HIDE DEF f, g
<1>4. EdgesBefore' = EdgesBefore /\ call'.cell = p /\ p \in Pos
  BY <1>1, <1>2 DEF EdgesBefore, WalkInv, CallOK
<1>5. ASSUME EdgesBefore
      PROVE  /\ content'[p] \in Formula
             /\ \A r, q \in Pos : usedBy'[r][q] > 0 => content'[q] \in Formula
  BY <1>1, <1>4, <1>5 DEF InvalidationInv, UsersAreFormulas, WalkInv, TableOK, Contents
<1>6. ASSUME EdgesBefore
      PROVE  MarksOK'
  <2>1. Len(stack') = 3 /\ stack'[1] = f /\ stack'[2] = g /\ stack'[3] = f
    BY <1>2
  <2>2. \A d \in f.left : content'[d] \in Formula
    BY <1>1, <1>3, <1>4, <1>5, <1>6
  <2>3. \A i \in 1 .. Len(stack') : i = 1 \/ i = 2 \/ i = 3
    BY <2>1
  <2>4. content'[call'.cell] \in Formula
    BY <1>4, <1>5, <1>6
  <2>5. \A i \in 1 .. Len(stack') : stack'[i] = f \/ stack'[i] = g
    BY <2>1, <2>3
  <2>. QED BY <1>3, <2>1, <2>2, <2>4, <2>5, InvalidCount DEF MarksOK
<1>. QED BY <1>1, <1>2, <1>4, <1>5, <1>6 DEF InvalidationInv, UsersAreFormulas

\* The frames below the current one are as they were.
LEMMA MarksBelow ==
  ASSUME WalkInv, ~Idle, MarksOK, stack' = Below, call' = call,
         InvalidNow' = InvalidNow,
         \A q \in Pos : content[q] \in Formula => content'[q] \in Formula
  PROVE  MarksOK'
<1>1. /\ Len(stack) \in Nat \ {0} /\ Below \in Seq(Frames) /\ Len(Below) = Len(stack) - 1
      /\ \A i \in 1 .. Len(Below) : Below[i] = stack[i + 1]
  BY StackParts DEF WalkInv, StackOK
<1>2. \A i \in 1 .. Len(Below) :
        /\ Below[i].fn = "InvalidateCache" => \A d \in Below[i].left : content'[d] \in Formula
        /\ Below[i].fn = "CreateMissing" => content'[call.cell] \in Formula
  <2> TAKE i \in 1 .. Len(Below)
  <2>1. Below[i].left \subseteq Pos /\ call.cell \in Pos
    <3>1. Below[i] \in Frames
      BY <1>1
    <3>2. call.cell \in Pos
      BY DEF WalkInv, CallOK
    <3>. QED BY <3>1, <3>2 DEF Frames
  <2>2. i + 1 \in 1 .. Len(stack) /\ Below[i] = stack[i + 1]
    BY <1>1
  <2>. QED BY <2>1, <2>2 DEF MarksOK
<1>3. Len(Below) <= 3 + Cardinality(InvalidNow)
  BY <1>1, InvalidCount DEF MarksOK
<1>. QED BY <1>2, <1>3 DEF MarksOK

LEMMA CreateMissingMarks ==
  ASSUME WalkInv, InvalidationInv, CreateMissing, ~Idle'
  PROVE  InvalidationInv'
<1> DEFINE p == call.cell
           missing == {r \in Refs(call.text) : ~CellExists(content, r)}
<1>1. /\ ~Idle /\ Top.fn = "CreateMissing" /\ Top.fn \in Changing /\ Top.fn \notin Evaluating
      /\ cache' = cache /\ usedBy' = Link(usedBy, missing, p)
      /\ content' = [q \in Pos |-> IF q \in missing THEN EmptyText ELSE content[q]]
  BY DEF CreateMissing, In, Changing, Evaluating
<1>2. stack' = Below /\ UNCHANGED <<outcome, call>>
  BY Returned DEF CreateMissing
<1>3. \A q \in Pos : content'[q] \in Formula <=> content[q] \in Formula
  BY <1>1, TextAssumption DEF CellExists, Text
<1>4. InvalidNow' = InvalidNow
  BY <1>1, <1>3 DEF InvalidNow, Invalid
<1>5. EdgesBefore' = EdgesBefore /\ call'.cell = p /\ p \in Pos /\ usedBy \in Graph
  BY <1>1, <1>2 DEF EdgesBefore, WalkInv, CallOK, TableOK
<1> HIDE DEF missing
<1>6. ASSUME EdgesBefore
      PROVE  MarksOK' /\ \A r, q \in Pos : usedBy'[r][q] > 0 => content'[q] \in Formula
  <2>1. MarksOK /\ \A r, q \in Pos : usedBy[r][q] > 0 => content[q] \in Formula
    BY <1>1, <1>6 DEF InvalidationInv, UsersAreFormulas
  <2>2. content[p] \in Formula
    <3>1. 1 \in 1 .. Len(stack) /\ Top = stack[1]
      BY <1>1, StackParts DEF WalkInv, StackOK
    <3>. QED BY <1>1, <2>1, <3>1 DEF MarksOK
  <2>3. \A r, q \in Pos : usedBy'[r][q] > 0 => content'[q] \in Formula
    BY <1>1, <1>3, <1>5, <2>1, <2>2, LinkFacts
  <2>. QED BY <1>1, <1>2, <1>3, <1>4, <2>1, <2>3, MarksBelow
<1>. QED BY <1>1, <1>2, <1>5, <1>6 DEF InvalidationInv, UsersAreFormulas

\* One more cell is marked before each call of the recursion, and a cell that is
\* left to mark leaves room for it on the stack.
LEMMA InvalidateNextMarks ==
  ASSUME WalkInv, InvalidationInv, InvalidateNext
  PROVE  /\ EdgesBefore => outcome' = "Ok"
         /\ ~Idle' => InvalidationInv'
<1>1. /\ ~Idle /\ Top.fn = "InvalidateCache" /\ Top.fn \in Changing /\ Top.fn \notin Evaluating
      /\ content' = content /\ usedBy' = usedBy /\ outcome = "Ok"
  BY DEF InvalidateNext, In, Changing, Evaluating, InvalidationInv
<1>2. EdgesBefore => MarksOK /\ \A r, q \in Pos : usedBy[r][q] > 0 => content[q] \in Formula
  BY <1>1 DEF InvalidationInv, UsersAreFormulas
<1>3. CASE Top.left \ InvalidNow = {}
  <2>1. Resume(Below) /\ cache' = cache
    BY <1>3 DEF InvalidateNext
  <2>2. outcome' = "Ok"
    BY <1>1, <2>1 DEF Resume, End
  <2>3. ASSUME ~Idle'
        PROVE  InvalidationInv'
    <3>1. stack' = Below /\ call' = call
      BY <2>1, <2>3, Returned
    <3>2. InvalidNow' = InvalidNow /\ EdgesBefore' = EdgesBefore
      BY <1>1, <2>1, <3>1 DEF InvalidNow, EdgesBefore
    <3>3. EdgesBefore => MarksOK'
      BY <1>1, <1>2, <3>1, <3>2, MarksBelow
    <3>. QED BY <1>1, <1>2, <2>2, <3>2, <3>3 DEF InvalidationInv, UsersAreFormulas
  <2>. QED BY <2>2, <2>3
<1>4. CASE Top.left \ InvalidNow # {}
  <2>1. PICK d \in Top.left \ InvalidNow : Invalidated(d)
    BY <1>4 DEF InvalidateNext
  <2> DEFINE f == InvalidateUsers(d, usedBy)
             S == Top.left \ {d}
  <2>2. d \in Pos /\ S \in SUBSET Pos /\ Call(f, S) /\ cache' = [cache EXCEPT ![d] = Stale]
    BY <1>1, <2>1, TopFacts DEF Invalidated
  <2>3. /\ Top = stack[1] /\ 1 \in 1 .. Len(stack) /\ Len(stack) \in Nat
        /\ stack \in Seq(Frames)
    BY <1>1, StackParts DEF WalkInv, StackOK
  <2>4. EdgesBefore => \A e \in Top.left : content[e] \in Formula
    BY <1>1, <1>2, <2>3 DEF MarksOK
  <2>5. EdgesBefore => Len(stack) < MaxDepth
    <3>1. InvalidNow \in SUBSET (Pos \ {d})
      BY <2>1 DEF InvalidNow, Invalid
    <3>2. IsFiniteSet(Pos \ {d}) /\ Cardinality(Pos \ {d}) = Cardinality(Pos) - 1
      BY <2>2, DepthSuffices, FS_RemoveElement
    <3>3. Cardinality(InvalidNow) <= Cardinality(Pos) - 1
      BY <3>1, <3>2, FS_Subset
    <3>. QED BY <1>2, <2>3, <3>3, DepthSuffices, InvalidCount, WalkAssumption DEF MarksOK
  <2>6. f \in Frames /\ f.fn = "InvalidateCache" /\ f.left = {e \in Pos : usedBy[d][e] > 0}
    BY <2>2, WalkTypes DEF InvalidateUsers, Frame
  <2> HIDE DEF f, S
  <2>7. EdgesBefore => outcome' = "Ok"
    <3> SUFFICES ASSUME EdgesBefore PROVE outcome' = "Ok"
      OBVIOUS
    <3>1. Len(stack) # MaxDepth
      BY <2>3, <2>5, WalkAssumption
    <3>. QED BY <1>1, <2>2, <3>1 DEF Call, Resume, End
  <2>8. ASSUME ~Idle'
        PROVE  InvalidationInv'
    <3>1. stack' = Pushed(f, S) /\ outcome' = outcome /\ call' = call
      BY <2>2, <2>8, Called
    <3>2. EdgesBefore' = EdgesBefore /\ Top' = f
      BY <3>1 DEF EdgesBefore, Top, Pushed
    <3>3. ASSUME EdgesBefore
          PROVE  MarksOK'
      <4>1. InvalidNow' = InvalidNow \cup {d}
        BY <1>1, <2>1, <2>2, <2>4, <3>3 DEF InvalidNow, Invalid, WalkInv, TableOK, Cache
      <4>2. Cardinality(InvalidNow') = Cardinality(InvalidNow) + 1
        BY <2>1, <4>1, InvalidCount, FS_AddElement
      <4>3. /\ Len(Pushed(f, S)) = Len(stack) + 1
            /\ Left(S).fn = Top.fn /\ Left(S).left = S
            /\ \A i \in 1 .. Len(Pushed(f, S)) :
                 \/ i = 1 /\ Pushed(f, S)[i] = f
                 \/ i = 2 /\ Pushed(f, S)[i] = Left(S)
                 \/ i > 2 /\ i - 1 \in 2 .. Len(stack) /\ Pushed(f, S)[i] = stack[i - 1]
        BY <1>1, <2>2, <2>3, <2>6, PushParts
      <4>4. \A i \in 1 .. Len(stack') :
              /\ stack'[i].fn = "InvalidateCache" => \A e \in stack'[i].left : content[e] \in Formula
              /\ stack'[i].fn = "CreateMissing" => content[call.cell] \in Formula
        <5> TAKE i \in 1 .. Len(stack')
        <5>1. CASE stack'[i] = f
          BY <1>2, <2>2, <2>6, <3>3, <5>1
        <5>2. CASE stack'[i] = Left(S)
          BY <1>1, <2>4, <3>3, <4>3, <5>2 DEF S
        <5>3. CASE i - 1 \in 2 .. Len(stack) /\ stack'[i] = stack[i - 1]
          <6>1. i - 1 \in 1 .. Len(stack)
            BY <5>3
          <6>. QED BY <1>2, <3>3, <5>3, <6>1 DEF MarksOK
        <5>. QED BY <3>1, <4>3, <5>1, <5>2, <5>3
      <4>5. Len(stack') <= 3 + Cardinality(InvalidNow')
        BY <1>2, <2>3, <3>1, <3>3, <4>2, <4>3, InvalidCount DEF MarksOK
      <4>. QED BY <1>1, <3>1, <4>4, <4>5 DEF MarksOK
    <3>. QED BY <1>1, <1>2, <3>1, <3>2, <3>3 DEF InvalidationInv, UsersAreFormulas
  <2>. QED BY <2>7, <2>8
<1>. QED BY <1>3, <1>4

LEMMA NextInvalidationInv ==
  WalkInv /\ InvalidationInv /\ [NextWalk]_walkVars => InvalidationInv'
<1> SUFFICES ASSUME WalkInv, InvalidationInv, [NextWalk]_walkVars, ~Idle'
             PROVE  InvalidationInv'
  BY DEF InvalidationInv
<1>1. WalkInv'
  BY NextWalkInv
<1>2. CASE CallWithoutWalk
  BY <1>2 DEF CallWithoutWalk, Ready, Idle
<1>3. CASE BeginCall
  BY <1>3, BeginTextMarks, BeginFormulaMarks, BeginClearMarks, BeginReadsMarks DEF BeginCall
<1>4. CASE Step
  <2>1. ~Idle
    BY <1>4 DEF Step, InvalidateNext, RefreshNext, Evaluate, CheckNext, CycleIsFound,
       EvaluationFails, EvaluationThrows, Install, CreateMissing, Destroy, ReadNext,
       ReadsEnd, In
  <2>2. CASE RefreshNext \/ Evaluate \/ CheckNext \/ ReadNext \/ ReadsEnd
    <3>1. Top.fn \in Evaluating /\ UNCHANGED <<content, usedBy, outcome, call>>
      BY <2>1, <2>2, EvaluatingShape
    <3>2. Top'.fn \in Evaluating /\ Top'.fn \notin Changing
      BY <1>1, <2>1, <2>2, EvaluatingGoesOn DEF Evaluating, Changing
    <3>3. EdgesBefore' = EdgesBefore
      BY <3>1 DEF EdgesBefore
    <3>. QED BY <2>1, <3>1, <3>2, <3>3 DEF InvalidationInv, UsersAreFormulas
  <2>3. CASE CycleIsFound \/ EvaluationFails \/ EvaluationThrows \/ Destroy
    BY <2>3 DEF CycleIsFound, EvaluationFails, EvaluationThrows, Destroy, Reject, End, Idle
  <2>. QED BY <1>4, <2>2, <2>3, InvalidateNextMarks, InstallMarks, CreateMissingMarks DEF Step
<1>5. CASE UNCHANGED walkVars
  BY <1>5 DEF walkVars, InvalidationInv, UsersAreFormulas, MarksOK, EdgesBefore, Idle,
     InvalidNow, Top
<1>. QED BY <1>2, <1>3, <1>4, <1>5 DEF NextWalk

\* The recursion of InvalidateCache ends, and the stack holds it, whenever the
\* call began with a graph in which every entry stands for a formula.
THEOREM InvalidationEnds == SpecWalk => InvalidationEndsOnFormulas
<1>1. InitWalk => InvalidationInv
  BY DEF InitWalk, InvalidationInv, Idle
<1>2. WalkInv /\ InvalidationInv /\ [NextWalk]_walkVars =>
        [WalkIsLost => ~Seen!EdgesMatchFormulas]_walkVars
  <2> SUFFICES ASSUME WalkInv, InvalidationInv, NextWalk, WalkIsLost, Seen!EdgesMatchFormulas
               PROVE  FALSE
    OBVIOUS
  <2>1. ~Idle /\ Top.fn = "InvalidateCache" /\ outcome' = "StackOverflow"
    BY DEF WalkIsLost, In
  <2>2. InvalidateNext
    BY <2>1 DEF NextWalk, CallWithoutWalk, BeginCall, BeginReads, BeginClear, BeginText,
       BeginFormula, Ready, Step, RefreshNext, Evaluate, CheckNext, CycleIsFound,
       EvaluationFails, EvaluationThrows, Install, CreateMissing, Destroy, ReadNext,
       ReadsEnd, In
  <2>. QED BY <2>1, <2>2, SeenBefore, InvalidateNextMarks
<1>. QED BY <1>1, <1>2, InitWalkInv, NextWalkInv, NextInvalidationInv, PTL
     DEF SpecWalk, InvalidationEndsOnFormulas

-----------------------------------------------------------------------------
(* The refresh.                                                            *)

\* Of contents c, graph u and caches k: who lists q is read by its formula, and
\* valid if q is; and q holds its value if all that it reads list it.
RightAt(c, u, k, q) ==
  /\ \A r \in Pos : u[r][q] > 0 =>
       /\ c[q] \in Formula /\ r \in Refs(c[q])
       /\ q \notin Invalid(c, k) => r \notin Invalid(c, k)
  /\ (c[q] \in Formula /\ k[q] # Stale /\ \A r \in Refs(c[q]) : u[r][q] > 0) =>
       k[q] = Apply(c[q], Reading(c, k, NoFresh))

CachesOK == \A q \in Others : RightAt(content, usedBy, cache, q)

\* Each refresh on the stack is of an invalid cell, for the frame below it, whose
\* formula reads that cell.
RefreshesOK ==
  \A i \in 1 .. Len(stack) : stack[i].fn = "Update" =>
    /\ stack[i].cell \in InvalidNow
    /\ stack[i].left \subseteq Refs(content[stack[i].cell])
    /\ i > 1 => stack[i - 1].cell \in Refs(content[stack[i].cell])

CachesInv ==
  ~Idle => /\ RefreshesOK
           /\ (CachesBefore /\ Top.fn \in Evaluating) => CachesOK

\* A table that is right is right at each position.
LEMMA RightEverywhere ==
  ASSUME NEW c, NEW u, NEW k, EdgesOK(c, u), StaleOK(c, u, k), CurrentOK(c, u, k)
  PROVE  \A q \in Pos : RightAt(c, u, k, q)
<1> SUFFICES ASSUME NEW q \in Pos PROVE RightAt(c, u, k, q)
  OBVIOUS
<1>1. ASSUME NEW r \in Pos, u[r][q] > 0
      PROVE  /\ c[q] \in Formula /\ r \in Refs(c[q])
             /\ q \notin Invalid(c, k) => r \notin Invalid(c, k)
  <2>1. c[q] \in Formula /\ r \in Refs(c[q])
    BY <1>1 DEF EdgesOK, GetReferencedCells
  <2>2. q \notin Invalid(c, k) => r \notin Invalid(c, k)
    BY <1>1 DEF StaleOK, Invalid
  <2>. QED BY <2>1, <2>2
<1>2. (c[q] \in Formula /\ k[q] # Stale /\ \A r \in Refs(c[q]) : u[r][q] > 0) =>
        k[q] = Apply(c[q], Reading(c, k, NoFresh))
  BY DEF CurrentOK, HasValue
<1>. QED BY <1>1, <1>2 DEF RightAt

\* It stays right at q when holders without a cell come, and entries of others.
LEMMA RightOfOthers ==
  ASSUME NEW c \in Contents, NEW d \in Contents, NEW u, NEW w, NEW k \in Cache,
         NEW q \in Pos, SameCells(c, d), \A r \in Pos : w[r][q] = u[r][q],
         RightAt(c, u, k, q)
  PROVE  RightAt(d, w, k, q)
<1>1. /\ Invalid(c, k) = Invalid(d, k)
      /\ Reading(c, k, NoFresh) = Reading(d, k, NoFresh)
      /\ (c[q] \in Formula \/ d[q] \in Formula) => c[q] = d[q]
  BY SameReading
<1>2. d[q] \in Formula => Refs(d[q]) \subseteq Pos
  BY FormulaAssumption
<1>. QED BY <1>1, <1>2 DEF RightAt

\* The refresh of a cell that reads no invalid one keeps the table right.
LEMMA RefreshOne ==
  ASSUME NEW c \in Contents, NEW u, NEW k \in Cache, NEW S \in SUBSET Pos,
         NEW p \in Invalid(c, k), Refs(c[p]) \cap Invalid(c, k) = {},
         NEW n, n = [k EXCEPT ![p] = Apply(c[p], Reading(c, k, NoFresh))],
         \A q \in S : RightAt(c, u, k, q)
  PROVE  \A q \in S : RightAt(c, u, n, q)
<1> DEFINE v == Reading(c, k, NoFresh)
           w == Reading(c, n, NoFresh)
<1>1. p \in Pos /\ c[p] \in Formula /\ k[p] = Stale
  BY DEF Invalid
<1>2. v \in [Pos -> Value]
  BY ValueAssumption DEF Reading, NoFresh, Cache
<1>3. Apply(c[p], v) \in Value /\ Apply(c[p], v) # Stale
  BY <1>1, <1>2, FormulaAssumption, ValueAssumption
<1>4. /\ n \in Cache /\ n[p] = Apply(c[p], v) /\ n[p] # Stale
      /\ \A q \in Pos : q # p => n[q] = k[q]
  BY <1>1, <1>3 DEF Cache
<1>5. Invalid(c, n) = Invalid(c, k) \ {p}
  BY <1>1, <1>4 DEF Invalid
<1>6. w \in [Pos -> Value]
  BY <1>4, ValueAssumption DEF Reading, NoFresh, Cache
<1>7. \A q \in Pos : q # p => w[q] = v[q]
  BY <1>4 DEF Reading, NoFresh
<1>8. ASSUME NEW q \in Pos, c[q] \in Formula, p \notin Refs(c[q])
      PROVE  Apply(c[q], w) = Apply(c[q], v)
  <2>1. \A r \in Refs(c[q]) : w[r] = v[r]
    BY <1>7, <1>8, FormulaAssumption
  <2>. QED BY <1>2, <1>6, <1>8, <2>1, SameApply
<1> SUFFICES ASSUME NEW q \in S PROVE RightAt(c, u, n, q)
  OBVIOUS
<1>9. /\ \A r \in Pos : u[r][q] > 0 =>
           /\ c[q] \in Formula /\ r \in Refs(c[q])
           /\ q \notin Invalid(c, k) => r \notin Invalid(c, k)
      /\ (c[q] \in Formula /\ k[q] # Stale /\ \A r \in Refs(c[q]) : u[r][q] > 0) =>
           k[q] = Apply(c[q], v)
  BY DEF RightAt
<1> HIDE DEF v, w
<1>10. ASSUME NEW r \in Pos, u[r][q] > 0, q \notin Invalid(c, n)
       PROVE  r \notin Invalid(c, n)
  BY <1>5, <1>9, <1>10
<1>11. ASSUME c[q] \in Formula, n[q] # Stale, \A r \in Refs(c[q]) : u[r][q] > 0
       PROVE  n[q] = Apply(c[q], w)
  <2>1. CASE q = p
    <3>1. p \notin Refs(c[p])
      OBVIOUS
    <3>. QED BY <1>1, <1>4, <1>8, <2>1, <3>1
  <2>2. CASE q # p
    <3>1. k[q] # Stale /\ k[q] = Apply(c[q], v) /\ n[q] = k[q]
      BY <1>4, <1>9, <1>11, <2>2
    <3>2. q \notin Invalid(c, k)
      BY <3>1 DEF Invalid
    <3>3. p \notin Refs(c[q])
      BY <1>1, <1>9, <1>11, <3>2
    <3>. QED BY <1>8, <1>11, <3>1, <3>3
  <2>. QED BY <2>1, <2>2
<1>12. \A r \in Pos : u[r][q] > 0 =>
         /\ c[q] \in Formula /\ r \in Refs(c[q])
         /\ q \notin Invalid(c, n) => r \notin Invalid(c, n)
  BY <1>9, <1>10
<1>. QED BY <1>11, <1>12 DEF RightAt, w

\* What the steps of an evaluating walk keep of the frames' order.
LEMMA RefreshesGoOn ==
  ASSUME WalkInv, RefreshesOK, ~Idle, ~Idle',
         RefreshNext \/ Evaluate \/ CheckNext \/ ReadNext \/ ReadsEnd
  PROVE  RefreshesOK'
<1>1. /\ stack \in Seq(Frames) /\ Len(stack) \in Nat \ {0} /\ Top = stack[1]
      /\ Top \in Frames /\ Len(Below) = Len(stack) - 1
      /\ \A i \in 1 .. Len(Below) : Below[i] = stack[i + 1]
  BY StackParts DEF WalkInv, StackOK
<1>2. content' = content
  BY EvaluatingShape
<1>3. CASE stack' = Below /\ (Evaluate \/ (Top.fn # "Update" /\ cache' = cache))
  <2> SUFFICES ASSUME NEW i \in 1 .. Len(Below), Below[i].fn = "Update"
               PROVE  /\ Below[i].cell \in InvalidNow'
                      /\ Below[i].left \subseteq Refs(content[Below[i].cell])
                      /\ i > 1 => Below[i - 1].cell \in Refs(content[Below[i].cell])
    BY <1>2, <1>3 DEF RefreshesOK
  <2>1. /\ i \in 1 .. Len(stack) /\ i + 1 \in 1 .. Len(stack) /\ Below[i] = stack[i + 1]
        /\ i > 1 => Below[i - 1] = stack[i]
        /\ i + 1 > 1 /\ (i + 1) - 1 = i
    BY <1>1
  <2>2. /\ stack[i + 1].cell \in InvalidNow
        /\ stack[i + 1].left \subseteq Refs(content[stack[i + 1].cell])
        /\ stack[i].cell \in Refs(content[stack[i + 1].cell])
    BY <2>1 DEF RefreshesOK
  <2>3. stack[i].fn = "Update" /\ stack[i].cell \in InvalidNow
    <3>1. stack[i].fn = "Update"
      BY <2>1 DEF WalkInv, WaitsOK
    <3>. QED BY <2>1, <3>1 DEF RefreshesOK
  <2>4. stack[i + 1].cell \in InvalidNow'
    <3>1. CASE cache' = cache
      BY <1>2, <2>2, <3>1 DEF InvalidNow
    <3>2. CASE Evaluate /\ cache' # cache
      <4> DEFINE p == Top.cell
      <4>1. /\ Top.fn = "Update" /\ Pending = {}
            /\ cache' = [cache EXCEPT ![p] = Apply(content[p], Reading(content, cache, NoFresh))]
        BY <3>2 DEF Evaluate, In
      <4>2. Refs(content[p]) \cap InvalidNow = {}
        BY <4>1, TopFacts DEF Pending
      <4>3. stack[i + 1].cell # p
        BY <2>2, <2>3, <4>2
      <4>. QED BY <1>2, <2>2, <4>1, <4>3 DEF InvalidNow, Invalid, WalkInv, TableOK, Cache
    <3>. QED BY <1>3, <3>1, <3>2
  <2>. QED BY <2>1, <2>2, <2>4
<1>4. ASSUME cache' = cache, NEW f \in Frames, NEW S \in SUBSET Pos, stack' = Pushed(f, S),
             f.fn = "Update" => f.cell \in InvalidNow /\ f.left = Refs(content[f.cell]),
             Top.fn = "Update" => S \subseteq Top.left /\ f.cell \in Top.left
      PROVE  RefreshesOK'
  <2> DEFINE s == Pushed(f, S)
  <2>1. /\ Len(s) = Len(stack) + 1
        /\ Left(S).fn = Top.fn /\ Left(S).cell = Top.cell /\ Left(S).left = S
        /\ \A i \in 1 .. Len(s) :
             \/ i = 1 /\ s[i] = f
             \/ i = 2 /\ s[i] = Left(S)
             \/ i > 2 /\ i - 1 \in 2 .. Len(stack) /\ s[i] = stack[i - 1]
    BY <1>1, PushParts
  <2> DEFINE g == Left(S)
  <2>2. InvalidNow' = InvalidNow /\ stack' = s
    BY <1>2, <1>4 DEF InvalidNow
  <2>3. 1 \in 1 .. Len(s) /\ 2 \in 1 .. Len(s) /\ s[1] = f /\ s[2] = g
    <3>1. 1 \in 1 .. Len(s) /\ 2 \in 1 .. Len(s)
      BY <1>1, <2>1
    <3>. QED BY <2>1, <3>1
  <2>4. g.fn = Top.fn /\ g.cell = Top.cell /\ g.left = S
    BY <2>1
  <2> HIDE DEF s, g
  <2> SUFFICES ASSUME NEW i \in 1 .. Len(s), s[i].fn = "Update"
               PROVE  /\ s[i].cell \in InvalidNow
                      /\ s[i].left \subseteq Refs(content[s[i].cell])
                      /\ i > 1 => s[i - 1].cell \in Refs(content[s[i].cell])
    BY <1>2, <2>2 DEF RefreshesOK
  <2>5. CASE i = 1
    BY <1>4, <2>3, <2>5
  <2>6. CASE i = 2
    <3>1. Top.cell \in InvalidNow /\ Top.left \subseteq Refs(content[Top.cell])
      BY <1>1, <2>3, <2>4, <2>6 DEF RefreshesOK
    <3>. QED BY <1>4, <2>3, <2>4, <2>6, <3>1
  <2>7. CASE i > 2
    <3>1. i - 1 \in 2 .. Len(stack) /\ s[i] = stack[i - 1]
      BY <2>1, <2>7 DEF s, g
    <3>2. /\ s[i].cell \in InvalidNow /\ s[i].left \subseteq Refs(content[s[i].cell])
          /\ stack[i - 2].cell \in Refs(content[s[i].cell])
      <4>1. i - 1 \in 1 .. Len(stack) /\ i - 1 > 1 /\ (i - 1) - 1 = i - 2
        BY <1>1, <3>1
      <4>. QED BY <3>1, <4>1 DEF RefreshesOK
    <3>3. s[i - 1].cell = stack[i - 2].cell
      <4>1. CASE i = 3
        BY <1>1, <2>3, <2>4, <4>1
      <4>2. CASE i > 3
        <5>1. i - 1 \in 1 .. Len(s) /\ i - 1 > 2 /\ (i - 1) - 1 = i - 2
          BY <1>1, <2>1, <4>2 DEF s
        <5>. QED BY <2>1, <5>1 DEF s
      <4>. QED BY <2>7, <4>1, <4>2
    <3>. QED BY <3>2, <3>3
  <2>. QED BY <1>1, <2>1, <2>5, <2>6, <2>7 DEF s
<1>5. CASE ~(stack' = Below /\ (Evaluate \/ (Top.fn # "Update" /\ cache' = cache)))
  <2>1. /\ cache' = cache
        /\ \E f \in Frames, S \in SUBSET Pos :
             /\ stack' = Pushed(f, S) /\ f.fn \in Evaluating
             /\ f.fn = "Update" => f.cell \in InvalidNow /\ f.left = Refs(content[f.cell])
             /\ Top.fn = "Update" => S \subseteq Top.left /\ f.cell \in Top.left
    BY <1>5, EvaluatingShape
  <2>. QED BY <1>4, <2>1
<1>. QED BY <1>3, <1>5

LEMMA CachesGoOn ==
  ASSUME WalkInv, RefreshesOK, CachesOK, ~Idle, ~Idle',
         RefreshNext \/ Evaluate \/ CheckNext \/ ReadNext \/ ReadsEnd
  PROVE  CachesOK'
<1>1. UNCHANGED <<content, usedBy, call>> /\ Others' = Others /\ Others \in SUBSET Pos
  BY EvaluatingShape DEF Others
<1>2. content \in Contents /\ cache \in Cache
  BY DEF WalkInv, TableOK
<1>3. CASE cache' = cache
  BY <1>1, <1>3 DEF CachesOK
<1>4. CASE cache' # cache
  <2> DEFINE p == Top.cell
  <2>1. Evaluate
    BY <1>4, EvaluatingShape
  <2>2. /\ Top.fn = "Update" /\ Pending = {}
        /\ cache' = [cache EXCEPT ![p] = Apply(content[p], Reading(content, cache, NoFresh))]
    BY <1>4, <2>1 DEF Evaluate, In
  <2>3. p \in Invalid(content, cache)
    <3>1. 1 \in 1 .. Len(stack) /\ Top = stack[1]
      BY StackParts DEF WalkInv, StackOK
    <3>. QED BY <2>2, <3>1 DEF RefreshesOK, InvalidNow
  <2>4. Refs(content[p]) \cap Invalid(content, cache) = {}
    BY <2>2, TopFacts DEF Pending, InvalidNow
  <2> PICK S \in SUBSET Pos : S = Others
    BY <1>1
  <2>5. \A q \in S : RightAt(content, usedBy, cache, q)
    BY DEF CachesOK
  <2> HIDE DEF p
  <2>6. \A q \in S : RightAt(content, usedBy, cache', q)
    <3> PICK n : n = cache'
      OBVIOUS
    <3>1. n = [cache EXCEPT ![p] = Apply(content[p], Reading(content, cache, NoFresh))]
      BY <2>2
    <3>2. \A q \in S : RightAt(content, usedBy, n, q)
      BY <1>2, <2>3, <2>4, <2>5, <3>1, RefreshOne, Zenon
    <3>. QED BY <3>2
  <2>. QED BY <1>1, <2>6 DEF CachesOK
<1>. QED BY <1>3, <1>4

\* A call that begins leaves the caches it does not set right.
LEMMA BeginFormulaCaches ==
  ASSUME WalkInv, NEW p \in Pos, NEW t \in Text, BeginFormula(p, t)
  PROVE  CachesInv'
<1> DEFINE f == Frame("CheckDependency", p, Refs(t))
           g == Frame("HandleFormulaCreation", p, Refs(t))
           refs == {r \in Refs(t) : CellExists(Started(p), r)}
<1>1. /\ content' = Started(p) /\ usedBy' = Link(Forgotten(p), refs, p) /\ cache' = cache
      /\ Begin("SetCell", p, t, <<f, g>>) /\ stack' = <<f, g>>
  BY DEF BeginFormula, Registered, Begin
<1>2. f.fn # "Update" /\ g.fn # "Update"
  BY DEF Frame
<1> HIDE DEF f, g, refs
<1>3. /\ call'.cell = p /\ call'.op = "SetCell" /\ call'.content = content
      /\ call'.usedBy = usedBy /\ call'.cache = cache
  BY <1>1, Started1
<1>4. TableOK /\ content \in Contents /\ cache \in Cache
  BY DEF WalkInv, TableOK
<1>5. /\ Started(p) \in Contents /\ SameCells(content, Started(p))
      /\ \A r, q \in Pos : q # p => usedBy'[r][q] = usedBy[r][q]
  <2>1. Started(p) \in Contents /\ SameCells(content, Started(p))
    BY <1>4, StartedTypes DEF Started, Created, SameCells, Contents
  <2>. QED BY <1>1, <1>4, <2>1, BareStart, LinkFacts
<1>6. RefreshesOK'
  <2>1. Len(stack') = 2 /\ stack'[1] = f /\ stack'[2] = g
    BY <1>1
  <2>2. \A i \in 1 .. Len(stack') : i = 1 \/ i = 2
    BY <2>1
  <2>. QED BY <1>2, <2>1, <2>2 DEF RefreshesOK
<1>7. CachesBefore' => CachesOK'
  <2> SUFFICES ASSUME CachesBefore', NEW q \in Pos \ {p}
               PROVE  RightAt(Started(p), usedBy', cache, q)
    BY <1>1, <1>3 DEF CachesOK, Others
  <2>1. RightAt(content, usedBy, cache, q)
    BY <1>3, RightEverywhere DEF CachesBefore, EdgesBefore
  <2>. QED BY <1>4, <1>5, <2>1, RightOfOthers
<1>. QED BY <1>6, <1>7 DEF CachesInv

LEMMA BeginReadsCaches ==
  ASSUME WalkInv, NEW op, op # "SetCell", NEW p, NEW S, BeginReads(op, p, S)
  PROVE  CachesInv'
<1> DEFINE f == Frame("GetValue", p, S)
<1>1. /\ UNCHANGED <<content, usedBy, cache>> /\ Begin(op, p, EmptyText, <<f>>)
      /\ stack' = <<f>>
  BY DEF BeginReads, Begin
<1>2. f.fn # "Update"
  BY DEF Frame
<1> HIDE DEF f
<1>3. /\ call'.op = op /\ call'.content = content
      /\ call'.usedBy = usedBy /\ call'.cache = cache
  BY <1>1, Started1
<1>4. RefreshesOK'
  BY <1>1, <1>2 DEF RefreshesOK
<1>5. CachesBefore' => CachesOK'
  BY <1>1, <1>3, RightEverywhere DEF CachesBefore, EdgesBefore, CachesOK, Others
<1>. QED BY <1>4, <1>5 DEF CachesInv

\* A walk whose current frame changes the table refreshes nothing.
LEMMA ChangingCaches ==
  ASSUME WalkInv', Top'.fn \in Changing, ~Idle'
  PROVE  CachesInv'
<1>1. \A x \in Changing : x \notin Evaluating /\ x # "Update"
  BY DEF Changing, Evaluating
<1>2. 1 \in 1 .. Len(stack') /\ Top' = stack'[1]
  <2>1. stack' \in Seq(Frames) /\ stack' # <<>>
    BY DEF WalkInv, StackOK, Idle
  <2>. QED BY <2>1, EmptySeq DEF Top
<1>3. \A i \in 1 .. Len(stack') : stack'[i].fn # "Update"
  BY <1>1, <1>2 DEF WalkInv, KindsOK
<1>. QED BY <1>1, <1>3 DEF CachesInv, RefreshesOK

\* After a step of InvalidateCache or CreateMissing the current frame changes the
\* table too.
LEMMA ChangingGoesOn ==
  ASSUME WalkInv, WalkInv', ~Idle, ~Idle', InvalidateNext \/ CreateMissing
  PROVE  Top'.fn \in Changing
<1>1. /\ stack \in Seq(Frames) /\ Len(stack) \in Nat \ {0} /\ Top = stack[1]
      /\ Len(Below) = Len(stack) - 1
      /\ \A i \in 1 .. Len(Below) : Below[i] = stack[i + 1]
  BY StackParts DEF WalkInv, StackOK
<1>2. stack[1].fn \in Changing
  BY <1>1 DEF InvalidateNext, CreateMissing, In, Changing
<1>3. \A i \in 1 .. Len(stack) : stack[i].fn \in Changing
  BY <1>1, <1>2, NoUpdateAmongChanging DEF WalkInv
<1>4. CASE Resume(Below)
  <2>1. stack' = Below /\ Below # <<>>
    BY <1>4, Returned
  <2>2. Len(Below) \in Nat \ {0} /\ Top' = Below[1]
    BY <1>1, <2>1, EmptySeq DEF Top, WalkInv, StackOK
  <2>. QED BY <1>1, <1>3, <2>2
<1>5. ASSUME NEW d, NEW S, Call(InvalidateUsers(d, usedBy), S)
      PROVE  Top'.fn \in Changing
  <2>1. stack' = Pushed(InvalidateUsers(d, usedBy), S)
    BY <1>5, Called
  <2>. QED BY <2>1 DEF Top, Pushed, InvalidateUsers, Frame, Changing
<1>. QED BY <1>4, <1>5 DEF InvalidateNext, Invalidated, CreateMissing

LEMMA NextCachesInv ==
  WalkInv /\ CachesInv /\ [NextWalk]_walkVars => CachesInv'
<1> SUFFICES ASSUME WalkInv, CachesInv, [NextWalk]_walkVars, ~Idle'
             PROVE  CachesInv'
  BY DEF CachesInv
<1>1. WalkInv'
  BY NextWalkInv
<1>2. CASE CallWithoutWalk
  BY <1>2 DEF CallWithoutWalk, Ready, Idle
<1>3. CASE BeginCall
  <2>1. ASSUME NEW p \in Pos, NEW t, BeginText(p, t) \/ BeginClear(p)
        PROVE  CachesInv'
    <3>1. Top'.fn \in Changing
      BY <2>1 DEF BeginText, BeginClear, Begin, Top, InvalidateUsers, Frame, Changing
    <3>. QED BY <1>1, <3>1, ChangingCaches
  <2>2. ASSUME NEW p \in Pos, NEW t \in Entered(p), BeginFormula(p, t)
        PROVE  CachesInv'
    <3>1. t \in Text
      BY WalkAssumption
    <3>. QED BY <2>2, <3>1, BeginFormulaCaches
  <2>. QED BY <1>3, <2>1, <2>2, BeginReadsCaches DEF BeginCall
<1>4. CASE Step
  <2>1. ~Idle
    BY <1>4 DEF Step, InvalidateNext, RefreshNext, Evaluate, CheckNext, CycleIsFound,
       EvaluationFails, EvaluationThrows, Install, CreateMissing, Destroy, ReadNext,
       ReadsEnd, In
  <2>2. CASE RefreshNext \/ Evaluate \/ CheckNext \/ ReadNext \/ ReadsEnd
    <3>1. Top.fn \in Evaluating /\ call' = call
      BY <2>1, <2>2, EvaluatingShape
    <3>2. CachesBefore' = CachesBefore
      BY <3>1 DEF CachesBefore, EdgesBefore
    <3>3. RefreshesOK /\ (CachesBefore => CachesOK)
      BY <2>1, <3>1 DEF CachesInv
    <3>4. RefreshesOK' /\ (CachesBefore => CachesOK')
      BY <2>1, <2>2, <3>3, RefreshesGoOn, CachesGoOn
    <3>. QED BY <3>2, <3>4 DEF CachesInv
  <2>3. CASE CycleIsFound \/ EvaluationFails \/ EvaluationThrows \/ Destroy
    BY <2>3 DEF CycleIsFound, EvaluationFails, EvaluationThrows, Destroy, Reject, End, Idle
  <2>4. CASE Install
    <3>1. Top'.fn \in Changing
      BY <2>4, Returned DEF Install, Top, InvalidateUsers, Frame, Changing
    <3>. QED BY <1>1, <3>1, ChangingCaches
  <2>5. CASE InvalidateNext \/ CreateMissing
    BY <1>1, <2>1, <2>5, ChangingGoesOn, ChangingCaches
  <2>. QED BY <1>4, <2>2, <2>3, <2>4, <2>5 DEF Step
<1>5. CASE UNCHANGED walkVars
  BY <1>5 DEF walkVars, CachesInv, CachesOK, RefreshesOK, CachesBefore, EdgesBefore, Idle,
     InvalidNow, Top, Others
<1>. QED BY <1>2, <1>3, <1>4, <1>5 DEF NextWalk

\* Only an unreadable literal breaks a walk off, and it changes nothing more.
LEMMA BrokenOff ==
  ASSUME [NextWalk]_walkVars, Ends, outcome' = "out_of_range"
  PROVE  /\ ~Idle /\ Top.fn \in Evaluating
         /\ UNCHANGED <<content, usedBy, cache>>
<1>1. ~Idle /\ stack # <<>> /\ stack' = <<>>
  BY DEF Ends, Idle
<1>2. ~CallWithoutWalk /\ ~BeginCall /\ ~UNCHANGED walkVars
  BY <1>1 DEF CallWithoutWalk, BeginCall, BeginReads, BeginClear, BeginText,
     BeginFormula, Ready, walkVars
<1>3. \A frames : ~Resume(frames)
  BY <1>1 DEF Resume, End
<1>4. \A f, S : ~Call(f, S)
  BY <1>3 DEF Call, End
<1>5. ~InvalidateNext /\ ~RefreshNext /\ ~CheckNext /\ ~Install /\ ~CreateMissing
      /\ ~ReadNext /\ ~ReadsEnd
  BY <1>3, <1>4 DEF InvalidateNext, Invalidated, RefreshNext, CheckNext, Install,
     CreateMissing, ReadNext, ReadsEnd
<1>6. ~Destroy /\ ~CycleIsFound /\ ~EvaluationFails
  BY DEF Destroy, CycleIsFound, EvaluationFails, Reject, End
<1>7. Evaluate \/ EvaluationThrows
  BY <1>2, <1>5, <1>6 DEF NextWalk, Step
<1>. QED BY <1>1, <1>3, <1>7 DEF Evaluate, EvaluationThrows, In, Evaluating

\* Wherever an exception breaks a walk off, the cells it has refreshed hold their
\* values, and none is valid that reads an invalid one.
THEOREM BrokenWalksAreHarmless == SpecWalk => BrokenWalksKeepCaches
<1>1. InitWalk => CachesInv
  BY DEF InitWalk, CachesInv, Idle
<1>2. WalkInv /\ CachesInv /\ [NextWalk]_walkVars =>
        [(/\ Ends /\ outcome' = "out_of_range"
          /\ Seen!EdgesMatchFormulas /\ Seen!StaleUpwards /\ Seen!LinkedCellsAreCurrent) =>
           \A p \in Others : ValidOverValid(p)' /\ CurrentIfLinked(p)']_walkVars
  <2> SUFFICES ASSUME CachesInv, [NextWalk]_walkVars, Ends, outcome' = "out_of_range",
                      Seen!EdgesMatchFormulas, Seen!StaleUpwards, Seen!LinkedCellsAreCurrent,
                      NEW p \in Others
               PROVE  ValidOverValid(p)' /\ CurrentIfLinked(p)'
    OBVIOUS
  <2>1. ~Idle /\ Top.fn \in Evaluating /\ UNCHANGED <<content, usedBy, cache>>
    BY BrokenOff
  <2>2. RightAt(content, usedBy, cache, p)
    BY <2>1, SeenBefore DEF CachesInv, CachesOK
  <2>3. ValidOverValid(p) /\ CurrentIfLinked(p)
    BY <2>2 DEF RightAt, ValidOverValid, CurrentIfLinked, InvalidNow, Linked, GetReferencedCells
  <2>4. /\ ValidOverValid(p)' <=> ValidOverValid(p)
        /\ CurrentIfLinked(p)' <=> CurrentIfLinked(p)
    BY <2>1 DEF ValidOverValid, CurrentIfLinked, InvalidNow, Linked
  <2>. QED BY <2>3, <2>4
<1>. QED BY <1>1, <1>2, InitWalkInv, NextWalkInv, NextCachesInv, PTL
     DEF SpecWalk, BrokenWalksKeepCaches

-----------------------------------------------------------------------------
(* The walk of InvalidateCache from p, over the cells c and the graph u,   *)
(* with the caches k when it begins.                                       *)

ValidUsers(c, u, k) == [q \in Pos |-> {d \in Pos : u[q][d] > 0 /\ d \notin Invalid(c, k)}]
Reached(c, u, k, p) == Closure({p}, ValidUsers(c, u, k))

\* A loop of InvalidateCache has still to look at d.
Awaited(d) ==
  \E i \in 1 .. Len(stack) : stack[i].fn = "InvalidateCache" /\ d \in stack[i].left

\* It has marked the cells of V: whoever lists one of their users has marked
\* it, or some loop has still to look at it.
MarkedOK(V, c, u, k, p) ==
  /\ V \in SUBSET Reached(c, u, k, p) /\ p \in V
  /\ cache = [q \in Pos |-> IF q \in V THEN Stale ELSE k[q]]
  /\ \A q \in V : \A d \in ValidUsers(c, u, k)[q] : d \in V \/ Awaited(d)
  /\ \A i \in 1 .. Len(stack) : stack[i].fn = "InvalidateCache" =>
       stack[i].left \subseteq Reached(c, u, k, p) \cup Invalid(c, k)

\* The table is the one it began with, but for holders and entries that the
\* call has created for the references of p.
SameGraph(c, u, p) ==
  /\ \A q \in Pos : content[q] \in Formula <=> c[q] \in Formula
  /\ \A q, d \in Pos : /\ u[q][d] > 0 => usedBy[q][d] > 0
                       /\ usedBy[q][d] > 0 => u[q][d] > 0 \/ d = p

MarkingOK(c, u, k, p) == SameGraph(c, u, p) /\ \E V : MarkedOK(V, c, u, k, p)

\* When the loops have only invalid cells left, it has marked what
\* InvalidateCache says.
LEMMA MarkingEnds ==
  ASSUME NEW c, NEW u, NEW k, NEW p \in Pos, MarkingOK(c, u, k, p),
         \A d : Awaited(d) => d \in InvalidNow
  PROVE  cache = InvalidateCache(c, u, k, p)
<1> DEFINE next == ValidUsers(c, u, k)
<1>1. PICK V : MarkedOK(V, c, u, k, p)
  BY DEF MarkingOK
<1>2. /\ V \subseteq Reached(c, u, k, p) /\ p \in V
      /\ cache = [q \in Pos |-> IF q \in V THEN Stale ELSE k[q]]
      /\ \A q \in V : \A d \in next[q] : d \in V \/ Awaited(d)
  BY <1>1 DEF MarkedOK
<1>3. V \in SUBSET Pos
  BY <1>2, ClosureInPos DEF Reached
<1>4. ASSUME NEW q \in V, NEW d \in next[q] PROVE d \in V
  <2>1. d \in Pos /\ d \notin Invalid(c, k)
    BY <1>3, <1>4 DEF ValidUsers
  <2>2. d \in InvalidNow => d \in V
    BY <1>2, <2>1 DEF SameGraph, Invalid, InvalidNow, MarkingOK
  <2>. QED BY <1>2, <1>4, <2>2
<1>5. Reached(c, u, k, p) \subseteq V
  <2>1. \A q \in V : next[q] \subseteq V
    BY <1>4
  <2> HIDE DEF next
  <2>. QED BY <1>2, <1>3, <2>1, ClosureLeast DEF Reached, next
<1>6. Reached(c, u, k, p) = V
  BY <1>2, <1>5
<1>. QED BY <1>2, <1>6 DEF InvalidateCache, Reached, ValidUsers

\* The first loops of an invalidation are about the users of p.
LEMMA MarkingBegins ==
  ASSUME NEW c, NEW u, NEW k \in Cache, NEW p \in Pos, SameGraph(c, u, p)',
         cache' = [k EXCEPT ![p] = Stale],
         Len(stack') \in Nat \ {0}, stack'[1] = InvalidateUsers(p, u),
         \A i \in 1 .. Len(stack') : stack'[i].fn = "InvalidateCache" => stack'[i] = stack'[1]
  PROVE  MarkingOK(c, u, k, p)'
<1> DEFINE next == ValidUsers(c, u, k)
           f == InvalidateUsers(p, u)
<1>1. f.fn = "InvalidateCache" /\ f.left = {d \in Pos : u[p][d] > 0}
  BY DEF InvalidateUsers, Frame
<1>2. next[p] = f.left \ Invalid(c, k) /\ next[p] \in SUBSET Pos
  BY <1>1 DEF ValidUsers
<1> HIDE DEF f
<1>3. p \in Reached(c, u, k, p)
  BY ClosureContains DEF Reached
<1>4. next[p] \subseteq Reached(c, u, k, p)
  BY <1>2, <1>3, ClosureClosed DEF Reached
<1>5. f.left \subseteq Reached(c, u, k, p) \cup Invalid(c, k)
  BY <1>2, <1>4
<1>6. cache' = [q \in Pos |-> IF q \in {p} THEN Stale ELSE k[q]]
  BY DEF Cache
<1>7. stack'[1] = f /\ 1 \in 1 .. Len(stack')
  BY DEF f
<1>8. MarkedOK({p}, c, u, k, p)'
  <2>1. \A d \in next[p] : Awaited(d)'
    BY <1>1, <1>2, <1>7 DEF Awaited
  <2>2. \A i \in 1 .. Len(stack') : stack'[i].fn = "InvalidateCache" =>
          stack'[i].left \subseteq Reached(c, u, k, p) \cup Invalid(c, k)
    BY <1>5, <1>7
  <2>3. {p} \in SUBSET Reached(c, u, k, p)
    BY <1>3
  <2> HIDE DEF next
  <2>. QED BY <1>6, <2>1, <2>2, <2>3 DEF MarkedOK, next
<1>. QED BY <1>8 DEF MarkingOK

\* One turn of a loop keeps that.
LEMMA MarkingGoesOn ==
  ASSUME WalkInv, InvalidateNext, outcome' # "StackOverflow",
         NEW c, NEW u, NEW k, NEW p \in Pos, MarkingOK(c, u, k, p)
  PROVE  MarkingOK(c, u, k, p)'
<1> DEFINE next == ValidUsers(c, u, k)
           R == Reached(c, u, k, p)
           I == Invalid(c, k)
<1>1. ~Idle /\ Top.fn = "InvalidateCache" /\ UNCHANGED <<content, usedBy>>
  BY DEF InvalidateNext, In
<1>2. /\ Len(stack) \in Nat \ {0} /\ Top = stack[1] /\ Top.left \in SUBSET Pos
      /\ Len(Below) = Len(stack) - 1
      /\ \A i \in 1 .. Len(Below) : Below[i] = stack[i + 1]
  BY <1>1, StackParts DEF WalkInv, StackOK, Frames
<1>3. SameGraph(c, u, p) /\ SameGraph(c, u, p)'
  BY <1>1 DEF MarkingOK, SameGraph
<1>4. PICK V : MarkedOK(V, c, u, k, p)
  BY DEF MarkingOK
<1>5. /\ V \in SUBSET R /\ p \in V
      /\ cache = [q \in Pos |-> IF q \in V THEN Stale ELSE k[q]]
      /\ \A q \in V : \A d \in next[q] : d \in V \/ Awaited(d)
      /\ \A i \in 1 .. Len(stack) : stack[i].fn = "InvalidateCache" =>
           stack[i].left \subseteq R \cup I
  BY <1>4 DEF MarkedOK
<1>6. R \in SUBSET Pos /\ I \in SUBSET Pos /\ \A q \in Pos : next[q] \in SUBSET (Pos \ I)
  BY ClosureInPos DEF Reached, ValidUsers, Invalid
<1>7. \A d \in Pos : d \in I => d \in InvalidNow
  BY <1>3, <1>5 DEF SameGraph, Invalid, InvalidNow
<1>8. \A d \in Pos : (d \in InvalidNow /\ d \notin I) => d \in V
  BY <1>3, <1>5 DEF SameGraph, Invalid, InvalidNow
<1>9. CASE Top.left \ InvalidNow = {}
  <2>1. stack' = Below /\ cache' = cache
    BY <1>9, <1>1 DEF InvalidateNext, Resume, End
  <2>2. ASSUME NEW q \in V, NEW d \in next[q], d \notin V PROVE Awaited(d)'
    <3>1. PICK i \in 1 .. Len(stack) : stack[i].fn = "InvalidateCache" /\ d \in stack[i].left
      BY <1>5, <2>2 DEF Awaited
    <3>2. d \in Pos /\ d \notin I
      BY <1>5, <1>6, <2>2
    <3>3. i # 1
      BY <1>2, <1>8, <1>9, <2>2, <3>1, <3>2
    <3>4. i - 1 \in 1 .. Len(Below) /\ Below[i - 1] = stack[(i - 1) + 1] /\ (i - 1) + 1 = i
      BY <1>2, <3>3
    <3>. QED BY <2>1, <3>1, <3>4 DEF Awaited
  <2>3. \A i \in 1 .. Len(Below) : Below[i].fn = "InvalidateCache" => Below[i].left \subseteq R \cup I
    BY <1>2, <1>5
  <2>4. MarkedOK(V, c, u, k, p)'
    BY <1>5, <2>1, <2>2, <2>3 DEF MarkedOK
  <2>. QED BY <1>3, <2>4 DEF MarkingOK
<1>10. CASE Top.left \ InvalidNow # {}
  <2>1. PICK d \in Top.left \ InvalidNow : Invalidated(d)
    BY <1>10 DEF InvalidateNext
  <2> DEFINE f == InvalidateUsers(d, usedBy)
             S == Top.left \ {d}
  <2>2. cache' = [cache EXCEPT ![d] = Stale] /\ stack' = Pushed(f, S) /\ d \in Pos
    BY <1>2, <2>1 DEF Invalidated, Call, End, Resume, Pushed, Left
  <2>3. /\ f \in Frames /\ f.fn = "InvalidateCache" /\ f.left = {e \in Pos : usedBy[d][e] > 0}
        /\ S \in SUBSET Pos
    BY <1>2, <2>2 DEF InvalidateUsers, Frame, Frames, Loops
  <2> HIDE DEF f, S
  <2>4. /\ Len(stack') = Len(stack) + 1
        /\ stack'[1] = f /\ stack'[2] = Left(S)
        /\ \A i \in 2 .. Len(stack) : stack'[i + 1] = stack[i]
        /\ \A i \in 1 .. Len(stack') : i = 1 \/ i = 2 \/ (i - 1 \in 2 .. Len(stack) /\ stack'[i] = stack[i - 1])
    <3>1. stack \in Seq(Frames)
      BY DEF WalkInv, StackOK
    <3>. QED BY <1>1, <1>2, <2>2, <2>3, <3>1, PushParts
  <2>5. Left(S).fn = "InvalidateCache" /\ Left(S).left = S
    <3>1. stack \in Seq(Frames)
      BY DEF WalkInv, StackOK
    <3>. QED BY <1>1, <2>3, <3>1, PushParts
  <2>6. d \in R
    <3>1. d \in R \cup I
      BY <1>1, <1>2, <1>5, <2>1
    <3>. QED BY <1>7, <2>1, <2>2, <3>1
  <2>7. \A e \in f.left : e \in R \cup I
    <3> SUFFICES ASSUME NEW e \in Pos, usedBy[d][e] > 0, e \notin I PROVE e \in R
      BY <2>3
    <3>1. CASE e = p
      BY <1>5, <3>1
    <3>2. CASE u[d][e] > 0
      <4>1. e \in next[d]
        BY <2>2, <3>2 DEF ValidUsers
      <4>. QED BY <2>6, <4>1, ClosureClosed DEF Reached
    <3>. QED BY <1>3, <2>2, <3>1, <3>2 DEF SameGraph
  <2>8. cache' = [q \in Pos |-> IF q \in V \cup {d} THEN Stale ELSE k[q]]
    BY <1>5, <2>2
  <2>9. \A e \in f.left : Awaited(e)'
    BY <1>2, <2>3, <2>4 DEF Awaited
  <2>10. ASSUME NEW e, Awaited(e), e # d PROVE Awaited(e)'
    <3>1. PICK i \in 1 .. Len(stack) : stack[i].fn = "InvalidateCache" /\ e \in stack[i].left
      BY <2>10 DEF Awaited
    <3>2. CASE i = 1
      <4>1. e \in S
        BY <1>2, <2>10, <3>1, <3>2 DEF S
      <4>2. 2 \in 1 .. Len(stack')
        BY <1>2, <2>4
      <4>. QED BY <2>4, <2>5, <4>1, <4>2 DEF Awaited
    <3>3. CASE i # 1
      <4>1. i \in 2 .. Len(stack) /\ i + 1 \in 1 .. Len(stack')
        BY <1>2, <2>4, <3>3
      <4>. QED BY <2>4, <3>1, <4>1 DEF Awaited
    <3>. QED BY <3>2, <3>3
  <2>11. ASSUME NEW q \in V \cup {d}, NEW e \in next[q]
         PROVE  e \in V \cup {d} \/ Awaited(e)'
    <3>1. CASE q \in V
      BY <1>5, <2>10, <2>11, <3>1
    <3>2. CASE q = d
      <4>1. e \in Pos /\ u[d][e] > 0
        BY <2>2, <2>11, <3>2 DEF ValidUsers
      <4>2. e \in f.left
        BY <1>3, <2>2, <2>3, <4>1 DEF SameGraph
      <4>. QED BY <2>9, <4>2
    <3>. QED BY <2>11, <3>1, <3>2
  <2>12. \A i \in 1 .. Len(stack') : stack'[i].fn = "InvalidateCache" => stack'[i].left \subseteq R \cup I
    <3> TAKE i \in 1 .. Len(stack')
    <3>1. CASE i = 1
      BY <2>4, <2>7, <3>1
    <3>2. CASE i = 2
      <4>1. S \subseteq R \cup I
        BY <1>1, <1>2, <1>5 DEF S
      <4>. QED BY <2>4, <2>5, <3>2, <4>1
    <3>3. CASE i # 1 /\ i # 2
      <4>1. i - 1 \in 1 .. Len(stack) /\ stack'[i] = stack[i - 1]
        BY <1>2, <2>4, <3>3
      <4>. QED BY <1>5, <4>1
    <3>. QED BY <3>1, <3>2, <3>3
  <2>13. V \cup {d} \in SUBSET R /\ p \in V \cup {d}
    BY <1>5, <2>6
  <2>14. MarkedOK(V \cup {d}, c, u, k, p)'
    <3> HIDE DEF next
    <3>. QED BY <2>8, <2>11, <2>12, <2>13 DEF MarkedOK, next
  <2>. QED BY <1>3, <2>14 DEF MarkingOK
<1>. QED BY <1>9, <1>10

-----------------------------------------------------------------------------
(* Stacks as high as they may be.                                          *)

\* A call puts its frame on top, and the loop of its caller below that.
LEMMA PushedStack ==
  ASSUME stack \in Seq(Frames), ~Idle, NEW f \in Frames, NEW S \in SUBSET Pos,
         stack' = Pushed(f, S)
  PROVE  /\ Len(stack) \in Nat \ {0} /\ Len(stack') = Len(stack) + 1
         /\ stack'[1] = f /\ stack'[2] = Left(S)
         /\ stack[1] = Top
         /\ Left(S).fn = Top.fn /\ Left(S).cell = Top.cell /\ Left(S).left = S
         /\ \A i \in 2 .. Len(stack) : stack'[i + 1] = stack[i]
         /\ \A i \in 1 .. Len(stack) :
              stack'[i + 1].fn = stack[i].fn /\ stack'[i + 1].cell = stack[i].cell
         /\ \A i \in 1 .. Len(stack') : i = 1 \/ i - 1 \in 1 .. Len(stack)
<1>1. /\ Len(stack) \in Nat \ {0} /\ Top = stack[1] /\ Len(stack') = Len(stack) + 1
      /\ Left(S).fn = Top.fn /\ Left(S).cell = Top.cell /\ Left(S).left = S
  BY StackParts, PushParts
<1>2. \A i \in 1 .. Len(stack') :
         \/ i = 1 /\ stack'[i] = f
         \/ i = 2 /\ stack'[i] = Left(S)
         \/ i > 2 /\ i - 1 \in 2 .. Len(stack) /\ stack'[i] = stack[i - 1]
  BY PushParts
<1>3. stack'[1] = f /\ stack'[2] = Left(S)
  <2>1. 1 \in 1 .. Len(stack') /\ 2 \in 1 .. Len(stack')
    BY <1>1
  <2>. QED BY <1>2, <2>1
<1>4. ASSUME NEW i \in 2 .. Len(stack) PROVE stack'[i + 1] = stack[i]
  <2>1. i + 1 \in 1 .. Len(stack') /\ i + 1 > 2 /\ (i + 1) - 1 = i
    BY <1>1
  <2>. QED BY <1>2, <2>1
<1>5. ASSUME NEW i \in 1 .. Len(stack)
      PROVE  stack'[i + 1].fn = stack[i].fn /\ stack'[i + 1].cell = stack[i].cell
  <2>1. CASE i = 1
    BY <1>1, <1>3, <2>1
  <2>2. CASE i # 1
    BY <1>1, <1>4, <2>2
  <2>. QED BY <2>1, <2>2
<1>6. \A i \in 1 .. Len(stack') : i = 1 \/ i - 1 \in 1 .. Len(stack)
  BY <1>1
<1>. QED BY <1>1, <1>3, <1>4, <1>5, <1>6

\* A return leaves the frames that were below.
LEMMA PoppedStack ==
  ASSUME stack \in Seq(Frames), ~Idle, stack' = Below
  PROVE  /\ Len(stack) \in Nat \ {0} /\ Len(stack') = Len(stack) - 1
         /\ stack[1] = Top
         /\ \A i \in 1 .. Len(stack') : stack'[i] = stack[i + 1] /\ i + 1 \in 1 .. Len(stack)
BY StackParts

\* Of more frames than there are cells, two are of the same cell.
LEMMA TwoAlike ==
  ASSUME stack \in Seq(Frames), NEW n \in Nat, n <= Len(stack), n > Cardinality(Pos)
  PROVE  \E i \in 1 .. n : \E j \in 1 .. n : i < j /\ stack[i].cell = stack[j].cell
<1> DEFINE f == [i \in 1 .. n |-> stack[i].cell]
<1>1. Len(stack) \in Nat /\ \A i \in 1 .. Len(stack) : stack[i] \in Frames
  OBVIOUS
<1>2. f \in [1 .. n -> Pos]
  BY <1>1 DEF Frames
<1>3. IsFiniteSet(1 .. n) /\ Cardinality(1 .. n) = n
  BY FS_Interval
<1>4. IsFiniteSet(Pos) /\ Cardinality(Pos) < Cardinality(1 .. n)
  BY <1>3, DepthSuffices
<1>5. PICK i \in 1 .. n, j \in 1 .. n : i # j /\ f[i] = f[j]
  <2> HIDE DEF f
  <2>. QED BY <1>2, <1>3, <1>4, FS_PigeonHole
<1>. QED BY <1>5

\* When each frame was called for the one below it, that is a cycle.
LEMMA AlikeIsCycle ==
  ASSUME stack \in Seq(Frames), NEW S, NEW next,
         NEW i \in 1 .. Len(stack), NEW j \in 1 .. Len(stack), i < j,
         stack[i].cell = stack[j].cell,
         \A m \in i .. j : stack[m].cell \in S,
         \A m \in i + 1 .. j : stack[m - 1].cell \in next[stack[m].cell]
  PROVE  Cyclic(S, next)
<1> DEFINE X == {stack[m].cell : m \in i + 1 .. j}
<1>1. X \in SUBSET S /\ X # {}
  <2>1. j \in i + 1 .. j /\ \A m \in i + 1 .. j : m \in i .. j
    OBVIOUS
  <2>. QED BY <2>1
<1>2. ASSUME NEW m \in i + 1 .. j PROVE next[stack[m].cell] \cap X # {}
  <2>1. stack[m - 1].cell \in next[stack[m].cell]
    BY <1>2
  <2>2. CASE m - 1 = i
    <3>1. stack[m - 1].cell = stack[j].cell /\ j \in i + 1 .. j
      BY <2>2
    <3>. QED BY <2>1, <3>1
  <2>3. CASE m - 1 # i
    <3>1. m - 1 \in i + 1 .. j
      BY <2>3
    <3>. QED BY <2>1, <3>1
  <2>. QED BY <2>2, <2>3
<1>3. \A x \in X : next[x] \cap X # {}
  BY <1>2
<1> HIDE DEF X
<1>. QED BY <1>1, <1>3 DEF Cyclic

-----------------------------------------------------------------------------
(* The size of the table while calls run.                                  *)

SizesOK == rowsCount \in 0 .. Rows /\ colsCount \in 0 .. Cols /\ SizeCovers

\* CreateCell at the cells of S covers them and all there were.
LEMMA GrowCoversMore ==
  ASSUME SizesOK, NEW S \in SUBSET Pos, GrowTo(S),
         \A q \in Pos : CellExists(content', q) => CellExists(content, q) \/ q \in S
  PROVE  SizesOK'
<1>1. /\ rowsCount \in Nat /\ colsCount \in Nat
      /\ rowsCount' \in 0 .. Rows /\ colsCount' \in 0 .. Cols
      /\ rowsCount <= rowsCount' /\ colsCount <= colsCount'
      /\ \A i \in {r.row : r \in S} : i < rowsCount'
      /\ \A j \in {r.col : r \in S} : j < colsCount'
  BY TableAssumption DEF SizesOK, GrowTo, Grown
<1>2. ASSUME NEW q \in Pos, CellExists(content', q)
      PROVE  q.row < rowsCount' /\ q.col < colsCount'
  <2>1. q.row \in Nat /\ q.col \in Nat
    BY TableAssumption DEF Pos, At
  <2>. QED BY <1>1, <1>2, <2>1, TableAssumption DEF SizesOK, SizeCovers
<1>. QED BY <1>1, <1>2 DEF SizesOK, SizeCovers

\* Every step of every walk keeps the size above every holder.
LEMMA NextSizes ==
  ASSUME WalkInv, SizesOK, [NextWalk]_walkVars,
         Install => CellExists(content, call.cell), CreateMissing => call.text \in Formula
  PROVE  SizesOK'
<1>1. content \in Contents /\ usedBy \in Graph
  BY DEF WalkInv, TableOK
<1> DEFINE Kept == \A q \in Pos : CellExists(content', q) => CellExists(content, q)
<1>2. CASE Kept /\ rowsCount' = rowsCount /\ colsCount' = colsCount
  BY <1>2 DEF SizesOK, SizeCovers
<1>3. CASE Kept /\ GrowToThenCount({}, content')
  <2>1. CASE /\ \A q \in Pos : ~CellExists(content', q)
             /\ rowsCount' = 0 /\ colsCount' = 0
    BY <2>1, TableAssumption DEF SizesOK, SizeCovers
  <2>2. CASE GrowTo({})
    BY <1>3, <2>2, GrowCoversMore
  <2>. QED BY <1>3, <2>1, <2>2 DEF GrowToThenCount
<1>4. ASSUME NEW p \in Pos, GrowTo({p}),
             \/ content' = Started(p)
             \/ \E t : content' = [content EXCEPT ![p] = t]
      PROVE  SizesOK'
  <2>1. \A q \in Pos : CellExists(content', q) => CellExists(content, q) \/ q \in {p}
    BY <1>1, <1>4 DEF Started, Created, CellExists, Contents
  <2>. QED BY <1>4, <2>1, GrowCoversMore
<1>5. ASSUME NEW p \in Pos,
             \/ SetCellToSameText(p) \/ ClearCell(p)
             \/ \E t \in Entered(p) : SetCellThrows(p, t)
      PROVE  SizesOK'
  <2>1. CASE SetCellToSameText(p)
    BY <1>4, <2>1 DEF SetCellToSameText
  <2>2. CASE ClearCell(p)
    <3>1. Kept
      BY <1>1, <2>2 DEF ClearCell, CellExists, Contents
    <3>. QED BY <1>3, <2>2, <3>1 DEF ClearCell
  <2>3. ASSUME NEW t, SetCellThrows(p, t) PROVE SizesOK'
    BY <1>4, <2>3 DEF SetCellThrows
  <2>. QED BY <1>5, <2>1, <2>2, <2>3
<1>6. CASE CallWithoutWalk
  <2>1. CASE RejectPosition
    <3>1. content' = content /\ rowsCount' = rowsCount /\ colsCount' = colsCount
      BY <2>1 DEF RejectPosition
    <3>. QED BY <1>2, <3>1
  <2>2. CASE ~RejectPosition
    <3>1. PICK p \in Pos : \/ SetCellToSameText(p) \/ ClearCell(p)
                           \/ \E t \in Entered(p) : SetCellThrows(p, t)
      BY <1>6, <2>2 DEF CallWithoutWalk
    <3>. QED BY <1>5, <3>1
  <2>. QED BY <2>1, <2>2
<1>7. ASSUME NEW p \in Pos, NEW t, BeginText(p, t) \/ BeginFormula(p, t) PROVE SizesOK'
  BY <1>4, <1>7 DEF BeginText, BeginFormula
<1>8. CASE BeginCall
  <2>1. ASSUME NEW p \in Pos, BeginClear(p) PROVE SizesOK'
    BY <1>2, <2>1 DEF BeginClear
  <2>2. ASSUME NEW op, NEW p, NEW S, BeginReads(op, p, S) PROVE SizesOK'
    BY <1>2, <2>2 DEF BeginReads
  <2>. QED BY <1>7, <1>8, <2>1, <2>2 DEF BeginCall
<1>9. ASSUME NEW result, ~Idle, Reject(result) PROVE SizesOK'
  <2>1. Kept
    BY <1>1, <1>9 DEF Reject, CellExists, Contents, WalkInv, CallOK
  <2>. QED BY <1>3, <1>9, <2>1 DEF Reject
<1>10. CASE Step
  <2>1. CASE InvalidateNext \/ RefreshNext \/ Evaluate \/ CheckNext \/ EvaluationThrows
             \/ ReadNext \/ ReadsEnd
    <3>1. content' = content /\ rowsCount' = rowsCount /\ colsCount' = colsCount
      BY <2>1 DEF InvalidateNext, RefreshNext, Evaluate, CheckNext, EvaluationThrows,
         ReadNext, ReadsEnd
    <3>. QED BY <1>2, <3>1
  <2>2. CASE CycleIsFound \/ EvaluationFails
    BY <1>9, <2>2 DEF CycleIsFound, EvaluationFails, In
  <2>3. CASE Install
    <3>1. Kept
      BY <1>1, <2>3 DEF Install, CellExists, Contents
    <3>. QED BY <1>2, <2>3, <3>1 DEF Install
  <2>4. CASE CreateMissing
    <3> DEFINE missing == {r \in Refs(call.text) : ~CellExists(content, r)}
    <3>1. missing \in SUBSET Pos
      BY <2>4, FormulaAssumption
    <3>2. GrowTo(missing) /\ content' = [q \in Pos |-> IF q \in missing THEN EmptyText ELSE content[q]]
      BY <2>4 DEF CreateMissing
    <3> HIDE DEF missing
    <3>3. \A q \in Pos : CellExists(content', q) => CellExists(content, q) \/ q \in missing
      BY <3>2 DEF CellExists
    <3>. QED BY <3>1, <3>2, <3>3, GrowCoversMore
  <2>5. CASE Destroy
    <3>1. Kept
      BY <1>1, <2>5, TopFacts DEF Destroy, CellExists, Contents, In
    <3>. QED BY <1>3, <2>5, <3>1 DEF Destroy
  <2>. QED BY <1>10, <2>1, <2>2, <2>3, <2>4, <2>5 DEF Step
<1>. QED BY <1>2, <1>6, <1>8, <1>10 DEF NextWalk, walkVars
=============================================================================
