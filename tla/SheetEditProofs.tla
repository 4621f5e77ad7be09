--------------------------- MODULE SheetEditProofs ----------------------------
(***************************************************************************)
(* Theorems about SheetEdit, for every table, every set of formulas that   *)
(* meets its assumptions, every range and every sequence of calls.         *)
(*                                                                         *)
(* The loops of the edits are folds.  A fold is the value of a recursive   *)
(* function; FoldExists and FoldKeeps are the induction over its set.      *)
(*                                                                         *)
(* First the types.  Then IntactIsTidy and the contract of the edits: the  *)
(* loops, each by the part of its set that is done (LoopInduction), rename *)
(* every use of what moves before they end (Edited), and what a call that  *)
(* is Edited leaves is a tidy table with the promised texts.               *)
(***************************************************************************)
EXTENDS SheetEdit, SheetProofs, ReferencesProofs, FiniteSetTheorems

-----------------------------------------------------------------------------
(* Folds.                                                                  *)

\* The subsets of S with at most n members.
Smaller(S, n) == {T \in SUBSET S : Cardinality(T) <= n}

\* The recursion of a fold: next takes the member ch[T] and the result for the
\* others to the result for T.
IsFold(it, S, base, ch, next) ==
  it = [T \in SUBSET S |-> IF T = {} THEN base ELSE next[<<ch[T], it[T \ {ch[T]}]>>]]

\* The recursion of a fold over a finite set has a solution.
LEMMA FoldExists ==
  ASSUME NEW S, IsFiniteSet(S), NEW base, NEW ch, NEW next,
         \A T \in SUBSET S : T # {} => ch[T] \in T
  PROVE  \E it : IsFold(it, S, base, ch, next)
<1> DEFINE Solves(it, n) == it = [T \in Smaller(S, n) |->
                         IF T = {} THEN base ELSE next[<<ch[T], it[T \ {ch[T]}]>>]]
           Missing == {n \in Nat : ~\E it : Solves(it, n)}
<1>1. \A T \in SUBSET S : IsFiniteSet(T) /\ Cardinality(T) \in Nat
  BY FS_Subset, FS_CardinalityType
<1>2. Smaller(S, 0) = {{}}
  <2>1. {} \in Smaller(S, 0)
    BY FS_EmptySet DEF Smaller
  <2>2. ASSUME NEW T \in Smaller(S, 0) PROVE T = {}
    <3>1. IsFiniteSet(T) /\ Cardinality(T) = 0
      BY <1>1 DEF Smaller
    <3>. QED BY <3>1, FS_EmptySet
  <2>. QED BY <2>1, <2>2
<1>3. \E it : Solves(it, 0)
  <2>1. Solves([T \in Smaller(S, 0) |-> base], 0)
    BY <1>2
  <2>. QED BY <2>1
<1>4. ASSUME NEW n \in Nat, NEW f, Solves(f, n)
      PROVE  \E it : Solves(it, n + 1)
  <2> DEFINE h == [T \in Smaller(S, n + 1) |->
                     IF T = {} THEN base ELSE next[<<ch[T], f[T \ {ch[T]}]>>]]
  <2>1. \A T \in Smaller(S, n) : T \in Smaller(S, n + 1)
    <3> SUFFICES ASSUME NEW T \in SUBSET S, Cardinality(T) <= n PROVE Cardinality(T) <= n + 1
      BY DEF Smaller
    <3>1. Cardinality(T) \in Nat
      BY <1>1
    <3>. QED BY <3>1
  <2>2. \A T \in Smaller(S, n) : h[T] = f[T]
    BY <1>4, <2>1
  <2>3. ASSUME NEW T \in Smaller(S, n + 1), T # {}
        PROVE  T \ {ch[T]} \in Smaller(S, n)
    <3>1. T \in SUBSET S /\ IsFiniteSet(T) /\ Cardinality(T) \in Nat /\ Cardinality(T) <= n + 1
      BY <1>1 DEF Smaller
    <3>2. ch[T] \in T
      BY <2>3, <3>1
    <3>3. Cardinality(T \ {ch[T]}) = Cardinality(T) - 1
      BY <3>1, <3>2, FS_RemoveElement
    <3>4. Cardinality(T \ {ch[T]}) <= n
      BY <3>1, <3>3
    <3>. QED BY <3>1, <3>4 DEF Smaller
  <2>4. h = [T \in Smaller(S, n + 1) |->
               IF T = {} THEN base ELSE next[<<ch[T], h[T \ {ch[T]}]>>]]
    BY <2>2, <2>3
  <2>. QED BY <2>4
<1>5. Missing = {}
  <2> SUFFICES ASSUME Missing # {} PROVE FALSE
    OBVIOUS
  <2> HIDE DEF Solves
  <2>0. Missing \in SUBSET Nat
    OBVIOUS
  <2>1. PICK n \in Missing : \A m \in Missing : n <= m
    BY <2>0, LeastNumber
  <2>2. n \in Nat /\ n # 0 /\ ~\E it : Solves(it, n)
    BY <1>3
  <2> PICK m \in Nat : n = m + 1
    BY <2>2
  <2>3. m \notin Missing
    BY <2>1, <2>2
  <2>4. PICK f : Solves(f, m)
    BY <2>3
  <2>5. \E it : Solves(it, m + 1)
    BY <1>4, <2>4
  <2>. QED BY <2>2, <2>5
<1>6. Smaller(S, Cardinality(S)) = SUBSET S /\ Cardinality(S) \in Nat
  <2>1. \A T \in SUBSET S : Cardinality(T) <= Cardinality(S)
    BY FS_Subset
  <2>. QED BY <2>1, FS_CardinalityType DEF Smaller
<1>7. \E it : Solves(it, Cardinality(S))
  <2> HIDE DEF Solves
  <2>. QED BY <1>5, <1>6
<1>. QED BY <1>6, <1>7 DEF IsFold

\* What the empty fold has, and each step keeps, every partial fold has.
LEMMA FoldKeeps ==
  ASSUME NEW S, IsFiniteSet(S), NEW it, NEW D,
         it[{}] \in D,
         \A T \in SUBSET S : T # {} => \E x \in T : it[T \ {x}] \in D => it[T] \in D
  PROVE  \A T \in SUBSET S : it[T] \in D
<1> DEFINE Wrong == {T \in SUBSET S : it[T] \notin D}
           Sizes == {Cardinality(T) : T \in Wrong}
<1> SUFFICES ASSUME Wrong # {} PROVE FALSE
  OBVIOUS
<1>1. \A T \in SUBSET S : IsFiniteSet(T) /\ Cardinality(T) \in Nat
  BY FS_Subset, FS_CardinalityType
<1>2. Sizes \in SUBSET Nat /\ Sizes # {}
  BY <1>1
<1>3. PICK n \in Sizes : \A m \in Sizes : n <= m
  BY <1>2, LeastNumber
<1>4. PICK T \in Wrong : Cardinality(T) = n
  BY <1>3
<1>5. PICK x \in T : it[T \ {x}] \notin D
  BY <1>4
<1>6. Cardinality(T \ {x}) = n - 1
  BY <1>1, <1>4, <1>5, FS_RemoveElement
<1>7. Cardinality(T \ {x}) \in Sizes
  BY <1>5
<1>8. n <= Cardinality(T \ {x})
  BY <1>3, <1>7
<1>9. n \in Nat
  BY <1>2
<1>. QED BY <1>6, <1>8, <1>9

\* A fold of steps that keep a type has a solution of that type.
LEMMA TypedFold ==
  ASSUME NEW S, IsFiniteSet(S), NEW D, NEW base \in D, NEW ch,
         NEW next \in [S \X D -> D],
         \A T \in SUBSET S : T # {} => ch[T] \in T
  PROVE  \E it \in [SUBSET S -> D] : IsFold(it, S, base, ch, next)
<1> PICK it : IsFold(it, S, base, ch, next)
  BY FoldExists
<1>1. \A T \in SUBSET S : it[T] = IF T = {} THEN base ELSE next[<<ch[T], it[T \ {ch[T]}]>>]
  BY DEF IsFold
<1>2. \A T \in SUBSET S : it[T] \in D
  <2>1. it[{}] \in D
    BY <1>1
  <2>2. ASSUME NEW T \in SUBSET S, T # {}, it[T \ {ch[T]}] \in D
        PROVE  it[T] \in D
    BY <1>1, <2>2
  <2>3. \A T \in SUBSET S : T # {} => \E x \in T : it[T \ {x}] \in D => it[T] \in D
    BY <2>2
  <2>. QED BY <2>1, <2>3, FoldKeeps
<1>3. it \in [SUBSET S -> D]
  BY <1>2 DEF IsFold
<1>. QED BY <1>3

-----------------------------------------------------------------------------
(* The orders of the loops.                                                *)

\* Rows, columns and positions of the table are finite sets of numbers.
LEMMA RowsFinite ==
  /\ IsFiniteSet(Row) /\ Row \subseteq Nat /\ Rows \in Nat /\ Cols \in Nat
  /\ \A p \in Pos : p.row \in Row /\ p.col \in 0 .. Cols - 1
<1>1. Rows \in Nat /\ Cols \in Nat
  BY TableAssumption
<1>2. IsFiniteSet(0 .. Rows - 1)
  BY <1>1, FS_Interval
<1>3. \A p \in Pos : p.row \in 0 .. Rows - 1 /\ p.col \in 0 .. Cols - 1
  BY PosIsFinite
<1>. QED BY <1>1, <1>2, <1>3 DEF Row

\* A bounded set of natural numbers has a greatest member.
LEMMA GreatestNumber ==
  ASSUME NEW T \in SUBSET Nat, T # {}, NEW b \in Nat, \A n \in T : n <= b
  PROVE  \E n \in T : \A m \in T : n >= m
<1> DEFINE U == {b - n : n \in T}
<1>1. U \in SUBSET Nat /\ U # {}
  <2>1. \A n \in T : b - n \in Nat
    OBVIOUS
  <2>. QED BY <2>1
<1>2. PICK k \in U : \A l \in U : k <= l
  BY <1>1, LeastNumber
<1>3. PICK n \in T : k = b - n
  BY <1>2
<1>4. ASSUME NEW m \in T PROVE n >= m
  <2>1. k <= b - m
    BY <1>2
  <2>. QED BY <1>3, <2>1
<1>. QED BY <1>4

\* The last position of a loop in either order, and the last index.
LEMMA LastIsMember ==
  ASSUME NEW S \in SUBSET Pos, S # {}
  PROVE  /\ Last(S, Forward) \in S /\ Last(S, Backward) \in S
         /\ \A x \in S \ {Last(S, Forward)} : Forward(x, Last(S, Forward))
         /\ \A x \in S \ {Last(S, Backward)} : Backward(x, Last(S, Backward))
<1>1. S \subseteq [row : Nat, col : Nat] /\ \A p \in S : p.row <= Rows /\ p.col <= Cols
  BY RowsFinite, PosIsFinite DEF Row
<1>2. PICK n \in {p.row : p \in S} : \A m \in {p.row : p \in S} : n >= m
  <2>1. {p.row : p \in S} \in SUBSET Nat /\ {p.row : p \in S} # {}
    BY <1>1
  <2>2. \A m \in {p.row : p \in S} : m <= Rows
    BY <1>1
  <2>. QED BY <2>1, <2>2, RowsFinite, GreatestNumber
<1> DEFINE Columns == {p.col : p \in {x \in S : x.row = n}}
<1>3. Columns \in SUBSET Nat /\ Columns # {} /\ \A m \in Columns : m <= Cols
  BY <1>1, <1>2
<1>4. PICK right \in Columns : \A m \in Columns : right >= m
  BY <1>3, RowsFinite, GreatestNumber
<1>5. PICK left \in Columns : \A m \in Columns : left <= m
  BY <1>3, LeastNumber
<1>6. PICK p \in S : p.row = n /\ p.col = right
  BY <1>4
<1>7. PICK q \in S : q.row = n /\ q.col = left
  BY <1>5
<1>8. \A x \in S \ {p} : Forward(x, p)
  <2> TAKE x \in S \ {p}
  <2>1. x \in [row : Nat, col : Nat] /\ p \in [row : Nat, col : Nat] /\ x # p
    BY <1>1
  <2>2. x.row <= p.row /\ (x.row = p.row => x.col <= p.col)
    BY <1>2, <1>4, <1>6
  <2>. QED BY <2>1, <2>2 DEF Forward
<1>9. \A x \in S \ {q} : Backward(x, q)
  <2> TAKE x \in S \ {q}
  <2>1. x \in [row : Nat, col : Nat] /\ q \in [row : Nat, col : Nat] /\ x # q
    BY <1>1
  <2>2. x.row <= q.row /\ (x.row = q.row => x.col >= q.col)
    BY <1>2, <1>5, <1>7
  <2>. QED BY <2>1, <2>2 DEF Backward
<1>. QED BY <1>8, <1>9 DEF Last

\* Max of a finite set of numbers is its greatest member.
LEMMA MaxIsMember ==
  ASSUME NEW S \in SUBSET Nat, S # {}, NEW b \in Nat, \A n \in S : n <= b
  PROVE  Max(S) \in S /\ \A n \in S : Max(S) >= n
BY GreatestNumber DEF Max

-----------------------------------------------------------------------------
(* The types of a call in progress.                                        *)

\* What holders hold during a call: renamed references may leave the table.
Written == Content \cup Seq(Reference)

EditState ==
  [at : [Pos -> Pos \cup {Absent}], content : [Pos -> Written],
   usedBy : Graph, cache : Cache, changed : SUBSET Pos, undefined : BOOLEAN]

\* What an edit leaves of the table it began with.
TableOK == content \in Contents /\ usedBy \in Graph /\ cache \in Cache

\* A call in progress starts with records of the types that the loops keep.
LEMMA BeganType == TableOK => Began \in EditState
<1> SUFFICES ASSUME TableOK PROVE Began \in EditState
  OBVIOUS
<1>1. content \in [Pos -> Written]
  BY DEF TableOK, Contents, Written
<1>. QED BY <1>1 DEF Began, EditState, TableOK

\* InvalidateCache keeps the types of a call in progress.
LEMMA InvalidateAllType ==
  ASSUME NEW e \in EditState, NEW S
  PROVE  InvalidateAll(e, S) \in EditState
<1> PICK reached : reached = Closure(S, [q \in Pos |-> Users(e, q) \ Invalid(e.content, e.cache)])
  OBVIOUS
<1> PICK dead : dead = Dead(e, UNION {Users(e, q) : q \in reached}) /\ dead \in BOOLEAN
  BY DEF Dead
<1>1. InvalidateAll(e, S) =
        [e EXCEPT !.cache = [q \in Pos |-> IF q \in reached THEN Stale ELSE @[q]],
                  !.undefined = @ \/ dead]
  BY DEF InvalidateAll
<1>2. [q \in Pos |-> IF q \in reached THEN Stale ELSE e.cache[q]] \in Cache
  BY DEF EditState, Cache
<1>. QED BY <1>1, <1>2 DEF EditState

\* Formulas are sequences of references, and renaming keeps them such.
LEMMA RenamedType ==
  ASSUME NEW f \in Formula, NEW axis \in Axis, NEW index \in Nat, NEW count \in Nat \ {0}
  PROVE  /\ InsertedAll(f, axis, index, count) \in Written
         /\ RemovedAll(f, axis, index, count) \in Written
<1>1. f \in Seq(Reference)
  BY EnteredAssumption DEF Reference
<1>. QED BY <1>1, CallsKeepSeq DEF Written

\* So does the renaming of the users of one cell, for an insertion.
LEMMA InsertUpdateType ==
  ASSUME NEW e \in EditState, NEW p \in Pos, NEW axis \in Axis,
         NEW before \in Nat, NEW count \in Nat \ {0}
  PROVE  UpdateFormulaOnInsert(e, p, axis, before, count) \in EditState
<1> PICK users \in SUBSET Pos : users = Users(e, e.at[p]) \ e.changed
  BY DEF Users
<1> PICK dead \in BOOLEAN : dead = Dead(e, users)
  BY DEF Dead
<1> DEFINE texts == [u \in Pos |-> IF u \in users /\ e.content[u] \in Formula
                                  THEN InsertedAll(e.content[u], axis, before, count)
                                  ELSE e.content[u]]
<1>1. texts \in [Pos -> Written]
  BY RenamedType DEF EditState
<1>2. \/ UpdateFormulaOnInsert(e, p, axis, before, count) = e
      \/ UpdateFormulaOnInsert(e, p, axis, before, count) =
           [e EXCEPT !.content = texts, !.changed = @ \cup users, !.undefined = @ \/ dead]
  BY DEF UpdateFormulaOnInsert, UpdateFormulas
<1> HIDE DEF texts
<1>. QED BY <1>1, <1>2 DEF EditState

\* So does the renaming of the users of one cell, for a deletion.
LEMMA DeleteUpdateType ==
  ASSUME NEW e \in EditState, NEW p \in Pos, NEW axis \in Axis,
         NEW first \in Nat, NEW count \in Nat \ {0}
  PROVE  UpdateFormulaOnDelete(e, p, axis, first, count) \in EditState
<1> PICK users \in SUBSET Pos : users = Users(e, e.at[p]) \ e.changed
  BY DEF Users
<1> PICK dead \in BOOLEAN : dead = Dead(e, users)
  BY DEF Dead
<1> DEFINE texts == [u \in Pos |-> IF u \in users /\ e.content[u] \in Formula
                                  THEN RemovedAll(e.content[u], axis, first, count)
                                  ELSE e.content[u]]
           done == [e EXCEPT !.content = texts, !.changed = @ \cup users, !.undefined = @ \/ dead]
<1>1. texts \in [Pos -> Written]
  BY RenamedType DEF EditState
<1>2. done \in EditState
  <2> HIDE DEF texts
  <2>. QED BY <1>1 DEF EditState
<1>3. \/ UpdateFormulaOnDelete(e, p, axis, first, count) = e
      \/ \E S : UpdateFormulaOnDelete(e, p, axis, first, count) = InvalidateAll(done, S)
  BY DEF UpdateFormulaOnDelete, UpdateFormulas
<1> HIDE DEF done
<1>. QED BY <1>2, <1>3, InvalidateAllType

\* So does ClearGraph: it only takes entries away.
LEMMA ClearGraphType ==
  ASSUME NEW e \in EditState, NEW h \in Pos
  PROVE  ClearGraph(e, h) \in EditState
<1> PICK found : found = {e.at[r] : r \in GetReferencedCells(e.content[h])} \ {Absent}
  OBVIOUS
<1> PICK u \in Graph : u = [Unlink(e.usedBy, found, h) EXCEPT ![h] = [x \in Pos |-> 0]]
  <2>1. e.usedBy \in Graph
    BY DEF EditState
  <2>2. Unlink(e.usedBy, found, h) \in Graph
    BY <2>1 DEF Unlink, Graph
  <2>. QED BY <2>2 DEF Graph
<1>1. ClearGraph(e, h) = [e EXCEPT !.usedBy = u]
  BY DEF ClearGraph
<1>. QED BY <1>1 DEF EditState

\* So does the destruction of a holder.
LEMMA DestroyType ==
  ASSUME NEW e \in EditState, NEW p \in Pos
  PROVE  Destroy(e, p) \in EditState
<1>1. CASE e.at[p] = Absent
  BY <1>1 DEF Destroy
<1>2. CASE e.at[p] # Absent
  <2> PICK h \in Pos : h = e.at[p]
    BY <1>2 DEF EditState
  <2> PICK c \in [Pos -> Written] : c = [e.content EXCEPT ![h] = Absent]
    BY DEF EditState, Written, Content
  <2> PICK u \in Graph : u = [e.usedBy EXCEPT ![h] = [x \in Pos |-> 0]]
    BY DEF EditState, Graph
  <2> PICK k \in Cache : k = [e.cache EXCEPT ![h] = Stale]
    BY DEF EditState, Cache
  <2> PICK a \in [Pos -> Pos \cup {Absent}] : a = [e.at EXCEPT ![p] = Absent]
    BY DEF EditState
  <2>1. Destroy(e, p) = [e EXCEPT !.content = c, !.usedBy = u, !.cache = k, !.at = a]
    BY <1>2 DEF Destroy
  <2>. QED BY <2>1 DEF EditState
<1>. QED BY <1>1, <1>2

\* So does the move of a holder, with the destruction of what was there.
LEMMA MoveType ==
  ASSUME NEW e \in EditState, NEW p \in Pos, NEW q
  PROVE  q \in Pos => Move(e, p, q) \in EditState
<1> SUFFICES ASSUME q \in Pos PROVE Move(e, p, q) \in EditState
  OBVIOUS
<1> PICK d \in EditState : d = Destroy(e, q)
  BY DestroyType
<1>1. Move(e, p, q) = e \/ Move(e, p, q) = [d EXCEPT !.at = [[@ EXCEPT ![q] = e.at[p]] EXCEPT ![p] = Absent]]
  BY DEF Move
<1>2. [[d.at EXCEPT ![q] = e.at[p]] EXCEPT ![p] = Absent] \in [Pos -> Pos \cup {Absent}]
  BY DEF EditState
<1>. QED BY <1>1, <1>2 DEF EditState

-----------------------------------------------------------------------------
(* The types of the loops.                                                 *)

\* A loop over positions whose steps keep the type has a solution that does.
LEMMA LoopExists ==
  ASSUME NEW e \in EditState, NEW S \in SUBSET Pos, NEW next \in [S \X EditState -> EditState]
  PROVE  /\ \E it \in [SUBSET S -> EditState] :
              IsFold(it, S, e, [T \in SUBSET S |-> Last(T, Forward)], next)
         /\ \E it \in [SUBSET S -> EditState] :
              IsFold(it, S, e, [T \in SUBSET S |-> Last(T, Backward)], next)
<1>1. IsFiniteSet(S)
  BY PosIsFinite, FS_Subset
<1>2. \A T \in SUBSET S : T # {} => Last(T, Forward) \in T /\ Last(T, Backward) \in T
  BY LastIsMember
<1> DEFINE down == [T \in SUBSET S |-> Last(T, Forward)]
           up == [T \in SUBSET S |-> Last(T, Backward)]
<1>3. \A T \in SUBSET S : T # {} => down[T] \in T /\ up[T] \in T
  BY <1>2
<1> HIDE DEF down, up
<1>4. /\ \E it \in [SUBSET S -> EditState] : IsFold(it, S, e, down, next)
      /\ \E it \in [SUBSET S -> EditState] : IsFold(it, S, e, up, next)
  BY <1>1, <1>3, TypedFold
<1>. QED BY <1>4 DEF down, up

\* Every solution of its recursion keeps the type.
LEMMA LoopKeeps ==
  ASSUME NEW S \in SUBSET Pos, NEW it, it[{}] \in EditState,
         \/ \A T \in SUBSET S : (T # {} /\ it[T \ {Last(T, Forward)}] \in EditState)
                                => it[T] \in EditState
         \/ \A T \in SUBSET S : (T # {} /\ it[T \ {Last(T, Backward)}] \in EditState)
                                => it[T] \in EditState
  PROVE  \A T \in SUBSET S : it[T] \in EditState
<1>1. \A T \in SUBSET S : T # {} => Last(T, Forward) \in T /\ Last(T, Backward) \in T
  BY LastIsMember
<1>2. \A T \in SUBSET S : T # {} =>
        \E x \in T : it[T \ {x}] \in EditState => it[T] \in EditState
  BY <1>1
<1>3. IsFiniteSet(S)
  BY PosIsFinite, FS_Subset
<1>. QED BY <1>2, <1>3, FoldKeeps

\* The same for a loop over rows.
LEMMA MaxOfRows ==
  ASSUME NEW S \in SUBSET Row
  PROVE  \A T \in SUBSET S : T # {} => Max(T) \in T /\ \A n \in T : Max(T) >= n
<1>1. \A n \in Row : n \in Nat /\ n <= Rows
  BY RowsFinite DEF Row
<1> SUFFICES ASSUME NEW T \in SUBSET S, T # {}
             PROVE  Max(T) \in T /\ \A n \in T : Max(T) >= n
  OBVIOUS
<1>2. T \in SUBSET Nat /\ \A n \in T : n <= Rows
  BY <1>1
<1>. QED BY <1>2, RowsFinite, MaxIsMember

\* The recursion of a loop over a set of rows, the last index outermost.
LEMMA IndexLoopExists ==
  ASSUME NEW e \in EditState, NEW S \in SUBSET Row, NEW next \in [S \X EditState -> EditState]
  PROVE  \E it \in [SUBSET S -> EditState] :
           IsFold(it, S, e, [T \in SUBSET S |-> Max(T)], next)
<1>1. IsFiniteSet(S)
  BY RowsFinite, FS_Subset
<1> DEFINE last == [T \in SUBSET S |-> Max(T)]
<1>2. \A T \in SUBSET S : T # {} => last[T] \in T
  BY MaxOfRows
<1> HIDE DEF last
<1>3. \E it \in [SUBSET S -> EditState] : IsFold(it, S, e, last, next)
  BY <1>1, <1>2, TypedFold
<1>. QED BY <1>3 DEF last

\* What each step of a loop over rows keeps, the loop keeps.
LEMMA IndexLoopKeeps ==
  ASSUME NEW S \in SUBSET Row, NEW it, it[{}] \in EditState,
         \A T \in SUBSET S : (T # {} /\ it[T \ {Max(T)}] \in EditState) => it[T] \in EditState
  PROVE  \A T \in SUBSET S : it[T] \in EditState
<1>1. \A T \in SUBSET S : T # {} =>
        \E x \in T : it[T \ {x}] \in EditState => it[T] \in EditState
  BY MaxOfRows
<1>2. IsFiniteSet(S)
  BY RowsFinite, FS_Subset
<1>. QED BY <1>1, <1>2, FoldKeeps

\* A cell that is deleted.
LEMMA DeleteCellType ==
  ASSUME NEW e \in EditState, NEW p \in Pos, NEW axis \in Axis,
         NEW first \in Nat, NEW count \in Nat \ {0}
  PROVE  DeleteCell(e, p, axis, first, count) \in EditState
<1>1. CASE e.at[p] = Absent
  BY <1>1 DEF DeleteCell
<1>2. CASE e.at[p] # Absent
  <2> PICK h \in Pos : h = e.at[p]
    BY <1>2 DEF EditState
  <2> PICK updated \in EditState : updated = UpdateFormulaOnDelete(e, p, axis, first, count)
    BY DeleteUpdateType
  <2> PICK stale \in EditState : stale = InvalidateAll(updated, {h})
    BY InvalidateAllType
  <2> PICK cleared \in EditState : cleared = ClearGraph(stale, h)
    BY ClearGraphType
  <2>1. DeleteCell(e, p, axis, first, count) = Destroy(cleared, p)
    BY <1>2 DEF DeleteCell
  <2>. QED BY <2>1, DestroyType
<1>. QED BY <1>1, <1>2

\* resize destroys what is behind the new end.
DestroyAllSteps(it, e, places) ==
  /\ it[{}] = e
  /\ \A T \in SUBSET places : T # {} =>
       LET p == Last(T, Forward)
       IN  /\ p \in T /\ it[T \ {p}] \in EditState /\ it[T] \in EditState
           /\ it[T] = Destroy(it[T \ {p}], p)

\* DestroyAll, one cell at a time.
LEMMA DestroyAllUnfolds ==
  ASSUME NEW e \in EditState, NEW places \in SUBSET Pos
  PROVE  \E it : /\ DestroyAll(e, places) = it[places] /\ it[places] \in EditState
                /\ DestroyAllSteps(it, e, places)
<1> DEFINE S == places
           Step(p, x) == Destroy(x, p)
           next == [z \in S \X EditState |-> Step(z[1], z[2])]
           Solves(it) == it = [T \in SUBSET S |->
             IF T = {} THEN e ELSE Step(Last(T, Forward), it[T \ {Last(T, Forward)}])]
<1>1. S \in SUBSET Pos
  BY DEF InRow
<1>2. ASSUME NEW p \in S, NEW x \in EditState
      PROVE  Step(p, x) \in EditState
  BY <1>1, DestroyType
<1>3. \A T \in SUBSET S : T # {} => Last(T, Forward) \in T
  BY <1>1, LastIsMember
<1>4. \E it : Solves(it)
  <2>1. next \in [S \X EditState -> EditState]
    BY <1>2
  <2> HIDE DEF S, Step, next
  <2>2. PICK it \in [SUBSET S -> EditState] :
          IsFold(it, S, e, [T \in SUBSET S |-> Last(T, Forward)], next)
    BY <1>1, <2>1, LoopExists
  <2>3. Solves(it)
    BY <1>3, <2>2 DEF IsFold, next
  <2>. QED BY <2>3
<1>5. PICK it : Solves(it) /\ DestroyAll(e, places) = it[S]
  <2> DEFINE sol == CHOOSE it : Solves(it)
  <2>1. Solves(sol)
    BY <1>4
  <2>2. DestroyAll(e, places) = sol[S]
    BY DEF DestroyAll, ForEach, MapThenFoldSet
  <2>. QED BY <2>1, <2>2
<1> HIDE DEF S, Step, DestroyAllSteps
<1>6. it[{}] = e /\ it[{}] \in EditState
  BY <1>5
<1>7. \A T \in SUBSET S : T # {} => it[T] = Step(Last(T, Forward), it[T \ {Last(T, Forward)}])
  BY <1>5
<1>8. ASSUME NEW T \in SUBSET S, T # {}, it[T \ {Last(T, Forward)}] \in EditState
      PROVE  it[T] \in EditState
  <2>1. Last(T, Forward) \in S
    BY <1>3, <1>8
  <2>. QED BY <1>2, <1>7, <1>8, <2>1
<1>9. \A T \in SUBSET S : it[T] \in EditState
  BY <1>1, <1>6, <1>8, LoopKeeps
<1>10. it[S] \in EditState /\ \A T \in SUBSET S : T \ {Last(T, Forward)} \in SUBSET S
  BY <1>9
<1>11. \A T \in SUBSET S : T # {} =>
         LET p == Last(T, Forward)
         IN  /\ p \in T /\ it[T \ {p}] \in EditState /\ it[T] \in EditState
             /\ it[T] = Step(p, it[T \ {p}])
  BY <1>3, <1>7, <1>9, <1>10
<1>. QED BY <1>5, <1>6, <1>10, <1>11 DEF S, Step, DestroyAllSteps

\* A resize keeps the types.
LEMMA DestroyAllType ==
  ASSUME NEW e \in EditState, NEW places \in SUBSET Pos
  PROVE  DestroyAll(e, places) \in EditState
BY DestroyAllUnfolds

\* The updates of one row before it moves.
InsertUpdatesSteps(it, e, i, before, count) ==
  /\ it[{}] = e
  /\ \A T \in SUBSET InRow(i) : T # {} =>
       LET p == Last(T, Forward)
       IN  /\ p \in T /\ it[T \ {p}] \in EditState /\ it[T] \in EditState
           /\ it[T] = UpdateFormulaOnInsert(it[T \ {p}], p, "row", before, count)

\* UpdateRowOnInsert, one cell at a time.
LEMMA InsertUpdatesUnfolds ==
  ASSUME NEW e \in EditState, NEW i \in Row,
         NEW before \in Nat, NEW count \in Nat \ {0}
  PROVE  \E it : /\ UpdateRowOnInsert(e, i, before, count) = it[InRow(i)] /\ it[InRow(i)] \in EditState
                /\ InsertUpdatesSteps(it, e, i, before, count)
<1> DEFINE S == InRow(i)
           Step(p, x) == UpdateFormulaOnInsert(x, p, "row", before, count)
           next == [z \in S \X EditState |-> Step(z[1], z[2])]
           Solves(it) == it = [T \in SUBSET S |->
             IF T = {} THEN e ELSE Step(Last(T, Forward), it[T \ {Last(T, Forward)}])]
<1>1. S \in SUBSET Pos
  BY DEF InRow
<1>2. ASSUME NEW p \in S, NEW x \in EditState
      PROVE  Step(p, x) \in EditState
  BY <1>1, InsertUpdateType DEF Axis
<1>3. \A T \in SUBSET S : T # {} => Last(T, Forward) \in T
  BY <1>1, LastIsMember
<1>4. \E it : Solves(it)
  <2>1. next \in [S \X EditState -> EditState]
    BY <1>2
  <2> HIDE DEF S, Step, next
  <2>2. PICK it \in [SUBSET S -> EditState] :
          IsFold(it, S, e, [T \in SUBSET S |-> Last(T, Forward)], next)
    BY <1>1, <2>1, LoopExists
  <2>3. Solves(it)
    BY <1>3, <2>2 DEF IsFold, next
  <2>. QED BY <2>3
<1>5. PICK it : Solves(it) /\ UpdateRowOnInsert(e, i, before, count) = it[S]
  <2> DEFINE sol == CHOOSE it : Solves(it)
  <2>1. Solves(sol)
    BY <1>4
  <2>2. UpdateRowOnInsert(e, i, before, count) = sol[S]
    BY DEF UpdateRowOnInsert, ForEach, MapThenFoldSet
  <2>. QED BY <2>1, <2>2
<1> HIDE DEF S, Step, InsertUpdatesSteps
<1>6. it[{}] = e /\ it[{}] \in EditState
  BY <1>5
<1>7. \A T \in SUBSET S : T # {} => it[T] = Step(Last(T, Forward), it[T \ {Last(T, Forward)}])
  BY <1>5
<1>8. ASSUME NEW T \in SUBSET S, T # {}, it[T \ {Last(T, Forward)}] \in EditState
      PROVE  it[T] \in EditState
  <2>1. Last(T, Forward) \in S
    BY <1>3, <1>8
  <2>. QED BY <1>2, <1>7, <1>8, <2>1
<1>9. \A T \in SUBSET S : it[T] \in EditState
  BY <1>1, <1>6, <1>8, LoopKeeps
<1>10. it[S] \in EditState /\ \A T \in SUBSET S : T \ {Last(T, Forward)} \in SUBSET S
  BY <1>9
<1>11. \A T \in SUBSET S : T # {} =>
         LET p == Last(T, Forward)
         IN  /\ p \in T /\ it[T \ {p}] \in EditState /\ it[T] \in EditState
             /\ it[T] = Step(p, it[T \ {p}])
  BY <1>3, <1>7, <1>9, <1>10
<1>. QED BY <1>5, <1>6, <1>10, <1>11 DEF S, Step, InsertUpdatesSteps

\* UpdateRowOnInsert keeps the types.
LEMMA InsertUpdatesType ==
  ASSUME NEW e \in EditState, NEW i \in Row,
         NEW before \in Nat, NEW count \in Nat \ {0}
  PROVE  UpdateRowOnInsert(e, i, before, count) \in EditState
BY InsertUpdatesUnfolds

\* The same for a deletion.
DeleteUpdatesSteps(it, e, i, first, count) ==
  /\ it[{}] = e
  /\ \A T \in SUBSET InRow(i) : T # {} =>
       LET p == Last(T, Forward)
       IN  /\ p \in T /\ it[T \ {p}] \in EditState /\ it[T] \in EditState
           /\ it[T] = UpdateFormulaOnDelete(it[T \ {p}], p, "row", first, count)

\* UpdateRowOnDelete, one cell at a time.
LEMMA DeleteUpdatesUnfolds ==
  ASSUME NEW e \in EditState, NEW i \in Row,
         NEW first \in Nat, NEW count \in Nat \ {0}
  PROVE  \E it : /\ UpdateRowOnDelete(e, i, first, count) = it[InRow(i)] /\ it[InRow(i)] \in EditState
                /\ DeleteUpdatesSteps(it, e, i, first, count)
<1> DEFINE S == InRow(i)
           Step(p, x) == UpdateFormulaOnDelete(x, p, "row", first, count)
           next == [z \in S \X EditState |-> Step(z[1], z[2])]
           Solves(it) == it = [T \in SUBSET S |->
             IF T = {} THEN e ELSE Step(Last(T, Forward), it[T \ {Last(T, Forward)}])]
<1>1. S \in SUBSET Pos
  BY DEF InRow
<1>2. ASSUME NEW p \in S, NEW x \in EditState
      PROVE  Step(p, x) \in EditState
  BY <1>1, DeleteUpdateType DEF Axis
<1>3. \A T \in SUBSET S : T # {} => Last(T, Forward) \in T
  BY <1>1, LastIsMember
<1>4. \E it : Solves(it)
  <2>1. next \in [S \X EditState -> EditState]
    BY <1>2
  <2> HIDE DEF S, Step, next
  <2>2. PICK it \in [SUBSET S -> EditState] :
          IsFold(it, S, e, [T \in SUBSET S |-> Last(T, Forward)], next)
    BY <1>1, <2>1, LoopExists
  <2>3. Solves(it)
    BY <1>3, <2>2 DEF IsFold, next
  <2>. QED BY <2>3
<1>5. PICK it : Solves(it) /\ UpdateRowOnDelete(e, i, first, count) = it[S]
  <2> DEFINE sol == CHOOSE it : Solves(it)
  <2>1. Solves(sol)
    BY <1>4
  <2>2. UpdateRowOnDelete(e, i, first, count) = sol[S]
    BY DEF UpdateRowOnDelete, ForEach, MapThenFoldSet
  <2>. QED BY <2>1, <2>2
<1> HIDE DEF S, Step, DeleteUpdatesSteps
<1>6. it[{}] = e /\ it[{}] \in EditState
  BY <1>5
<1>7. \A T \in SUBSET S : T # {} => it[T] = Step(Last(T, Forward), it[T \ {Last(T, Forward)}])
  BY <1>5
<1>8. ASSUME NEW T \in SUBSET S, T # {}, it[T \ {Last(T, Forward)}] \in EditState
      PROVE  it[T] \in EditState
  <2>1. Last(T, Forward) \in S
    BY <1>3, <1>8
  <2>. QED BY <1>2, <1>7, <1>8, <2>1
<1>9. \A T \in SUBSET S : it[T] \in EditState
  BY <1>1, <1>6, <1>8, LoopKeeps
<1>10. it[S] \in EditState /\ \A T \in SUBSET S : T \ {Last(T, Forward)} \in SUBSET S
  BY <1>9
<1>11. \A T \in SUBSET S : T # {} =>
         LET p == Last(T, Forward)
         IN  /\ p \in T /\ it[T \ {p}] \in EditState /\ it[T] \in EditState
             /\ it[T] = Step(p, it[T \ {p}])
  BY <1>3, <1>7, <1>9, <1>10
<1>. QED BY <1>5, <1>6, <1>10, <1>11 DEF S, Step, DeleteUpdatesSteps

\* UpdateRowOnDelete keeps the types.
LEMMA DeleteUpdatesType ==
  ASSUME NEW e \in EditState, NEW i \in Row,
         NEW first \in Nat, NEW count \in Nat \ {0}
  PROVE  UpdateRowOnDelete(e, i, first, count) \in EditState
BY DeleteUpdatesUnfolds

\* A row moves.
MoveRowSteps(it, e, i, j) ==
  /\ it[{}] = e
  /\ \A T \in SUBSET InRow(i) : T # {} =>
       LET p == Last(T, Forward)
       IN  /\ p \in T /\ it[T \ {p}] \in EditState /\ it[T] \in EditState
           /\ it[T] = Move(it[T \ {p}], p, At(j, p.col))

\* MoveRow, one cell at a time.
LEMMA MoveRowUnfolds ==
  ASSUME NEW e \in EditState, NEW i \in Row, NEW j \in Row
  PROVE  \E it : /\ MoveRow(e, i, j) = it[InRow(i)] /\ it[InRow(i)] \in EditState
                /\ MoveRowSteps(it, e, i, j)
<1> DEFINE S == InRow(i)
           Step(p, x) == Move(x, p, At(j, p.col))
           next == [z \in S \X EditState |-> Step(z[1], z[2])]
           Solves(it) == it = [T \in SUBSET S |->
             IF T = {} THEN e ELSE Step(Last(T, Forward), it[T \ {Last(T, Forward)}])]
<1>1. S \in SUBSET Pos
  BY DEF InRow
<1>2. ASSUME NEW p \in S, NEW x \in EditState
      PROVE  Step(p, x) \in EditState
  <2>1. At(j, p.col) \in Pos
    BY <1>1, RowsFinite DEF Pos, Row
  <2>. QED BY <1>1, <2>1, MoveType
<1>3. \A T \in SUBSET S : T # {} => Last(T, Forward) \in T
  BY <1>1, LastIsMember
<1>4. \E it : Solves(it)
  <2>1. next \in [S \X EditState -> EditState]
    BY <1>2
  <2> HIDE DEF S, Step, next
  <2>2. PICK it \in [SUBSET S -> EditState] :
          IsFold(it, S, e, [T \in SUBSET S |-> Last(T, Forward)], next)
    BY <1>1, <2>1, LoopExists
  <2>3. Solves(it)
    BY <1>3, <2>2 DEF IsFold, next
  <2>. QED BY <2>3
<1>5. PICK it : Solves(it) /\ MoveRow(e, i, j) = it[S]
  <2> DEFINE sol == CHOOSE it : Solves(it)
  <2>1. Solves(sol)
    BY <1>4
  <2>2. MoveRow(e, i, j) = sol[S]
    BY DEF MoveRow, ForEach, MapThenFoldSet
  <2>. QED BY <2>1, <2>2
<1> HIDE DEF S, Step, MoveRowSteps
<1>6. it[{}] = e /\ it[{}] \in EditState
  BY <1>5
<1>7. \A T \in SUBSET S : T # {} => it[T] = Step(Last(T, Forward), it[T \ {Last(T, Forward)}])
  BY <1>5
<1>8. ASSUME NEW T \in SUBSET S, T # {}, it[T \ {Last(T, Forward)}] \in EditState
      PROVE  it[T] \in EditState
  <2>1. Last(T, Forward) \in S
    BY <1>3, <1>8
  <2>. QED BY <1>2, <1>7, <1>8, <2>1
<1>9. \A T \in SUBSET S : it[T] \in EditState
  BY <1>1, <1>6, <1>8, LoopKeeps
<1>10. it[S] \in EditState /\ \A T \in SUBSET S : T \ {Last(T, Forward)} \in SUBSET S
  BY <1>9
<1>11. \A T \in SUBSET S : T # {} =>
         LET p == Last(T, Forward)
         IN  /\ p \in T /\ it[T \ {p}] \in EditState /\ it[T] \in EditState
             /\ it[T] = Step(p, it[T \ {p}])
  BY <1>3, <1>7, <1>9, <1>10
<1>. QED BY <1>5, <1>6, <1>10, <1>11 DEF S, Step, MoveRowSteps

\* MoveRow keeps the types.
LEMMA MoveRowType ==
  ASSUME NEW e \in EditState, NEW i \in Row, NEW j \in Row
  PROVE  MoveRow(e, i, j) \in EditState
BY MoveRowUnfolds

\* The deleted cells of a row go.
DeleteCellsSteps(it, e, places, axis, first, count) ==
  /\ it[{}] = e
  /\ \A T \in SUBSET places : T # {} =>
       LET p == Last(T, Forward)
       IN  /\ p \in T /\ it[T \ {p}] \in EditState /\ it[T] \in EditState
           /\ it[T] = DeleteCell(it[T \ {p}], p, axis, first, count)

\* DeleteCells, one cell at a time.
LEMMA DeleteCellsUnfolds ==
  ASSUME NEW e \in EditState, NEW places \in SUBSET Pos, NEW axis \in Axis,
         NEW first \in Nat, NEW count \in Nat \ {0}
  PROVE  \E it : /\ DeleteCells(e, places, axis, first, count) = it[places] /\ it[places] \in EditState
                /\ DeleteCellsSteps(it, e, places, axis, first, count)
<1> DEFINE S == places
           Step(p, x) == DeleteCell(x, p, axis, first, count)
           next == [z \in S \X EditState |-> Step(z[1], z[2])]
           Solves(it) == it = [T \in SUBSET S |->
             IF T = {} THEN e ELSE Step(Last(T, Forward), it[T \ {Last(T, Forward)}])]
<1>1. S \in SUBSET Pos
  BY DEF InRow
<1>2. ASSUME NEW p \in S, NEW x \in EditState
      PROVE  Step(p, x) \in EditState
  BY <1>1, DeleteCellType
<1>3. \A T \in SUBSET S : T # {} => Last(T, Forward) \in T
  BY <1>1, LastIsMember
<1>4. \E it : Solves(it)
  <2>1. next \in [S \X EditState -> EditState]
    BY <1>2
  <2> HIDE DEF S, Step, next
  <2>2. PICK it \in [SUBSET S -> EditState] :
          IsFold(it, S, e, [T \in SUBSET S |-> Last(T, Forward)], next)
    BY <1>1, <2>1, LoopExists
  <2>3. Solves(it)
    BY <1>3, <2>2 DEF IsFold, next
  <2>. QED BY <2>3
<1>5. PICK it : Solves(it) /\ DeleteCells(e, places, axis, first, count) = it[S]
  <2> DEFINE sol == CHOOSE it : Solves(it)
  <2>1. Solves(sol)
    BY <1>4
  <2>2. DeleteCells(e, places, axis, first, count) = sol[S]
    BY DEF DeleteCells, ForEach, MapThenFoldSet
  <2>. QED BY <2>1, <2>2
<1> HIDE DEF S, Step, DeleteCellsSteps
<1>6. it[{}] = e /\ it[{}] \in EditState
  BY <1>5
<1>7. \A T \in SUBSET S : T # {} => it[T] = Step(Last(T, Forward), it[T \ {Last(T, Forward)}])
  BY <1>5
<1>8. ASSUME NEW T \in SUBSET S, T # {}, it[T \ {Last(T, Forward)}] \in EditState
      PROVE  it[T] \in EditState
  <2>1. Last(T, Forward) \in S
    BY <1>3, <1>8
  <2>. QED BY <1>2, <1>7, <1>8, <2>1
<1>9. \A T \in SUBSET S : it[T] \in EditState
  BY <1>1, <1>6, <1>8, LoopKeeps
<1>10. it[S] \in EditState /\ \A T \in SUBSET S : T \ {Last(T, Forward)} \in SUBSET S
  BY <1>9
<1>11. \A T \in SUBSET S : T # {} =>
         LET p == Last(T, Forward)
         IN  /\ p \in T /\ it[T \ {p}] \in EditState /\ it[T] \in EditState
             /\ it[T] = Step(p, it[T \ {p}])
  BY <1>3, <1>7, <1>9, <1>10
<1>. QED BY <1>5, <1>6, <1>10, <1>11 DEF S, Step, DeleteCellsSteps

\* DeleteCells keeps the types.
LEMMA DeleteCellsType ==
  ASSUME NEW e \in EditState, NEW places \in SUBSET Pos, NEW axis \in Axis,
         NEW first \in Nat, NEW count \in Nat \ {0}
  PROVE  DeleteCells(e, places, axis, first, count) \in EditState
BY DeleteCellsUnfolds

\* InsertRows.
InsertRowsSteps(it, before, count) ==
  /\ it[{}] = Began
  /\ \A T \in SUBSET (before .. before + count - 1) : T # {} =>
       LET i == Max(T)
       IN  /\ i \in T /\ it[T \ {i}] \in EditState /\ it[T] \in EditState
           /\ it[T] = MoveRow(UpdateRowOnInsert(it[T \ {i}], i, before, count), i, i + count)

\* InsertRowsLoop, one row at a time.
LEMMA InsertRowsUnfolds ==
  ASSUME TableOK, NEW before \in Nat, NEW count \in Nat \ {0},
         rowsCount \in Int, rowsCount + count <= Rows, before + count <= rowsCount
  PROVE  \E it : /\ InsertRowsLoop(before, count) = it[before .. before + count - 1] /\ it[before .. before + count - 1] \in EditState
                /\ InsertRowsSteps(it, before, count)
<1> DEFINE S == before .. before + count - 1
           Step(i, x) == MoveRow(UpdateRowOnInsert(x, i, before, count), i, i + count)
           next == [z \in S \X EditState |-> Step(z[1], z[2])]
           Solves(it) == it = [T \in SUBSET S |->
             IF T = {} THEN Began ELSE Step(Max(T), it[T \ {Max(T)}])]
<1>1. S \in SUBSET Row
  BY RowsFinite DEF Row
<1>2. ASSUME NEW i \in S, NEW x \in EditState
      PROVE  Step(i, x) \in EditState
  <2>1. i \in Row /\ i + count \in Row
    BY RowsFinite DEF Row
  <2>. QED BY <2>1, InsertUpdatesType, MoveRowType
<1>3. \A T \in SUBSET S : T # {} => Max(T) \in T
  BY <1>1, MaxOfRows
<1>4. \E it : Solves(it)
  <2>1. next \in [S \X EditState -> EditState]
    BY <1>2
  <2> HIDE DEF S, Step, next
  <2>2. PICK it \in [SUBSET S -> EditState] :
          IsFold(it, S, Began, [T \in SUBSET S |-> Max(T)], next)
    BY BeganType, <1>1, <2>1, IndexLoopExists
  <2>3. Solves(it)
    BY <1>3, <2>2 DEF IsFold, next
  <2>. QED BY <2>3
<1>5. PICK it : Solves(it) /\ InsertRowsLoop(before, count) = it[S]
  <2> DEFINE sol == CHOOSE it : Solves(it)
  <2>1. Solves(sol)
    BY <1>4
  <2>2. InsertRowsLoop(before, count) = sol[S]
    BY DEF InsertRowsLoop, ForEachIndex, MapThenFoldSet
  <2>. QED BY <2>1, <2>2
<1> HIDE DEF S, Step, InsertRowsSteps
<1>6. it[{}] = Began /\ it[{}] \in EditState
  BY <1>5, BeganType
<1>7. \A T \in SUBSET S : T # {} => it[T] = Step(Max(T), it[T \ {Max(T)}])
  BY <1>5
<1>8. ASSUME NEW T \in SUBSET S, T # {}, it[T \ {Max(T)}] \in EditState
      PROVE  it[T] \in EditState
  <2>1. Max(T) \in S
    BY <1>3, <1>8
  <2>. QED BY <1>2, <1>7, <1>8, <2>1
<1>9. \A T \in SUBSET S : it[T] \in EditState
  BY <1>1, <1>6, <1>8, IndexLoopKeeps
<1>10. it[S] \in EditState /\ \A T \in SUBSET S : T \ {Max(T)} \in SUBSET S
  BY <1>9
<1>11. \A T \in SUBSET S : T # {} =>
         LET i == Max(T)
         IN  /\ i \in T /\ it[T \ {i}] \in EditState /\ it[T] \in EditState
             /\ it[T] = Step(i, it[T \ {i}])
  BY <1>3, <1>7, <1>9, <1>10
<1>. QED BY <1>5, <1>6, <1>10, <1>11 DEF S, Step, InsertRowsSteps

\* InsertRowsLoop keeps the types.
LEMMA InsertRowsType ==
  ASSUME TableOK, NEW before \in Nat, NEW count \in Nat \ {0},
         rowsCount \in Int, rowsCount + count <= Rows, before + count <= rowsCount
  PROVE  InsertRowsLoop(before, count) \in EditState
BY InsertRowsUnfolds

\* InsertCols.
InsertColsSteps(it, before, count) ==
  /\ it[{}] = Began
  /\ \A T \in SUBSET ColsMoved(before) : T # {} =>
       LET p == Last(T, Backward)
       IN  /\ p \in T /\ it[T \ {p}] \in EditState /\ it[T] \in EditState
           /\ it[T] = Move(UpdateFormulaOnInsert(it[T \ {p}], p, "col", before, count), p, At(p.row, p.col + count))

\* InsertColsLoop, one cell at a time, the last of a row first.
LEMMA InsertColsUnfolds ==
  ASSUME TableOK, NEW before \in Nat, NEW count \in Nat \ {0},
         colsCount \in Int, colsCount + count <= Cols
  PROVE  \E it : /\ InsertColsLoop(before, count) = it[ColsMoved(before)] /\ it[ColsMoved(before)] \in EditState
                /\ InsertColsSteps(it, before, count)
<1> DEFINE S == ColsMoved(before)
           Step(p, x) == Move(UpdateFormulaOnInsert(x, p, "col", before, count), p, At(p.row, p.col + count))
           next == [z \in S \X EditState |-> Step(z[1], z[2])]
           Solves(it) == it = [T \in SUBSET S |->
             IF T = {} THEN Began ELSE Step(Last(T, Backward), it[T \ {Last(T, Backward)}])]
<1>1. S \in SUBSET Pos
  BY DEF ColsMoved
<1>2. ASSUME NEW p \in S, NEW x \in EditState
      PROVE  Step(p, x) \in EditState
  <2>0. p \in Pos /\ p.row \in Row /\ p.col + count \in 0 .. Cols - 1
    BY RowsFinite DEF ColsMoved
  <2>1. p \in Pos /\ At(p.row, p.col + count) \in Pos
    BY <2>0 DEF Pos, Row
  <2>2. UpdateFormulaOnInsert(x, p, "col", before, count) \in EditState
    BY <2>1, InsertUpdateType DEF Axis
  <2>. QED BY <2>1, <2>2, MoveType
<1>3. \A T \in SUBSET S : T # {} => Last(T, Backward) \in T
  BY <1>1, LastIsMember
<1>4. \E it : Solves(it)
  <2>1. next \in [S \X EditState -> EditState]
    BY <1>2
  <2> HIDE DEF S, Step, next
  <2>2. PICK it \in [SUBSET S -> EditState] :
          IsFold(it, S, Began, [T \in SUBSET S |-> Last(T, Backward)], next)
    BY BeganType, <1>1, <2>1, LoopExists
  <2>3. Solves(it)
    BY <1>3, <2>2 DEF IsFold, next
  <2>. QED BY <2>3
<1>5. PICK it : Solves(it) /\ InsertColsLoop(before, count) = it[S]
  <2> DEFINE sol == CHOOSE it : Solves(it)
  <2>1. Solves(sol)
    BY <1>4
  <2>2. InsertColsLoop(before, count) = sol[S]
    BY DEF InsertColsLoop, ForEachBackward, MapThenFoldSet
  <2>. QED BY <2>1, <2>2
<1> HIDE DEF S, Step, InsertColsSteps
<1>6. it[{}] = Began /\ it[{}] \in EditState
  BY <1>5, BeganType
<1>7. \A T \in SUBSET S : T # {} => it[T] = Step(Last(T, Backward), it[T \ {Last(T, Backward)}])
  BY <1>5
<1>8. ASSUME NEW T \in SUBSET S, T # {}, it[T \ {Last(T, Backward)}] \in EditState
      PROVE  it[T] \in EditState
  <2>1. Last(T, Backward) \in S
    BY <1>3, <1>8
  <2>. QED BY <1>2, <1>7, <1>8, <2>1
<1>9. \A T \in SUBSET S : it[T] \in EditState
  BY <1>1, <1>6, <1>8, LoopKeeps
<1>10. it[S] \in EditState /\ \A T \in SUBSET S : T \ {Last(T, Backward)} \in SUBSET S
  BY <1>9
<1>11. \A T \in SUBSET S : T # {} =>
         LET p == Last(T, Backward)
         IN  /\ p \in T /\ it[T \ {p}] \in EditState /\ it[T] \in EditState
             /\ it[T] = Step(p, it[T \ {p}])
  BY <1>3, <1>7, <1>9, <1>10
<1>. QED BY <1>5, <1>6, <1>10, <1>11 DEF S, Step, InsertColsSteps

\* InsertColsLoop keeps the types.
LEMMA InsertColsType ==
  ASSUME TableOK, NEW before \in Nat, NEW count \in Nat \ {0},
         colsCount \in Int, colsCount + count <= Cols
  PROVE  InsertColsLoop(before, count) \in EditState
BY InsertColsUnfolds

\* DeleteRows, up to the resize.
DeleteRowsSteps(it, first, count) ==
  /\ it[{}] = Began
  /\ \A T \in SUBSET (first .. rowsCount - count - 1) : T # {} =>
       LET i == Max(T)
       IN  /\ i \in T /\ it[T \ {i}] \in EditState /\ it[T] \in EditState
           /\ it[T] = MoveRow(DeleteCells(UpdateRowOnDelete(it[T \ {i}], i + count, first, count), InRow(i), "row", first, count), i + count, i)

\* DeleteRowsLoop, one row at a time.
LEMMA DeleteRowsUnfolds ==
  ASSUME TableOK, NEW first \in Nat, NEW count \in Nat \ {0},
         rowsCount \in Int, rowsCount <= Rows
  PROVE  \E it : /\ DeleteRowsLoop(first, count) = it[first .. rowsCount - count - 1] /\ it[first .. rowsCount - count - 1] \in EditState
                /\ DeleteRowsSteps(it, first, count)
<1> DEFINE S == first .. rowsCount - count - 1
           Step(i, x) == MoveRow(DeleteCells(UpdateRowOnDelete(x, i + count, first, count), InRow(i), "row", first, count), i + count, i)
           next == [z \in S \X EditState |-> Step(z[1], z[2])]
           Solves(it) == it = [T \in SUBSET S |->
             IF T = {} THEN Began ELSE Step(Max(T), it[T \ {Max(T)}])]
<1>1. S \in SUBSET Row
  BY RowsFinite DEF Row
<1>2. ASSUME NEW i \in S, NEW x \in EditState
      PROVE  Step(i, x) \in EditState
  <2>1. i \in Row /\ i + count \in Row
    BY RowsFinite DEF Row
  <2>2. InRow(i) \in SUBSET Pos /\ "row" \in Axis
    BY DEF InRow, Axis
  <2> PICK updated \in EditState : updated = UpdateRowOnDelete(x, i + count, first, count)
    BY <2>1, DeleteUpdatesType
  <2> PICK emptied \in EditState : emptied = DeleteCells(updated, InRow(i), "row", first, count)
    BY <2>2, DeleteCellsType
  <2>3. MoveRow(emptied, i + count, i) \in EditState
    BY <2>1, MoveRowType
  <2>. QED BY <2>3
<1>3. \A T \in SUBSET S : T # {} => Max(T) \in T
  BY <1>1, MaxOfRows
<1>4. \E it : Solves(it)
  <2>1. next \in [S \X EditState -> EditState]
    BY <1>2
  <2> HIDE DEF S, Step, next
  <2>2. PICK it \in [SUBSET S -> EditState] :
          IsFold(it, S, Began, [T \in SUBSET S |-> Max(T)], next)
    BY BeganType, <1>1, <2>1, IndexLoopExists
  <2>3. Solves(it)
    BY <1>3, <2>2 DEF IsFold, next
  <2>. QED BY <2>3
<1>5. PICK it : Solves(it) /\ DeleteRowsLoop(first, count) = it[S]
  <2> DEFINE sol == CHOOSE it : Solves(it)
  <2>1. Solves(sol)
    BY <1>4
  <2>2. DeleteRowsLoop(first, count) = sol[S]
    BY DEF DeleteRowsLoop, ForEachIndex, MapThenFoldSet
  <2>. QED BY <2>1, <2>2
<1> HIDE DEF S, Step, DeleteRowsSteps
<1>6. it[{}] = Began /\ it[{}] \in EditState
  BY <1>5, BeganType
<1>7. \A T \in SUBSET S : T # {} => it[T] = Step(Max(T), it[T \ {Max(T)}])
  BY <1>5
<1>8. ASSUME NEW T \in SUBSET S, T # {}, it[T \ {Max(T)}] \in EditState
      PROVE  it[T] \in EditState
  <2>1. Max(T) \in S
    BY <1>3, <1>8
  <2>. QED BY <1>2, <1>7, <1>8, <2>1
<1>9. \A T \in SUBSET S : it[T] \in EditState
  BY <1>1, <1>6, <1>8, IndexLoopKeeps
<1>10. it[S] \in EditState /\ \A T \in SUBSET S : T \ {Max(T)} \in SUBSET S
  BY <1>9
<1>11. \A T \in SUBSET S : T # {} =>
         LET i == Max(T)
         IN  /\ i \in T /\ it[T \ {i}] \in EditState /\ it[T] \in EditState
             /\ it[T] = Step(i, it[T \ {i}])
  BY <1>3, <1>7, <1>9, <1>10
<1>. QED BY <1>5, <1>6, <1>10, <1>11 DEF S, Step, DeleteRowsSteps

\* DeleteRowsLoop keeps the types.
LEMMA DeleteRowsType ==
  ASSUME TableOK, NEW first \in Nat, NEW count \in Nat \ {0},
         rowsCount \in Int, rowsCount <= Rows
  PROVE  DeleteRowsLoop(first, count) \in EditState
BY DeleteRowsUnfolds

\* The cells of a row behind its deleted ones move.
MoveLeftSteps(it, e, i, first, count) ==
  /\ it[{}] = e
  /\ \A T \in SUBSET InRowBehind(i, first, count) : T # {} =>
       LET p == Last(T, Forward)
       IN  /\ p \in T /\ it[T \ {p}] \in EditState /\ it[T] \in EditState
           /\ it[T] = Move(UpdateFormulaOnDelete(it[T \ {p}], p, "col", first, count), p, At(i, p.col - count))

\* MoveLeft, one cell at a time.
LEMMA MoveLeftUnfolds ==
  ASSUME NEW e \in EditState, NEW i \in Row,
         NEW first \in Nat, NEW count \in Nat \ {0},
         colsCount \in Int, colsCount <= Cols
  PROVE  \E it : /\ MoveLeft(e, i, first, count) = it[InRowBehind(i, first, count)] /\ it[InRowBehind(i, first, count)] \in EditState
                /\ MoveLeftSteps(it, e, i, first, count)
<1> DEFINE S == InRowBehind(i, first, count)
           Step(p, x) == Move(UpdateFormulaOnDelete(x, p, "col", first, count), p, At(i, p.col - count))
           next == [z \in S \X EditState |-> Step(z[1], z[2])]
           Solves(it) == it = [T \in SUBSET S |->
             IF T = {} THEN e ELSE Step(Last(T, Forward), it[T \ {Last(T, Forward)}])]
<1>1. S \in SUBSET Pos
  BY DEF InRowBehind, InRow
<1>2. ASSUME NEW p \in S, NEW x \in EditState
      PROVE  Step(p, x) \in EditState
  <2>0. p \in Pos /\ p.col - count \in 0 .. Cols - 1
    BY RowsFinite DEF InRowBehind, InRow
  <2>1. p \in Pos /\ At(i, p.col - count) \in Pos
    BY <2>0 DEF Pos, Row
  <2>2. UpdateFormulaOnDelete(x, p, "col", first, count) \in EditState
    BY <2>1, DeleteUpdateType DEF Axis
  <2>. QED BY <2>1, <2>2, MoveType
<1>3. \A T \in SUBSET S : T # {} => Last(T, Forward) \in T
  BY <1>1, LastIsMember
<1>4. \E it : Solves(it)
  <2>1. next \in [S \X EditState -> EditState]
    BY <1>2
  <2> HIDE DEF S, Step, next
  <2>2. PICK it \in [SUBSET S -> EditState] :
          IsFold(it, S, e, [T \in SUBSET S |-> Last(T, Forward)], next)
    BY <1>1, <2>1, LoopExists
  <2>3. Solves(it)
    BY <1>3, <2>2 DEF IsFold, next
  <2>. QED BY <2>3
<1>5. PICK it : Solves(it) /\ MoveLeft(e, i, first, count) = it[S]
  <2> DEFINE sol == CHOOSE it : Solves(it)
  <2>1. Solves(sol)
    BY <1>4
  <2>2. MoveLeft(e, i, first, count) = sol[S]
    BY DEF MoveLeft, ForEach, MapThenFoldSet
  <2>. QED BY <2>1, <2>2
<1> HIDE DEF S, Step, MoveLeftSteps
<1>6. it[{}] = e /\ it[{}] \in EditState
  BY <1>5
<1>7. \A T \in SUBSET S : T # {} => it[T] = Step(Last(T, Forward), it[T \ {Last(T, Forward)}])
  BY <1>5
<1>8. ASSUME NEW T \in SUBSET S, T # {}, it[T \ {Last(T, Forward)}] \in EditState
      PROVE  it[T] \in EditState
  <2>1. Last(T, Forward) \in S
    BY <1>3, <1>8
  <2>. QED BY <1>2, <1>7, <1>8, <2>1
<1>9. \A T \in SUBSET S : it[T] \in EditState
  BY <1>1, <1>6, <1>8, LoopKeeps
<1>10. it[S] \in EditState /\ \A T \in SUBSET S : T \ {Last(T, Forward)} \in SUBSET S
  BY <1>9
<1>11. \A T \in SUBSET S : T # {} =>
         LET p == Last(T, Forward)
         IN  /\ p \in T /\ it[T \ {p}] \in EditState /\ it[T] \in EditState
             /\ it[T] = Step(p, it[T \ {p}])
  BY <1>3, <1>7, <1>9, <1>10
<1>. QED BY <1>5, <1>6, <1>10, <1>11 DEF S, Step, MoveLeftSteps

\* MoveLeft keeps the types.
LEMMA MoveLeftType ==
  ASSUME NEW e \in EditState, NEW i \in Row,
         NEW first \in Nat, NEW count \in Nat \ {0},
         colsCount \in Int, colsCount <= Cols
  PROVE  MoveLeft(e, i, first, count) \in EditState
BY MoveLeftUnfolds

\* One row of DeleteCols.
LEMMA DeleteInRowType ==
  ASSUME NEW e \in EditState, NEW i \in Row, NEW first \in Nat, NEW count \in Nat \ {0},
         colsCount \in Int, colsCount <= Cols
  PROVE  DeleteInRow(e, i, first, count) \in EditState
<1> PICK places \in SUBSET Pos : places = InRowWithin(i, first, count)
  BY DEF InRowWithin, InRow
<1> PICK emptied \in EditState :
      emptied = DeleteCells(e, places, "col", first, count)
  BY DeleteCellsType DEF Axis
<1>1. DeleteInRow(e, i, first, count) = MoveLeft(emptied, i, first, count)
  BY DEF DeleteInRow
<1>. QED BY <1>1, MoveLeftType

\* The rows DeleteCols finishes.
DeleteColsSteps(it, first, count) ==
  /\ it[{}] = Began
  /\ \A T \in SUBSET FinishedRows(first, count) : T # {} =>
       LET i == Max(T)
       IN  /\ i \in T /\ it[T \ {i}] \in EditState /\ it[T] \in EditState
           /\ it[T] = ResizeRow(DeleteInRow(it[T \ {i}], i, first, count), i, colsCount - count)

\* DeleteColsLoop, one row at a time.
LEMMA DeleteColsUnfolds ==
  ASSUME TableOK, NEW first \in Nat, NEW count \in Nat \ {0},
         colsCount \in Int, colsCount <= Cols
  PROVE  \E it : /\ DeleteColsLoop(first, count) = it[FinishedRows(first, count)] /\ it[FinishedRows(first, count)] \in EditState
                /\ DeleteColsSteps(it, first, count)
<1> DEFINE S == FinishedRows(first, count)
           Step(i, x) == ResizeRow(DeleteInRow(x, i, first, count), i, colsCount - count)
           next == [z \in S \X EditState |-> Step(z[1], z[2])]
           Solves(it) == it = [T \in SUBSET S |->
             IF T = {} THEN Began ELSE Step(Max(T), it[T \ {Max(T)}])]
<1>1. S \in SUBSET Row
  BY DEF FinishedRows
<1>2. ASSUME NEW i \in S, NEW x \in EditState
      PROVE  Step(i, x) \in EditState
  <2> PICK done \in EditState : done = DeleteInRow(x, i, first, count)
    BY <1>1, DeleteInRowType
  <2>1. {p \in InRow(i) : p.col >= colsCount - count} \in SUBSET Pos
    BY DEF InRow
  <2>2. ResizeRow(done, i, colsCount - count) \in EditState
    BY <2>1, DestroyAllType DEF ResizeRow
  <2>. QED BY <2>2
<1>3. \A T \in SUBSET S : T # {} => Max(T) \in T
  BY <1>1, MaxOfRows
<1>4. \E it : Solves(it)
  <2>1. next \in [S \X EditState -> EditState]
    BY <1>2
  <2> HIDE DEF S, Step, next
  <2>2. PICK it \in [SUBSET S -> EditState] :
          IsFold(it, S, Began, [T \in SUBSET S |-> Max(T)], next)
    BY BeganType, <1>1, <2>1, IndexLoopExists
  <2>3. Solves(it)
    BY <1>3, <2>2 DEF IsFold, next
  <2>. QED BY <2>3
<1>5. PICK it : Solves(it) /\ DeleteColsLoop(first, count) = it[S]
  <2> DEFINE sol == CHOOSE it : Solves(it)
  <2>1. Solves(sol)
    BY <1>4
  <2>2. DeleteColsLoop(first, count) = sol[S]
    BY DEF DeleteColsLoop, ForEachIndex, MapThenFoldSet
  <2>. QED BY <2>1, <2>2
<1> HIDE DEF S, Step, DeleteColsSteps
<1>6. it[{}] = Began /\ it[{}] \in EditState
  BY <1>5, BeganType
<1>7. \A T \in SUBSET S : T # {} => it[T] = Step(Max(T), it[T \ {Max(T)}])
  BY <1>5
<1>8. ASSUME NEW T \in SUBSET S, T # {}, it[T \ {Max(T)}] \in EditState
      PROVE  it[T] \in EditState
  <2>1. Max(T) \in S
    BY <1>3, <1>8
  <2>. QED BY <1>2, <1>7, <1>8, <2>1
<1>9. \A T \in SUBSET S : it[T] \in EditState
  BY <1>1, <1>6, <1>8, IndexLoopKeeps
<1>10. it[S] \in EditState /\ \A T \in SUBSET S : T \ {Max(T)} \in SUBSET S
  BY <1>9
<1>11. \A T \in SUBSET S : T # {} =>
         LET i == Max(T)
         IN  /\ i \in T /\ it[T \ {i}] \in EditState /\ it[T] \in EditState
             /\ it[T] = Step(i, it[T \ {i}])
  BY <1>3, <1>7, <1>9, <1>10
<1>. QED BY <1>5, <1>6, <1>10, <1>11 DEF S, Step, DeleteColsSteps

\* DeleteColsLoop keeps the types.
LEMMA DeleteColsType ==
  ASSUME TableOK, NEW first \in Nat, NEW count \in Nat \ {0},
         colsCount \in Int, colsCount <= Cols
  PROVE  DeleteColsLoop(first, count) \in EditState
BY DeleteColsUnfolds

-----------------------------------------------------------------------------
(* The types of the calls of Sheet, whatever edits left of the table.      *)

\* The printable size lies within the table (rowsCount may be negative).
SizeOK == rowsCount \in Int /\ rowsCount <= Rows /\ colsCount \in 0 .. Cols

\* A printable size that grows by a cell of the table stays within it.
LEMMA GrowSize ==
  ASSUME NEW S, NEW c, SizeOK, GrowTo(S) \/ GrowToThenCount(S, c)
  PROVE  SizeOK'
<1>1. GrowTo(S) => rowsCount' \in 0 .. Rows /\ colsCount' \in 0 .. Cols
  BY DEF GrowTo, Grown
<1>2. rowsCount' \in 0 .. Rows /\ colsCount' \in 0 .. Cols
  BY <1>1, RowsFinite DEF GrowToThenCount
<1>. QED BY <1>2, RowsFinite DEF SizeOK

\* What SetCell has done when it checks the new formula is of its type.
LEMMA StartType ==
  ASSUME TableOK, NEW p \in Pos
  PROVE  Started(p) \in Contents /\ Forgotten(p) \in Graph
<1>1. Started(p) \in Contents
  BY DEF TableOK, Started, Created, Contents, Content
<1>. QED BY <1>1, UnlinkFacts DEF TableOK, Forgotten

\* Refreshed caches hold values.
LEMMA RefreshType ==
  ASSUME NEW c, NEW k \in Cache, NEW f \in Fresh(c, k), NEW T
  PROVE  Refreshed(k, T, Reading(c, k, f)) \in Cache
<1>1. f \in [Solvable(c, k) -> Value]
  BY DEF Fresh
<1>2. Reading(c, k, f) \in [Pos -> Value]
  BY <1>1, ValueAssumption DEF Reading, Cache
<1> HIDE DEF Reading
<1>. QED BY <1>2 DEF Refreshed, Cache

\* InvalidateCache keeps the type of the caches.
LEMMA InvalidateType ==
  ASSUME NEW c, NEW u, NEW k \in Cache, NEW p \in Pos
  PROVE  InvalidateCache(c, u, k, p) \in Cache
BY InvalidateReach DEF StaleFrom

\* The search for a cycle leaves caches of their type.
LEMMA CheckType ==
  ASSUME TableOK, NEW p \in Pos, NEW t, NEW v \in Readings(p)
  PROVE  CacheAfterCheck(p, t, v) \in Cache /\ Registered(p, t) \in Graph
<1>1. PICK f \in Fresh(Started(p), cache) : v = Reading(Started(p), cache, f)
  BY DEF Readings
<1>2. cache \in Cache /\ Forgotten(p) \in Graph
  BY StartType DEF TableOK
<1>. QED BY <1>1, <1>2, RefreshType, LinkFacts DEF CacheAfterCheck, Registered

\* SetCell keeps the types, whatever its outcome.
LEMMA SetCellType ==
  ASSUME TableOK, SizeOK, NEW p \in Pos, NEW t,
         SetCellToSameText(p) \/ SetCell(p, t)
  PROVE  TableOK' /\ SizeOK'
<1>1. /\ content \in Contents /\ usedBy \in Graph /\ cache \in Cache
      /\ Started(p) \in Contents /\ Forgotten(p) \in Graph
  BY StartType DEF TableOK
<1>2. CASE SetCellToSameText(p)
  <2>1. content' = Started(p) /\ usedBy' = usedBy /\ cache' = cache /\ GrowTo({p})
    BY <1>2 DEF SetCellToSameText
  <2>. QED BY <1>1, <2>1, GrowSize DEF TableOK
<1>3. CASE SetCellToText(p, t)
  <2>1. /\ content' = [content EXCEPT ![p] = t] /\ usedBy' = Forgotten(p)
        /\ cache' = InvalidateCache(content', usedBy', cache, p) /\ GrowTo({p})
        /\ t \in {EmptyText} \cup Literal \cup HugeFormula
    BY <1>3 DEF SetCellToText
  <2>2. content' \in Contents
    BY <1>1, <2>1 DEF Contents, Content
  <2>3. cache' \in Cache
    BY <1>1, <2>1, InvalidateType
  <2>. QED BY <1>1, <2>1, <2>2, <2>3, GrowSize DEF TableOK
<1>4. CASE SetCellThrows(p, t)
  <2>1. content' = Started(p) /\ usedBy' = Forgotten(p) /\ cache' = cache /\ GrowTo({p})
    BY <1>4 DEF SetCellThrows
  <2>. QED BY <1>1, <2>1, GrowSize DEF TableOK
<1>5. CASE SetCellOverflows(p, t)
  BY <1>5 DEF SetCellOverflows, TableOK, SizeOK
<1>6. CASE SetCellRejects(p, t)
  <2>1. PICK v \in Readings(p) : cache' = CacheAfterCheck(p, t, v)
    BY <1>6 DEF SetCellRejects
  <2>2. /\ content' = content /\ usedBy' = Unlink(Registered(p, t), Refs(t), p)
        /\ GrowToThenCount({p}, content)
    BY <1>6 DEF SetCellRejects
  <2>3. cache' \in Cache /\ usedBy' \in Graph
    BY <2>1, <2>2, CheckType, UnlinkFacts
  <2>. QED BY <1>1, <2>2, <2>3, GrowSize DEF TableOK
<1>7. CASE SetCellToFormula(p, t)
  <2> DEFINE missing == {r \in Refs(t) : ~CellExists(Started(p), r)}
  <2>1. PICK v \in Readings(p) :
          cache' = InvalidateCache([Started(p) EXCEPT ![p] = t], Registered(p, t),
                                   CacheAfterCheck(p, t, v), p)
    BY <1>7 DEF SetCellToFormula
  <2>2. /\ content' = [q \in Pos |-> IF q = p THEN t
                                 ELSE IF q \in Refs(t) /\ content[q] = Absent
                                      THEN EmptyText ELSE content[q]]
        /\ usedBy' = Link(Registered(p, t), missing, p)
        /\ GrowTo({p} \cup Refs(t)) /\ t \in Formula
    BY <1>7 DEF SetCellToFormula
  <2>3. content' \in Contents
    BY <1>1, <2>2 DEF Contents, Content
  <2> HIDE DEF missing
  <2>4. cache' \in Cache
    BY <2>1, CheckType, InvalidateType
  <2>5. usedBy' \in Graph
    BY <2>1, <2>2, CheckType, LinkFacts
  <2>. QED BY <2>2, <2>3, <2>4, <2>5, GrowSize DEF TableOK
<1>. QED BY <1>2, <1>3, <1>4, <1>5, <1>6, <1>7 DEF SetCell

\* ClearCell keeps the types.
LEMMA ClearType ==
  ASSUME TableOK, SizeOK, NEW p \in Pos, ClearCell(p)
  PROVE  TableOK' /\ SizeOK'
<1> PICK u \in Graph : u = Unlink(usedBy, GetReferencedCells(content[p]), p)
  BY UnlinkFacts DEF TableOK
<1>1. /\ cache' = InvalidateCache(content, usedBy, cache, p)
      /\ content' = [content EXCEPT ![p] = Absent]
      /\ usedBy' = [u EXCEPT ![p] = [q \in Pos |-> 0]]
      /\ GrowToThenCount({}, content')
  BY DEF ClearCell
<1>2. usedBy' \in Graph /\ content' \in Contents
  BY <1>1 DEF TableOK, Graph, Contents, Content
<1>3. cache' \in Cache
  BY <1>1, InvalidateType DEF TableOK
<1>. QED BY <1>1, <1>2, <1>3, GrowSize DEF TableOK

\* GetValue keeps the types.
LEMMA ReadType ==
  ASSUME TableOK, SizeOK, NEW p \in Pos, GetValue(p)
  PROVE  TableOK' /\ SizeOK'
<1>1. UNCHANGED <<content, usedBy, rowsCount, colsCount>>
  BY DEF GetValue, Recalculate
<1>2. \/ cache' = cache
      \/ \E f \in Fresh(content, cache) :
           \E T : cache' = Refreshed(cache, T, Reading(content, cache, f))
  BY DEF GetValue, Recalculate
<1>3. cache' \in Cache
  BY <1>2, RefreshType DEF TableOK
<1>. QED BY <1>1, <1>3 DEF TableOK, SizeOK

-----------------------------------------------------------------------------
(* Type correctness.                                                       *)

\* The rows are at most as wide as the table.
WidthOK == width \in [Row -> 0 .. Cols]

\* The inductive invariant: the types, and rowsCount within the table, which
\* keeps the rows that move inside it.
EditInv == TableOK /\ SizeOK /\ WidthOK /\ dangling \subseteq Pos /\ intact \in BOOLEAN

\* The parts that every call keeps say what EditTypeOK says, and more of the rows.
LEMMA EditInvIsType == EditInv => EditTypeOK
BY DEF EditInv, EditTypeOK, TableOK, SizeOK, WidthOK, Contents, Graph, Cache

\* Where holders end, a call leaves a table.
LEMMA FinishType ==
  ASSUME NEW e \in EditState, Fits(e), Finish(e)
  PROVE  TableOK' /\ dangling' \subseteq Pos
<1>1. \A p \in Pos : e.at[p] # Absent => e.at[p] \in Pos
  BY DEF EditState
<1>2. content' \in Contents
  <2>1. \A p \in Pos : e.at[p] # Absent => e.content[e.at[p]] \in Content
    BY <1>1 DEF Fits
  <2>2. content' = [p \in Pos |-> IF e.at[p] # Absent THEN e.content[e.at[p]] ELSE Absent]
    BY DEF Finish
  <2>. QED BY <2>1, <2>2 DEF Contents, Content
<1>3. usedBy' \in Graph
  <2>1. e.usedBy \in Graph
    BY DEF EditState
  <2>2. \A r, p \in Pos : (e.at[r] # Absent /\ e.at[p] # Absent) =>
          e.usedBy[e.at[r]][e.at[p]] \in Nat
    BY <1>1, <2>1 DEF Graph
  <2>3. usedBy' = [r \in Pos |-> [p \in Pos |->
                    IF e.at[r] # Absent /\ e.at[p] # Absent
                    THEN e.usedBy[e.at[r]][e.at[p]] ELSE 0]]
    BY DEF Finish
  <2>. QED BY <2>2, <2>3 DEF Graph
<1>4. cache' \in Cache
  <2>1. e.cache \in Cache
    BY DEF EditState
  <2>2. cache' = [p \in Pos |-> IF e.at[p] # Absent THEN e.cache[e.at[p]] ELSE Stale]
    BY DEF Finish
  <2>. QED BY <1>1, <2>1, <2>2 DEF Cache
<1>5. dangling' \subseteq Pos
  BY DEF Finish
<1>. QED BY <1>2, <1>3, <1>4, <1>5 DEF TableOK

\* What an action leaves, intact apart.
LeftOK == TableOK' /\ SizeOK' /\ WidthOK' /\ dangling' \subseteq Pos

\* A call of undefined behaviour leaves the table as it is in the model.
LEMMA UndefinedType == EditInv /\ Undefined => LeftOK
BY DEF EditInv, Undefined, LeftOK, TableOK, SizeOK, WidthOK

\* A refused insertion leaves the table as it is.
LEMMA InsertTooManyType ==
  ASSUME EditInv, NEW size, NEW count, InsertTooMany(size, count)
  PROVE  LeftOK
BY DEF EditInv, InsertTooMany, LeftOK, TableOK, SizeOK, WidthOK

\* InsertRows leaves a table of its type.
LEMMA InsertRowsKeepsType ==
  ASSUME EditInv, NEW before \in Nat, NEW count \in Nat \ {0}, InsertRows(before, count)
  PROVE  LeftOK
<1>1. CASE InsertTooMany(rowsCount, count)
  BY <1>1, InsertTooManyType
<1>2. CASE Undefined
  BY <1>2, UndefinedType
<1>3. ASSUME rowsCount + count <= Rows, before + count <= rowsCount,
             NEW e, e = InsertRowsLoop(before, count), Fits(e), Finish(e),
             width' = [i \in Row |->
               IF i \in before .. before + count - 1 \/ i >= rowsCount + count THEN 0
               ELSE IF i \in before + count .. before + 2 * count - 1 THEN width[i - count]
               ELSE width[i]],
             rowsCount' = rowsCount + count, colsCount' = colsCount
      PROVE  LeftOK
  <2>1. TableOK /\ SizeOK /\ width \in [Row -> 0 .. Cols]
    BY DEF EditInv, WidthOK
  <2>2. e \in EditState
    BY <1>3, <2>1, InsertRowsType DEF SizeOK
  <2>3. TableOK' /\ dangling' \subseteq Pos
    BY <1>3, <2>2, FinishType
  <2>4. \A i \in Row : i \in before + count .. before + 2 * count - 1 => i - count \in Row
    BY RowsFinite DEF Row
  <2>5. WidthOK'
    BY <1>3, <2>1, <2>4, RowsFinite DEF WidthOK
  <2>6. SizeOK'
    BY <1>3, <2>1 DEF SizeOK
  <2>. QED BY <2>3, <2>5, <2>6 DEF LeftOK
<1>. QED BY <1>1, <1>2, <1>3 DEF InsertRows

\* InsertCols leaves a table of its type.
LEMMA InsertColsKeepsType ==
  ASSUME EditInv, NEW before \in Nat, NEW count \in Nat \ {0}, InsertCols(before, count)
  PROVE  LeftOK
<1>1. CASE InsertTooMany(colsCount, count)
  BY <1>1, InsertTooManyType
<1>2. CASE Undefined
  BY <1>2, UndefinedType
<1>3. ASSUME colsCount + count <= Cols,
             NEW e, e = InsertColsLoop(before, count), Fits(e), Finish(e),
             colsCount' = colsCount + count,
             width' = [i \in Row |->
               IF i < rowsCount /\ width[i] \in 1 .. colsCount' THEN colsCount' ELSE width[i]],
             rowsCount' = rowsCount
      PROVE  LeftOK
  <2>1. TableOK /\ SizeOK /\ width \in [Row -> 0 .. Cols]
    BY DEF EditInv, WidthOK
  <2>2. e \in EditState
    BY <1>3, <2>1, InsertColsType DEF SizeOK
  <2>3. TableOK' /\ dangling' \subseteq Pos
    BY <1>3, <2>2, FinishType
  <2>4. SizeOK'
    BY <1>3, <2>1, RowsFinite DEF SizeOK
  <2>5. WidthOK'
    BY <1>3, <2>1, <2>4 DEF WidthOK, SizeOK
  <2>. QED BY <2>3, <2>4, <2>5 DEF LeftOK
<1>. QED BY <1>1, <1>2, <1>3 DEF InsertCols

\* DeleteRows leaves a table of its type, rowsCount being negative after length_error.
LEMMA DeleteRowsKeepsType ==
  ASSUME EditInv, NEW first \in Nat, NEW count \in Nat \ {0}, DeleteRows(first, count)
  PROVE  LeftOK
<1>1. CASE count > rowsCount /\ rowsCount' = rowsCount - count
           /\ UNCHANGED <<content, usedBy, cache, colsCount, width, dangling>>
  <2>1. SizeOK'
    BY <1>1, RowsFinite DEF EditInv, SizeOK
  <2>. QED BY <1>1, <2>1 DEF EditInv, LeftOK, TableOK, WidthOK
<1>2. CASE Undefined
  BY <1>2, UndefinedType
<1>3. ASSUME count <= rowsCount,
             NEW e, e = ResizeRows(DeleteRowsLoop(first, count), rowsCount - count),
             Fits(e), Finish(e),
             rowsCount' = rowsCount - count,
             width' = [i \in Row |-> IF i >= rowsCount' THEN 0
                                     ELSE IF i >= first THEN width[i + count]
                                     ELSE width[i]],
             colsCount' = IF colsCount = 1 /\ rowsCount' = 0 THEN 0 ELSE colsCount
      PROVE  LeftOK
  <2>1. TableOK /\ SizeOK /\ width \in [Row -> 0 .. Cols]
    BY DEF EditInv, WidthOK
  <2>2. e \in EditState
    <3>1. DeleteRowsLoop(first, count) \in EditState
      BY <2>1, DeleteRowsType DEF SizeOK
    <3>2. {p \in Pos : p.row >= rowsCount - count} \in SUBSET Pos
      OBVIOUS
    <3>. QED BY <1>3, <3>1, <3>2, DestroyAllType DEF ResizeRows
  <2>3. TableOK' /\ dangling' \subseteq Pos
    BY <1>3, <2>2, FinishType
  <2>4. SizeOK'
    BY <1>3, <2>1, RowsFinite DEF SizeOK
  <2>5. \A i \in Row : i < rowsCount' => i + count \in Row
    BY <1>3, <2>1, RowsFinite DEF Row, SizeOK
  <2>6. WidthOK'
    BY <1>3, <2>1, <2>4, <2>5, RowsFinite DEF WidthOK, SizeOK
  <2>. QED BY <2>3, <2>4, <2>6 DEF LeftOK
<1>. QED BY <1>1, <1>2, <1>3 DEF DeleteRows

\* A row that DeleteCols finishes has as many columns as are deleted.
LEMMA NarrowedType ==
  ASSUME EditInv, NEW first \in Nat, NEW count \in Nat \ {0}
  PROVE  NarrowedRows(first, count) \in [Row -> 0 .. Cols]
<1>1. SizeOK /\ width \in [Row -> 0 .. Cols]
  BY DEF EditInv, WidthOK
<1>2. ASSUME NEW i \in FinishedRows(first, count) PROVE colsCount - count \in 0 .. Cols
  <2>1. i \in Row /\ i < rowsCount /\ width[i] > 0 /\ i \in Nat
    BY RowsFinite DEF FinishedRows
  <2>2. i \notin ThrowingRows(first, count)
    BY <2>1 DEF FinishedRows
  <2>3. ~(colsCount < count)
    BY <2>1, <2>2 DEF ThrowingRows
  <2>. QED BY <1>1, <2>3, RowsFinite DEF SizeOK
<1>. QED BY <1>1, <1>2 DEF NarrowedRows

\* DeleteCols leaves a table of its type.
LEMMA DeleteColsKeepsType ==
  ASSUME EditInv, NEW first \in Nat, NEW count \in Nat \ {0}, DeleteCols(first, count)
  PROVE  LeftOK
<1>1. CASE Undefined
  BY <1>1, UndefinedType
<1>2. ASSUME NEW e, e = DeleteColsLoop(first, count), Fits(e), Finish(e),
             colsCount' = ColsLeft(count),
             rowsCount' = IF ColsLeft(count) = 0 /\ rowsCount = 1 THEN 0 ELSE rowsCount,
             width' = NarrowedRows(first, count)
      PROVE  LeftOK
  <2>1. TableOK /\ SizeOK
    BY DEF EditInv
  <2>2. e \in EditState
    BY <1>2, <2>1, RowsFinite, DeleteColsType DEF SizeOK
  <2>3. TableOK' /\ dangling' \subseteq Pos
    BY <1>2, <2>2, FinishType
  <2>4. SizeOK'
    BY <1>2, <2>1, RowsFinite DEF SizeOK, ColsLeft
  <2>5. WidthOK'
    BY <1>2, NarrowedType DEF WidthOK
  <2>. QED BY <2>3, <2>4, <2>5 DEF LeftOK
<1>. QED BY <1>1, <1>2 DEF DeleteCols

\* So does DeleteCols when it throws half-way.
LEMMA DeleteColsThrowsKeepsType ==
  ASSUME EditInv, NEW first \in Nat, NEW count \in Nat \ {0}, DeleteColsThrows(first, count)
  PROVE  LeftOK
<1>1. CASE Undefined
  BY <1>1, UndefinedType
<1>2. ASSUME NEW i \in ThrowingRows(first, count),
             NEW e, e = DeleteInRow(DeleteColsLoop(first, count), i, first, count),
             Fits(e), Finish(e), width' = NarrowedRows(first, count),
             UNCHANGED <<rowsCount, colsCount>>
      PROVE  LeftOK
  <2>1. TableOK /\ SizeOK /\ i \in Row
    BY DEF EditInv, ThrowingRows, ShortRows
  <2>2. e \in EditState
    <3>1. colsCount \in Int /\ colsCount <= Cols
      BY <2>1, RowsFinite DEF SizeOK
    <3>2. DeleteColsLoop(first, count) \in EditState
      BY <2>1, <3>1, DeleteColsType
    <3>. QED BY <1>2, <2>1, <3>1, <3>2, DeleteInRowType
  <2>3. TableOK' /\ dangling' \subseteq Pos
    BY <1>2, <2>2, FinishType
  <2>4. SizeOK'
    BY <1>2, <2>1 DEF SizeOK
  <2>5. WidthOK'
    BY <1>2, NarrowedType DEF WidthOK
  <2>. QED BY <2>3, <2>4, <2>5 DEF LeftOK
<1>. QED BY <1>1, <1>2 DEF DeleteColsThrows

\* CreateCell makes a row no wider than the table.
LEMMA WidenedType ==
  ASSUME WidthOK, NEW S \in SUBSET Pos
  PROVE  Widened(S) \in [Row -> 0 .. Cols]
<1> SUFFICES ASSUME NEW i \in Row
             PROVE  Max({width[i]} \cup {q.col + 1 : q \in S \cap InRow(i)}) \in 0 .. Cols
  BY DEF Widened
<1> DEFINE T == {width[i]} \cup {q.col + 1 : q \in S \cap InRow(i)}
<1>1. width[i] \in 0 .. Cols
  BY DEF WidthOK
<1>2. \A q \in S : q.col + 1 \in 0 .. Cols
  BY RowsFinite
<1>3. T \in SUBSET (0 .. Cols) /\ T # {}
  BY <1>1, <1>2
<1> HIDE DEF T
<1>4. T \in SUBSET Nat /\ \A n \in T : n <= Cols
  BY <1>3, RowsFinite
<1>5. Max(T) \in T
  BY <1>3, <1>4, RowsFinite, MaxIsMember
<1>. QED BY <1>3, <1>5 DEF T

\* Every call keeps the invariant.
LEMMA EditNextInv == EditInv /\ [EditNext]_editVars => EditInv'
<1> SUFFICES ASSUME EditInv, [EditNext]_editVars PROVE EditInv'
  OBVIOUS
<1>0. TableOK /\ SizeOK /\ WidthOK /\ dangling \subseteq Pos /\ intact \in BOOLEAN
  BY DEF EditInv
<1>1. CASE UNCHANGED editVars
  BY <1>1 DEF editVars, EditInv, TableOK, SizeOK, WidthOK
<1>2. ASSUME NEW p \in Pos, SetCellOf(p) PROVE EditInv'
  <2>1. TableOK' /\ SizeOK'
    <3>1. SetCellToSameText(p) \/ \E t \in Entered(p) : SetCell(p, t)
      BY <1>2 DEF SetCellOf
    <3>. QED BY <1>0, <3>1, SetCellType
  <2>2. width' = Widened({p} \cup {q \in Pos : content'[q] # Absent}) /\ dangling' = dangling
    BY <1>2 DEF SetCellOf
  <2>3. WidthOK'
    <3>1. {p} \cup {q \in Pos : content'[q] # Absent} \in SUBSET Pos
      OBVIOUS
    <3>. QED BY <1>0, <2>2, <3>1, WidenedType DEF WidthOK
  <2>4. intact' \in BOOLEAN
    BY <1>0, <1>2 DEF SetCellOf
  <2>. QED BY <1>0, <2>1, <2>2, <2>3, <2>4 DEF EditInv
<1>3. ASSUME NEW p \in Pos, ReadCell(p) PROVE EditInv'
  <2>1. TableOK' /\ SizeOK'
    BY <1>0, <1>3, ReadType DEF ReadCell
  <2>. QED BY <1>0, <1>3, <2>1 DEF ReadCell, EditInv, WidthOK
<1>4. ASSUME NEW p \in Pos, ClearCellOf(p) PROVE EditInv'
  <2>1. TableOK' /\ SizeOK'
    BY <1>0, <1>4, ClearType DEF ClearCellOf
  <2>2. intact' \in BOOLEAN
    BY <1>0, <1>4 DEF ClearCellOf
  <2>. QED BY <1>0, <1>4, <2>1, <2>2 DEF ClearCellOf, EditInv, WidthOK
<1>5. ASSUME NEW r \in Ranges, Edit(r.index, r.count) PROVE EditInv'
  <2>1. r.index \in Nat /\ r.count \in Nat \ {0}
    BY EnteredAssumption
  <2>2. LeftOK
    BY <1>5, <2>1, InsertRowsKeepsType, InsertColsKeepsType, DeleteRowsKeepsType,
       DeleteColsKeepsType, DeleteColsThrowsKeepsType DEF Edit
  <2>3. intact' \in BOOLEAN
    BY <1>0, <1>5 DEF Edit
  <2>. QED BY <2>2, <2>3 DEF LeftOK, EditInv
<1>. QED BY <1>1, <1>2, <1>3, <1>4, <1>5 DEF EditNext

\* The empty table.
LEMMA EditInitInv == EditInit => EditInv
<1> SUFFICES ASSUME EditInit PROVE EditInv
  OBVIOUS
<1>1. TableOK
  BY DEF EditInit, Init, TableOK, Contents, Content, Graph, Cache
<1>2. SizeOK
  BY RowsFinite DEF EditInit, Init, SizeOK
<1>3. WidthOK
  BY RowsFinite DEF EditInit, WidthOK
<1>. QED BY <1>1, <1>2, <1>3 DEF EditInit, EditInv

\* Edits and calls keep texts, graph, caches and sizes in their domains,
\* whatever rows and columns go and however a call ends.
THEOREM EditTypeCorrect == EditSpec => []EditTypeOK
BY EditInitInv, EditNextInv, EditInvIsType, PTL DEF EditSpec

-----------------------------------------------------------------------------
(* What holds between the calls that lose nothing.                         *)

\* The table that IntactIsTidy speaks of, and what keeps it so.
Tidy ==
  /\ rowsCount \in 0 .. Rows /\ colsCount \in 0 .. Cols
  /\ GraphInv /\ AllLinked /\ SizeCovers
  /\ \A p \in Pos : CellExists(content, p) => p.col < width[p.row]
  /\ dangling = {} /\ outcome # "Undefined"

\* A tidy table satisfies the invariant of Sheet.
LEMMA TidyIsInv == TableOK /\ Tidy => Inv
BY DEF TableOK, Tidy, Inv, DataOK, Contents, Graph, Cache

\* In a tidy table every cache is current.
LEMMA TidyIsCurrent == TableOK /\ Tidy => CachedValueIsCurrent
<1> SUFFICES ASSUME TableOK, Tidy, NEW p \in Pos, content[p] \in Formula, cache[p] # Stale
             PROVE  cache[p] = Apply(content[p], Reading(content, cache, NoFresh))
  BY DEF CachedValueIsCurrent
<1>1. \A r \in Refs(content[p]) : r \in Pos
  BY FormulaAssumption
<1>2. \A r \in Refs(content[p]) : usedBy[r][p] > 0
  BY <1>1 DEF Tidy, AllLinked, GetReferencedCells
<1>3. CurrentOK(content, usedBy, cache)
  BY DEF Tidy, GraphInv
<1>. QED BY <1>2, <1>3 DEF CurrentOK, HasValue

\* An intact table that is tidy is what IntactIsTidy promises.
LEMMA TidyMeans == EditInv /\ (intact => Tidy) => IntactIsTidy
<1> SUFFICES ASSUME EditInv, Tidy
             PROVE  /\ \A p \in Pos : Linked(p) /\ (CellExists(content, p) => p.col < width[p.row])
                    /\ EdgesMatchFormulas /\ StaleUpwards /\ CachedValueIsCurrent /\ SizeCovers
                    /\ dangling = {} /\ outcome # "Undefined"
  BY DEF IntactIsTidy
<1>1. TableOK /\ DataOK
  BY TidyIsInv DEF EditInv, Inv
<1>2. CachedValueIsCurrent
  BY <1>1, TidyIsCurrent
<1>3. EdgesMatchFormulas /\ StaleUpwards
  BY <1>1, Parts DEF Tidy, GraphInv
<1>4. \A p \in Pos : Linked(p)
  <2>1. \A p, r \in Pos : r \in GetReferencedCells(content[p]) => usedBy[r][p] > 0
    BY DEF Tidy, AllLinked
  <2>2. \A p \in Pos : GetReferencedCells(content[p]) \subseteq Pos
    BY FormulaAssumption DEF GetReferencedCells
  <2>. QED BY <2>1, <2>2 DEF Linked
<1>. QED BY <1>2, <1>3, <1>4 DEF Tidy

-----------------------------------------------------------------------------
(* The calls of Sheet.                                                     *)

\* The outcomes of the calls of Sheet.
LEMMA SheetOutcome ==
  ASSUME Next
  PROVE  outcome' \in Outcome
BY DEF Outcome, Next, RejectPosition, PrintValues, GetValue, Recalculate, ClearCell,
       SetCellToSameText, SetCell, SetCellToText, SetCellThrows, SetCellOverflows,
       SetCellRejects, SetCellToFormula

\* A call that loses no dependents keeps formulas and graph linked.
LEMMA CallLinked ==
  ASSUME Inv, AllLinked, Next,
         \/ NextWithoutClear /\ outcome' = "Ok"
         \/ \E p \in Pos : ClearCell(p) /\ Unused(p)
         \/ \E p \in Pos, t \in Text : SetCell(p, t) /\ outcome' # "Ok" /\ content[p] \notin Formula
         \/ \E p \in Pos : GetValue(p)
  PROVE  AllLinked'
<1>1. \A r, q \in Pos : r \in GetReferencedCells(content[q]) => usedBy[r][q] > 0
  BY DEF AllLinked
<1>2. usedBy \in Graph /\ content \in Contents /\ DataOK /\ GraphInv
  BY DEF Inv, DataOK, Graph, Contents
<1>3. CASE NextWithoutClear /\ outcome' = "Ok"
  BY <1>3, PlainKeepsLinked DEF NextPlainCall
<1>4. ASSUME NEW p \in Pos, ClearCell(p), Unused(p) PROVE AllLinked'
  <2> SUFFICES ASSUME NEW q \in Pos, NEW r \in Pos, r \in GetReferencedCells(content'[q])
               PROVE  usedBy'[r][q] > 0
    BY DEF AllLinked
  <2> PICK u \in Graph : u = Unlink(usedBy, GetReferencedCells(content[p]), p)
    BY <1>2, UnlinkFacts
  <2>1. /\ content' = [content EXCEPT ![p] = Absent]
        /\ usedBy' = [u EXCEPT ![p] = [x \in Pos |-> 0]]
    BY <1>4 DEF ClearCell
  <2>2. q # p /\ r \in GetReferencedCells(content[q])
    BY <1>2, <2>1, TextAssumption DEF GetReferencedCells, Text, Contents
  <2>3. usedBy[r][q] > 0
    BY <1>1, <2>2
  <2>4. r # p
    BY <1>4, <2>3 DEF Unused
  <2>5. u[r][q] = usedBy[r][q]
    BY <1>2, <2>2, UnlinkFacts
  <2>. QED BY <2>1, <2>3, <2>4, <2>5 DEF Graph
<1>5. ASSUME NEW p \in Pos, NEW t \in Text, SetCell(p, t), outcome' # "Ok", content[p] \notin Formula
      PROVE  AllLinked'
  <2>1. /\ ReadsOf(Started(p)) = ReadsOf(content)
        /\ \A r, q \in Pos : q # p => Forgotten(p)[r][q] = usedBy[r][q]
    BY <1>2, StartReads, StartFacts
  <2>2. \A r \in Pos : r \notin GetReferencedCells(content[p])
    BY <1>5 DEF GetReferencedCells
  <2>3. CASE SetCellThrows(p, t)
    <3>1. content' = Started(p) /\ usedBy' = Forgotten(p)
      BY <2>3 DEF SetCellThrows
    <3>2. \A q \in Pos : GetReferencedCells(content'[q]) = GetReferencedCells(content[q])
      BY <2>1, <3>1 DEF ReadsOf
    <3>3. \A r, q \in Pos : q # p => usedBy'[r][q] = usedBy[r][q]
      BY <2>1, <3>1
    <3>. QED BY <1>1, <2>2, <3>2, <3>3 DEF AllLinked
  <2>4. CASE SetCellRejects(p, t)
    <3>1. content' = content /\ usedBy' = Unlink(Registered(p, t), Refs(t), p)
      BY <2>4 DEF SetCellRejects
    <3>2. /\ Registered(p, t) \in Graph
          /\ \A r, q \in Pos : q # p => Registered(p, t)[r][q] = Forgotten(p)[r][q]
      BY RegisteredFacts
    <3>3. \A r, q \in Pos : q # p => usedBy'[r][q] = usedBy[r][q]
      BY <2>1, <3>1, <3>2, UnlinkFacts
    <3>. QED BY <1>1, <2>2, <3>1, <3>3 DEF AllLinked
  <2>5. CASE SetCellOverflows(p, t)
    BY <1>1, <2>5 DEF SetCellOverflows, AllLinked
  <2>6. ~SetCellToText(p, t) /\ ~SetCellToFormula(p, t)
    BY <1>5 DEF SetCellToText, SetCellToFormula
  <2>. QED BY <1>5, <2>3, <2>4, <2>5, <2>6 DEF SetCell
<1>6. ASSUME NEW p \in Pos, GetValue(p) PROVE AllLinked'
  BY <1>1, <1>6 DEF GetValue, Recalculate, AllLinked
<1>. QED BY <1>3, <1>4, <1>5, <1>6

\* CreateCell makes each row wide enough for what it holds.
LEMMA WidenedCovers ==
  ASSUME WidthOK, NEW S \in SUBSET Pos, NEW q \in S
  PROVE  q.col < Widened(S)[q.row]
<1> DEFINE T == {width[q.row]} \cup {x.col + 1 : x \in S \cap InRow(q.row)}
<1>1. q.row \in Row /\ width[q.row] \in 0 .. Cols /\ Cols \in Nat
  BY RowsFinite DEF WidthOK
<1>2. \A x \in Pos : x.col + 1 \in 0 .. Cols
  BY RowsFinite
<1>3. T \in SUBSET Nat /\ \A n \in T : n <= Cols
  BY <1>1, <1>2
<1>4. q.col + 1 \in T
  BY DEF InRow
<1>5. Widened(S)[q.row] = Max(T)
  BY <1>1 DEF Widened
<1> HIDE DEF T
<1>6. Max(T) \in Nat /\ Max(T) >= q.col + 1
  BY <1>1, <1>3, <1>4, MaxIsMember
<1>7. q.col \in Nat
  BY RowsFinite
<1>. QED BY <1>5, <1>6, <1>7

\* What a call of Sheet leaves tidy, the widths apart.
LEMMA CallTidy ==
  ASSUME TableOK, Tidy, Running, Next,
         \/ NextWithoutClear /\ outcome' = "Ok"
         \/ \E p \in Pos : ClearCell(p) /\ Unused(p)
         \/ \E p \in Pos, t \in Text : SetCell(p, t) /\ outcome' # "Ok" /\ content[p] \notin Formula
         \/ \E p \in Pos : GetValue(p),
         dangling' = dangling,
         \A p \in Pos : CellExists(content', p) => p.col < width'[p.row]
  PROVE  Tidy' /\ EditContract!Next
<1>1. Inv /\ AllLinked /\ SizeCovers /\ [Next]_vars
  BY TidyIsInv DEF Tidy
<1>2. Inv'
  BY <1>1, NextInv
<1>3. rowsCount' \in 0 .. Rows /\ colsCount' \in 0 .. Cols /\ GraphInv'
  BY <1>2 DEF Inv, DataOK
<1>4. AllLinked'
  BY <1>1, CallLinked
<1>5. SizeCovers'
  BY <1>1, NextCovers
<1>6. outcome' # "Undefined"
  BY SheetOutcome DEF Outcome
<1>7. Tidy'
  BY <1>3, <1>4, <1>5, <1>6 DEF Tidy
<1>8. OverflowNeedsCycle
  BY DEF OverflowNeedsCycle, Running
<1>9. Contract!Next
  BY <1>1, <1>8, NextPromised DEF Promised
<1>10. EditContract!Next
  BY <1>9 DEF EditContract!Next, EditContract!GetCell, EditContract!Refuse, EditContract!Overflow,
     EditContract!ClearCell, EditContract!SetCell, EditContract!RefuseCircular,
     EditContract!Usable, EditContract!Refusals, EditContract!Circular,
     EditContract!ClosesCycle, EditContract!Closed,
     Contract!Next, Contract!GetCell, Contract!Refuse, Contract!Overflow,
     Contract!ClearCell, Contract!SetCell, Contract!RefuseCircular,
     Contract!Usable, Contract!Refusals, Contract!Circular,
     Contract!ClosesCycle, Contract!Closed
<1>. QED BY <1>7, <1>10

\* SetCell keeps a table tidy, unless it fails on a cell that held a formula.
LEMMA SetCellTidy ==
  ASSUME EditInv, Tidy, Running, NEW p \in Pos, SetCellOf(p), intact'
  PROVE  Tidy' /\ EditContract!Next
<1>1. TableOK /\ WidthOK /\ \A t \in Entered(p) : t \in Text
  BY EnteredAssumption DEF EditInv
<1>2. dangling' = dangling /\ (outcome' = "Ok" \/ content[p] \notin Formula)
  BY DEF SetCellOf
<1>3. SetCellToSameText(p) \/ \E t \in Text : SetCell(p, t)
  BY <1>1 DEF SetCellOf
<1>4. Next
  BY <1>3 DEF Next
<1>5. NextWithoutClear
  BY <1>3 DEF NextWithoutClear
<1>6. outcome' # "Ok" => \E t \in Text : SetCell(p, t)
  BY <1>3 DEF SetCellToSameText
<1>7. ASSUME NEW q \in Pos, CellExists(content', q) PROVE q.col < width'[q.row]
  <2>1. width' = Widened({p} \cup {x \in Pos : content'[x] # Absent})
    BY DEF SetCellOf
  <2>2. q \in {p} \cup {x \in Pos : content'[x] # Absent}
    BY <1>7 DEF CellExists
  <2>3. {p} \cup {x \in Pos : content'[x] # Absent} \in SUBSET Pos
    OBVIOUS
  <2>. QED BY <1>1, <2>1, <2>2, <2>3, WidenedCovers
<1>. QED BY <1>1, <1>2, <1>4, <1>5, <1>6, <1>7, CallTidy

\* GetValue keeps a table tidy, whatever it computes anew.
LEMMA ReadTidy ==
  ASSUME EditInv, Tidy, Running, NEW p \in Pos, ReadCell(p)
  PROVE  Tidy' /\ EditContract!Next
<1>1. GetValue(p) /\ width' = width /\ dangling' = dangling
  BY DEF ReadCell
<1>2. Next
  BY <1>1 DEF Next
<1>3. content' = content
  BY <1>1 DEF GetValue, Recalculate
<1>4. \A q \in Pos : CellExists(content', q) => q.col < width'[q.row]
  BY <1>1, <1>3 DEF Tidy
<1>. QED BY <1>1, <1>2, <1>4, CallTidy DEF EditInv

\* ClearCell keeps a table tidy when no formula uses the cell.
LEMMA ClearTidy ==
  ASSUME EditInv, Tidy, Running, NEW p \in Pos, ClearCellOf(p), intact'
  PROVE  Tidy' /\ EditContract!Next
<1>1. ClearCell(p) /\ Unused(p) /\ width' = width /\ dangling' = dangling
  BY DEF ClearCellOf
<1>2. Next
  BY <1>1 DEF Next
<1>3. \A q \in Pos : CellExists(content', q) => CellExists(content, q)
  BY <1>1 DEF ClearCell, CellExists, EditInv, TableOK, Contents
<1>4. \A q \in Pos : CellExists(content', q) => q.col < width'[q.row]
  BY <1>1, <1>3 DEF Tidy
<1>. QED BY <1>1, <1>2, <1>4, CallTidy DEF EditInv

-----------------------------------------------------------------------------
(* What an edit that loses nothing leaves.                                 *)

\* Positions of the table are valid, and Deleted is not one of them.
LEMMA PosFacts ==
  /\ Pos \subseteq Reference /\ Deleted \in Reference /\ Deleted \notin Pos /\ ~IsValid(Deleted)
  /\ \A p \in Pos : /\ IsValid(p) /\ p = At(p.row, p.col)
                    /\ p.row \in 0 .. Rows - 1 /\ p.col \in 0 .. Cols - 1
  /\ \A i \in 0 .. Rows - 1, j \in 0 .. Cols - 1 :
       At(i, j) \in Pos /\ At(i, j).row = i /\ At(i, j).col = j
<1>1. Rows \in Nat /\ Cols \in Nat /\ Rows <= kMaxRows /\ Cols <= kMaxCols
  BY TableAssumption DEF kMaxRows, kMaxCols
<1>2. \A p \in Pos : p.row \in 0 .. Rows - 1 /\ p.col \in 0 .. Cols - 1 /\ p = At(p.row, p.col)
  BY DEF Pos, At
<1>3. Deleted \in Reference /\ Deleted.row = -1 /\ ~IsValid(Deleted)
  BY DEF Deleted, At, Reference, IsValid
<1>4. Deleted \notin Pos
  BY <1>2, <1>3
<1>5. Pos \subseteq Reference
  BY <1>1 DEF Pos, At, Reference
<1>6. \A p \in Pos : IsValid(p)
  BY <1>1, <1>2 DEF IsValid, kMaxRows, kMaxCols
<1>7. \A i \in 0 .. Rows - 1, j \in 0 .. Cols - 1 :
        At(i, j) \in Pos /\ At(i, j).row = i /\ At(i, j).col = j
  BY DEF Pos, At
<1>. QED BY <1>2, <1>3, <1>4, <1>5, <1>6, <1>7

\* The references of a formula are positions of the table or deleted ones.
LEMMA FormulaReads ==
  ASSUME NEW f \in Formula
  PROVE  /\ f \in Seq(Reference) /\ Refs(f) \subseteq Pos
         /\ Refs(f) = {f[i] : i \in {j \in DOMAIN f : f[j] \in Pos}}
         /\ \A i \in DOMAIN f : f[i] \in Refs(f) \/ f[i] = Deleted
<1>1. f \in Seq([row : Int, col : Int]) /\ Refs(f) = UpdateRefs(f)
      /\ \A i \in DOMAIN f : f[i] \in Pos \cup {Deleted}
  BY EnteredAssumption
<1>2. \A i \in DOMAIN f : IsValid(f[i]) <=> f[i] \in Pos
  BY <1>1, PosFacts
<1>3. Refs(f) = {f[i] : i \in {j \in DOMAIN f : f[j] \in Pos}}
  BY <1>1, <1>2 DEF UpdateRefs
<1>. QED BY <1>1, <1>3 DEF Reference

\* What a reference can be: a position of the table or a deleted one.
Names == Pos \cup {Deleted}

\* The text t with its references renamed.
Renaming(t, to) == IF t \in Formula THEN [i \in DOMAIN t |-> to[t[i]]] ELSE t

\* The new places of those of S that have one.
MovedTo(to, S) == {to[r] : r \in {q \in S : to[q] \in Pos}}

\* The holders that an edit with these new names keeps.
Kept(to) == {h \in Pos : CellExists(content, h) /\ to[h] # Deleted}

\* The new names of an edit, and what the formulas renamed with them compute.
Naming(to) ==
  /\ to \in [Names -> Reference] /\ to[Deleted] = Deleted
  /\ \A f \in Formula :
       (Renaming(f, to) \in Formula /\ \A r \in Refs(f) : to[r] # Deleted) =>
         \A v \in [Pos -> Value] :
           Apply(Renaming(f, to), v) = Apply(f, [p \in Pos |-> ValueAt(v, to[p])])

\* The caches of the holders that are left: what was not made stale, and all
\* that depends on a stale one, or has lost a reference, is stale.
CachesLeft(e, to) ==
  /\ \A h \in Kept(to) : e.cache[h] \in {cache[h], Stale}
  /\ \A r, u \in Kept(to) :
       (usedBy[r][u] > 0 /\ content[r] \in Formula /\ e.cache[r] = Stale) => e.cache[u] = Stale
  /\ \A h \in Kept(to) :
       (content[h] \in Formula /\ \E r \in Refs(content[h]) : to[r] = Deleted) => e.cache[h] = Stale

\* The holders that are left have their new places, and the formulas and
\* the entries of each are those it had.
Edited(e, to) ==
  /\ Naming(to)
  /\ \A x \in Pos : e.at[x] # Absent => e.at[x] \in Kept(to) /\ to[e.at[x]] = x
  /\ \A h \in Kept(to) : to[h] \in Pos /\ e.at[to[h]] = h
  /\ \A h \in Kept(to) : e.content[h] = Renaming(content[h], to)
  /\ \A r, h \in Kept(to) : e.usedBy[r][h] = usedBy[r][h]
  /\ \A r \in Kept(to), u \in Pos : e.usedBy[r][u] > 0 => u \in Kept(to)
  /\ CachesLeft(e, to)

\* A renamed text is a formula exactly if it was one.
LEMMA RenamingFacts ==
  ASSUME NEW t \in Content, NEW to, Naming(to), Renaming(t, to) \in Content
  PROVE  /\ Renaming(t, to) \in Formula <=> t \in Formula
         /\ t \notin Formula => Renaming(t, to) = t
         /\ (Renaming(t, to) = Absent) <=> (t = Absent)
         /\ GetReferencedCells(Renaming(t, to)) =
              MovedTo(to, GetReferencedCells(t))
<1>1. Absent \notin Formula
  BY TextAssumption DEF Text
<1>2. CASE t \notin Formula
  BY <1>1, <1>2 DEF Renaming, GetReferencedCells, MovedTo
<1>3. CASE t \in Formula
  <2> DEFINE f == [i \in DOMAIN t |-> to[t[i]]]
  <2>0. Renaming(t, to) = f
    BY <1>3 DEF Renaming
  <2>1. t \in Seq(Reference) /\ \A i \in DOMAIN t : t[i] \in Names
    BY <1>3, FormulaReads DEF Names
  <2>2. to \in [Names -> Reference] /\ to[Deleted] = Deleted
    BY DEF Naming
  <2>3. f \in Seq(Reference) /\ DOMAIN f = DOMAIN t
    BY <2>1, <2>2, MapIsSeq
  <2>4. f \in Formula
    BY <2>0, <2>3, EnteredAssumption DEF Reference
  <2>5. Refs(f) = {f[i] : i \in {j \in DOMAIN f : f[j] \in Pos}}
    BY <2>4, FormulaReads
  <2>6. Refs(t) = {t[i] : i \in {j \in DOMAIN t : t[j] \in Pos}}
        /\ \A i \in DOMAIN t : t[i] \in Refs(t) \/ t[i] = Deleted
    BY <1>3, FormulaReads
  <2>7. \A i \in DOMAIN t : f[i] = to[t[i]]
    OBVIOUS
  <2> HIDE DEF f
  <2>8. Refs(f) = MovedTo(to, Refs(t))
    <3>1. ASSUME NEW x \in Refs(f) PROVE \E r \in Refs(t) : to[r] \in Pos /\ x = to[r]
      <4> PICK i \in DOMAIN f : f[i] \in Pos /\ x = f[i]
        BY <2>5
      <4>1. t[i] \in Refs(t)
        BY <2>2, <2>3, <2>6, <2>7, PosFacts
      <4>. QED BY <2>3, <2>7, <4>1
    <3>2. ASSUME NEW r \in Refs(t), to[r] \in Pos PROVE to[r] \in Refs(f)
      <4> PICK i \in DOMAIN t : r = t[i]
        BY <2>6
      <4>. QED BY <2>3, <2>5, <2>7, <3>2
    <3>. QED BY <3>1, <3>2 DEF MovedTo
  <2>. QED BY <1>1, <1>3, <2>0, <2>4, <2>8 DEF GetReferencedCells
<1>. QED BY <1>2, <1>3

\* What the new table holds, holder by holder.
LEMMA EditedParts ==
  ASSUME TableOK, Tidy, NEW e \in EditState, NEW to, Edited(e, to), Fits(e), Finish(e)
  PROVE  /\ TableOK' /\ Kept(to) \subseteq Pos
         /\ \A x \in Pos : CellExists(content', x) => \E h \in Kept(to) : x = to[h]
         /\ \A h \in Kept(to) :
              /\ to[h] \in Pos /\ content[h] \in Content /\ CellExists(content, h)
              /\ content'[to[h]] = Renaming(content[h], to)
              /\ CellExists(content', to[h])
              /\ cache'[to[h]] = e.cache[h]
              /\ content'[to[h]] \in Formula <=> content[h] \in Formula
              /\ GetReferencedCells(content'[to[h]]) =
                   MovedTo(to, GetReferencedCells(content[h]))
         /\ \A r, h \in Kept(to) : usedBy'[to[r]][to[h]] = usedBy[r][h]
         /\ \A x, y \in Pos : usedBy'[x][y] > 0 => CellExists(content', x) /\ CellExists(content', y)
         /\ \A h \in Kept(to) : GetReferencedCells(content[h]) \subseteq Pos
         /\ \A h \in Kept(to) : \A r \in GetReferencedCells(content[h]) :
              usedBy[r][h] > 0 /\ (r \in Kept(to) \/ to[r] = Deleted)
<1> DEFINE kept == Kept(to)
<1>1. TableOK'
  BY FinishType
<1>2. kept \subseteq Pos /\ \A h \in kept : CellExists(content, h) /\ to[h] # Deleted
  BY DEF Kept
<1>3. /\ content' = [p \in Pos |-> IF e.at[p] # Absent THEN e.content[e.at[p]] ELSE Absent]
      /\ usedBy' = [r \in Pos |-> [p \in Pos |-> IF e.at[r] # Absent /\ e.at[p] # Absent
                                                 THEN e.usedBy[e.at[r]][e.at[p]] ELSE 0]]
      /\ cache' = [p \in Pos |-> IF e.at[p] # Absent THEN e.cache[e.at[p]] ELSE Stale]
  BY DEF Finish
<1>4. \A x \in Pos : e.at[x] # Absent => e.at[x] \in kept /\ to[e.at[x]] = x
  BY DEF Edited
<1> HIDE DEF kept
<1>5. Absent \notin Pos
  BY EnteredAssumption
<1>6. \A h \in kept : /\ to[h] \in Pos /\ e.at[to[h]] = h /\ e.at[to[h]] # Absent
                      /\ e.content[h] = Renaming(content[h], to)
  BY <1>2, <1>5 DEF Edited, kept
<1>7. \A x \in Pos : CellExists(content', x) => \E h \in kept : x = to[h]
  BY <1>3, <1>4 DEF CellExists
<1>8. \A h \in kept : content'[to[h]] = e.content[h] /\ cache'[to[h]] = e.cache[h]
  BY <1>3, <1>6
<1>9. \A r, h \in kept : usedBy'[to[r]][to[h]] = e.usedBy[r][h]
  BY <1>3, <1>6
<1>10. \A r, h \in kept : e.usedBy[r][h] = usedBy[r][h]
  BY DEF Edited, kept
<1>11. \A h \in kept : content[h] \in Content /\ e.content[h] \in Content
  BY <1>2 DEF TableOK, Contents, Fits
<1>12. Naming(to)
  BY DEF Edited
<1>13. ASSUME NEW h \in kept
       PROVE  /\ content'[to[h]] = Renaming(content[h], to)
              /\ CellExists(content', to[h])
              /\ content'[to[h]] \in Formula <=> content[h] \in Formula
              /\ GetReferencedCells(content'[to[h]]) =
                   MovedTo(to, GetReferencedCells(content[h]))
  <2>1. Renaming(content[h], to) \in Content /\ content[h] \in Content
    BY <1>6, <1>11
  <2>2. content'[to[h]] = Renaming(content[h], to)
    BY <1>6, <1>8
  <2>3. content[h] # Absent
    BY <1>2 DEF CellExists
  <2>4. Renaming(content[h], to) # Absent
    BY <1>12, <2>1, <2>3, RenamingFacts
  <2>. QED BY <1>12, <2>1, <2>2, <2>4, RenamingFacts DEF CellExists
<1>14. \A x, y \in Pos : usedBy'[x][y] > 0 => CellExists(content', x) /\ CellExists(content', y)
  <2> SUFFICES ASSUME NEW x \in Pos, NEW y \in Pos, usedBy'[x][y] > 0
               PROVE  CellExists(content', x) /\ CellExists(content', y)
    OBVIOUS
  <2>1. e.at[x] # Absent /\ e.at[y] # Absent
    BY <1>3
  <2>2. to[e.at[x]] = x /\ to[e.at[y]] = y /\ e.at[x] \in kept /\ e.at[y] \in kept
    BY <1>4, <2>1
  <2>. QED BY <1>13, <2>2
<1>15. \A h \in kept : GetReferencedCells(content[h]) \subseteq Pos
  BY FormulaAssumption DEF GetReferencedCells
<1>16. ASSUME NEW h \in kept, NEW r \in GetReferencedCells(content[h])
       PROVE  usedBy[r][h] > 0 /\ (r \in kept \/ to[r] = Deleted)
  <2>1. usedBy[r][h] > 0
    BY <1>2, <1>15, <1>16 DEF Tidy, AllLinked
  <2>2. CellExists(content, r)
    BY <1>2, <1>15, <1>16, <2>1 DEF Tidy, GraphInv, EdgesOK
  <2>. QED BY <1>15, <2>1, <2>2 DEF Kept, kept
<1>17. \A r, h \in kept : usedBy'[to[r]][to[h]] = usedBy[r][h]
  BY <1>9, <1>10
<1>. QED BY <1>1, <1>2, <1>6, <1>7, <1>8, <1>11, <1>13, <1>14, <1>15, <1>16, <1>17 DEF kept

\* A formula that an edit left a valid cache reads what it read before.
LEMMA EditedReading ==
  ASSUME TableOK, Tidy, NEW e \in EditState, NEW to, Edited(e, to), Fits(e), Finish(e),
         NEW h \in Kept(to), content[h] \in Formula, e.cache[h] # Stale
  PROVE  HasValue(content', cache', to[h])
<1> DEFINE f == content[h]
           old == Reading(content, cache, NoFresh)
           new == Reading(content', cache', NoFresh)
<1> HIDE DEF old, new
<1>1. /\ TableOK' /\ h \in Pos /\ to[h] \in Pos
      /\ content'[to[h]] = Renaming(f, to) /\ Renaming(f, to) \in Formula
      /\ cache'[to[h]] = e.cache[h]
      /\ Refs(Renaming(f, to)) = MovedTo(to, Refs(f))
      /\ Refs(f) \subseteq Pos
      /\ \A r \in Refs(f) : usedBy[r][h] > 0 /\ (r \in Kept(to) \/ to[r] = Deleted)
  <2>1. /\ TableOK' /\ h \in Pos /\ to[h] \in Pos
        /\ content'[to[h]] = Renaming(f, to)
        /\ cache'[to[h]] = e.cache[h]
        /\ content'[to[h]] \in Formula
        /\ GetReferencedCells(content'[to[h]]) =
             MovedTo(to, GetReferencedCells(f))
    <3>1. TableOK' /\ Kept(to) \subseteq Pos
      BY EditedParts
    <3>2. /\ to[h] \in Pos
          /\ content'[to[h]] = Renaming(content[h], to)
          /\ cache'[to[h]] = e.cache[h]
          /\ content'[to[h]] \in Formula <=> content[h] \in Formula
      BY EditedParts
    <3>3. GetReferencedCells(content'[to[h]]) =
            MovedTo(to, GetReferencedCells(content[h]))
      BY EditedParts
    <3>. QED BY <3>1, <3>2, <3>3
  <2>2. /\ GetReferencedCells(f) = Refs(f)
        /\ GetReferencedCells(content'[to[h]]) = Refs(content'[to[h]])
    BY <2>1 DEF GetReferencedCells
  <2>3. /\ GetReferencedCells(f) \subseteq Pos
        /\ \A r \in GetReferencedCells(f) : usedBy[r][h] > 0 /\ (r \in Kept(to) \/ to[r] = Deleted)
    BY EditedParts
  <2>. QED BY <2>1, <2>2, <2>3
<1>2. CachesLeft(e, to) /\ Naming(to)
  BY DEF Edited
<1>3. \A r \in Refs(f) : r \in Kept(to) /\ to[r] # Deleted
  BY <1>1, <1>2 DEF CachesLeft, Kept
<1>4. e.cache[h] = cache[h] /\ cache[h] # Stale
  BY <1>2 DEF CachesLeft
<1>5. HasValue(content, cache, h)
  BY <1>1, <1>4 DEF Tidy, GraphInv, CurrentOK
<1>6. old \in [Pos -> Value] /\ new \in [Pos -> Value]
  <2>1. NoFresh \in [{} -> Value]
    BY DEF NoFresh
  <2>. QED BY <1>1, <2>1, ReadingType DEF TableOK, old, new
<1>7. \A r \in Refs(f) : content[r] \in Formula => e.cache[r] # Stale
  BY <1>1, <1>2, <1>3 DEF CachesLeft
<1>8. ASSUME NEW r \in Refs(f)
      PROVE  to[r] \in Pos /\ to[r] \notin Invalid(content', cache') /\ new[to[r]] = old[r]
  <2>1. /\ to[r] \in Pos /\ r \in Pos /\ content[r] \in Content
        /\ content'[to[r]] = Renaming(content[r], to)
        /\ cache'[to[r]] = e.cache[r]
        /\ content'[to[r]] \in Formula <=> content[r] \in Formula
    BY <1>1, <1>3, EditedParts
  <2>2. CASE content[r] \in Formula
    <3>1. e.cache[r] = cache[r] /\ cache[r] # Stale
      BY <1>2, <1>3, <1>7, <2>2 DEF CachesLeft
    <3>2. new[to[r]] = cache'[to[r]] /\ old[r] = cache[r]
      BY <2>1, <2>2, <3>1 DEF Reading, NoFresh, old, new
    <3>. QED BY <2>1, <3>1, <3>2 DEF Invalid
  <2>3. CASE content[r] \notin Formula
    <3>1. content'[to[r]] = content[r]
      BY <2>1, <2>3 DEF Renaming
    <3>. QED BY <2>1, <2>3, <3>1 DEF Reading, NoFresh, Invalid, old, new
  <2>. QED BY <2>2, <2>3
<1>9. cache'[to[h]] = Apply(Renaming(f, to), new)
  <2> DEFINE seen == [p \in Pos |-> ValueAt(new, to[p])]
  <2>1. Apply(Renaming(f, to), new) = Apply(f, seen)
    BY <1>1, <1>2, <1>3, <1>6 DEF Naming
  <2>2. \A p \in Pos : ValueAt(new, to[p]) \in Value
    BY <1>6, ValueAssumption DEF ValueAt
  <2>3. \A r \in Refs(f) : seen[r] = old[r]
    BY <1>1, <1>8 DEF ValueAt
  <2>4. Apply(f, seen) = Apply(f, old)
    <3>1. seen \in [Pos -> Value]
      BY <2>2
    <3> HIDE DEF seen
    <3>. QED BY <1>6, <2>3, <3>1, SameApply
  <2>. QED BY <1>1, <1>4, <1>5, <2>1, <2>4 DEF HasValue, old
<1>. QED BY <1>1, <1>8, <1>9 DEF HasValue, MovedTo, new

\* An edit that loses nothing leaves graph and caches as a call finds them.
LEMMA EditedGraph ==
  ASSUME TableOK, Tidy, NEW e \in EditState, NEW to, Edited(e, to), Fits(e), Finish(e)
  PROVE  GraphInv' /\ AllLinked' /\ dangling' = {}
<1>1. /\ TableOK' /\ Kept(to) \subseteq Pos
      /\ \A x \in Pos : CellExists(content', x) => \E h \in Kept(to) : x = to[h]
      /\ \A x, y \in Pos : usedBy'[x][y] > 0 => CellExists(content', x) /\ CellExists(content', y)
  BY EditedParts
<1>2. /\ \A r, h \in Kept(to) : usedBy'[to[r]][to[h]] = usedBy[r][h]
      /\ \A h \in Kept(to) :
           /\ to[h] \in Pos /\ CellExists(content', to[h])
           /\ cache'[to[h]] = e.cache[h]
           /\ content'[to[h]] \in Formula <=> content[h] \in Formula
  BY EditedParts
<1>3. \A h \in Kept(to) :
        /\ GetReferencedCells(content'[to[h]]) = MovedTo(to, GetReferencedCells(content[h]))
        /\ GetReferencedCells(content[h]) \subseteq Pos
        /\ \A r \in GetReferencedCells(content[h]) :
             usedBy[r][h] > 0 /\ (r \in Kept(to) \/ to[r] = Deleted)
  BY EditedParts
<1>4. Deleted \notin Pos
  BY PosFacts
<1>5. \A x, y \in Pos : usedBy'[x][y] > 0 =>
        \E r, h \in Kept(to) : x = to[r] /\ y = to[h] /\ usedBy[r][h] = usedBy'[x][y]
  BY <1>1, <1>2
<1>6. EdgesOK(content', usedBy')
  <2> SUFFICES ASSUME NEW r \in Kept(to), NEW h \in Kept(to), usedBy[r][h] > 0
               PROVE  /\ usedBy[r][h] = 1 /\ CellExists(content', to[r])
                      /\ to[r] \in GetReferencedCells(content'[to[h]])
    BY <1>2, <1>5 DEF EdgesOK
  <2>1. usedBy[r][h] = 1 /\ r \in GetReferencedCells(content[h])
    BY <1>1 DEF Tidy, GraphInv, EdgesOK
  <2>. QED BY <1>2, <1>3, <2>1 DEF MovedTo
<1>7. AllLinked'
  <2> SUFFICES ASSUME NEW y \in Pos, NEW x \in Pos, x \in GetReferencedCells(content'[y])
               PROVE  usedBy'[x][y] > 0
    BY DEF AllLinked
  <2>1. CellExists(content', y)
    BY <1>1, TextAssumption DEF CellExists, GetReferencedCells, Text
  <2> PICK h \in Kept(to) : y = to[h]
    BY <1>1, <2>1
  <2> PICK r \in GetReferencedCells(content[h]) : to[r] \in Pos /\ x = to[r]
    BY <1>3 DEF MovedTo
  <2>2. r \in Kept(to) /\ usedBy[r][h] > 0
    BY <1>3, <1>4
  <2>. QED BY <1>2, <2>2
<1>8. CachesLeft(e, to)
  BY DEF Edited
<1>9. StaleOK(content', usedBy', cache')
  <2> SUFFICES ASSUME NEW r \in Kept(to), NEW h \in Kept(to), usedBy[r][h] > 0,
                      content'[to[r]] \in Formula, cache'[to[r]] = Stale
               PROVE  content'[to[h]] \in Formula /\ cache'[to[h]] = Stale
    BY <1>5 DEF StaleOK
  <2>1. r \in GetReferencedCells(content[h])
    BY <1>1 DEF Tidy, GraphInv, EdgesOK
  <2>2. content[h] \in Formula
    BY <2>1 DEF GetReferencedCells
  <2>. QED BY <1>2, <1>8, <2>2 DEF CachesLeft
<1>10. CurrentOK(content', usedBy', cache')
  <2> SUFFICES ASSUME NEW y \in Pos, content'[y] \in Formula, cache'[y] # Stale
               PROVE  HasValue(content', cache', y)
    BY DEF CurrentOK
  <2>1. CellExists(content', y)
    BY TextAssumption DEF CellExists, Text
  <2> PICK h \in Kept(to) : y = to[h]
    BY <1>1, <2>1
  <2>2. content[h] \in Formula /\ e.cache[h] # Stale
    BY <1>2
  <2>. QED BY <2>2, EditedReading
<1>11. dangling' = {}
  <2> SUFFICES ASSUME NEW x \in Pos, e.at[x] # Absent, NEW u \in Pos, e.usedBy[e.at[x]][u] > 0
               PROVE  CellExists(e.content, u)
    BY DEF Finish, Dead, Users
  <2>1. e.at[x] \in Kept(to)
    BY DEF Edited
  <2>2. u \in Kept(to)
    BY <2>1 DEF Edited
  <2>3. e.content[u] = content'[to[u]]
    BY <2>2, EditedParts DEF Edited
  <2>. QED BY <1>2, <2>2, <2>3 DEF CellExists
<1>. QED BY <1>6, <1>7, <1>9, <1>10, <1>11 DEF GraphInv

\* The texts after such an edit.
LEMMA EditedTexts ==
  ASSUME TableOK, Tidy, NEW e \in EditState, NEW to, Edited(e, to), Fits(e), Finish(e)
  PROVE  /\ \A h \in Kept(to) : Texts'[to[h]] = Renaming(Texts[h], to)
         /\ \A x \in Pos : (\A h \in Pos : CellExists(content, h) => to[h] # x) => Texts'[x] = EmptyText
         /\ \A h \in Pos : Texts[h] # EmptyText => CellExists(content, h)
<1>1. /\ \A x \in Pos : CellExists(content', x) => \E h \in Kept(to) : x = to[h]
      /\ Kept(to) \subseteq Pos /\ TableOK'
  BY EditedParts
<1>2. \A h \in Kept(to) :
        /\ to[h] \in Pos /\ CellExists(content', to[h])
        /\ content'[to[h]] = Renaming(content[h], to)
  BY EditedParts
<1>3. \A h \in Kept(to) : Texts'[to[h]] = Renaming(Texts[h], to)
  BY <1>1, <1>2 DEF Texts, GetText, CellExists, Kept
<1>4. ASSUME NEW x \in Pos, \A h \in Pos : CellExists(content, h) => to[h] # x
      PROVE  Texts'[x] = EmptyText
  <2>1. ~CellExists(content', x)
    BY <1>1, <1>4 DEF Kept
  <2>. QED BY <2>1 DEF Texts, GetText, CellExists
<1>. QED BY <1>3, <1>4 DEF Texts, GetText, CellExists

\* The new names of an insertion and of a deletion.
InsertedNames(axis, before, count) == [p \in Names |-> Inserted(p, axis, before, count)]
RemovedNames(axis, first, count) == [p \in Names |-> Removed(p, axis, first, count)]

\* The new names of an insertion rename formulas as HandleInserted* do.
LEMMA InsertedNaming ==
  ASSUME NEW axis \in Axis, NEW r \in Ranges,
         NEW to, to = InsertedNames(axis, r.index, r.count)
  PROVE  /\ Naming(to)
         /\ \A f \in Formula : Renaming(f, to) = InsertedAll(f, axis, r.index, r.count)
         /\ \A p \in Pos : to[p] = Inserted(p, axis, r.index, r.count) /\ to[p] # Deleted
<1>1. r.index \in Nat /\ r.count \in Nat \ {0}
  BY EnteredAssumption
<1>2. Names \subseteq Reference
  BY PosFacts DEF Names
<1>3. to \in [Names -> Reference]
  BY <1>1, <1>2, InsertedFacts DEF InsertedNames
<1>4. to[Deleted] = Deleted
  <2>1. Deleted[axis] = -1
    BY DEF Deleted, At, Axis
  <2>. QED BY <1>1, <2>1 DEF InsertedNames, Names, Inserted, Beyond
<1>5. ASSUME NEW f \in Formula PROVE Renaming(f, to) = InsertedAll(f, axis, r.index, r.count)
  <2>1. \A i \in DOMAIN f : f[i] \in Names
    BY FormulaReads DEF Names
  <2>2. \A i \in DOMAIN f : to[f[i]] = Inserted(f[i], axis, r.index, r.count)
    BY <2>1 DEF InsertedNames
  <2>. QED BY <2>2 DEF Renaming, InsertedAll
<1>6. \A p \in Pos : to[p] = Inserted(p, axis, r.index, r.count)
  BY DEF InsertedNames, Names
<1>7. ASSUME NEW p \in Pos PROVE to[p] # Deleted
  <2>1. p \in Reference /\ p[axis] >= 0 /\ p[axis] \in Int
    BY PosFacts, TableAssumption DEF Axis
  <2>2. Inserted(p, axis, r.index, r.count)[axis] >= 0
    <3>1. Inserted(p, axis, r.index, r.count)[axis] =
            IF p[axis] >= r.index THEN p[axis] + r.count ELSE p[axis]
      BY <1>1, <2>1, InsertedFacts
    <3>. QED BY <1>1, <2>1, <3>1
  <2>3. Deleted[axis] = -1
    BY DEF Deleted, At, Axis
  <2>. QED BY <1>6, <2>2, <2>3
<1>8. ASSUME NEW f \in Formula, Renaming(f, to) \in Formula, NEW v \in [Pos -> Value]
      PROVE  Apply(Renaming(f, to), v) = Apply(f, [p \in Pos |-> ValueAt(v, to[p])])
  <2>1. Apply(InsertedAll(f, axis, r.index, r.count), v) =
          Apply(f, [p \in Pos |-> ValueAt(v, Inserted(p, axis, r.index, r.count))])
    BY <1>5, <1>8, RenamingAssumption
  <2>2. [p \in Pos |-> ValueAt(v, Inserted(p, axis, r.index, r.count))] =
          [p \in Pos |-> ValueAt(v, to[p])]
    BY <1>6
  <2>. QED BY <1>5, <2>1, <2>2
<1>. QED BY <1>3, <1>4, <1>5, <1>6, <1>7, <1>8 DEF Naming

\* The new names of a deletion rename formulas as HandleDeleted* do.
LEMMA RemovedNaming ==
  ASSUME NEW axis \in Axis, NEW r \in Ranges,
         NEW to, to = RemovedNames(axis, r.index, r.count)
  PROVE  /\ Naming(to)
         /\ \A f \in Formula : Renaming(f, to) = RemovedAll(f, axis, r.index, r.count)
         /\ \A p \in Pos : /\ to[p] = Removed(p, axis, r.index, r.count)
                           /\ to[p] = Deleted <=> Within(p, axis, r.index, r.count)
<1>1. r.index \in Nat /\ r.count \in Nat \ {0}
  BY EnteredAssumption
<1>2. Names \subseteq Reference
  BY PosFacts DEF Names
<1>3. to \in [Names -> Reference]
  BY <1>1, <1>2, RemovedFacts DEF RemovedNames
<1>4. to[Deleted] = Deleted /\ ~Within(Deleted, axis, r.index, r.count)
  <2>1. Deleted[axis] = -1
    BY DEF Deleted, At, Axis
  <2>2. ~(-1 > r.index + r.count - 1)
    BY <1>1
  <2>. QED BY <1>1, <2>1, <2>2 DEF RemovedNames, Names, Removed, Within
<1>5. ASSUME NEW f \in Formula PROVE Renaming(f, to) = RemovedAll(f, axis, r.index, r.count)
  <2>1. \A i \in DOMAIN f : f[i] \in Names
    BY FormulaReads DEF Names
  <2>2. \A i \in DOMAIN f : to[f[i]] = Removed(f[i], axis, r.index, r.count)
    BY <2>1 DEF RemovedNames
  <2>. QED BY <2>2 DEF Renaming, RemovedAll
<1>6. \A p \in Pos : to[p] = Removed(p, axis, r.index, r.count)
  BY DEF RemovedNames, Names
<1>7. ASSUME NEW p \in Pos PROVE to[p] = Deleted <=> Within(p, axis, r.index, r.count)
  <2>1. p \in Reference /\ p[axis] >= 0 /\ p[axis] \in Int
    BY PosFacts, TableAssumption DEF Axis
  <2>2. ~Within(p, axis, r.index, r.count) => Removed(p, axis, r.index, r.count)[axis] >= 0
    BY <1>1, <2>1, RemovedFacts
  <2>3. Deleted[axis] = -1
    BY DEF Deleted, At, Axis
  <2>4. Within(p, axis, r.index, r.count) => Removed(p, axis, r.index, r.count) = Deleted
    BY DEF Removed
  <2>. QED BY <1>6, <2>2, <2>3, <2>4
<1>8. ASSUME NEW f \in Formula, Renaming(f, to) \in Formula, \A q \in Refs(f) : to[q] # Deleted,
             NEW v \in [Pos -> Value]
      PROVE  Apply(Renaming(f, to), v) = Apply(f, [p \in Pos |-> ValueAt(v, to[p])])
  <2>1. \A i \in DOMAIN f : ~Within(f[i], axis, r.index, r.count)
    BY <1>4, <1>7, <1>8, FormulaReads
  <2>2. Apply(RemovedAll(f, axis, r.index, r.count), v) =
          Apply(f, [p \in Pos |-> ValueAt(v, Removed(p, axis, r.index, r.count))])
    BY <1>5, <1>8, <2>1, RenamingAssumption
  <2>3. [p \in Pos |-> ValueAt(v, Removed(p, axis, r.index, r.count))] =
          [p \in Pos |-> ValueAt(v, to[p])]
    BY <1>6
  <2>. QED BY <1>5, <2>2, <2>3
<1>. QED BY <1>3, <1>4, <1>5, <1>6, <1>7, <1>8 DEF Naming

-----------------------------------------------------------------------------
(* Induction over the steps of a loop.                                     *)

\* What the empty loop has, and each step keeps, every loop has.  Good are the
\* parts of the loop in its order.
LEMMA LoopInduction ==
  ASSUME NEW S, IsFiniteSet(S), NEW Good \in SUBSET SUBSET S, NEW Fine, {} \in Fine,
         \A T \in Good : T # {} =>
           \E x \in T : T \ {x} \in Good /\ (T \ {x} \in Fine => T \in Fine)
  PROVE  Good \subseteq Fine
<1> DEFINE Wrong == {T \in Good : T \notin Fine}
           Sizes == {Cardinality(T) : T \in Wrong}
<1> SUFFICES ASSUME Wrong # {} PROVE FALSE
  OBVIOUS
<1>1. \A T \in SUBSET S : IsFiniteSet(T) /\ Cardinality(T) \in Nat
  BY FS_Subset, FS_CardinalityType
<1>2. Sizes \in SUBSET Nat /\ Sizes # {}
  BY <1>1
<1>3. PICK n \in Sizes : \A m \in Sizes : n <= m
  BY <1>2, LeastNumber
<1>4. PICK T \in Wrong : Cardinality(T) = n
  BY <1>3
<1>5. PICK x \in T : T \ {x} \in Wrong
  BY <1>4
<1>6. Cardinality(T \ {x}) = n - 1
  BY <1>1, <1>4, <1>5, FS_RemoveElement
<1>7. Cardinality(T \ {x}) \in Sizes
  BY <1>5
<1>8. n <= Cardinality(T \ {x})
  BY <1>3, <1>7
<1>9. n \in Nat
  BY <1>2
<1>. QED BY <1>6, <1>8, <1>9

\* The same where the order does not matter.
LEMMA LoopSteps ==
  ASSUME NEW S, IsFiniteSet(S), NEW Fine, {} \in Fine,
         \A T \in SUBSET S : T # {} => \E x \in T : T \ {x} \in Fine => T \in Fine
  PROVE  \A T \in SUBSET S : T \in Fine
<1> DEFINE Good == SUBSET S
<1>1. Good \in SUBSET SUBSET S
  OBVIOUS
<1>2. \A T \in Good : T # {} => \E x \in T : T \ {x} \in Good /\ (T \ {x} \in Fine => T \in Fine)
  OBVIOUS
<1>3. \A T \in SUBSET S : T \in Good
  OBVIOUS
<1> HIDE DEF Good
<1>4. Good \subseteq Fine
  BY <1>1, <1>2, LoopInduction
<1>. QED BY <1>3, <1>4

\* The last place of a part of a loop is behind the others of its row.
LEMMA LastInRow ==
  ASSUME NEW T \in SUBSET Pos, T # {}
  PROVE  /\ \A q \in T : q.row = Last(T, Forward).row => q.col <= Last(T, Forward).col
         /\ \A q \in T : q.row = Last(T, Backward).row => q.col >= Last(T, Backward).col
<1> DEFINE p == Last(T, Forward)
           q == Last(T, Backward)
<1>1. /\ \A x \in T \ {p} : Forward(x, p)
      /\ \A x \in T \ {q} : Backward(x, q)
      /\ p \in T /\ q \in T
  BY LastIsMember
<1>2. \A x \in T : x.row \in Int /\ x.col \in Int
  BY PosFacts
<1> HIDE DEF p, q
<1>3. ASSUME NEW x \in T, x.row = p.row PROVE x.col <= p.col
  BY <1>1, <1>2, <1>3 DEF Forward
<1>4. ASSUME NEW x \in T, x.row = q.row PROVE x.col >= q.col
  BY <1>1, <1>2, <1>4 DEF Backward
<1>. QED BY <1>3, <1>4 DEF p, q

-----------------------------------------------------------------------------
(* Insertions in progress.                                                 *)

\* The holders whose formulas name one of V.
UsersOf(V) == {u \in Pos : \E h \in V : usedBy[h][u] > 0}

\* The formulas that use a holder of V have been renamed; at is where the
\* holders are.
InsertedSo(e, axis, before, count, V, at) ==
  /\ e \in EditState /\ e.at = at /\ e.usedBy = usedBy /\ e.cache = cache
  /\ e.undefined = FALSE /\ e.changed = UsersOf(V)
  /\ e.content = [u \in Pos |-> IF u \in UsersOf(V)
                                THEN InsertedAll(content[u], axis, before, count)
                                ELSE content[u]]

\* Whoever is listed holds a formula.
LEMMA UsersAreFormulas ==
  ASSUME Tidy, NEW V \in SUBSET Pos
  PROVE  \A u \in UsersOf(V) : u \in Pos /\ content[u] \in Formula /\ content[u] # Absent
<1>1. \A h \in V, u \in Pos : usedBy[h][u] > 0 => h \in GetReferencedCells(content[u])
  BY DEF Tidy, GraphInv, EdgesOK
<1>2. Absent \notin Formula
  BY TextAssumption DEF Text
<1>. QED BY <1>1, <1>2 DEF UsersOf, GetReferencedCells

\* Before its first step an insertion has moved and renamed nothing.
LEMMA BeganIsInserted ==
  ASSUME TableOK, NEW axis, NEW before, NEW count
  PROVE  InsertedSo(Began, axis, before, count, {}, Began.at)
<1>1. UsersOf({}) = {}
  BY DEF UsersOf
<1>2. content = [u \in Pos |-> content[u]]
  BY DEF TableOK, Contents
<1>. QED BY <1>1, <1>2, BeganType DEF InsertedSo, Began

\* UpdateFormulas before a holder moves.
LEMMA InsertUpdateStep ==
  ASSUME TableOK, Tidy, NEW axis \in Axis, NEW before \in Nat, NEW count \in Nat \ {0},
         NEW V \in SUBSET Pos, NEW at, NEW e, InsertedSo(e, axis, before, count, V, at),
         NEW p \in Pos
  PROVE  InsertedSo(UpdateFormulaOnInsert(e, p, axis, before, count), axis, before, count,
                    V \cup ({at[p]} \ {Absent}), at)
<1>1. CASE at[p] = Absent
  <2>1. UpdateFormulaOnInsert(e, p, axis, before, count) = e
    BY <1>1 DEF UpdateFormulaOnInsert, InsertedSo
  <2>2. V \cup ({at[p]} \ {Absent}) = V
    BY <1>1
  <2>. QED BY <2>1, <2>2
<1>2. CASE at[p] # Absent
  <2> PICK h \in Pos : h = at[p]
    BY <1>2 DEF InsertedSo, EditState
  <2> DEFINE W == V \cup {h}
             users == Users(e, h) \ e.changed
             texts == [u \in Pos |-> IF u \in users /\ e.content[u] \in Formula
                                     THEN InsertedAll(e.content[u], axis, before, count)
                                     ELSE e.content[u]]
  <2>1. V \cup ({at[p]} \ {Absent}) = W
    BY <1>2
  <2>2. UpdateFormulaOnInsert(e, p, axis, before, count) =
          [e EXCEPT !.content = texts, !.changed = @ \cup users,
                    !.undefined = @ \/ Dead(e, users)]
    BY <1>2 DEF UpdateFormulaOnInsert, UpdateFormulas, InsertedSo
  <2>3. users = UsersOf({h}) \ UsersOf(V) /\ UsersOf(W) = UsersOf(V) \cup users
    BY DEF Users, UsersOf, InsertedSo
  <2>4. \A u \in users : /\ u \in Pos /\ e.content[u] = content[u]
                         /\ content[u] \in Formula /\ content[u] # Absent
    BY <2>3, UsersAreFormulas DEF InsertedSo
  <2>5. Dead(e, users) = FALSE
    BY <2>4 DEF Dead, CellExists
  <2>6. texts = [u \in Pos |-> IF u \in UsersOf(W)
                               THEN InsertedAll(content[u], axis, before, count)
                               ELSE content[u]]
    <3>1. \A u \in Pos : texts[u] = IF u \in UsersOf(W)
                                    THEN InsertedAll(content[u], axis, before, count)
                                    ELSE content[u]
      BY <2>3, <2>4 DEF InsertedSo
    <3>. QED BY <3>1
  <2> HIDE DEF texts, users, W
  <2>7. UpdateFormulaOnInsert(e, p, axis, before, count) \in EditState
    BY InsertUpdateType DEF InsertedSo
  <2> PICK d : d = UpdateFormulaOnInsert(e, p, axis, before, count)
    OBVIOUS
  <2>8. e \in EditState /\ e.undefined = FALSE
    BY DEF InsertedSo
  <2>9. /\ d.at = e.at /\ d.usedBy = e.usedBy /\ d.cache = e.cache /\ d.content = texts
        /\ d.changed = e.changed \cup users /\ d.undefined = FALSE
    BY <2>2, <2>5, <2>8 DEF EditState
  <2>10. InsertedSo(d, axis, before, count, W, at)
    BY <2>3, <2>6, <2>7, <2>9 DEF InsertedSo
  <2>. QED BY <2>1, <2>10
<1>. QED BY <1>1, <1>2

\* unique_ptr's move to a place where there is no holder.
MovedPlaces(at, p, q) ==
  [x \in Pos |-> IF x = q THEN at[p] ELSE IF x = p THEN Absent ELSE at[x]]

\* A move to an empty place destroys nothing.
LEMMA MoveToEmpty ==
  ASSUME NEW e \in EditState, NEW p \in Pos, NEW q \in Pos, p # q, e.at[q] = Absent
  PROVE  Move(e, p, q) = [e EXCEPT !.at = MovedPlaces(e.at, p, q)]
<1>1. Destroy(e, q) = e
  BY DEF Destroy
<1>2. [[e.at EXCEPT ![q] = e.at[p]] EXCEPT ![p] = Absent] = MovedPlaces(e.at, p, q)
  BY DEF MovedPlaces, EditState
<1>. QED BY <1>1, <1>2 DEF Move, EditState

\* A move to an empty place changes where the holders are and nothing else.
LEMMA MovePlaces ==
  ASSUME NEW e \in EditState, NEW a \in [Pos -> Pos \cup {Absent}],
         NEW p \in Pos, NEW q \in Pos, p # q, a[q] = Absent
  PROVE  Move([e EXCEPT !.at = a], p, q) = [e EXCEPT !.at = MovedPlaces(a, p, q)]
<1> DEFINE d == [e EXCEPT !.at = a]
<1>1. d \in EditState /\ d.at = a
  BY DEF EditState
<1>2. \A b : [d EXCEPT !.at = b] = [e EXCEPT !.at = b]
  BY DEF EditState
<1> HIDE DEF d
<1>3. Move(d, p, q) = [d EXCEPT !.at = MovedPlaces(d.at, p, q)]
  BY <1>1, MoveToEmpty
<1>. QED BY <1>1, <1>2, <1>3 DEF d

\* A move of an insertion, to an empty place.
LEMMA InsertMoveStep ==
  ASSUME NEW axis, NEW before, NEW count, NEW V, NEW at, NEW e,
         InsertedSo(e, axis, before, count, V, at),
         NEW p \in Pos, NEW q \in Pos, p # q, at[q] = Absent
  PROVE  InsertedSo(Move(e, p, q), axis, before, count, V, MovedPlaces(at, p, q))
<1> PICK d : d = Move(e, p, q)
  OBVIOUS
<1>1. e \in EditState /\ e.at = at
  BY DEF InsertedSo
<1>2. d = [e EXCEPT !.at = MovedPlaces(e.at, p, q)] /\ d \in EditState
  BY <1>1, MoveToEmpty, MoveType
<1>3. /\ d.at = MovedPlaces(at, p, q) /\ d.content = e.content /\ d.usedBy = e.usedBy
      /\ d.cache = e.cache /\ d.changed = e.changed /\ d.undefined = e.undefined
  BY <1>1, <1>2 DEF EditState
<1>4. InsertedSo(d, axis, before, count, V, MovedPlaces(at, p, q))
  BY <1>2, <1>3 DEF InsertedSo
<1>. QED BY <1>4

\* The holders at the places of S.
HoldersAt(at, S) == {at[p] : p \in S} \ {Absent}

\* UpdateRowOnInsert handles the users of every cell of the row.
LEMMA InsertRowUpdated ==
  ASSUME TableOK, Tidy, NEW before \in Nat, NEW count \in Nat \ {0},
         NEW V \in SUBSET Pos, NEW at, NEW e, InsertedSo(e, "row", before, count, V, at),
         NEW i \in Row
  PROVE  InsertedSo(UpdateRowOnInsert(e, i, before, count), "row", before, count,
                    V \cup HoldersAt(at, InRow(i)), at)
<1> DEFINE S == InRow(i)
<1>1. e \in EditState /\ e.at = at /\ at \in [Pos -> Pos \cup {Absent}]
  BY DEF InsertedSo, EditState
<1>2. S \in SUBSET Pos /\ IsFiniteSet(S)
  BY PosIsFinite, FS_Subset DEF InRow
<1> PICK it : /\ UpdateRowOnInsert(e, i, before, count) = it[S]
               /\ InsertUpdatesSteps(it, e, i, before, count)
  BY <1>1, InsertUpdatesUnfolds
<1>3. /\ it[{}] = e
      /\ \A T \in SUBSET S : T # {} =>
           \E p \in T : it[T] = UpdateFormulaOnInsert(it[T \ {p}], p, "row", before, count)
  BY DEF InsertUpdatesSteps
<1> DEFINE Holds(T) == InsertedSo(it[T], "row", before, count, V \cup HoldersAt(at, T), at)
           Fine == {T \in SUBSET S : Holds(T)}
<1>4. {} \in Fine
  <2>1. V \cup HoldersAt(at, {}) = V
    BY DEF HoldersAt
  <2>. QED BY <1>3, <2>1
<1>5. ASSUME NEW T \in SUBSET S, T # {}
      PROVE  \E p \in T : T \ {p} \in Fine => T \in Fine
  <2> PICK p \in T : it[T] = UpdateFormulaOnInsert(it[T \ {p}], p, "row", before, count)
    BY <1>3, <1>5
  <2> SUFFICES ASSUME Holds(T \ {p}) PROVE Holds(T)
    OBVIOUS
  <2> DEFINE W == V \cup HoldersAt(at, T \ {p})
  <2>1. W \in SUBSET Pos /\ p \in Pos
    BY <1>1, <1>2 DEF HoldersAt
  <2>2. W \cup ({at[p]} \ {Absent}) = V \cup HoldersAt(at, T)
    BY DEF HoldersAt
  <2>3. InsertedSo(it[T \ {p}], "row", before, count, W, at)
    OBVIOUS
  <2> HIDE DEF W
  <2>4. InsertedSo(it[T], "row", before, count, W \cup ({at[p]} \ {Absent}), at)
    BY <2>1, <2>3, InsertUpdateStep DEF Axis
  <2>. QED BY <2>2, <2>4
<1> HIDE DEF Fine, Holds, S
<1>6. S \in Fine
  BY <1>2, <1>4, <1>5, LoopSteps
<1>7. Holds(S)
  BY <1>6 DEF Fine
<1>. QED BY <1>7 DEF Holds, S

\* What a row that moves to an empty one leaves.
RowMoved(at, i, j) ==
  [x \in Pos |-> IF x.row = i THEN Absent
                 ELSE IF x.row = j THEN at[At(i, x.col)] ELSE at[x]]

\* A row moves to where no holder is.
LEMMA MoveRowToEmpty ==
  ASSUME NEW e \in EditState, NEW i \in Row, NEW j \in Row, i # j,
         \A x \in InRow(j) : e.at[x] = Absent
  PROVE  MoveRow(e, i, j) = [e EXCEPT !.at = RowMoved(e.at, i, j)]
<1> DEFINE S == InRow(i)
           places(T) == [x \in Pos |-> IF x \in T THEN Absent
                                       ELSE IF x.row = j /\ At(i, x.col) \in T THEN e.at[At(i, x.col)]
                                       ELSE e.at[x]]
<1>1. S \in SUBSET Pos /\ IsFiniteSet(S) /\ \A x \in S : x.row = i
  BY PosIsFinite, FS_Subset DEF InRow
<1> PICK it : MoveRow(e, i, j) = it[S] /\ MoveRowSteps(it, e, i, j)
  BY MoveRowUnfolds
<1>2. /\ it[{}] = e
      /\ \A T \in SUBSET S : T # {} => \E p \in T : it[T] = Move(it[T \ {p}], p, At(j, p.col))
  BY DEF MoveRowSteps
<1>3. \A x \in Pos : /\ x = At(x.row, x.col) /\ x.row \in Row
                     /\ At(i, x.col) \in S /\ At(i, x.col).col = x.col
                     /\ At(j, x.col) \in Pos /\ At(j, x.col).row = j /\ At(j, x.col).col = x.col
  BY PosFacts DEF Row, InRow
<1>4. \A x \in Pos : x.row = j => e.at[x] = Absent
  BY DEF InRow
<1>5. e.at \in [Pos -> Pos \cup {Absent}]
  BY DEF EditState
<1> DEFINE Fine == {T \in SUBSET S : it[T] = [e EXCEPT !.at = places(T)]}
<1>6. {} \in Fine
  <2>1. places({}) = e.at
    BY <1>5
  <2>. QED BY <1>2, <2>1 DEF EditState
<1>7. ASSUME NEW T \in SUBSET S, T # {}
      PROVE  \E p \in T : T \ {p} \in Fine => T \in Fine
  <2> PICK p \in T : it[T] = Move(it[T \ {p}], p, At(j, p.col))
    BY <1>2, <1>7
  <2> SUFFICES ASSUME it[T \ {p}] = [e EXCEPT !.at = places(T \ {p})]
               PROVE  it[T] = [e EXCEPT !.at = places(T)]
    OBVIOUS
  <2> PICK q \in Pos : q = At(j, p.col)
    BY <1>1, <1>3
  <2>1. p \in Pos /\ p.row = i /\ q.row = j /\ q.col = p.col /\ q # p
    BY <1>1, <1>3
  <2> DEFINE a == places(T \ {p})
  <2>2. a \in [Pos -> Pos \cup {Absent}]
    BY <1>1, <1>5
  <2>3. a[q] = Absent
    <3>1. q \notin T
      BY <1>1, <2>1
    <3>2. At(i, q.col) = p
      BY <1>3, <2>1
    <3>. QED BY <1>4, <2>1, <3>1, <3>2
  <2>4. a[p] = e.at[p]
    BY <2>1
  <2>5. MovedPlaces(a, p, q) = places(T)
    <3>1. ASSUME NEW x \in Pos
          PROVE  MovedPlaces(a, p, q)[x] = places(T)[x]
      <4>1. CASE x = q
        <5>1. At(i, q.col) = p
          BY <1>3, <2>1
        <5>2. q \notin T
          BY <1>1, <2>1
        <5>. QED BY <2>1, <2>4, <4>1, <5>1, <5>2 DEF MovedPlaces
      <4>2. CASE x = p
        BY <2>1, <4>2 DEF MovedPlaces
      <4>3. CASE x # p /\ x # q
        <5>1. x.row = j => At(i, x.col) # p
          BY <1>3, <2>1, <4>3
        <5>. QED BY <4>3, <5>1 DEF MovedPlaces
      <4>. QED BY <4>1, <4>2, <4>3
    <3>2. /\ MovedPlaces(a, p, q) = [x \in Pos |-> MovedPlaces(a, p, q)[x]]
          /\ places(T) = [x \in Pos |-> places(T)[x]]
      BY DEF MovedPlaces
    <3> HIDE DEF a, places
    <3>. QED BY <3>1, <3>2
  <2> HIDE DEF a, places
  <2>6. Move([e EXCEPT !.at = a], p, q) = [e EXCEPT !.at = MovedPlaces(a, p, q)]
    BY <2>1, <2>2, <2>3, MovePlaces
  <2>. QED BY <2>5, <2>6 DEF a
<1> HIDE DEF Fine, S
<1>8. S \in Fine
  BY <1>1, <1>6, <1>7, LoopSteps
<1>9. it[S] = [e EXCEPT !.at = places(S)]
  BY <1>8 DEF Fine
<1>10. places(S) = RowMoved(e.at, i, j)
  <2>1. \A x \in Pos : x \in S <=> x.row = i
    BY DEF S, InRow
  <2>. QED BY <1>3, <2>1 DEF RowMoved
<1>. QED BY <1>9, <1>10

\* What an insertion has renamed so far does not depend on where holders are.
LEMMA InsertedElsewhere ==
  ASSUME NEW axis, NEW before, NEW count, NEW V, NEW at, NEW e,
         InsertedSo(e, axis, before, count, V, at), NEW a \in [Pos -> Pos \cup {Absent}]
  PROVE  InsertedSo([e EXCEPT !.at = a], axis, before, count, V, a)
<1> PICK d : d = [e EXCEPT !.at = a]
  OBVIOUS
<1>1. e \in EditState
  BY DEF InsertedSo
<1>2. /\ d \in EditState
      /\ d.at = a /\ d.content = e.content /\ d.usedBy = e.usedBy
      /\ d.cache = e.cache /\ d.changed = e.changed /\ d.undefined = e.undefined
  BY <1>1 DEF EditState
<1>3. InsertedSo(d, axis, before, count, V, a)
  BY <1>2 DEF InsertedSo
<1>. QED BY <1>3

\* A formula that names nothing that moves stays as it is.
LEMMA RenamesNothing ==
  ASSUME NEW f \in Formula, NEW to, Naming(to), \A r \in Refs(f) : to[r] = r
  PROVE  Renaming(f, to) = f
<1>1. f \in Seq(Reference) /\ \A i \in DOMAIN f : f[i] \in Refs(f) \/ f[i] = Deleted
  BY FormulaReads
<1>2. \A i \in DOMAIN f : to[f[i]] = f[i]
  BY <1>1 DEF Naming
<1>3. f = [i \in DOMAIN f |-> f[i]]
  BY <1>1
<1>4. Renaming(f, to) = [i \in DOMAIN f |-> to[f[i]]]
  BY DEF Renaming
<1>5. [i \in DOMAIN f |-> to[f[i]]] = [i \in DOMAIN f |-> f[i]]
  BY <1>2
<1>. QED BY <1>3, <1>4, <1>5

\* Every holder that an edit keeps is at its new place, and no other is left.
Arrived(at, to) ==
  /\ \A h \in Kept(to) : to[h] \in Pos /\ at[to[h]] = h
  /\ \A x \in Pos : at[x] # Absent => at[x] \in Kept(to) /\ to[at[x]] = x

\* V has the holders that move.
HasMoving(V, axis, index) ==
  \A h \in Pos : (CellExists(content, h) /\ Beyond(h, axis, index)) => h \in V

\* An insertion is done when every holder is where its new name is, and all
\* that uses one that has moved has been renamed.
LEMMA InsertedEdited ==
  ASSUME TableOK, Tidy, NEW axis \in Axis, NEW r \in Ranges,
         NEW to, to = InsertedNames(axis, r.index, r.count),
         NEW V \in SUBSET Pos, NEW at, NEW e,
         InsertedSo(e, axis, r.index, r.count, V, at), Arrived(at, to),
         HasMoving(V, axis, r.index)
  PROVE  Edited(e, to)
<1>1. /\ Naming(to)
      /\ \A f \in Formula : Renaming(f, to) = InsertedAll(f, axis, r.index, r.count)
      /\ \A p \in Pos : to[p] = Inserted(p, axis, r.index, r.count) /\ to[p] # Deleted
  BY InsertedNaming
<1>2. \A h \in Pos : h \in Kept(to) <=> CellExists(content, h)
  BY <1>1 DEF Kept
<1>3. Kept(to) \subseteq Pos
  BY DEF Kept
<1>4. e \in EditState /\ e.at = at /\ e.usedBy = usedBy /\ e.cache = cache
  BY DEF InsertedSo
<1>5. \A x \in Pos : e.at[x] # Absent => e.at[x] \in Kept(to) /\ to[e.at[x]] = x
  BY <1>4 DEF Arrived
<1>6. \A h \in Kept(to) : to[h] \in Pos /\ e.at[to[h]] = h
  BY <1>4 DEF Arrived
<1>7. ASSUME NEW h \in Kept(to) PROVE e.content[h] = Renaming(content[h], to)
  <2>1. h \in Pos
    BY <1>3
  <2>2. CASE h \in UsersOf(V)
    <3>1. content[h] \in Formula
      BY <2>2, UsersAreFormulas
    <3>. QED BY <1>1, <2>1, <2>2, <3>1 DEF InsertedSo
  <2>3. CASE h \notin UsersOf(V) /\ content[h] \in Formula
    <3>1. ASSUME NEW x \in Refs(content[h]) PROVE to[x] = x
      <4>1. x \in Pos
        BY <2>3, FormulaAssumption
      <4>2. usedBy[x][h] > 0
        BY <2>1, <2>3, <4>1 DEF Tidy, AllLinked, GetReferencedCells
      <4>3. CellExists(content, x)
        BY <2>1, <4>1, <4>2 DEF Tidy, GraphInv, EdgesOK
      <4>4. ~Beyond(x, axis, r.index)
        BY <2>1, <2>3, <4>1, <4>2, <4>3 DEF UsersOf, HasMoving
      <4>. QED BY <1>1, <4>1, <4>4 DEF Inserted
    <3>2. Renaming(content[h], to) = content[h]
      <4> PICK f \in Formula : f = content[h]
        BY <2>3
      <4>1. \A x \in Refs(f) : to[x] = x
        BY <3>1
      <4>2. Naming(to)
        BY <1>1
      <4>3. Renaming(f, to) = f
        BY <4>1, <4>2, RenamesNothing
      <4>. QED BY <4>3
    <3>. QED BY <2>1, <2>3, <3>2 DEF InsertedSo
  <2>4. CASE h \notin UsersOf(V) /\ content[h] \notin Formula
    BY <2>1, <2>4 DEF InsertedSo, Renaming
  <2>. QED BY <2>2, <2>3, <2>4
<1>8. ASSUME NEW x \in Kept(to), NEW u \in Pos, usedBy[x][u] > 0 PROVE u \in Kept(to)
  <2>1. content[u] # Absent
    BY <1>3, <1>8, UsersAreFormulas DEF UsersOf
  <2>. QED BY <1>2, <2>1 DEF CellExists
<1>9. CachesLeft(e, to)
  <2>1. \A h \in Kept(to) : content[h] \in Formula => \A x \in Refs(content[h]) : to[x] # Deleted
    BY <1>1, FormulaAssumption
  <2>2. StaleOK(content, usedBy, cache)
    BY DEF Tidy, GraphInv
  <2>. QED BY <1>3, <1>4, <2>1, <2>2 DEF CachesLeft, StaleOK
<1>. QED BY <1>1, <1>4, <1>5, <1>6, <1>7, <1>8, <1>9 DEF Edited

\* Rows before .. before + count - 1 move one by one to empty rows.
RowsInserted(T, count) ==
  [x \in Pos |-> IF x.row \in T THEN Absent
                 ELSE IF x.row - count \in T THEN Began.at[At(x.row - count, x.col)]
                 ELSE Began.at[x]]

\* The holders of some rows.
InRows(T) == {h \in Pos : CellExists(content, h) /\ h.row \in T}

\* One step of the loop of InsertRows.
LEMMA InsertRowStep ==
  ASSUME TableOK, Tidy, NEW before \in Nat, NEW count \in Nat \ {0},
         rowsCount + count <= Rows, before + count <= rowsCount,
         \A p \in Pos : p.row >= before + count => ~CellExists(content, p),
         NEW T \in SUBSET (before .. before + count - 1), NEW i \in T, NEW e,
         InsertedSo(e, "row", before, count, InRows(T \ {i}), RowsInserted(T \ {i}, count))
  PROVE  InsertedSo(MoveRow(UpdateRowOnInsert(e, i, before, count), i, i + count),
                    "row", before, count, InRows(T), RowsInserted(T, count))
<1> DEFINE at == RowsInserted(T \ {i}, count)
           V == InRows(T \ {i})
<1>1. /\ i \in Row /\ i + count \in Row /\ i # i + count /\ i \in Nat
      /\ i \in before .. before + count - 1
  <2>1. rowsCount \in 0 .. Rows
    BY DEF Tidy
  <2>. QED BY <2>1, RowsFinite DEF Row
<1>2. V \in SUBSET Pos
  BY DEF InRows
<1>3. \A x \in Pos : /\ x = At(x.row, x.col) /\ x.row \in Nat
                     /\ At(i, x.col) \in Pos /\ At(i, x.col).row = i /\ At(i, x.col).col = x.col
  BY <1>1, PosFacts DEF Row
<1>4. ASSUME NEW x \in Pos, x.row = i PROVE at[x] = Began.at[x]
  <2>1. x.row - count \notin T
    BY <1>1, <1>4
  <2>. QED BY <1>4, <2>1 DEF RowsInserted
<1>5. HoldersAt(at, InRow(i)) = InRows({i})
  <2>0. Absent \notin Pos
    BY EnteredAssumption
  <2>1. \A x \in InRow(i) : x \in Pos /\ x.row = i /\ at[x] = IF CellExists(content, x) THEN x ELSE Absent
    BY <1>4 DEF InRow, Began
  <2>2. \A x \in InRows({i}) : x \in InRow(i) /\ x # Absent /\ CellExists(content, x)
    BY <2>0 DEF InRows, InRow
  <2> HIDE DEF at
  <2>3. ASSUME NEW h \in HoldersAt(at, InRow(i)) PROVE h \in InRows({i})
    BY <2>1 DEF HoldersAt, InRows
  <2>4. ASSUME NEW h \in InRows({i}) PROVE h \in HoldersAt(at, InRow(i))
    BY <2>1, <2>2 DEF HoldersAt
  <2>. QED BY <2>3, <2>4
<1>6. V \cup HoldersAt(at, InRow(i)) = InRows(T)
  BY <1>5 DEF InRows
<1>7. ASSUME NEW x \in InRow(i + count) PROVE at[x] = Absent
  <2>1. x \in Pos /\ x.row = i + count /\ x.row >= before + count
    BY <1>1 DEF InRow
  <2>2. x.row \notin T /\ x.row - count = i
    BY <1>1, <2>1
  <2>. QED BY <2>1, <2>2 DEF RowsInserted, Began
<1>8. RowMoved(at, i, i + count) = RowsInserted(T, count)
  <2>1. ASSUME NEW x \in Pos
        PROVE  RowMoved(at, i, i + count)[x] = RowsInserted(T, count)[x]
    <3>1. CASE x.row = i
      BY <3>1 DEF RowMoved, RowsInserted
    <3>2. CASE x.row = i + count
      <4>1. x.row \notin T /\ x.row - count = i /\ x.row # i
        BY <1>1, <3>2
      <4>2. at[At(i, x.col)] = Began.at[At(i, x.col)]
        BY <1>3, <1>4
      <4> HIDE DEF at
      <4>. QED BY <3>2, <4>1, <4>2 DEF RowMoved, RowsInserted
    <3>3. CASE x.row # i /\ x.row # i + count
      <4>1. x.row - count # i
        BY <1>1, <1>3, <3>3
      <4>. QED BY <3>3, <4>1 DEF RowMoved, RowsInserted
    <3>. QED BY <3>1, <3>2, <3>3
  <2>2. /\ RowMoved(at, i, i + count) = [x \in Pos |-> RowMoved(at, i, i + count)[x]]
        /\ RowsInserted(T, count) = [x \in Pos |-> RowsInserted(T, count)[x]]
    BY DEF RowMoved, RowsInserted
  <2> HIDE DEF at
  <2>. QED BY <2>1, <2>2
<1> HIDE DEF at, V
<1>9. InsertedSo(e, "row", before, count, V, at)
  BY DEF at, V
<1> PICK d : d = UpdateRowOnInsert(e, i, before, count)
  OBVIOUS
<1>10. InsertedSo(d, "row", before, count, InRows(T), at)
  BY <1>1, <1>2, <1>6, <1>9, InsertRowUpdated
<1>11. d \in EditState /\ d.at = at
  BY <1>10 DEF InsertedSo
<1>12. MoveRow(d, i, i + count) = [d EXCEPT !.at = RowsInserted(T, count)]
  BY <1>1, <1>7, <1>8, <1>11, MoveRowToEmpty
<1>13. RowsInserted(T, count) \in [Pos -> Pos \cup {Absent}]
  <2>1. MoveRow(d, i, i + count) \in EditState
    BY <1>1, <1>11, MoveRowType
  <2>2. MoveRow(d, i, i + count).at = RowsInserted(T, count)
    BY <1>11, <1>12 DEF EditState
  <2>. QED BY <2>1, <2>2 DEF EditState
<1>14. InsertedSo([d EXCEPT !.at = RowsInserted(T, count)], "row", before, count, InRows(T),
                  RowsInserted(T, count))
  BY <1>10, <1>13, InsertedElsewhere
<1>. QED BY <1>12, <1>14

\* The loop of InsertRows.
LEMMA InsertRowsLoops ==
  ASSUME TableOK, Tidy, NEW before \in Nat, NEW count \in Nat \ {0},
         rowsCount + count <= Rows, before + count <= rowsCount,
         \A p \in Pos : p.row >= before + count => ~CellExists(content, p)
  PROVE  InsertedSo(InsertRowsLoop(before, count), "row", before, count,
                    InRows(before .. before + count - 1),
                    RowsInserted(before .. before + count - 1, count))
<1> DEFINE S == before .. before + count - 1
<1>1. rowsCount \in Int
  BY DEF Tidy
<1> PICK it : InsertRowsLoop(before, count) = it[S] /\ InsertRowsSteps(it, before, count)
  BY <1>1, InsertRowsUnfolds
<1>2. /\ it[{}] = Began
      /\ \A T \in SUBSET S : T # {} =>
           \E i \in T :
             it[T] = MoveRow(UpdateRowOnInsert(it[T \ {i}], i, before, count), i, i + count)
  BY DEF InsertRowsSteps
<1>3. IsFiniteSet(S)
  BY FS_Interval
<1> DEFINE Holds(T) == InsertedSo(it[T], "row", before, count, InRows(T), RowsInserted(T, count))
           Fine == {T \in SUBSET S : Holds(T)}
<1>4. {} \in Fine
  <2>1. InRows({}) = {} /\ RowsInserted({}, count) = Began.at
    BY DEF InRows, RowsInserted, Began
  <2>2. InsertedSo(Began, "row", before, count, {}, Began.at)
    BY BeganIsInserted
  <2>. QED BY <1>2, <2>1, <2>2
<1>5. ASSUME NEW T \in SUBSET S, T # {}
      PROVE  \E i \in T : T \ {i} \in Fine => T \in Fine
  <2> PICK i \in T :
        it[T] = MoveRow(UpdateRowOnInsert(it[T \ {i}], i, before, count), i, i + count)
    BY <1>2, <1>5
  <2> SUFFICES ASSUME Holds(T \ {i}) PROVE Holds(T)
    OBVIOUS
  <2>. QED BY InsertRowStep
<1> HIDE DEF Fine, Holds, S
<1>6. S \in Fine
  BY <1>3, <1>4, <1>5, LoopSteps
<1>7. Holds(S)
  BY <1>6 DEF Fine
<1>. QED BY <1>7 DEF Holds, S

\* The new names, coordinate by coordinate.
LEMMA NewNames ==
  ASSUME NEW p \in Pos, NEW index \in Nat, NEW count \in Nat \ {0}
  PROVE  /\ Inserted(p, "row", index, count) =
              IF p.row >= index THEN At(p.row + count, p.col) ELSE p
         /\ Inserted(p, "col", index, count) =
              IF p.col >= index THEN At(p.row, p.col + count) ELSE p
         /\ ~Within(p, "row", index, count) =>
              Removed(p, "row", index, count) =
                IF p.row >= index + count THEN At(p.row - count, p.col) ELSE p
         /\ ~Within(p, "col", index, count) =>
              Removed(p, "col", index, count) =
                IF p.col >= index + count THEN At(p.row, p.col - count) ELSE p
<1>1. p \in Reference /\ p.row \in Int /\ p.col \in Int /\ p = At(p.row, p.col)
  BY PosFacts DEF Reference
<1>2. \A q \in Reference : q = At(q.row, q.col)
  BY DEF Reference, At
<1>3. /\ Inserted(p, "row", index, count) \in Reference /\ Inserted(p, "col", index, count) \in Reference
      /\ Inserted(p, "row", index, count).col = p.col
      /\ Inserted(p, "row", index, count).row = IF p.row >= index THEN p.row + count ELSE p.row
      /\ Inserted(p, "col", index, count).row = p.row
      /\ Inserted(p, "col", index, count).col = IF p.col >= index THEN p.col + count ELSE p.col
  BY <1>1, InsertedFacts DEF Axis
<1>4. /\ Removed(p, "row", index, count) \in Reference /\ Removed(p, "col", index, count) \in Reference
      /\ ~Within(p, "row", index, count) =>
           /\ Removed(p, "row", index, count).col = p.col
           /\ Removed(p, "row", index, count).row = IF p.row >= index + count THEN p.row - count ELSE p.row
      /\ ~Within(p, "col", index, count) =>
           /\ Removed(p, "col", index, count).row = p.row
           /\ Removed(p, "col", index, count).col = IF p.col >= index + count THEN p.col - count ELSE p.col
  BY <1>1, RemovedFacts DEF Axis
<1>. QED BY <1>1, <1>2, <1>3, <1>4

\* Began: every holder at its own place.
LEMMA BeganPlaces ==
  /\ \A p \in Pos : Began.at[p] = IF CellExists(content, p) THEN p ELSE Absent
  /\ Absent \notin Pos
BY EnteredAssumption DEF Began

\* The whole of InsertRows.
LEMMA InsertRowsEdited ==
  ASSUME TableOK, Tidy, NEW r \in Ranges,
         rowsCount + r.count <= Rows, r.index + r.count <= rowsCount,
         \A p \in Pos : p.row >= r.index + r.count => ~CellExists(content, p)
  PROVE  LET e == InsertRowsLoop(r.index, r.count)
         IN  e \in EditState /\ e.undefined = FALSE
             /\ Edited(e, InsertedNames("row", r.index, r.count))
<1> PICK index \in Nat, count \in Nat \ {0} : index = r.index /\ count = r.count
  BY EnteredAssumption
<1> PICK to : to = InsertedNames("row", index, count)
  OBVIOUS
<1> PICK e : e = InsertRowsLoop(index, count)
  OBVIOUS
<1> DEFINE S == index .. index + count - 1
           at == RowsInserted(S, count)
<1>1. InsertedSo(e, "row", index, count, InRows(S), at)
  BY InsertRowsLoops
<1>2. \A p \in Pos : to[p] = Inserted(p, "row", index, count)
  BY InsertedNaming DEF Axis
<1>3. \A h \in Pos : CellExists(content, h) => h.row < index + count
  <2>1. \A h \in Pos : h.row \in Int
    BY PosFacts
  <2>. QED BY <2>1
<1>4. rowsCount \in Nat /\ Rows \in Nat
  BY TableAssumption DEF Tidy
<1>5. ASSUME NEW h \in Pos, CellExists(content, h) PROVE to[h] \in Pos /\ at[to[h]] = h
  <2>1. h.row \in Nat /\ h = At(h.row, h.col) /\ h.col \in 0 .. Cols - 1
    BY <1>4, PosFacts
  <2>2. CASE h.row >= index
    <3>1. h.row \in S /\ h.row + count \in 0 .. Rows - 1 /\ h.row + count \notin S
          /\ h.row + count - count = h.row
      BY <1>3, <1>4, <1>5, <2>1, <2>2
    <3>2. to[h] = At(h.row + count, h.col)
      BY <1>2, <2>2, NewNames
    <3>3. to[h] \in Pos /\ to[h].row = h.row + count /\ to[h].col = h.col
      BY <2>1, <3>1, <3>2, PosFacts
    <3>4. at[to[h]] = Began.at[At(h.row, h.col)]
      BY <3>1, <3>3 DEF RowsInserted
    <3>. QED BY <1>5, <2>1, <3>3, <3>4, BeganPlaces
  <2>3. CASE ~(h.row >= index)
    <3>1. to[h] = h
      BY <1>2, <2>3, NewNames
    <3>2. h.row \notin S /\ h.row - count \notin S
      BY <2>1, <2>3
    <3>. QED BY <1>5, <3>1, <3>2, BeganPlaces DEF RowsInserted
  <2>. QED BY <2>2, <2>3
<1>6. ASSUME NEW x \in Pos, at[x] # Absent PROVE CellExists(content, at[x]) /\ to[at[x]] = x
  <2>1. x.row \in Nat /\ x = At(x.row, x.col) /\ x.row \in 0 .. Rows - 1 /\ x.col \in 0 .. Cols - 1
    BY <1>4, PosFacts
  <2>2. x.row \notin S
    BY <1>6 DEF RowsInserted
  <2>3. CASE x.row - count \in S
    <3>0. x.row - count \in 0 .. Rows - 1
      BY <1>4, <2>1, <2>3
    <3> PICK y \in Pos : y = At(x.row - count, x.col)
      BY <2>1, <3>0, PosFacts
    <3>1. at[x] = Began.at[y]
      BY <2>2, <2>3 DEF RowsInserted
    <3>2. at[x] = y /\ CellExists(content, y)
      BY <1>6, <3>1, BeganPlaces
    <3>3. y.row = x.row - count /\ y.col = x.col
      BY <2>1, <2>3, PosFacts DEF At
    <3>4. to[y] = At(y.row + count, y.col)
      BY <1>2, <2>3, <3>3, NewNames
    <3>5. y.row + count = x.row
      BY <2>1, <3>3
    <3>. QED BY <2>1, <3>2, <3>3, <3>4, <3>5
  <2>4. CASE x.row - count \notin S
    <3>1. at[x] = x /\ CellExists(content, x)
      BY <1>6, <2>2, <2>4, BeganPlaces DEF RowsInserted
    <3>2. ~(x.row >= index)
      BY <1>3, <2>1, <2>2, <3>1
    <3>. QED BY <1>2, <3>1, <3>2, NewNames
  <2>. QED BY <2>3, <2>4
<1>7. HasMoving(InRows(S), "row", index)
  <2>1. \A h \in Pos : h.row \in Nat
    BY <1>4, PosFacts
  <2>. QED BY <1>3, <2>1 DEF HasMoving, Beyond, InRows
<1> HIDE DEF S, at
<1>8. InRows(S) \in SUBSET Pos
  BY DEF InRows
<1>9. Arrived(at, to)
  <2>1. \A h \in Pos : h \in Kept(to) <=> CellExists(content, h)
    BY InsertedNaming DEF Axis, Kept
  <2>2. Kept(to) \subseteq Pos
    BY DEF Kept
  <2>3. at \in [Pos -> Pos \cup {Absent}]
    BY <1>1 DEF InsertedSo, EditState
  <2>. QED BY <1>5, <1>6, <2>1, <2>2, <2>3 DEF Arrived
<1>10. Edited(e, to)
  <2>1. "row" \in Axis
    BY DEF Axis
  <2>. QED BY <1>1, <1>7, <1>8, <1>9, <2>1, InsertedEdited
<1>. QED BY <1>1, <1>10 DEF InsertedSo

\* An insertion that is done has moved the texts as the contract says.
LEMMA InsertedIsPromised ==
  ASSUME TableOK, Tidy, Running, NEW axis \in Axis, NEW r \in Ranges,
         NEW e \in EditState, Edited(e, InsertedNames(axis, r.index, r.count)),
         Fits(e), Finish(e), outcome' = "Ok"
  PROVE  EditContract!Insert(axis, r.index, r.count)
<1> PICK index \in Nat, count \in Nat \ {0} : index = r.index /\ count = r.count
  BY EnteredAssumption
<1> PICK to : to = InsertedNames(axis, index, count)
  OBVIOUS
<1> DEFINE source(p) == IF p[axis] < index THEN p ELSE EditContract!Shifted(p, axis, -count)
           text(p) == IF p[axis] \in index .. index + count - 1 THEN EmptyText
                      ELSE EditContract!InsertedText(Texts[source(p)], axis, index, count)
<1>1. /\ \A h \in Kept(to) : Texts'[to[h]] = Renaming(Texts[h], to)
      /\ \A x \in Pos : (\A h \in Pos : CellExists(content, h) => to[h] # x) => Texts'[x] = EmptyText
      /\ \A h \in Pos : Texts[h] # EmptyText => CellExists(content, h)
  BY EditedTexts
<1>2. /\ \A f \in Formula : Renaming(f, to) = InsertedAll(f, axis, index, count)
      /\ \A p \in Pos : to[p] = Inserted(p, axis, index, count) /\ to[p] # Deleted
  BY InsertedNaming
<1>3. \A h \in Pos : Texts[h] \in Content \ {Absent}
  <2>1. EmptyText # Absent
    BY TextAssumption DEF Text
  <2>. QED BY <2>1 DEF Texts, GetText, TableOK, Contents, Content
<1>4. \A h \in Pos : EditContract!InsertedText(Texts[h], axis, index, count) = Renaming(Texts[h], to)
  <2>1. \A h \in Pos : Texts[h] \notin UnplacedFormula
    BY <1>3, TextAssumption DEF Content
  <2>2. \A f : EditContract!InsertedAll(f, axis, index, count) = InsertedAll(f, axis, index, count)
    BY DEF EditContract!InsertedAll, EditContract!Inserted, EditContract!Beyond,
       InsertedAll, Inserted, Beyond
  <2>. QED BY <1>2, <2>1, <2>2 DEF EditContract!InsertedText, Renaming
<1>5. Rows \in Nat /\ Cols \in Nat
  BY TableAssumption
<1>6. \A p \in Pos : /\ p \in Reference /\ p[axis] \in Nat
  BY <1>5, PosFacts DEF Axis
<1>0. ASSUME NEW p \in Pos
      PROVE  /\ to[p] \in Reference
             /\ to[p][axis] = IF p[axis] >= index THEN p[axis] + count ELSE p[axis]
             /\ \A other \in Axis : other # axis => to[p][other] = p[other]
  <2>1. p \in Reference /\ to[p] = Inserted(p, axis, index, count)
    BY <1>2, <1>6
  <2>. QED BY <2>1, InsertedFacts
<1>7. ASSUME NEW x \in Pos PROVE Texts'[x] = text(x)
  <2>0. x[axis] \in Nat
    BY <1>6
  <2>1. CASE x[axis] \in index .. index + count - 1
    <3>1. \A h \in Pos : to[h][axis] = IF h[axis] >= index THEN h[axis] + count ELSE h[axis]
      BY <1>0
    <3>2. \A h \in Pos : to[h] # x
      BY <1>6, <2>1, <3>1
    <3>. QED BY <1>1, <2>1, <3>2
  <2>2. CASE x[axis] \notin index .. index + count - 1
    <3> DEFINE y == source(x)
    <3>1. y \in Pos /\ y \in Reference /\ to[y] = x
      <4>1. CASE x[axis] < index
        <5>1. y = x
          BY <4>1
        <5>2. ~Beyond(x, axis, index)
          BY <2>0, <4>1 DEF Beyond
        <5>. QED BY <1>2, <1>6, <5>1, <5>2 DEF Inserted
      <4>2. CASE ~(x[axis] < index)
        <5>0. x[axis] - count \in Nat /\ x[axis] - count >= index /\ x[axis] >= index + count
          BY <2>0, <2>2, <4>2
        <5>1. y = [x EXCEPT ![axis] = @ + (-count)]
          BY <4>2 DEF EditContract!Shifted
        <5>2. y = [x EXCEPT ![axis] = x[axis] - count]
          BY <2>0, <5>1
        <5>3. y = IF axis = "row" THEN At(x.row - count, x.col) ELSE At(x.row, x.col - count)
          BY <5>2, <1>6, PosFacts DEF Axis, At, Reference
        <5>4. y \in Pos /\ y[axis] = x[axis] - count
              /\ \A other \in Axis : other # axis => y[other] = x[other]
          BY <1>5, <1>6, <5>0, <5>3, PosFacts DEF Axis
        <5>5. /\ to[y] \in Reference /\ to[y][axis] = y[axis] + count
              /\ \A other \in Axis : other # axis => to[y][other] = y[other]
          BY <1>0, <5>0, <5>4
        <5>6. \A a \in Axis : to[y][a] = x[a]
          BY <5>0, <5>4, <5>5, <2>0
        <5>7. to[y] = x
          BY <1>6, <5>5, <5>6, Same
        <5>. QED BY <1>6, <5>4, <5>7
      <4>. QED BY <4>1, <4>2
    <3> HIDE DEF y
    <3>2. text(x) = Renaming(Texts[y], to)
      BY <1>4, <2>2, <3>1 DEF y
    <3>3. CASE CellExists(content, y)
      <4>1. y \in Kept(to)
        BY <1>2, <3>1, <3>3 DEF Kept
      <4>. QED BY <1>1, <3>1, <3>2, <4>1
    <3>4. CASE ~CellExists(content, y)
      <4>1. Texts[y] = EmptyText
        BY <1>1, <3>1, <3>4
      <4>2. Renaming(Texts[y], to) = EmptyText
        BY <4>1, TextAssumption DEF Renaming
      <4>3. ASSUME NEW h \in Pos, CellExists(content, h), to[h] = x PROVE FALSE
        <5>1. h[axis] = y[axis] /\ \A other \in Axis : other # axis => h[other] = y[other]
          BY <1>0, <1>6, <3>1, <4>3
        <5>2. \A other \in Axis : h[other] = y[other]
          BY <5>1
        <5>3. h = y
          BY <1>6, <3>1, <5>2, Same
        <5>. QED BY <3>4, <4>3, <5>3
      <4>4. Texts'[x] = EmptyText
        BY <1>1, <4>3
      <4>. QED BY <3>2, <4>2, <4>4
    <3>. QED BY <3>3, <3>4
  <2>. QED BY <2>1, <2>2
<1>8. Texts' = [p \in Pos |-> text(p)]
  <2>1. Texts' = [p \in Pos |-> Texts'[p]]
    BY DEF Texts
  <2> HIDE DEF text
  <2>. QED BY <1>7, <2>1
<1>9. EditContract!Usable
  BY DEF Running, EditContract!Usable
<1>. QED BY <1>8, <1>9 DEF EditContract!Insert

\* Each cell of T has moved to the right.
ColsInserted(T, count) ==
  [x \in Pos |-> IF At(x.row, x.col - count) \in T THEN Began.at[At(x.row, x.col - count)]
                 ELSE IF x \in T THEN Absent
                 ELSE Began.at[x]]

\* The holders at some places.
Holders(T) == {h \in T : CellExists(content, h)}

\* Of each row the last cells that it has to move.
FromRight(S) ==
  {T \in SUBSET S : \A p \in T, q \in S : (q.row = p.row /\ q.col > p.col) => q \in T}

\* One step of the loop of InsertCols.
LEMMA InsertColStep ==
  ASSUME TableOK, Tidy, NEW before \in Nat, NEW count \in Nat \ {0}, colsCount + count <= Cols,
         NEW T \in FromRight(ColsMoved(before)), NEW p \in T,
         \A x \in T : x.row = p.row => x.col >= p.col, NEW e,
         InsertedSo(e, "col", before, count, Holders(T \ {p}), ColsInserted(T \ {p}, count))
  PROVE  InsertedSo(Move(UpdateFormulaOnInsert(e, p, "col", before, count),
                         p, At(p.row, p.col + count)),
                    "col", before, count, Holders(T), ColsInserted(T, count))
<1> DEFINE at == ColsInserted(T \ {p}, count)
           V == Holders(T \ {p})
<1>1. /\ colsCount \in Nat /\ Cols \in Nat /\ Rows \in Nat
      /\ T \subseteq Pos /\ T \subseteq ColsMoved(before) /\ p \in Pos
  BY TableAssumption DEF Tidy, FromRight, ColsMoved
<1>2. \A x \in Pos : /\ x = At(x.row, x.col) /\ x.row \in 0 .. Rows - 1 /\ x.col \in 0 .. Cols - 1
  BY PosFacts
<1>3. p.row \in Nat /\ p.col \in Nat /\ p.row < rowsCount /\ p.col < colsCount
  BY <1>1, <1>2 DEF ColsMoved
<1> PICK q \in Pos : q = At(p.row, p.col + count) /\ q.row = p.row /\ q.col = p.col + count
  <2>1. p.col + count \in 0 .. Cols - 1 /\ p.row \in 0 .. Rows - 1
    BY <1>1, <1>2, <1>3
  <2>. QED BY <2>1, PosFacts
<1>4. q # p /\ At(q.row, q.col - count) = p
  <2>1. q.col - count = p.col /\ q.col # p.col
    BY <1>3
  <2>. QED BY <1>1, <1>2, <2>1
<1>5. At(p.row, p.col - count) \notin T
  <2> SUFFICES ASSUME NEW x \in T, x = At(p.row, p.col - count) PROVE FALSE
    OBVIOUS
  <2>1. x.row = p.row /\ x.col = p.col - count
    BY DEF At
  <2>. QED BY <1>3, <2>1
<1>6. at[p] = Began.at[p]
  BY <1>1, <1>5 DEF ColsInserted
<1>7. V \cup ({at[p]} \ {Absent}) = Holders(T)
  BY <1>1, <1>6, BeganPlaces DEF Holders
<1>8. at[q] = Absent
  <2>1. CASE q \in T
    BY <1>4, <2>1 DEF ColsInserted
  <2>2. CASE q \notin T
    <3>1. q.col > p.col
      BY <1>3
    <3>2. q \notin ColsMoved(before)
      BY <2>2, <3>1 DEF FromRight
    <3>3. q.col >= before
      BY <1>1, <1>3 DEF ColsMoved
    <3>4. ~(q.col < colsCount)
      BY <1>1, <1>2, <1>3, <3>2, <3>3 DEF ColsMoved
    <3>5. ~CellExists(content, q)
      BY <3>4 DEF Tidy, SizeCovers
    <3>. QED BY <1>4, <2>2, <3>5, BeganPlaces DEF ColsInserted
  <2>. QED BY <2>1, <2>2
<1>9. MovedPlaces(at, p, q) = ColsInserted(T, count)
  <2>1. ASSUME NEW x \in Pos
        PROVE  MovedPlaces(at, p, q)[x] = ColsInserted(T, count)[x]
    <3>1. CASE x = q
      BY <1>4, <1>6, <3>1 DEF MovedPlaces, ColsInserted
    <3>2. CASE x = p
      BY <1>4, <1>5, <3>2 DEF MovedPlaces, ColsInserted
    <3>3. CASE x # p /\ x # q
      <4>1. At(x.row, x.col - count) # p
        <5> SUFFICES ASSUME At(x.row, x.col - count) = p PROVE FALSE
          OBVIOUS
        <5>1. x.row = p.row /\ x.col - count = p.col
          BY DEF At
        <5>2. x.col = p.col + count
          BY <1>2, <1>3, <5>1
        <5>. QED BY <1>2, <3>3, <5>1, <5>2
      <4>. QED BY <3>3, <4>1 DEF MovedPlaces, ColsInserted
    <3>. QED BY <3>1, <3>2, <3>3
  <2>2. /\ MovedPlaces(at, p, q) = [x \in Pos |-> MovedPlaces(at, p, q)[x]]
        /\ ColsInserted(T, count) = [x \in Pos |-> ColsInserted(T, count)[x]]
    BY DEF MovedPlaces, ColsInserted
  <2> HIDE DEF at
  <2>. QED BY <2>1, <2>2
<1>10. V \in SUBSET Pos
  BY <1>1 DEF Holders
<1> HIDE DEF at, V
<1>11. InsertedSo(e, "col", before, count, V, at)
  BY DEF at, V
<1> PICK d : d = UpdateFormulaOnInsert(e, p, "col", before, count)
  OBVIOUS
<1>12. InsertedSo(d, "col", before, count, Holders(T), at)
  <2>1. "col" \in Axis
    BY DEF Axis
  <2>. QED BY <1>1, <1>7, <1>10, <1>11, <2>1, InsertUpdateStep
<1>13. InsertedSo(Move(d, p, q), "col", before, count, Holders(T), MovedPlaces(at, p, q))
  BY <1>1, <1>4, <1>8, <1>12, InsertMoveStep
<1>. QED BY <1>9, <1>13

\* The loop of InsertCols.
LEMMA InsertColsLoops ==
  ASSUME TableOK, Tidy, NEW before \in Nat, NEW count \in Nat \ {0}, colsCount + count <= Cols
  PROVE  InsertedSo(InsertColsLoop(before, count), "col", before, count,
                    Holders(ColsMoved(before)), ColsInserted(ColsMoved(before), count))
<1> DEFINE S == ColsMoved(before)
           Good == FromRight(S)
<1>1. colsCount \in Int /\ S \in SUBSET Pos /\ IsFiniteSet(S)
  BY PosIsFinite, FS_Subset DEF Tidy, ColsMoved
<1> PICK it : InsertColsLoop(before, count) = it[S] /\ InsertColsSteps(it, before, count)
  BY <1>1, InsertColsUnfolds
<1>2. it[{}] = Began
  BY DEF InsertColsSteps
<1> DEFINE Holds(T) == InsertedSo(it[T], "col", before, count, Holders(T), ColsInserted(T, count))
           Fine == {T \in SUBSET S : Holds(T)}
<1>3. {} \in Fine
  <2>1. Holders({}) = {} /\ ColsInserted({}, count) = Began.at
    BY DEF Holders, ColsInserted, Began
  <2>2. InsertedSo(Began, "col", before, count, {}, Began.at)
    BY BeganIsInserted
  <2>. QED BY <1>2, <2>1, <2>2
<1>4. ASSUME NEW T \in Good, T # {}
      PROVE  \E p \in T : T \ {p} \in Good /\ (T \ {p} \in Fine => T \in Fine)
  <2>0. T \in SUBSET S /\ T \in SUBSET Pos
    BY <1>1 DEF FromRight
  <2> PICK p : p = Last(T, Backward)
    OBVIOUS
  <2>1. p \in T
        /\ it[T] = Move(UpdateFormulaOnInsert(it[T \ {p}], p, "col", before, count),
                        p, At(p.row, p.col + count))
    BY <1>4, <2>0 DEF InsertColsSteps
  <2>2. \A x \in T : x.row = p.row => x.col >= p.col
    BY <1>4, <2>0, LastInRow
  <2>3. T \ {p} \in Good
    <3> SUFFICES ASSUME NEW x \in T \ {p}, NEW q \in S, q.row = x.row, q.col > x.col
                 PROVE  q \in T \ {p}
      BY <2>0 DEF FromRight
    <3>1. q \in T
      BY DEF FromRight
    <3>2. q # p
      <4>1. p.col \in Int /\ x.col \in Int
        BY <2>0, <2>1, PosFacts
      <4>. QED BY <2>2, <4>1
    <3>. QED BY <3>1, <3>2
  <2>4. ASSUME Holds(T \ {p}) PROVE Holds(T)
    BY <2>1, <2>2, <2>4, InsertColStep
  <2>. QED BY <2>0, <2>1, <2>3, <2>4
<1>5. S \in Good /\ Good \in SUBSET SUBSET S
  BY DEF FromRight
<1> HIDE DEF Fine, Holds, S, Good
<1>6. Good \subseteq Fine
  BY <1>1, <1>3, <1>4, <1>5, LoopInduction
<1>7. Holds(S)
  BY <1>5, <1>6 DEF Fine
<1>. QED BY <1>7 DEF Holds, S

\* The whole of InsertCols.
LEMMA InsertColsEdited ==
  ASSUME TableOK, Tidy, NEW r \in Ranges, colsCount + r.count <= Cols
  PROVE  LET e == InsertColsLoop(r.index, r.count)
         IN  e \in EditState /\ e.undefined = FALSE
             /\ Edited(e, InsertedNames("col", r.index, r.count))
<1> PICK index \in Nat, count \in Nat \ {0} : index = r.index /\ count = r.count
  BY EnteredAssumption
<1> PICK to : to = InsertedNames("col", index, count)
  OBVIOUS
<1> PICK e : e = InsertColsLoop(index, count)
  OBVIOUS
<1> DEFINE S == ColsMoved(index)
           at == ColsInserted(S, count)
<1>1. InsertedSo(e, "col", index, count, Holders(S), at)
  BY InsertColsLoops
<1>2. \A p \in Pos : to[p] = Inserted(p, "col", index, count)
  BY InsertedNaming DEF Axis
<1>3. \A h \in Pos : CellExists(content, h) => h.row < rowsCount /\ h.col < colsCount
  BY DEF Tidy, SizeCovers
<1>4. colsCount \in Nat /\ rowsCount \in Nat /\ Rows \in Nat /\ Cols \in Nat
  BY TableAssumption DEF Tidy
<1>5. \A x \in Pos : /\ x = At(x.row, x.col)
                     /\ x.row \in 0 .. Rows - 1 /\ x.col \in 0 .. Cols - 1
                     /\ x \in S <=> (x.row < rowsCount /\ x.col >= index /\ x.col < colsCount)
  BY <1>4, PosFacts DEF ColsMoved
<1>6. \A y : y \in S => y \in Pos /\ y.col >= index
  BY <1>4 DEF ColsMoved
<1>7. ASSUME NEW h \in Pos, CellExists(content, h) PROVE to[h] \in Pos /\ at[to[h]] = h
  <2>1. CASE h.col >= index
    <3>1. to[h] = At(h.row, h.col + count)
      BY <1>2, <2>1, NewNames
    <3>2. h \in S /\ h.col + count \in 0 .. Cols - 1 /\ h.col + count - count = h.col
      BY <1>3, <1>4, <1>5, <1>7, <2>1
    <3>3. to[h] \in Pos /\ At(to[h].row, to[h].col - count) = h
      BY <1>5, <3>1, <3>2, PosFacts
    <3>. QED BY <1>7, <3>2, <3>3, BeganPlaces DEF ColsInserted
  <2>2. CASE ~(h.col >= index)
    <3>1. to[h] = h
      BY <1>2, <2>2, NewNames
    <3>2. At(h.row, h.col - count) \notin S
      <4> SUFFICES ASSUME NEW y \in S, y = At(h.row, h.col - count) PROVE FALSE
        OBVIOUS
      <4>1. y.col = h.col - count /\ y.col >= index
        BY <1>6 DEF At
      <4>. QED BY <1>5, <2>2, <4>1
    <3>3. h \notin S
      BY <1>5, <2>2
    <3>. QED BY <1>7, <3>1, <3>2, <3>3, BeganPlaces DEF ColsInserted
  <2>. QED BY <2>1, <2>2
<1>8. ASSUME NEW x \in Pos, at[x] # Absent PROVE CellExists(content, at[x]) /\ to[at[x]] = x
  <2>1. CASE At(x.row, x.col - count) \in S
    <3> PICK y \in S : y = At(x.row, x.col - count)
      BY <2>1
    <3>1. y \in Pos /\ y.col >= index /\ y.row = x.row /\ y.col = x.col - count
      BY <1>6 DEF At
    <3>2. at[x] = y /\ CellExists(content, y)
      BY <1>8, <3>1, BeganPlaces DEF ColsInserted
    <3>3. to[y] = At(y.row, y.col + count)
      BY <1>2, <3>1, NewNames
    <3>4. y.col + count = x.col
      BY <1>5, <3>1
    <3>. QED BY <1>5, <3>1, <3>2, <3>3, <3>4
  <2>2. CASE At(x.row, x.col - count) \notin S
    <3>1. x \notin S /\ at[x] = x /\ CellExists(content, x)
      BY <1>8, <2>2, BeganPlaces DEF ColsInserted
    <3>2. ~(x.col >= index)
      BY <1>3, <1>5, <3>1
    <3>. QED BY <1>2, <3>1, <3>2, NewNames
  <2>. QED BY <2>1, <2>2
<1>9. HasMoving(Holders(S), "col", index)
  BY <1>3, <1>5 DEF HasMoving, Beyond, Holders
<1>10. Holders(S) \in SUBSET Pos
  BY <1>6 DEF Holders
<1> HIDE DEF S, at
<1>11. Arrived(at, to)
  <2>1. \A h \in Pos : h \in Kept(to) <=> CellExists(content, h)
    BY InsertedNaming DEF Axis, Kept
  <2>2. Kept(to) \subseteq Pos
    BY DEF Kept
  <2>3. at \in [Pos -> Pos \cup {Absent}]
    BY <1>1 DEF InsertedSo, EditState
  <2>. QED BY <1>7, <1>8, <2>1, <2>2, <2>3 DEF Arrived
<1>12. Edited(e, to)
  <2>1. "col" \in Axis
    BY DEF Axis
  <2>. QED BY <1>1, <1>9, <1>10, <1>11, <2>1, InsertedEdited
<1>. QED BY <1>1, <1>12 DEF InsertedSo

\* The sizes and widths that an edit sets cover what it keeps.
Covered(to) ==
  \A h \in Kept(to) : /\ to[h].row < rowsCount' /\ to[h].col < colsCount'
                      /\ to[h].col < width'[to[h].row]

\* An edit that is done leaves a tidy table when the sizes cover what it keeps.
LEMMA EditedTidy ==
  ASSUME TableOK, Tidy, NEW to, NEW e \in EditState, Edited(e, to), Fits(e), Finish(e),
         Covered(to), rowsCount' \in 0 .. Rows, colsCount' \in 0 .. Cols, outcome' = "Ok"
  PROVE  Tidy'
<1>1. GraphInv' /\ AllLinked' /\ dangling' = {}
  BY EditedGraph
<1>2. \A x \in Pos : CellExists(content', x) => \E h \in Kept(to) : x = to[h]
  BY EditedParts
<1>3. SizeCovers' /\ \A x \in Pos : CellExists(content', x) => x.col < width'[x.row]
  BY <1>2 DEF Covered, SizeCovers
<1>. QED BY <1>1, <1>3 DEF Tidy

\* A refused insertion changes nothing.
LEMMA RefusedTidy ==
  ASSUME Tidy, Running, NEW size, NEW count, InsertTooMany(size, count)
  PROVE  Tidy' /\ EditContract!RefuseInsertion
<1>1. /\ outcome' = "TableTooBigException"
      /\ UNCHANGED <<content, usedBy, cache, rowsCount, colsCount, width, dangling>>
  BY DEF InsertTooMany
<1>2. Tidy'
  BY <1>1 DEF Tidy, GraphInv, AllLinked, SizeCovers
<1>3. Texts' = Texts
  BY <1>1 DEF Texts
<1>. QED BY <1>1, <1>2, <1>3 DEF Running, EditContract!RefuseInsertion, EditContract!Usable

\* InsertRows that moves all rows keeps the table tidy and does what the
\* interface promises of it.
LEMMA InsertRowsTidy ==
  ASSUME EditInv, Tidy, Running, NEW r \in Ranges, InsertRows(r.index, r.count),
         AllRowsMove(r.index, r.count)
  PROVE  /\ Tidy'
         /\ EditContract!RefuseInsertion \/ EditContract!Insert("row", r.index, r.count)
         /\ rowsCount' = rowsCount + r.count => EditContract!Insert("row", r.index, r.count)
<1> PICK index \in Nat, count \in Nat \ {0} : index = r.index /\ count = r.count
  BY EnteredAssumption
<1>0. TableOK /\ rowsCount \in Nat /\ colsCount \in Nat /\ rowsCount <= Rows /\ Rows \in Nat
  BY TableAssumption DEF EditInv, Tidy
<1>1. CASE InsertTooMany(rowsCount, count)
  <2>1. rowsCount' # rowsCount + count
    BY <1>0, <1>1 DEF InsertTooMany
  <2>. QED BY <1>1, <2>1, RefusedTidy
<1>2. CASE ~InsertTooMany(rowsCount, count)
  <2> PICK e : /\ e = InsertRowsLoop(index, count)
               /\ rowsCount + count < Limit /\ rowsCount + count <= Rows
               /\ index + count <= rowsCount
               /\ \/ e.undefined
                  \/ /\ Fits(e) /\ Finish(e)
                     /\ width' = [i \in Row |->
                          IF i \in index .. index + count - 1 \/ i >= rowsCount + count THEN 0
                          ELSE IF i \in index + count .. index + 2 * count - 1
                               THEN width[i - count]
                          ELSE width[i]]
                     /\ rowsCount' = rowsCount + count
                     /\ outcome' = "Ok" /\ colsCount' = colsCount
    <3>1. ~(rowsCount + count >= Limit) => index + count <= rowsCount
      BY DEF AllRowsMove
    <3>2. rowsCount + count < Limit => ~(rowsCount + count >= Limit) /\ Limit \in Int
      BY <1>0 DEF Limit
    <3>3. (index + count <= rowsCount) => ~(index + count > rowsCount)
      BY <1>0
    <3>. QED BY <1>2, <3>1, <3>2, <3>3 DEF InsertRows
  <2>1. \A p \in Pos : p.row >= index + count => ~CellExists(content, p)
    <3>1. ~(rowsCount + count >= Limit)
      BY <1>0 DEF Limit
    <3>. QED BY <3>1 DEF AllRowsMove
  <2> PICK to : to = InsertedNames("row", index, count)
    OBVIOUS
  <2>2. e \in EditState /\ e.undefined = FALSE /\ Edited(e, to)
    BY <1>0, <2>1, InsertRowsEdited
  <2>3. \A p \in Pos : to[p] = Inserted(p, "row", index, count)
    BY InsertedNaming DEF Axis
  <2>4. Covered(to)
    <3> SUFFICES ASSUME NEW h \in Kept(to)
                 PROVE  /\ to[h].row < rowsCount' /\ to[h].col < colsCount'
                        /\ to[h].col < width'[to[h].row]
      BY DEF Covered
    <3>1. /\ h \in Pos /\ h.row < rowsCount /\ h.col < colsCount /\ h.col < width[h.row]
          /\ h.row < index + count
      <4>1. h \in Pos /\ CellExists(content, h)
        BY DEF Kept
      <4>2. h.row \in Int
        BY <4>1, PosFacts
      <4>. QED BY <2>1, <4>1, <4>2 DEF Tidy, SizeCovers
    <3>2. h.row \in Nat /\ h.row + count \in Row /\ h.row \in Row
      <4>1. h.row \in 0 .. Rows - 1
        BY <3>1, PosFacts
      <4>. QED BY <1>0, <3>1, <4>1 DEF Row
    <3>3. rowsCount' = rowsCount + count /\ colsCount' = colsCount
      BY <2>2
    <3>4. CASE h.row >= index
      <4>1. to[h].row = h.row + count /\ to[h].col = h.col
        BY <2>3, <3>1, <3>4, NewNames DEF At
      <4>2. width'[h.row + count] = width[h.row]
        <5> PICK i \in Row : i = h.row + count
          BY <3>2
        <5>1. /\ i \notin index .. index + count - 1 /\ ~(i >= rowsCount + count)
              /\ i \in index + count .. index + 2 * count - 1 /\ i - count = h.row
          BY <1>0, <3>1, <3>2, <3>4
        <5>. QED BY <2>2, <5>1
      <4>. QED BY <1>0, <3>1, <3>2, <3>3, <4>1, <4>2
    <3>5. CASE ~(h.row >= index)
      <4>1. to[h] = h
        BY <2>3, <3>1, <3>5, NewNames
      <4>2. width'[h.row] = width[h.row]
        <5>1. /\ h.row \notin index .. index + count - 1 /\ ~(h.row >= rowsCount + count)
              /\ h.row \notin index + count .. index + 2 * count - 1
          BY <1>0, <3>1, <3>2, <3>5
        <5>. QED BY <2>2, <3>2, <5>1
      <4>. QED BY <1>0, <3>1, <3>2, <3>3, <4>1, <4>2
    <3>. QED BY <3>4, <3>5
  <2>5. rowsCount' \in 0 .. Rows /\ colsCount' \in 0 .. Cols /\ outcome' = "Ok"
    BY <1>0, <2>2 DEF Tidy
  <2>6. Tidy'
    BY <1>0, <2>2, <2>4, <2>5, EditedTidy
  <2>7. EditContract!Insert("row", r.index, r.count)
    <3>1. "row" \in Axis
      BY DEF Axis
    <3>. QED BY <1>0, <2>2, <2>5, <3>1, InsertedIsPromised
  <2>. QED BY <2>6, <2>7
<1>. QED BY <1>1, <1>2

\* InsertCols keeps the table tidy and does what the interface promises of it.
LEMMA InsertColsTidy ==
  ASSUME EditInv, Tidy, Running, NEW r \in Ranges, InsertCols(r.index, r.count)
  PROVE  /\ Tidy'
         /\ EditContract!RefuseInsertion \/ EditContract!Insert("col", r.index, r.count)
         /\ colsCount' = colsCount + r.count => EditContract!Insert("col", r.index, r.count)
<1> PICK index \in Nat, count \in Nat \ {0} : index = r.index /\ count = r.count
  BY EnteredAssumption
<1>0. /\ TableOK /\ rowsCount \in Nat /\ colsCount \in Nat /\ colsCount <= Cols /\ Cols \in Nat
      /\ width \in [Row -> 0 .. Cols]
  BY TableAssumption DEF EditInv, WidthOK, Tidy
<1>1. CASE InsertTooMany(colsCount, count)
  <2>1. colsCount' # colsCount + count
    BY <1>0, <1>1 DEF InsertTooMany
  <2>. QED BY <1>1, <2>1, RefusedTidy
<1>2. CASE ~InsertTooMany(colsCount, count)
  <2> PICK e : /\ e = InsertColsLoop(index, count)
               /\ colsCount + count <= Cols
               /\ \/ e.undefined
                  \/ /\ Fits(e) /\ Finish(e)
                     /\ colsCount' = colsCount + count
                     /\ width' = [i \in Row |->
                          IF i < rowsCount /\ width[i] \in 1 .. colsCount' THEN colsCount'
                          ELSE width[i]]
                     /\ outcome' = "Ok" /\ rowsCount' = rowsCount
    BY <1>2 DEF InsertCols
  <2> PICK to : to = InsertedNames("col", index, count)
    OBVIOUS
  <2>2. e \in EditState /\ e.undefined = FALSE /\ Edited(e, to)
    BY <1>0, InsertColsEdited
  <2>3. \A p \in Pos : to[p] = Inserted(p, "col", index, count)
    BY InsertedNaming DEF Axis
  <2>4. Covered(to)
    <3> SUFFICES ASSUME NEW h \in Kept(to)
                 PROVE  /\ to[h].row < rowsCount' /\ to[h].col < colsCount'
                        /\ to[h].col < width'[to[h].row]
      BY DEF Covered
    <3>1. h \in Pos /\ h.row < rowsCount /\ h.col < colsCount /\ h.col < width[h.row]
      BY DEF Kept, Tidy, SizeCovers
    <3>2. h.row \in Row /\ h.col \in Nat /\ h.row \in Nat
      <4>1. h \in Pos
        BY <3>1
      <4>2. h.row \in Row /\ h.col \in 0 .. Cols - 1
        BY <4>1, RowsFinite
      <4>3. h.col \in Nat
        BY <4>2
      <4>4. Row \subseteq Nat
        BY RowsFinite
      <4>. QED BY <4>2, <4>3, <4>4
    <3>3. rowsCount' = rowsCount /\ colsCount' = colsCount + count /\ colsCount' \in Nat
      BY <1>0, <2>2
    <3>4. to[h].row = h.row /\ to[h].col = IF h.col >= index THEN h.col + count ELSE h.col
      BY <2>3, <3>1, NewNames DEF At
    <3>5. to[h].col < colsCount'
      BY <1>0, <3>1, <3>2, <3>3, <3>4
    <3>6. width'[h.row] = IF width[h.row] \in 1 .. colsCount' THEN colsCount' ELSE width[h.row]
      BY <2>2, <3>1, <3>2
    <3>7. width[h.row] \in Nat
      BY <1>0, <3>2
    <3>8. CASE width[h.row] \in 1 .. colsCount'
      BY <3>1, <3>3, <3>4, <3>5, <3>6, <3>8
    <3>9. CASE width[h.row] \notin 1 .. colsCount'
      <4>1. width[h.row] > colsCount'
        BY <3>1, <3>2, <3>3, <3>7, <3>9
      <4>2. to[h].col \in Nat
        BY <3>2, <3>4
      <4>. QED BY <3>1, <3>3, <3>4, <3>5, <3>6, <3>7, <3>9, <4>1, <4>2
    <3>. QED BY <3>8, <3>9
  <2>5. rowsCount' \in 0 .. Rows /\ colsCount' \in 0 .. Cols /\ outcome' = "Ok"
    BY <1>0, <2>2 DEF Tidy
  <2>6. Tidy'
    BY <1>0, <2>2, <2>4, <2>5, EditedTidy
  <2>7. EditContract!Insert("col", r.index, r.count)
    <3>1. "col" \in Axis
      BY DEF Axis
    <3>. QED BY <1>0, <2>2, <2>5, <3>1, InsertedIsPromised
  <2>. QED BY <2>6, <2>7
<1>. QED BY <1>1, <1>2

-----------------------------------------------------------------------------
(* Deletions in progress.                                                  *)

\* The caches k come from those at the start of the call by making some stale,
\* with all that depends on them; those of the deleted holders G are stale.
CachesDuring(k, G) ==
  /\ \A q \in Pos : k[q] \in {cache[q], Stale}
  /\ \A x, u \in Pos :
       (usedBy[x][u] > 0 /\ content[x] \in Formula /\ k[x] = Stale) => k[u] = Stale
  /\ \A h \in G : k[h] = Stale

\* The formulas that use a holder of V have been renamed, the holders of G have
\* been deleted with their entries; at is where the others are.
RemovedSo(e, axis, first, count, V, G, at) ==
  /\ e \in EditState /\ e.at = at /\ e.undefined = FALSE /\ e.changed = UsersOf(V)
  /\ e.content = [u \in Pos |-> IF u \in G THEN Absent
                                ELSE IF u \in UsersOf(V)
                                     THEN RemovedAll(content[u], axis, first, count)
                                ELSE content[u]]
  /\ e.usedBy = [x \in Pos |-> [u \in Pos |-> IF x \in G \/ u \in G THEN 0 ELSE usedBy[x][u]]]
  /\ CachesDuring(e.cache, G)

\* What is renamed or deleted lies where it may.
Removable(V, G, axis, first, count) ==
  /\ \A h \in V : h \in Pos /\ CellExists(content, h) /\ h[axis] >= first
  /\ G \subseteq V /\ \A h \in G : Within(h, axis, first, count)

\* The holders that are left, each at one place.
Left(at, G) ==
  /\ \A x \in Pos : at[x] # Absent => at[x] \in Pos /\ CellExists(content, at[x]) /\ at[x] \notin G
  /\ \A x, y \in Pos : (at[x] # Absent /\ at[x] = at[y]) => x = y

\* Formulas that name what is deleted are stale.
Lost(k, V, axis, first, count) ==
  \A u \in UsersOf(V) :
    (\E r \in Refs(content[u]) : Within(r, axis, first, count)) => k[u] = Stale

\* A deletion in progress: e has handled the users of the holders V, of which
\* those of G are destroyed, and the others are at the places at.
Removing(e, axis, first, count, V, G, at) ==
  /\ RemovedSo(e, axis, first, count, V, G, at) /\ Removable(V, G, axis, first, count)
  /\ Left(at, G) /\ Lost(e.cache, V, axis, first, count)

\* No sequence of references is the mark of a cell without a holder.
LEMMA RemovedIsText ==
  ASSUME NEW f \in Formula, NEW axis \in Axis, NEW first \in Nat, NEW count \in Nat \ {0}
  PROVE  RemovedAll(f, axis, first, count) # Absent
<1>1. f \in Seq(Reference)
  BY FormulaReads
<1>2. RemovedAll(f, axis, first, count) \in Seq(Reference)
  BY <1>1, CallsKeepSeq
<1>3. Absent \in Content \ Formula
  BY TextAssumption DEF Text, Content
<1>4. Absent \notin Seq(Reference)
  BY <1>3, EnteredAssumption DEF Reference
<1>. QED BY <1>2, <1>4

\* No deleted formula uses what is renamed, and no entry names a deleted holder.
LEMMA RemovedUsers ==
  ASSUME TableOK, Tidy, NEW axis \in Axis, NEW first \in Nat, NEW count \in Nat \ {0},
         DeletedReadBefore(axis, first, count),
         NEW V, NEW G, Removable(V, G, axis, first, count)
  PROVE  /\ UsersOf(V) \cap G = {}
         /\ \A h \in Pos : h[axis] >= first => UsersOf({h}) \cap G = {}
         /\ \A at, e : RemovedSo(e, axis, first, count, V, G, at) =>
              \A x, u \in Pos : e.usedBy[x][u] > 0 =>
                /\ e.usedBy[x][u] = usedBy[x][u] /\ x \notin G /\ u \notin G
                /\ CellExists(e.content, u)
<1>1. \A h \in Pos, u \in Pos : usedBy[h][u] > 0 => h \in GetReferencedCells(content[u])
  BY DEF Tidy, GraphInv, EdgesOK
<1>2. \A h \in Pos : h[axis] \in Int
  BY PosFacts DEF Axis
<1>3. ASSUME NEW h \in Pos, h[axis] >= first, NEW u \in G, usedBy[h][u] > 0 PROVE FALSE
  <2>1. u \in Pos /\ Within(u, axis, first, count)
    BY DEF Removable
  <2>2. h[axis] < first
    BY <1>1, <1>3, <2>1 DEF DeletedReadBefore
  <2>. QED BY <1>2, <1>3, <2>2
<1>4. UsersOf(V) \cap G = {}
  <2>1. \A h \in V : h \in Pos /\ h[axis] >= first
    BY DEF Removable
  <2>. QED BY <1>3, <2>1 DEF UsersOf
<1>5. \A h \in Pos : h[axis] >= first => UsersOf({h}) \cap G = {}
  BY <1>3 DEF UsersOf
<1>6. ASSUME NEW at, NEW e, RemovedSo(e, axis, first, count, V, G, at),
             NEW x \in Pos, NEW u \in Pos, e.usedBy[x][u] > 0
      PROVE  /\ e.usedBy[x][u] = usedBy[x][u] /\ x \notin G /\ u \notin G
             /\ CellExists(e.content, u)
  <2>1. e.usedBy[x][u] = IF x \in G \/ u \in G THEN 0 ELSE usedBy[x][u]
    BY <1>6 DEF RemovedSo
  <2>2. e.usedBy[x][u] = usedBy[x][u] /\ x \notin G /\ u \notin G
    BY <1>6, <2>1
  <2>3. content[u] \in Formula /\ content[u] # Absent
    BY <1>6, <2>2, UsersAreFormulas DEF UsersOf
  <2>4. RemovedAll(content[u], axis, first, count) # Absent
    BY <2>3, RemovedIsText
  <2>5. e.content[u] # Absent
    BY <1>6, <2>2, <2>3, <2>4 DEF RemovedSo
  <2>. QED BY <2>2, <2>5 DEF CellExists
<1>. QED BY <1>4, <1>5, <1>6

\* InvalidateCache of some holders.
LEMMA InvalidateStep ==
  ASSUME TableOK, Tidy, NEW axis \in Axis, NEW first \in Nat, NEW count \in Nat \ {0},
         DeletedReadBefore(axis, first, count),
         NEW V, NEW G, Removable(V, G, axis, first, count),
         NEW at, NEW e, RemovedSo(e, axis, first, count, V, G, at), NEW S \in SUBSET Pos
  PROVE  /\ RemovedSo(InvalidateAll(e, S), axis, first, count, V, G, at)
         /\ \A q \in S : InvalidateAll(e, S).cache[q] = Stale
         /\ \A q \in Pos : e.cache[q] = Stale => InvalidateAll(e, S).cache[q] = Stale
<1> DEFINE next == [q \in Pos |-> Users(e, q) \ Invalid(e.content, e.cache)]
           reached == Closure(S, next)
           k == [q \in Pos |-> IF q \in reached THEN Stale ELSE e.cache[q]]
<1> PICK d : d = InvalidateAll(e, S)
  OBVIOUS
<1>1. e \in EditState /\ e.undefined = FALSE /\ CachesDuring(e.cache, G) /\ G \subseteq Pos
  BY DEF RemovedSo, Removable
<1>2. \A x, u \in Pos : e.usedBy[x][u] > 0 => CellExists(e.content, u)
  BY RemovedUsers
<1>3. reached \subseteq Pos /\ S \subseteq reached
  BY ClosureInPos, ClosureContains
<1>4. Dead(e, UNION {Users(e, q) : q \in reached}) = FALSE
  BY <1>2, <1>3 DEF Dead, Users
<1>5. \A q \in reached, u \in Pos : e.usedBy[q][u] > 0 => u \in reached \/ e.cache[u] = Stale
  <2> SUFFICES ASSUME NEW q \in reached, NEW u \in Pos, e.usedBy[q][u] > 0, e.cache[u] # Stale
               PROVE  u \in reached
    OBVIOUS
  <2>1. q \in Pos
    BY <1>3
  <2>2. u \in next[q]
    BY <2>1 DEF Users, Invalid
  <2>. QED BY <2>2, ClosureClosed
<1>6. d = [e EXCEPT !.cache = k, !.undefined = @ \/ Dead(e, UNION {Users(e, q) : q \in reached})]
  <2>1. e.cache \in [Pos -> Value \cup {Stale}]
    BY <1>1 DEF EditState, Cache
  <2>. QED BY <2>1 DEF InvalidateAll
<1> HIDE DEF reached, next, k
<1>7. /\ d.at = e.at /\ d.content = e.content /\ d.usedBy = e.usedBy /\ d.changed = e.changed
      /\ d.cache = k /\ d.undefined = FALSE /\ d \in EditState
  <2>1. d \in EditState
    BY <1>1, InvalidateAllType
  <2>. QED BY <1>1, <1>4, <1>6, <2>1 DEF EditState
<1>8. \A q \in Pos : k[q] = IF q \in reached THEN Stale ELSE e.cache[q]
  BY DEF k
<1>9. CachesDuring(k, G)
  <2>1. \A q \in Pos : k[q] \in {cache[q], Stale}
    BY <1>1, <1>8 DEF CachesDuring
  <2>2. \A h \in G : k[h] = Stale
    BY <1>1, <1>8 DEF CachesDuring
  <2>3. ASSUME NEW x \in Pos, NEW u \in Pos, usedBy[x][u] > 0, content[x] \in Formula, k[x] = Stale
        PROVE  k[u] = Stale
    <3>1. CASE e.cache[x] = Stale
      <4>1. e.cache[u] = Stale
        BY <1>1, <2>3, <3>1 DEF CachesDuring
      <4>. QED BY <1>8, <4>1
    <3>2. CASE u \in G
      BY <2>2, <3>2
    <3>3. CASE e.cache[x] # Stale /\ u \notin G
      <4>1. x \in reached
        BY <1>8, <2>3, <3>3
      <4>2. x \notin G
        BY <1>1, <3>3 DEF CachesDuring
      <4>3. e.usedBy[x][u] > 0
        BY <2>3, <3>3, <4>2 DEF RemovedSo
      <4>. QED BY <1>5, <1>8, <4>1, <4>3
    <3>. QED BY <3>1, <3>2, <3>3
  <2>. QED BY <2>1, <2>2, <2>3 DEF CachesDuring
<1>10. RemovedSo(d, axis, first, count, V, G, at)
  BY <1>7, <1>9 DEF RemovedSo
<1>11. \A q \in S : d.cache[q] = Stale
  BY <1>3, <1>7, <1>8
<1>12. \A q \in Pos : e.cache[q] = Stale => d.cache[q] = Stale
  BY <1>7, <1>8
<1>. QED BY <1>10, <1>11, <1>12

\* UpdateFormulas before a holder moves or goes.
LEMMA DeleteUpdateStep ==
  ASSUME TableOK, Tidy, NEW axis \in Axis, NEW first \in Nat, NEW count \in Nat \ {0},
         DeletedReadBefore(axis, first, count),
         NEW V, NEW G, NEW at, NEW e, Removing(e, axis, first, count, V, G, at),
         NEW p \in Pos, at[p] # Absent => at[p][axis] >= first
  PROVE  Removing(UpdateFormulaOnDelete(e, p, axis, first, count), axis, first, count,
                  V \cup ({at[p]} \ {Absent}), G, at)
<1>0. /\ RemovedSo(e, axis, first, count, V, G, at) /\ Removable(V, G, axis, first, count)
      /\ Left(at, G) /\ Lost(e.cache, V, axis, first, count)
      /\ e \in EditState /\ e.at = at /\ e.undefined = FALSE
  BY DEF Removing, RemovedSo
<1>1. CASE at[p] = Absent
  <2>1. UpdateFormulaOnDelete(e, p, axis, first, count) = e
    BY <1>0, <1>1 DEF UpdateFormulaOnDelete
  <2>2. V \cup ({at[p]} \ {Absent}) = V
    BY <1>1
  <2>. QED BY <2>1, <2>2
<1>2. CASE at[p] # Absent
  <2> PICK h \in Pos : h = at[p] /\ CellExists(content, h) /\ h \notin G /\ h[axis] >= first
    BY <1>0, <1>2 DEF Left
  <2> DEFINE W == V \cup {h}
             users == Users(e, h) \ e.changed
             texts == [u \in Pos |-> IF u \in users /\ e.content[u] \in Formula
                                     THEN RemovedAll(e.content[u], axis, first, count)
                                     ELSE e.content[u]]
             done == [e EXCEPT !.content = texts, !.changed = @ \cup users,
                               !.undefined = @ \/ Dead(e, users)]
             losing == Losing(e, {u \in done.changed \ e.changed : e.content[u] \in Formula},
                              axis, first, count)
  <2>1. V \cup ({at[p]} \ {Absent}) = W
    BY <1>2
  <2>2. UpdateFormulaOnDelete(e, p, axis, first, count) = InvalidateAll(done, losing)
    BY <1>0, <1>2 DEF UpdateFormulaOnDelete, UpdateFormulas
  <2>3. UsersOf(V) \cap G = {} /\ UsersOf({h}) \cap G = {}
    BY <1>0, RemovedUsers
  <2>4. users = UsersOf({h}) \ UsersOf(V) /\ UsersOf(W) = UsersOf(V) \cup users
    <3>1. \A u \in Pos : e.usedBy[h][u] = IF u \in G THEN 0 ELSE usedBy[h][u]
      BY <1>0 DEF RemovedSo
    <3>2. Users(e, h) = UsersOf({h})
      BY <2>3, <3>1 DEF Users, UsersOf
    <3>3. e.changed = UsersOf(V)
      BY <1>0 DEF RemovedSo
    <3>4. UsersOf(W) = UsersOf(V) \cup UsersOf({h})
      BY DEF UsersOf
    <3>. QED BY <3>2, <3>3, <3>4
  <2>5. \A u \in users : /\ u \in Pos /\ u \notin G /\ e.content[u] = content[u]
                         /\ content[u] \in Formula /\ content[u] # Absent
    <3>1. \A u \in users : u \in Pos /\ u \notin G /\ u \notin UsersOf(V)
                           /\ content[u] \in Formula /\ content[u] # Absent
      BY <2>3, <2>4, UsersAreFormulas
    <3>. QED BY <1>0, <3>1 DEF RemovedSo
  <2>6. Dead(e, users) = FALSE
    BY <2>5 DEF Dead, CellExists
  <2>7. texts = [u \in Pos |-> IF u \in G THEN Absent
                               ELSE IF u \in UsersOf(W)
                                    THEN RemovedAll(content[u], axis, first, count)
                               ELSE content[u]]
    <3>1. \A u \in Pos : texts[u] = IF u \in G THEN Absent
                                    ELSE IF u \in UsersOf(W)
                                         THEN RemovedAll(content[u], axis, first, count)
                                    ELSE content[u]
      <4>1. e.content = [u \in Pos |-> IF u \in G THEN Absent
                                ELSE IF u \in UsersOf(V)
                                     THEN RemovedAll(content[u], axis, first, count)
                                ELSE content[u]]
        BY <1>0 DEF RemovedSo
      <4> HIDE DEF users, W
      <4>. QED BY <2>4, <2>5, <4>1
    <3>. QED BY <3>1
  <2>8. texts \in [Pos -> Written]
    <3>1. \A u \in Pos : e.content[u] \in Written
      BY <1>0 DEF EditState
    <3>. QED BY <3>1, RenamedType
  <2> HIDE DEF texts, users, W
  <2> PICK x : x = done
    OBVIOUS
  <2>9. /\ x \in EditState /\ x.at = e.at /\ x.usedBy = e.usedBy /\ x.cache = e.cache
        /\ x.content = texts /\ x.changed = e.changed \cup users /\ x.undefined = FALSE
    <3>1. users \in SUBSET Pos
      BY <2>5
    <3>. QED BY <1>0, <2>6, <2>8, <3>1 DEF EditState
  <2>10. RemovedSo(x, axis, first, count, W, G, at)
    <3>1. e.changed = UsersOf(V) /\ CachesDuring(e.cache, G)
          /\ e.usedBy = [a \in Pos |-> [u \in Pos |-> IF a \in G \/ u \in G THEN 0 ELSE usedBy[a][u]]]
      BY <1>0 DEF RemovedSo
    <3>. QED BY <1>0, <2>4, <2>7, <2>9, <3>1 DEF RemovedSo
  <2>11. Removable(W, G, axis, first, count)
    BY <1>0 DEF Removable, W
  <2>12. losing = {u \in users : \E q \in Range(content[u]) : Within(q, axis, first, count)}
    <3>1. e.changed \cap users = {}
      BY DEF users
    <3>2. {u \in x.changed \ e.changed : e.content[u] \in Formula} = users
      BY <2>5, <2>9, <3>1
    <3>3. losing = Losing(e, users, axis, first, count)
      BY <3>2
    <3>. QED BY <2>5, <3>3 DEF Losing
  <2> PICK L \in SUBSET Pos : L = losing
    BY <2>5, <2>12
  <2> PICK d : d = InvalidateAll(x, L)
    OBVIOUS
  <2> HIDE DEF done, losing
  <2>13. /\ RemovedSo(d, axis, first, count, W, G, at)
         /\ \A q \in L : d.cache[q] = Stale
         /\ \A q \in Pos : x.cache[q] = Stale => d.cache[q] = Stale
    BY <2>10, <2>11, InvalidateStep
  <2>14. Lost(d.cache, W, axis, first, count)
    <3> SUFFICES ASSUME NEW u \in UsersOf(W), NEW r \in Refs(content[u]),
                        Within(r, axis, first, count)
                 PROVE  d.cache[u] = Stale
      BY DEF Lost
    <3>1. CASE u \in UsersOf(V)
      <4>1. e.cache[u] = Stale
        BY <1>0, <3>1 DEF Lost
      <4>. QED BY <2>9, <2>13, <3>1, <4>1 DEF UsersOf
    <3>2. CASE u \in users
      <4>1. r \in Range(content[u])
        <5>1. content[u] \in Formula
          BY <2>5, <3>2
        <5>2. \E i \in DOMAIN content[u] : r = content[u][i]
          BY <5>1, FormulaReads
        <5>. QED BY <5>2 DEF Range
      <4>2. u \in L
        BY <2>12, <3>2, <4>1
      <4>. QED BY <2>13, <4>2
    <3>. QED BY <2>4, <3>1, <3>2
  <2>15. Removing(d, axis, first, count, W, G, at)
    BY <1>0, <2>11, <2>13, <2>14 DEF Removing
  <2>. QED BY <2>1, <2>2, <2>15
<1>. QED BY <1>1, <1>2

\* What lies before the deleted rows or columns is where it was.
KeptBefore(at, axis, first) == \A x \in Pos : x[axis] < first => at[x] = Began.at[x]

\* What is still at the places of S is deleted.
Doomed(at, S, axis, first, count) ==
  \A x \in S : x \in Pos /\ (at[x] = Absent \/ (at[x] = x /\ Within(x, axis, first, count)))

\* The places of S are empty.
Emptied(at, S) == [x \in Pos |-> IF x \in S THEN Absent ELSE at[x]]

\* ClearGraph and the destructor of a deleted holder.
LEMMA ClearedStep ==
  ASSUME TableOK, Tidy, NEW axis \in Axis, NEW first \in Nat, NEW count \in Nat \ {0},
         DeletedReadBefore(axis, first, count),
         NEW V, NEW G, NEW at, NEW e, Removing(e, axis, first, count, V, G, at),
         KeptBefore(at, axis, first),
         NEW p \in V, at[p] = p, Within(p, axis, first, count), e.cache[p] = Stale
  PROVE  Removing(Destroy(ClearGraph(e, p), p), axis, first, count,
                  V, G \cup {p}, Emptied(at, {p}))
<1> DEFINE H == G \cup {p}
           found == {e.at[r] : r \in GetReferencedCells(e.content[p])} \ {Absent}
           zeros == [x \in Pos |-> 0]
           c == ClearGraph(e, p)
<1>1. /\ RemovedSo(e, axis, first, count, V, G, at) /\ Removable(V, G, axis, first, count)
      /\ Left(at, G) /\ Lost(e.cache, V, axis, first, count)
      /\ e \in EditState /\ e.at = at /\ e.undefined = FALSE /\ e.changed = UsersOf(V)
      /\ e.content = [u \in Pos |-> IF u \in G THEN Absent
                                    ELSE IF u \in UsersOf(V)
                                         THEN RemovedAll(content[u], axis, first, count)
                                    ELSE content[u]]
      /\ e.usedBy = [x \in Pos |-> [u \in Pos |-> IF x \in G \/ u \in G THEN 0 ELSE usedBy[x][u]]]
      /\ CachesDuring(e.cache, G)
  BY DEF Removing, RemovedSo
<1>2. p \in Pos /\ p # Absent /\ p \notin G
  <2>1. p \in Pos
    BY <1>1 DEF Removable
  <2>2. p # Absent
    BY <2>1, BeganPlaces
  <2>. QED BY <1>1, <2>1, <2>2 DEF Left
<1>3. Removable(V, H, axis, first, count)
  BY <1>1 DEF Removable
<1>4. UsersOf(V) \cap H = {}
  <2> HIDE DEF H
  <2>. QED BY <1>3, RemovedUsers
<1>5. e.content[p] = content[p]
  BY <1>1, <1>2, <1>4
<1>6. \A r \in Pos : /\ usedBy[r][p] > 0 => usedBy[r][p] = 1 /\ r \in GetReferencedCells(content[p])
                                            /\ CellExists(content, r)
                     /\ r \in GetReferencedCells(content[p]) => usedBy[r][p] > 0
                     /\ usedBy[r][p] \in Nat
  BY <1>2 DEF Tidy, GraphInv, EdgesOK, AllLinked, TableOK, Graph
<1>7. \A r \in GetReferencedCells(content[p]) :
        /\ r \in Pos /\ r[axis] < first /\ at[r] = r /\ r # Absent
  <2> TAKE r \in GetReferencedCells(content[p])
  <2>1. r \in Pos
    BY FormulaAssumption DEF GetReferencedCells
  <2>2. r[axis] < first
    BY <1>2 DEF DeletedReadBefore
  <2>3. at[r] = Began.at[r] /\ CellExists(content, r)
    BY <1>6, <2>1, <2>2 DEF KeptBefore
  <2>. QED BY <2>1, <2>2, <2>3, BeganPlaces
<1>8. found = GetReferencedCells(content[p])
  BY <1>1, <1>5, <1>7
<1> PICK u \in Graph : u = Unlink(e.usedBy, found, p)
  <2>1. e.usedBy \in Graph
    BY <1>1 DEF EditState
  <2>. QED BY <1>2, <2>1, UnlinkFacts
<1> HIDE DEF found
<1>9. \A r \in Pos : u[r][p] = 0 \/ r \in G
  <2> TAKE r \in Pos
  <2> SUFFICES ASSUME r \notin G PROVE u[r][p] = 0
    OBVIOUS
  <2>1. u[r][p] = IF r \in found /\ e.usedBy[r][p] > 0 THEN e.usedBy[r][p] - 1 ELSE e.usedBy[r][p]
    <3>1. e.usedBy \in Graph
      BY <1>1 DEF EditState
    <3>. QED BY <1>2, <3>1, UnlinkFacts
  <2>2. e.usedBy[r][p] = usedBy[r][p]
    BY <1>1, <1>2
  <2>. QED BY <1>6, <1>8, <2>1, <2>2
<1>10. \A r, q \in Pos : q # p => u[r][q] = e.usedBy[r][q]
  <2>1. e.usedBy \in Graph
    BY <1>1 DEF EditState
  <2>. QED BY <1>2, <2>1, UnlinkFacts
<1>11. \A r \in G : u[r][p] = 0
  <2> TAKE r \in G
  <2>1. e.usedBy \in Graph /\ r \in Pos
    BY <1>1, <1>3 DEF EditState, Removable
  <2>2. e.usedBy[r][p] = 0
    BY <1>1, <1>2, <2>1
  <2>3. u[r][p] = IF r \in found /\ e.usedBy[r][p] > 0 THEN e.usedBy[r][p] - 1 ELSE e.usedBy[r][p]
    BY <1>2, <2>1, UnlinkFacts
  <2>. QED BY <2>2, <2>3
<1> PICK w : w = [u EXCEPT ![p] = zeros]
  OBVIOUS
<1>12. w \in Graph /\ w = [x \in Pos |-> [y \in Pos |-> IF x \in H \/ y \in H THEN 0 ELSE usedBy[x][y]]]
  <2>1. w \in [Pos -> [Pos -> Nat]] /\ \A x \in Pos : x # p => w[x] = u[x]
    BY <1>2 DEF Graph
  <2>2. w[p] = zeros
    BY <1>2 DEF Graph
  <2>3. \A x, y \in Pos : w[x][y] = IF x \in H \/ y \in H THEN 0 ELSE usedBy[x][y]
    <3> TAKE x, y \in Pos
    <3>1. CASE x = p
      BY <2>2, <3>1
    <3>2. CASE x # p /\ y = p
      BY <1>9, <1>11, <2>1, <3>2
    <3>3. CASE x # p /\ y # p
      BY <1>1, <1>10, <2>1, <3>3
    <3>. QED BY <3>1, <3>2, <3>3
  <2>4. w \in [Pos -> [Pos -> Nat]]
    BY <2>1
  <2> HIDE DEF H, zeros
  <2>5. \A x \in Pos : w[x] = [y \in Pos |-> IF x \in H \/ y \in H THEN 0 ELSE usedBy[x][y]]
    <3> TAKE x \in Pos
    <3>1. w[x] = [y \in Pos |-> w[x][y]]
      BY <2>4
    <3>. QED BY <2>3, <3>1
  <2>6. w = [x \in Pos |-> w[x]]
    BY <2>4
  <2>. QED BY <2>4, <2>5, <2>6 DEF Graph
<1>13. c = [e EXCEPT !.usedBy = w]
  BY DEF ClearGraph, found
<1>14. c \in EditState
  BY <1>1, <1>2, ClearGraphType
<1> PICK d : d = Destroy(c, p)
  OBVIOUS
<1>15. d \in EditState
  BY <1>2, <1>14, DestroyType
<1> HIDE DEF c
<1>16. /\ c.at = at /\ c.usedBy = w /\ c.content = e.content /\ c.cache = e.cache
       /\ c.changed = e.changed /\ c.undefined = FALSE
  BY <1>1, <1>13 DEF EditState
<1>17. d = [c EXCEPT !.content[p] = Absent, !.usedBy[p] = zeros, !.cache[p] = Stale, !.at[p] = Absent]
  BY <1>2, <1>16 DEF Destroy
<1>18. /\ d.at = [at EXCEPT ![p] = Absent] /\ d.content = [e.content EXCEPT ![p] = Absent]
       /\ d.usedBy = [w EXCEPT ![p] = zeros] /\ d.cache = [e.cache EXCEPT ![p] = Stale]
       /\ d.changed = e.changed /\ d.undefined = FALSE
  BY <1>14, <1>16, <1>17 DEF EditState
<1>19. d.at = Emptied(at, {p})
  <2>1. at \in [Pos -> Pos \cup {Absent}]
    BY <1>1 DEF EditState
  <2>. QED BY <1>2, <1>18, <2>1 DEF Emptied
<1>20. d.content = [y \in Pos |-> IF y \in H THEN Absent
                                  ELSE IF y \in UsersOf(V)
                                       THEN RemovedAll(content[y], axis, first, count)
                                  ELSE content[y]]
  BY <1>1, <1>2, <1>18
<1>21. d.usedBy = w
  <2>1. w[p] = zeros
    BY <1>2 DEF Graph
  <2>. QED BY <1>2, <1>12, <1>18, <2>1 DEF Graph
<1>22. d.cache = e.cache
  BY <1>1, <1>2, <1>18 DEF EditState, Cache
<1>23. CachesDuring(d.cache, H)
  BY <1>1, <1>22 DEF CachesDuring
<1> HIDE DEF H
<1>24. RemovedSo(d, axis, first, count, V, H, Emptied(at, {p}))
  BY <1>1, <1>12, <1>15, <1>18, <1>19, <1>20, <1>21, <1>23 DEF RemovedSo
<1>25. Left(Emptied(at, {p}), H)
  BY <1>1, <1>2 DEF Left, Emptied, H
<1>26. Lost(d.cache, V, axis, first, count)
  BY <1>1, <1>22
<1>27. Removing(d, axis, first, count, V, H, Emptied(at, {p}))
  BY <1>3, <1>24, <1>25, <1>26 DEF Removing
<1>. QED BY <1>27 DEF H, c

\* One of the deleted cells.
LEMMA DeleteCellStep ==
  ASSUME TableOK, Tidy, NEW axis \in Axis, NEW first \in Nat, NEW count \in Nat \ {0},
         DeletedReadBefore(axis, first, count),
         NEW V, NEW G, NEW at, NEW e, Removing(e, axis, first, count, V, G, at),
         KeptBefore(at, axis, first),
         NEW p \in Pos, Doomed(at, {p}, axis, first, count)
  PROVE  Removing(DeleteCell(e, p, axis, first, count), axis, first, count,
                  V \cup HoldersAt(at, {p}), G \cup HoldersAt(at, {p}), Emptied(at, {p}))
<1>1. e \in EditState /\ e.at = at /\ at \in [Pos -> Pos \cup {Absent}]
  BY DEF Removing, RemovedSo, EditState
<1>2. CASE at[p] = Absent
  <2>1. DeleteCell(e, p, axis, first, count) = e
    BY <1>1, <1>2 DEF DeleteCell
  <2>2. HoldersAt(at, {p}) = {} /\ Emptied(at, {p}) = at
    BY <1>1, <1>2 DEF HoldersAt, Emptied
  <2>3. V \cup {} = V /\ G \cup {} = G
    OBVIOUS
  <2>. QED BY <2>1, <2>2, <2>3
<1>3. CASE at[p] # Absent
  <2>1. at[p] = p /\ Within(p, axis, first, count)
    BY <1>3 DEF Doomed
  <2>2. HoldersAt(at, {p}) = {p}
    BY <1>3, <2>1 DEF HoldersAt
  <2>3. {at[p]} \ {Absent} = {p}
    BY <1>3, <2>1
  <2>4. p[axis] >= first
    BY <2>1, PosFacts DEF Within, Axis
  <2> PICK u : u = UpdateFormulaOnDelete(e, p, axis, first, count)
    OBVIOUS
  <2> PICK W : W = V \cup {p}
    OBVIOUS
  <2>5. Removing(u, axis, first, count, W, G, at)
    <3>1. at[p] # Absent => at[p][axis] >= first
      BY <2>1, <2>4
    <3>2. Removing(u, axis, first, count, V \cup ({at[p]} \ {Absent}), G, at)
      BY <3>1, DeleteUpdateStep
    <3>. QED BY <2>3, <3>2
  <2> PICK x : x = InvalidateAll(u, {p})
    OBVIOUS
  <2>6. /\ RemovedSo(u, axis, first, count, W, G, at) /\ Removable(W, G, axis, first, count)
        /\ Left(at, G) /\ Lost(u.cache, W, axis, first, count)
    BY <2>5 DEF Removing
  <2>7. /\ RemovedSo(x, axis, first, count, W, G, at)
        /\ x.cache[p] = Stale
        /\ \A q \in Pos : u.cache[q] = Stale => x.cache[q] = Stale
    <3> PICK S \in SUBSET Pos : S = {p}
      OBVIOUS
    <3>1. /\ RemovedSo(InvalidateAll(u, S), axis, first, count, W, G, at)
          /\ \A q \in S : InvalidateAll(u, S).cache[q] = Stale
          /\ \A q \in Pos : u.cache[q] = Stale => InvalidateAll(u, S).cache[q] = Stale
      BY <2>6, InvalidateStep
    <3>. QED BY <3>1
  <2>8. Lost(x.cache, W, axis, first, count)
    BY <2>6, <2>7 DEF Lost, UsersOf
  <2>9. Removing(x, axis, first, count, W, G, at)
    BY <2>6, <2>7, <2>8 DEF Removing
  <2>10. DeleteCell(e, p, axis, first, count) = Destroy(ClearGraph(x, p), p)
    BY <1>1, <1>3, <2>1 DEF DeleteCell
  <2>11. p \in W
    OBVIOUS
  <2>12. Removing(Destroy(ClearGraph(x, p), p), axis, first, count, W, G \cup {p}, Emptied(at, {p}))
    BY <2>1, <2>7, <2>9, <2>11, ClearedStep
  <2>. QED BY <2>2, <2>10, <2>12
<1>. QED BY <1>2, <1>3

\* The deleted cells of a row.
LEMMA DeleteCellsStep ==
  ASSUME TableOK, Tidy, NEW axis \in Axis, NEW first \in Nat, NEW count \in Nat \ {0},
         DeletedReadBefore(axis, first, count),
         NEW V, NEW G, NEW at, NEW e, Removing(e, axis, first, count, V, G, at),
         KeptBefore(at, axis, first),
         NEW S \in SUBSET Pos, Doomed(at, S, axis, first, count)
  PROVE  Removing(DeleteCells(e, S, axis, first, count), axis, first, count,
                  V \cup HoldersAt(at, S), G \cup HoldersAt(at, S), Emptied(at, S))
<1>1. e \in EditState /\ e.at = at /\ at \in [Pos -> Pos \cup {Absent}]
  BY DEF Removing, RemovedSo, EditState
<1>2. IsFiniteSet(S)
  BY PosIsFinite, FS_Subset
<1> PICK it : /\ DeleteCells(e, S, axis, first, count) = it[S]
              /\ DeleteCellsSteps(it, e, S, axis, first, count)
  BY <1>1, DeleteCellsUnfolds
<1>3. /\ it[{}] = e
      /\ \A T \in SUBSET S : T # {} =>
           \E p \in T : it[T] = DeleteCell(it[T \ {p}], p, axis, first, count)
  BY DEF DeleteCellsSteps
<1> DEFINE Holds(T) == Removing(it[T], axis, first, count, V \cup HoldersAt(at, T),
                                G \cup HoldersAt(at, T), Emptied(at, T))
           Fine == {T \in SUBSET S : Holds(T)}
<1>4. {} \in Fine
  <2>1. HoldersAt(at, {}) = {} /\ Emptied(at, {}) = at
    BY <1>1 DEF HoldersAt, Emptied
  <2>2. V \cup {} = V /\ G \cup {} = G
    OBVIOUS
  <2>. QED BY <1>3, <2>1, <2>2
<1>5. ASSUME NEW T \in SUBSET S, T # {}
      PROVE  \E p \in T : T \ {p} \in Fine => T \in Fine
  <2> PICK p \in T : it[T] = DeleteCell(it[T \ {p}], p, axis, first, count)
    BY <1>3, <1>5
  <2> SUFFICES ASSUME Holds(T \ {p}) PROVE Holds(T)
    OBVIOUS
  <2> PICK W : W = V \cup HoldersAt(at, T \ {p})
    OBVIOUS
  <2> PICK K : K = G \cup HoldersAt(at, T \ {p})
    OBVIOUS
  <2> PICK a : a = Emptied(at, T \ {p})
    OBVIOUS
  <2> PICK d : d = it[T \ {p}]
    OBVIOUS
  <2>1. p \in Pos /\ a[p] = at[p]
    BY DEF Emptied
  <2>2. HoldersAt(a, {p}) = HoldersAt(at, {p})
    BY <2>1 DEF HoldersAt
  <2>3. /\ W \cup HoldersAt(a, {p}) = V \cup HoldersAt(at, T)
        /\ K \cup HoldersAt(a, {p}) = G \cup HoldersAt(at, T)
    BY <2>2 DEF HoldersAt
  <2>4. Emptied(a, {p}) = Emptied(at, T)
    BY DEF Emptied
  <2>5. KeptBefore(a, axis, first)
    <3> SUFFICES ASSUME NEW x \in Pos, x[axis] < first PROVE a[x] = Began.at[x]
      BY DEF KeptBefore
    <3>1. CASE x \in T \ {p}
      <4>1. ~Within(x, axis, first, count)
        BY PosFacts DEF Within, Axis
      <4>2. at[x] = Absent
        BY <3>1, <4>1 DEF Doomed
      <4>. QED BY <3>1, <4>2 DEF Emptied, KeptBefore
    <3>2. CASE x \notin T \ {p}
      BY <3>2 DEF Emptied, KeptBefore
    <3>. QED BY <3>1, <3>2
  <2>6. Doomed(a, {p}, axis, first, count)
    BY <2>1 DEF Doomed
  <2>7. Removing(d, axis, first, count, W, K, a)
    OBVIOUS
  <2> HIDE DEF Holds
  <2>8. Removing(DeleteCell(d, p, axis, first, count), axis, first, count,
                 W \cup HoldersAt(a, {p}), K \cup HoldersAt(a, {p}), Emptied(a, {p}))
    BY <2>1, <2>5, <2>6, <2>7, DeleteCellStep
  <2>. QED BY <2>3, <2>4, <2>8 DEF Holds
<1> HIDE DEF Fine, Holds
<1>6. S \in Fine
  BY <1>2, <1>4, <1>5, LoopSteps
<1>7. Holds(S)
  BY <1>6 DEF Fine
<1>. QED BY <1>7 DEF Holds

\* The holders at the places of S come from the deleted ones or from behind them.
FromBehind(at, S, axis, first) == \A x \in S : at[x] # Absent => at[x][axis] >= first

\* A deletion begins with nothing renamed and nothing deleted.
LEMMA BeganIsRemoving ==
  ASSUME TableOK, Tidy, NEW axis, NEW first, NEW count
  PROVE  Removing(Began, axis, first, count, {}, {}, Began.at)
<1>1. UsersOf({}) = {}
  BY DEF UsersOf
<1>2. /\ Began \in EditState /\ Began.undefined = FALSE /\ Began.changed = {}
      /\ Began.content = content /\ Began.usedBy = usedBy /\ Began.cache = cache
  BY BeganType DEF Began
<1>3. content = [u \in Pos |-> IF u \in {} THEN Absent
                               ELSE IF u \in UsersOf({})
                                    THEN RemovedAll(content[u], axis, first, count)
                               ELSE content[u]]
  BY <1>1 DEF TableOK, Contents
<1>4. usedBy = [x \in Pos |-> [u \in Pos |-> IF x \in {} \/ u \in {} THEN 0 ELSE usedBy[x][u]]]
  <2>1. \A x \in Pos : usedBy[x] = [u \in Pos |-> usedBy[x][u]]
    BY DEF TableOK, Graph
  <2>. QED BY <2>1 DEF TableOK, Graph
<1>5. CachesDuring(cache, {})
  BY DEF CachesDuring, Tidy, GraphInv, StaleOK
<1>6. RemovedSo(Began, axis, first, count, {}, {}, Began.at)
  BY <1>1, <1>2, <1>3, <1>4, <1>5 DEF RemovedSo
<1>7. Left(Began.at, {})
  BY BeganPlaces DEF Left
<1>8. Removable({}, {}, axis, first, count)
  BY DEF Removable
<1>9. Lost(Began.cache, {}, axis, first, count)
  BY <1>1 DEF Lost
<1>. QED BY <1>6, <1>7, <1>8, <1>9 DEF Removing

\* Holders that change their places change nothing else.
LEMMA RemovedElsewhere ==
  ASSUME NEW axis, NEW first, NEW count, NEW V, NEW G, NEW at, NEW e,
         Removing(e, axis, first, count, V, G, at),
         NEW a \in [Pos -> Pos \cup {Absent}], Left(a, G)
  PROVE  Removing([e EXCEPT !.at = a], axis, first, count, V, G, a)
<1> PICK d : d = [e EXCEPT !.at = a]
  OBVIOUS
<1>1. e \in EditState /\ RemovedSo(e, axis, first, count, V, G, at)
  BY DEF Removing, RemovedSo
<1>2. /\ d \in EditState
      /\ d.at = a /\ d.content = e.content /\ d.usedBy = e.usedBy
      /\ d.cache = e.cache /\ d.changed = e.changed /\ d.undefined = e.undefined
  BY <1>1 DEF EditState
<1>3. RemovedSo(d, axis, first, count, V, G, a)
  BY <1>1, <1>2 DEF RemovedSo
<1>4. Removing(d, axis, first, count, V, G, a)
  BY <1>2, <1>3 DEF Removing
<1>. QED BY <1>4

\* One holder moves to where none is.
LEMMA RemovedMoveStep ==
  ASSUME NEW axis, NEW first, NEW count, NEW V, NEW G, NEW at, NEW e,
         Removing(e, axis, first, count, V, G, at),
         NEW p \in Pos, NEW q \in Pos, p # q, at[q] = Absent
  PROVE  Removing(Move(e, p, q), axis, first, count, V, G, MovedPlaces(at, p, q))
<1> PICK a : a = MovedPlaces(at, p, q)
  OBVIOUS
<1>1. e \in EditState /\ e.at = at /\ at \in [Pos -> Pos \cup {Absent}] /\ Left(at, G)
  BY DEF Removing, RemovedSo, EditState
<1>2. Move(e, p, q) = [e EXCEPT !.at = a]
  BY <1>1, MoveToEmpty
<1>3. a \in [Pos -> Pos \cup {Absent}]
  BY <1>1 DEF MovedPlaces
<1>4. Left(a, G)
  BY <1>1 DEF Left, MovedPlaces
<1>. QED BY <1>2, <1>3, <1>4, RemovedElsewhere

\* One row moves to where no holder is.
LEMMA RemovedRowStep ==
  ASSUME NEW axis, NEW first, NEW count, NEW V, NEW G, NEW at, NEW e,
         Removing(e, axis, first, count, V, G, at),
         NEW i \in Row, NEW j \in Row, i # j, \A x \in InRow(j) : at[x] = Absent
  PROVE  Removing(MoveRow(e, i, j), axis, first, count, V, G, RowMoved(at, i, j))
<1> PICK a : a = RowMoved(at, i, j)
  OBVIOUS
<1>1. e \in EditState /\ e.at = at /\ at \in [Pos -> Pos \cup {Absent}] /\ Left(at, G)
  BY DEF Removing, RemovedSo, EditState
<1>2. MoveRow(e, i, j) = [e EXCEPT !.at = a]
  BY <1>1, MoveRowToEmpty
<1>3. \A x \in Pos : /\ x = At(x.row, x.col)
                     /\ At(i, x.col) \in Pos /\ At(i, x.col).row = i /\ At(i, x.col).col = x.col
  BY PosFacts DEF Row
<1>4. \A x \in Pos : a[x] = IF x.row = i THEN Absent
                            ELSE IF x.row = j THEN at[At(i, x.col)] ELSE at[x]
  BY DEF RowMoved
<1>5. a \in [Pos -> Pos \cup {Absent}]
  <2>1. \A x \in Pos : a[x] \in Pos \cup {Absent}
    BY <1>1, <1>3, <1>4
  <2>. QED BY <2>1 DEF RowMoved
<1>6. Left(a, G)
  <2>1. ASSUME NEW x \in Pos, a[x] # Absent
        PROVE  a[x] \in Pos /\ CellExists(content, a[x]) /\ a[x] \notin G
    BY <1>1, <1>3, <1>4, <2>1 DEF Left
  <2>2. ASSUME NEW x \in Pos, NEW y \in Pos, a[x] # Absent, a[x] = a[y] PROVE x = y
    <3>1. x.row # i /\ y.row # i
      BY <1>4, <2>2
    <3>2. CASE x.row = j /\ y.row = j
      <4>1. at[At(i, x.col)] = at[At(i, y.col)] /\ at[At(i, x.col)] # Absent
        BY <1>4, <2>2, <3>1, <3>2
      <4>2. At(i, x.col) = At(i, y.col)
        BY <1>1, <1>3, <4>1 DEF Left
      <4>3. x.col = y.col
        BY <1>3, <4>2
      <4>. QED BY <1>3, <3>2, <4>3
    <3>3. CASE x.row = j /\ y.row # j
      <4>1. at[At(i, x.col)] = at[y] /\ at[y] # Absent
        BY <1>4, <2>2, <3>1, <3>3
      <4>2. At(i, x.col) = y
        BY <1>1, <1>3, <4>1 DEF Left
      <4>. QED BY <1>3, <3>1, <4>2
    <3>4. CASE x.row # j /\ y.row = j
      <4>1. at[At(i, y.col)] = at[x] /\ at[x] # Absent
        BY <1>4, <2>2, <3>1, <3>4
      <4>2. At(i, y.col) = x
        BY <1>1, <1>3, <4>1 DEF Left
      <4>. QED BY <1>3, <3>1, <4>2
    <3>5. CASE x.row # j /\ y.row # j
      BY <1>1, <1>4, <2>2, <3>1, <3>5 DEF Left
    <3>. QED BY <3>2, <3>3, <3>4, <3>5
  <2>. QED BY <2>1, <2>2 DEF Left
<1>. QED BY <1>2, <1>5, <1>6, RemovedElsewhere

\* The updates of one row before it moves.
LEMMA DeleteRowUpdated ==
  ASSUME TableOK, Tidy, NEW first \in Nat, NEW count \in Nat \ {0},
         DeletedReadBefore("row", first, count),
         NEW V, NEW G, NEW at, NEW e, Removing(e, "row", first, count, V, G, at),
         NEW i \in Row, FromBehind(at, InRow(i), "row", first)
  PROVE  Removing(UpdateRowOnDelete(e, i, first, count), "row", first, count,
                  V \cup HoldersAt(at, InRow(i)), G, at)
<1> DEFINE S == InRow(i)
<1>1. e \in EditState /\ "row" \in Axis
  BY DEF Removing, RemovedSo, Axis
<1>2. S \in SUBSET Pos /\ IsFiniteSet(S)
  BY PosIsFinite, FS_Subset DEF InRow
<1> PICK it : /\ UpdateRowOnDelete(e, i, first, count) = it[S]
               /\ DeleteUpdatesSteps(it, e, i, first, count)
  BY <1>1, DeleteUpdatesUnfolds
<1>3. /\ it[{}] = e
      /\ \A T \in SUBSET S : T # {} =>
           \E p \in T : it[T] = UpdateFormulaOnDelete(it[T \ {p}], p, "row", first, count)
  BY DEF DeleteUpdatesSteps
<1> DEFINE Holds(T) == Removing(it[T], "row", first, count, V \cup HoldersAt(at, T), G, at)
           Fine == {T \in SUBSET S : Holds(T)}
<1>4. {} \in Fine
  <2>1. V \cup HoldersAt(at, {}) = V
    BY DEF HoldersAt
  <2>. QED BY <1>3, <2>1
<1>5. ASSUME NEW T \in SUBSET S, T # {}
      PROVE  \E p \in T : T \ {p} \in Fine => T \in Fine
  <2> PICK p \in T : it[T] = UpdateFormulaOnDelete(it[T \ {p}], p, "row", first, count)
    BY <1>3, <1>5
  <2> SUFFICES ASSUME Holds(T \ {p}) PROVE Holds(T)
    OBVIOUS
  <2> DEFINE W == V \cup HoldersAt(at, T \ {p})
  <2>1. p \in Pos /\ (at[p] # Absent => at[p]["row"] >= first)
    BY <1>2 DEF FromBehind
  <2>2. W \cup ({at[p]} \ {Absent}) = V \cup HoldersAt(at, T)
    BY DEF HoldersAt
  <2> PICK d : d = it[T \ {p}]
    OBVIOUS
  <2>3. Removing(d, "row", first, count, W, G, at)
    OBVIOUS
  <2> HIDE DEF W
  <2>4. Removing(UpdateFormulaOnDelete(d, p, "row", first, count), "row", first, count,
                 W \cup ({at[p]} \ {Absent}), G, at)
    BY <1>1, <2>1, <2>3, DeleteUpdateStep
  <2>. QED BY <2>2, <2>4
<1> HIDE DEF Fine, Holds, S
<1>6. S \in Fine
  BY <1>2, <1>4, <1>5, LoopSteps
<1>7. Holds(S)
  BY <1>6 DEF Fine
<1>. QED BY <1>7 DEF Holds, S

\* A resize that cuts no holder off changes nothing.
LEMMA DestroyNothing ==
  ASSUME NEW e \in EditState, NEW S \in SUBSET Pos, \A x \in S : e.at[x] = Absent
  PROVE  DestroyAll(e, S) = e
<1>1. IsFiniteSet(S)
  BY PosIsFinite, FS_Subset
<1> PICK it : DestroyAll(e, S) = it[S] /\ DestroyAllSteps(it, e, S)
  BY DestroyAllUnfolds
<1>2. /\ it[{}] = e
      /\ \A T \in SUBSET S : T # {} => \E p \in T : it[T] = Destroy(it[T \ {p}], p)
  BY DEF DestroyAllSteps
<1> DEFINE Fine == {T \in SUBSET S : it[T] = e}
<1>3. {} \in Fine
  BY <1>2
<1>4. ASSUME NEW T \in SUBSET S, T # {}
      PROVE  \E p \in T : T \ {p} \in Fine => T \in Fine
  <2> PICK p \in T : it[T] = Destroy(it[T \ {p}], p)
    BY <1>2, <1>4
  <2>1. Destroy(e, p) = e
    BY DEF Destroy
  <2>. QED BY <2>1
<1> HIDE DEF Fine
<1>5. S \in Fine
  BY <1>1, <1>3, <1>4, LoopSteps
<1>. QED BY <1>5 DEF Fine

-----------------------------------------------------------------------------
(* DeleteRows.                                                             *)

\* Each row of T has got the holders of the row count behind it.
RowsDeleted(T, count) ==
  [x \in Pos |-> IF x.row \in T THEN Began.at[At(x.row + count, x.col)]
                 ELSE IF x.row - count \in T THEN Absent
                 ELSE Began.at[x]]

\* The deleted holders of the rows T, and those with the ones that have moved
\* there.
RowsLost(T, first, count) ==
  {h \in Pos : CellExists(content, h) /\ h.row \in T /\ Within(h, "row", first, count)}
RowsSeen(T, first, count) ==
  RowsLost(T, first, count) \cup {h \in Pos : CellExists(content, h) /\ h.row - count \in T}

\* The loop visits the rows one after the other.
FromFirst(S) == {T \in SUBSET S : \A i \in T, j \in S : j < i => j \in T}

\* One row: its users are renamed, its place is emptied, and it moves there.
LEMMA DeleteRowStep ==
  ASSUME TableOK, Tidy, NEW first \in Nat, NEW count \in Nat \ {0},
         DeletedReadBefore("row", first, count),
         NEW T \in FromFirst(first .. rowsCount - count - 1),
         NEW i \in T, \A j \in T : j <= i, NEW e,
         Removing(e, "row", first, count, RowsSeen(T \ {i}, first, count),
                  RowsLost(T \ {i}, first, count), RowsDeleted(T \ {i}, count))
  PROVE  Removing(MoveRow(DeleteCells(UpdateRowOnDelete(e, i + count, first, count),
                                      InRow(i), "row", first, count), i + count, i),
                  "row", first, count, RowsSeen(T, first, count),
                  RowsLost(T, first, count), RowsDeleted(T, count))
<1> PICK U : U = T \ {i}
  OBVIOUS
<1> PICK at : at = RowsDeleted(U, count)
  OBVIOUS
<1>0. rowsCount \in Nat /\ rowsCount <= Rows /\ Rows \in Nat /\ "row" \in Axis
  BY TableAssumption DEF Tidy, Axis
<1>1. /\ T \subseteq first .. rowsCount - count - 1
      /\ \A k \in T, j \in first .. rowsCount - count - 1 : j < k => j \in T
  BY DEF FromFirst
<1>2. /\ i \in Row /\ i + count \in Row /\ i # i + count /\ i \in Nat /\ i >= first
      /\ i < rowsCount - count
  BY <1>0, <1>1 DEF Row
<1>3. \A x \in Pos : /\ x = At(x.row, x.col) /\ x.row \in Nat
                     /\ At(i, x.col) \in Pos /\ At(i, x.col).row = i /\ At(i, x.col).col = x.col
                     /\ At(i + count, x.col) \in Pos /\ At(i + count, x.col).row = i + count
                     /\ At(i + count, x.col).col = x.col
  BY <1>0, <1>2, PosFacts DEF Row
<1>4. \A x \in Pos : at[x] = IF x.row \in U THEN Began.at[At(x.row + count, x.col)]
                             ELSE IF x.row - count \in U THEN Absent
                             ELSE Began.at[x]
  BY DEF RowsDeleted
<1>5. i + count \notin U /\ i + count - count \notin U
  BY <1>1, <1>2
<1>6. ASSUME NEW x \in Pos, x.row = i + count PROVE at[x] = Began.at[x]
  <2>1. x.row \notin U /\ x.row - count \notin U
    BY <1>2, <1>5, <1>6
  <2>. QED BY <1>4, <2>1
<1>7. ASSUME NEW x \in Pos, x.row = i
      PROVE  at[x] = IF Within(x, "row", first, count) THEN Began.at[x] ELSE Absent
  <2>1. x.row \notin U
    BY <1>7
  <2>2. x.row - count \in U <=> i - count >= first
    <3>1. x.row - count \in U => i - count >= first
      BY <1>1, <1>7
    <3>2. i - count >= first => i - count \in first .. rowsCount - count - 1 /\ i - count < i
      BY <1>0, <1>2
    <3>3. i - count >= first => i - count \in T
      BY <1>1, <3>2
    <3>. QED BY <1>2, <1>7, <3>1, <3>3
  <2>3. Within(x, "row", first, count) <=> ~(i - count >= first)
    BY <1>2, <1>7 DEF Within
  <2>. QED BY <1>4, <2>1, <2>2, <2>3
<1> PICK V : V = RowsSeen(U, first, count)
  OBVIOUS
<1> PICK G : G = RowsLost(U, first, count)
  OBVIOUS
<1>8. Removing(e, "row", first, count, V, G, at)
  OBVIOUS
<1> PICK d : d = UpdateRowOnDelete(e, i + count, first, count)
  OBVIOUS
<1> PICK W : W = V \cup HoldersAt(at, InRow(i + count))
  OBVIOUS
<1>9. Removing(d, "row", first, count, W, G, at)
  <2>1. FromBehind(at, InRow(i + count), "row", first)
    <3> SUFFICES ASSUME NEW x \in InRow(i + count), at[x] # Absent PROVE at[x]["row"] >= first
      BY DEF FromBehind
    <3>1. x \in Pos /\ x.row = i + count
      BY DEF InRow
    <3>2. at[x] = x
      BY <1>6, <3>1, BeganPlaces
    <3>. QED BY <1>2, <3>1, <3>2
  <2>. QED BY <1>2, <1>8, <2>1, DeleteRowUpdated
<1> PICK S \in SUBSET Pos : S = InRow(i)
  BY DEF InRow
<1> PICK x : x = DeleteCells(d, S, "row", first, count)
  OBVIOUS
<1> PICK X : X = W \cup HoldersAt(at, S)
  OBVIOUS
<1> PICK H : H = G \cup HoldersAt(at, S)
  OBVIOUS
<1>10. Removing(x, "row", first, count, X, H, Emptied(at, S))
  <2>1. KeptBefore(at, "row", first)
    <3> SUFFICES ASSUME NEW y \in Pos, y.row < first PROVE at[y] = Began.at[y]
      BY DEF KeptBefore
    <3>1. y.row \notin U /\ y.row - count \notin U
      BY <1>1, <1>3
    <3>. QED BY <1>4, <3>1
  <2>2. Doomed(at, S, "row", first, count)
    <3> SUFFICES ASSUME NEW y \in S
                 PROVE  /\ y \in Pos
                        /\ at[y] = Absent \/ (at[y] = y /\ Within(y, "row", first, count))
      BY DEF Doomed
    <3>1. y \in Pos /\ y.row = i
      BY DEF InRow
    <3>. QED BY <1>7, <3>1, BeganPlaces
  <2>. QED BY <1>0, <1>9, <2>1, <2>2, DeleteCellsStep
<1>11. HoldersAt(at, InRow(i + count)) = {h \in Pos : CellExists(content, h) /\ h.row - count = i}
  <2>1. \A h \in Pos : h.row - count = i <=> h.row = i + count
    BY <1>2, <1>3
  <2>2. ASSUME NEW h \in HoldersAt(at, InRow(i + count))
        PROVE  h \in Pos /\ CellExists(content, h) /\ h.row = i + count
    <3> PICK y \in InRow(i + count) : h = at[y] /\ h # Absent
      BY DEF HoldersAt
    <3>1. y \in Pos /\ y.row = i + count
      BY DEF InRow
    <3>2. h = y /\ CellExists(content, y)
      BY <1>6, <3>1, BeganPlaces
    <3>. QED BY <3>1, <3>2
  <2>3. ASSUME NEW h \in Pos, CellExists(content, h), h.row = i + count
        PROVE  h \in HoldersAt(at, InRow(i + count))
    <3>1. at[h] = h /\ h # Absent /\ h \in InRow(i + count)
      BY <1>6, <2>3, BeganPlaces DEF InRow
    <3>. QED BY <3>1 DEF HoldersAt
  <2>. QED BY <2>1, <2>2, <2>3
<1>12. HoldersAt(at, S) = {h \in Pos : CellExists(content, h) /\ h.row = i
                                       /\ Within(h, "row", first, count)}
  <2>1. ASSUME NEW h \in HoldersAt(at, S)
        PROVE  h \in Pos /\ CellExists(content, h) /\ h.row = i /\ Within(h, "row", first, count)
    <3> PICK y \in S : h = at[y] /\ h # Absent
      BY DEF HoldersAt
    <3>1. y \in Pos /\ y.row = i
      BY DEF InRow
    <3>2. h = y /\ CellExists(content, y) /\ Within(y, "row", first, count)
      BY <1>7, <3>1, BeganPlaces
    <3>. QED BY <3>1, <3>2
  <2>2. ASSUME NEW h \in Pos, CellExists(content, h), h.row = i, Within(h, "row", first, count)
        PROVE  h \in HoldersAt(at, S)
    <3>1. at[h] = h /\ h # Absent /\ h \in S
      BY <1>7, <2>2, BeganPlaces DEF InRow
    <3>. QED BY <3>1 DEF HoldersAt
  <2>. QED BY <2>1, <2>2
<1>13. H = RowsLost(T, first, count)
  BY <1>12 DEF RowsLost
<1>14. X = RowsSeen(T, first, count)
  BY <1>11, <1>12 DEF RowsSeen, RowsLost
<1> PICK a : a = Emptied(at, S)
  OBVIOUS
<1>15. Removing(MoveRow(x, i + count, i), "row", first, count, X, H, RowMoved(a, i + count, i))
  <2>1. \A y \in InRow(i) : a[y] = Absent
    BY DEF Emptied, InRow
  <2>. QED BY <1>2, <1>10, <2>1, RemovedRowStep
<1>16. RowMoved(a, i + count, i) = RowsDeleted(T, count)
  <2>0. \A y \in Pos : a[y] = IF y.row = i THEN Absent ELSE at[y]
    BY DEF Emptied, InRow
  <2>1. ASSUME NEW y \in Pos
        PROVE  RowMoved(a, i + count, i)[y] = RowsDeleted(T, count)[y]
    <3>0. /\ RowMoved(a, i + count, i)[y] =
               IF y.row = i + count THEN Absent
               ELSE IF y.row = i THEN a[At(i + count, y.col)] ELSE a[y]
          /\ RowsDeleted(T, count)[y] =
               IF y.row \in T THEN Began.at[At(y.row + count, y.col)]
               ELSE IF y.row - count \in T THEN Absent
               ELSE Began.at[y]
      BY DEF RowMoved, RowsDeleted
    <3>1. CASE y.row = i + count
      <4>1. y.row \notin T /\ y.row - count = i
        BY <1>2, <1>5, <3>1
      <4>. QED BY <3>0, <3>1, <4>1
    <3>2. CASE y.row = i
      <4>1. a[At(i + count, y.col)] = Began.at[At(i + count, y.col)]
        BY <1>2, <1>3, <1>6, <2>0
      <4>. QED BY <1>2, <3>0, <3>2, <4>1
    <3>3. CASE y.row # i /\ y.row # i + count
      <4>1. y.row - count # i
        BY <1>2, <1>3, <3>3
      <4>2. a[y] = at[y]
        BY <2>0, <3>3
      <4>. QED BY <1>4, <3>0, <3>3, <4>1, <4>2
    <3>. QED BY <3>1, <3>2, <3>3
  <2>2. /\ RowMoved(a, i + count, i) = [y \in Pos |-> RowMoved(a, i + count, i)[y]]
        /\ RowsDeleted(T, count) = [y \in Pos |-> RowsDeleted(T, count)[y]]
    BY DEF RowMoved, RowsDeleted
  <2>. QED BY <2>1, <2>2
<1>. QED BY <1>13, <1>14, <1>15, <1>16

\* The loop of DeleteRows.
LEMMA DeleteRowsLoops ==
  ASSUME TableOK, Tidy, NEW first \in Nat, NEW count \in Nat \ {0},
         DeletedReadBefore("row", first, count)
  PROVE  Removing(DeleteRowsLoop(first, count), "row", first, count,
                  RowsSeen(first .. rowsCount - count - 1, first, count),
                  RowsLost(first .. rowsCount - count - 1, first, count),
                  RowsDeleted(first .. rowsCount - count - 1, count))
<1> DEFINE S == first .. rowsCount - count - 1
           Good == FromFirst(S)
<1>0. rowsCount \in Nat /\ rowsCount \in Int /\ rowsCount <= Rows
  BY TableAssumption DEF Tidy
<1>1. IsFiniteSet(S) /\ S \in SUBSET Nat /\ \A i \in S : i <= rowsCount
  <2>1. rowsCount - count - 1 \in Int
    BY <1>0
  <2>2. IsFiniteSet(S)
    BY <2>1, FS_Interval
  <2>. QED BY <1>0, <2>2
<1> PICK it : DeleteRowsLoop(first, count) = it[S] /\ DeleteRowsSteps(it, first, count)
  BY <1>0, DeleteRowsUnfolds
<1>2. it[{}] = Began
  BY DEF DeleteRowsSteps
<1> DEFINE Holds(T) == Removing(it[T], "row", first, count, RowsSeen(T, first, count),
                                RowsLost(T, first, count), RowsDeleted(T, count))
           Fine == {T \in SUBSET S : Holds(T)}
<1>3. {} \in Fine
  <2>1. RowsSeen({}, first, count) = {} /\ RowsLost({}, first, count) = {}
        /\ RowsDeleted({}, count) = Began.at
    BY DEF RowsSeen, RowsLost, RowsDeleted, Began
  <2>2. Removing(Began, "row", first, count, {}, {}, Began.at)
    BY BeganIsRemoving
  <2>. QED BY <1>2, <2>1, <2>2
<1>4. ASSUME NEW T \in Good, T # {}
      PROVE  \E i \in T : T \ {i} \in Good /\ (T \ {i} \in Fine => T \in Fine)
  <2>0. T \in SUBSET S /\ T \in SUBSET Nat /\ \A n \in T : n <= rowsCount
    BY <1>1 DEF FromFirst
  <2> PICK i : i = Max(T)
    OBVIOUS
  <2>1. /\ i \in T
        /\ it[T] = MoveRow(DeleteCells(UpdateRowOnDelete(it[T \ {i}], i + count, first, count),
                                       InRow(i), "row", first, count), i + count, i)
    BY <1>4, <2>0 DEF DeleteRowsSteps
  <2>2. \A j \in T : j <= i
    BY <1>0, <1>4, <2>0, MaxIsMember
  <2>3. T \ {i} \in Good
    <3> SUFFICES ASSUME NEW k \in T \ {i}, NEW j \in S, j < k PROVE j \in T \ {i}
      BY <2>0 DEF FromFirst
    <3>1. j \in T
      BY DEF FromFirst
    <3>2. j # i
      <4>1. k <= i /\ k \in Nat /\ i \in Nat /\ j \in Nat
        BY <1>1, <2>0, <2>1, <2>2
      <4>. QED BY <4>1
    <3>. QED BY <3>1, <3>2
  <2>4. ASSUME Holds(T \ {i}) PROVE Holds(T)
    <3> PICK d : d = it[T \ {i}]
      OBVIOUS
    <3>1. Removing(d, "row", first, count, RowsSeen(T \ {i}, first, count),
                   RowsLost(T \ {i}, first, count), RowsDeleted(T \ {i}, count))
      BY <2>4
    <3>2. T \in FromFirst(first .. rowsCount - count - 1)
      OBVIOUS
    <3>3. Removing(MoveRow(DeleteCells(UpdateRowOnDelete(d, i + count, first, count),
                                       InRow(i), "row", first, count), i + count, i),
                   "row", first, count, RowsSeen(T, first, count),
                   RowsLost(T, first, count), RowsDeleted(T, count))
      BY <2>1, <2>2, <3>1, <3>2, DeleteRowStep
    <3>. QED BY <2>1, <3>3
  <2>. QED BY <2>0, <2>1, <2>3, <2>4
<1>5. S \in Good /\ Good \in SUBSET SUBSET S
  BY DEF FromFirst
<1> HIDE DEF Fine, Holds, Good, S
<1>6. Good \subseteq Fine
  BY <1>1, <1>3, <1>4, <1>5, LoopInduction
<1>7. Holds(S)
  BY <1>5, <1>6 DEF Fine
<1>. QED BY <1>7 DEF Holds, S

\* G has the holders of the deleted rows or columns.
HasDeleted(G, axis, first, count) ==
  \A h \in Pos : (CellExists(content, h) /\ Within(h, axis, first, count)) => h \in G

\* A deletion is done when every holder that is left is where its new name is,
\* and all that uses one that has moved or gone has been renamed.
LEMMA RemovedEdited ==
  ASSUME TableOK, Tidy, NEW axis \in Axis, NEW r \in Ranges,
         DeletedReadBefore(axis, r.index, r.count),
         NEW to, to = RemovedNames(axis, r.index, r.count),
         NEW V, NEW G, NEW at, NEW e, Removing(e, axis, r.index, r.count, V, G, at),
         Arrived(at, to), HasMoving(V, axis, r.index), HasDeleted(G, axis, r.index, r.count)
  PROVE  Edited(e, to)
<1> PICK index \in Nat, count \in Nat \ {0} : index = r.index /\ count = r.count
  BY EnteredAssumption
<1>1. /\ Naming(to)
      /\ \A f \in Formula : Renaming(f, to) = RemovedAll(f, axis, index, count)
      /\ \A p \in Pos : /\ to[p] = Removed(p, axis, index, count)
                        /\ to[p] = Deleted <=> Within(p, axis, index, count)
  BY RemovedNaming
<1>2. \A h \in Pos : h \in Kept(to) <=> CellExists(content, h) /\ ~Within(h, axis, index, count)
  BY <1>1 DEF Kept
<1>3. Kept(to) \subseteq Pos
  BY DEF Kept
<1>4. /\ RemovedSo(e, axis, index, count, V, G, at) /\ Removable(V, G, axis, index, count)
      /\ Lost(e.cache, V, axis, index, count)
  BY DEF Removing
<1>5. /\ e \in EditState /\ e.at = at /\ CachesDuring(e.cache, G)
      /\ e.content = [u \in Pos |-> IF u \in G THEN Absent
                                    ELSE IF u \in UsersOf(V)
                                         THEN RemovedAll(content[u], axis, index, count)
                                    ELSE content[u]]
      /\ e.usedBy = [x \in Pos |-> [u \in Pos |-> IF x \in G \/ u \in G THEN 0 ELSE usedBy[x][u]]]
  BY <1>4 DEF RemovedSo
<1>6. \A h \in Kept(to) : h \notin G
  BY <1>2, <1>3, <1>4 DEF Removable
<1>7. V \in SUBSET Pos
  BY <1>4 DEF Removable
<1>8. ASSUME NEW h \in Pos, content[h] \in Formula, NEW x \in Refs(content[h])
      PROVE  x \in Pos /\ usedBy[x][h] > 0 /\ CellExists(content, x)
  <2>1. x \in Pos
    BY <1>8, FormulaAssumption
  <2>2. usedBy[x][h] > 0
    BY <1>8, <2>1 DEF Tidy, AllLinked, GetReferencedCells
  <2>. QED BY <1>8, <2>1, <2>2 DEF Tidy, GraphInv, EdgesOK
<1>9. ASSUME NEW h \in Pos, content[h] \in Formula, NEW x \in Refs(content[h]), x[axis] >= index
      PROVE  h \in UsersOf(V)
  <2>1. x \in V
    BY <1>8, <1>9 DEF HasMoving, Beyond
  <2>. QED BY <1>8, <1>9, <2>1 DEF UsersOf
<1>10. \A x \in Pos : x[axis] \in Nat
  BY PosFacts, TableAssumption DEF Axis
<1>11. ASSUME NEW h \in Kept(to) PROVE e.content[h] = Renaming(content[h], to)
  <2>1. h \in Pos /\ h \notin G
    BY <1>3, <1>6
  <2>2. CASE h \in UsersOf(V)
    <3>1. content[h] \in Formula
      BY <1>7, <2>2, UsersAreFormulas
    <3>. QED BY <1>1, <1>5, <2>1, <2>2, <3>1
  <2>3. CASE h \notin UsersOf(V) /\ content[h] \in Formula
    <3>1. ASSUME NEW x \in Refs(content[h]) PROVE to[x] = x
      <4>1. x \in Pos /\ ~(x[axis] >= index)
        BY <1>8, <1>9, <2>1, <2>3
      <4>2. ~Within(x, axis, index, count) /\ ~(x[axis] > index + count - 1)
        BY <1>10, <4>1 DEF Within
      <4>. QED BY <1>1, <4>1, <4>2 DEF Removed
    <3>2. Renaming(content[h], to) = content[h]
      <4> PICK f \in Formula : f = content[h]
        BY <2>3
      <4>1. \A x \in Refs(f) : to[x] = x
        BY <3>1
      <4>2. Naming(to)
        BY <1>1
      <4>3. Renaming(f, to) = f
        BY <4>1, <4>2, RenamesNothing
      <4>. QED BY <4>3
    <3>. QED BY <1>5, <2>1, <2>3, <3>2
  <2>4. CASE h \notin UsersOf(V) /\ content[h] \notin Formula
    BY <1>5, <2>1, <2>4 DEF Renaming
  <2>. QED BY <2>2, <2>3, <2>4
<1>12. \A x, h \in Kept(to) : e.usedBy[x][h] = usedBy[x][h]
  BY <1>3, <1>5, <1>6
<1>13. ASSUME NEW x \in Kept(to), NEW u \in Pos, e.usedBy[x][u] > 0 PROVE u \in Kept(to)
  <2>1. u \notin G /\ usedBy[x][u] > 0 /\ x \in Pos
    BY <1>3, <1>5, <1>13
  <2>2. CellExists(content, u)
    <3>1. {x} \in SUBSET Pos /\ u \in UsersOf({x})
      BY <2>1 DEF UsersOf
    <3>2. content[u] # Absent
      BY <3>1, UsersAreFormulas
    <3>. QED BY <3>2 DEF CellExists
  <2>. QED BY <1>2, <2>1, <2>2 DEF HasDeleted
<1>14. CachesLeft(e, to)
  <2>1. \A h \in Kept(to) : e.cache[h] \in {cache[h], Stale}
    BY <1>3, <1>5 DEF CachesDuring
  <2>2. \A x, u \in Kept(to) :
          (usedBy[x][u] > 0 /\ content[x] \in Formula /\ e.cache[x] = Stale) => e.cache[u] = Stale
    BY <1>3, <1>5 DEF CachesDuring
  <2>3. ASSUME NEW h \in Kept(to), content[h] \in Formula, NEW x \in Refs(content[h]), to[x] = Deleted
        PROVE  e.cache[h] = Stale
    <3>1. h \in Pos /\ x \in Pos
      BY <1>3, <1>8, <2>3
    <3>2. Within(x, axis, index, count)
      BY <1>1, <2>3, <3>1
    <3>3. x[axis] >= index
      BY <1>10, <3>1, <3>2 DEF Within
    <3>4. h \in UsersOf(V)
      BY <1>9, <2>3, <3>1, <3>3
    <3>. QED BY <1>4, <3>2, <3>4 DEF Lost
  <2>. QED BY <2>1, <2>2, <2>3 DEF CachesLeft
<1>15. \A x \in Pos : e.at[x] # Absent => e.at[x] \in Kept(to) /\ to[e.at[x]] = x
  BY <1>5 DEF Arrived
<1>16. \A h \in Kept(to) : to[h] \in Pos /\ e.at[to[h]] = h
  BY <1>5 DEF Arrived
<1>. QED BY <1>1, <1>11, <1>12, <1>13, <1>14, <1>15, <1>16 DEF Edited

\* The whole of DeleteRows.
LEMMA DeleteRowsEdited ==
  ASSUME TableOK, Tidy, NEW r \in Ranges, RowsGoCleanly(r.index, r.count)
  PROVE  LET e == ResizeRows(DeleteRowsLoop(r.index, r.count), rowsCount - r.count)
         IN  e \in EditState /\ e.undefined = FALSE
             /\ Edited(e, RemovedNames("row", r.index, r.count))
<1> PICK first \in Nat, count \in Nat \ {0} : first = r.index /\ count = r.count
  BY EnteredAssumption
<1> PICK to : to = RemovedNames("row", first, count)
  OBVIOUS
<1> PICK d : d = DeleteRowsLoop(first, count)
  OBVIOUS
<1> DEFINE n == rowsCount - count
           S == first .. n - 1
           at == RowsDeleted(S, count)
<1>0. /\ DeletedReadBefore("row", first, count) /\ DeletedRowsAreVisited(first, count)
      /\ "row" \in Axis /\ rowsCount \in Nat /\ Rows \in Nat /\ rowsCount <= Rows
      /\ count <= rowsCount
  BY TableAssumption DEF RowsGoCleanly, DeletedRowsAreVisited, Tidy, Axis
<1>1. Removing(d, "row", first, count, RowsSeen(S, first, count), RowsLost(S, first, count), at)
  BY <1>0, DeleteRowsLoops
<1>2. /\ \A p \in Pos : to[p] = Removed(p, "row", first, count)
      /\ \A p \in Pos : to[p] = Deleted <=> Within(p, "row", first, count)
  BY <1>0, RemovedNaming
<1>3. \A x \in Pos : /\ x = At(x.row, x.col) /\ x.row \in Nat /\ x.row < Rows
                     /\ x.col \in 0 .. Cols - 1
                     /\ Within(x, "row", first, count) <=> (x.row >= first /\ x.row < first + count)
  BY <1>0, PosFacts DEF Within
<1>4. \A h \in Pos : CellExists(content, h) =>
        h.row < rowsCount /\ (h.row < first + count => h.row < n)
  BY <1>0 DEF Tidy, SizeCovers, DeletedRowsAreVisited
<1>5. \A x \in Pos : at[x] = IF x.row \in S THEN Began.at[At(x.row + count, x.col)]
                             ELSE IF x.row - count \in S THEN Absent
                             ELSE Began.at[x]
  BY DEF RowsDeleted
<1>6. n \in Nat /\ \A i \in Int : i \in S <=> i >= first /\ i < n
  BY <1>0
<1> HIDE DEF at, S, n
<1>7. ASSUME NEW h \in Pos, CellExists(content, h), ~Within(h, "row", first, count)
      PROVE  to[h] \in Pos /\ at[to[h]] = h
  <2>1. CASE h.row >= first + count
    <3>1. to[h] = At(h.row - count, h.col)
      BY <1>2, <1>7, <2>1, NewNames
    <3>2. h.row - count \in S /\ h.row - count \in 0 .. Rows - 1 /\ h.row - count + count = h.row
      BY <1>0, <1>3, <1>4, <1>6, <1>7, <2>1 DEF n
    <3>3. to[h] \in Pos /\ to[h].row = h.row - count /\ to[h].col = h.col
      BY <1>3, <3>1, <3>2, PosFacts
    <3>4. at[to[h]] = Began.at[h]
      BY <1>3, <1>5, <3>2, <3>3
    <3>. QED BY <1>7, <3>3, <3>4, BeganPlaces
  <2>2. CASE ~(h.row >= first + count)
    <3>1. to[h] = h
      BY <1>2, <1>7, <2>2, NewNames
    <3>2. h.row \notin S /\ h.row - count \notin S
      BY <1>3, <1>6, <1>7, <2>2
    <3>. QED BY <1>5, <1>7, <3>1, <3>2, BeganPlaces
  <2>. QED BY <2>1, <2>2
<1>8. ASSUME NEW x \in Pos, at[x] # Absent
      PROVE  /\ x.row < n /\ CellExists(content, at[x]) /\ at[x] \in Pos
             /\ ~Within(at[x], "row", first, count) /\ to[at[x]] = x
  <2>1. CASE x.row \in S
    <3>0. x.row + count \in 0 .. Rows - 1 /\ x.row >= first /\ x.row < n
      BY <1>0, <1>3, <1>6, <2>1 DEF n
    <3> PICK y \in Pos : y = At(x.row + count, x.col)
      BY <1>3, <3>0, PosFacts
    <3>1. at[x] = y /\ CellExists(content, y)
      BY <1>5, <1>8, <2>1, BeganPlaces
    <3>2. y.row = x.row + count /\ y.col = x.col
      BY DEF At
    <3>3. y.row >= first + count /\ y.row - count = x.row /\ ~Within(y, "row", first, count)
      BY <1>3, <3>0, <3>2
    <3>4. to[y] = x
      <4>1. Removed(y, "row", first, count) = At(y.row - count, y.col)
        BY <3>3, NewNames
      <4>2. At(y.row - count, y.col) = At(x.row, x.col)
        BY <3>2, <3>3
      <4>. QED BY <1>2, <1>3, <4>1, <4>2
    <3>. QED BY <3>0, <3>1, <3>3, <3>4
  <2>2. CASE x.row \notin S
    <3>1. x.row - count \notin S /\ at[x] = x /\ CellExists(content, x)
      BY <1>5, <1>8, <2>2, BeganPlaces
    <3>2. ~(x.row >= first)
      <4> SUFFICES ASSUME x.row >= first PROVE FALSE
        OBVIOUS
      <4>1. ~(x.row < n)
        BY <1>3, <1>6, <2>2
      <4>2. x.row < rowsCount /\ ~(x.row < first + count)
        BY <1>4, <3>1, <4>1
      <4>3. x.row - count >= first /\ x.row - count < n
        BY <1>0, <1>3, <4>2 DEF n
      <4>. QED BY <1>3, <1>6, <3>1, <4>3
    <3>3. ~Within(x, "row", first, count) /\ ~(x.row >= first + count)
      BY <1>3, <3>2
    <3>4. to[x] = x
      BY <1>2, <3>3, NewNames
    <3>5. x.row < n
      BY <1>3, <1>4, <3>1, <3>3
    <3>. QED BY <3>1, <3>3, <3>4, <3>5
  <2>. QED BY <2>1, <2>2
<1>9. d \in EditState /\ d.at = at /\ d.undefined = FALSE /\ at \in [Pos -> Pos \cup {Absent}]
  BY <1>1 DEF Removing, RemovedSo, EditState
<1>10. ResizeRows(d, n) = d
  <2>1. \A x \in {p \in Pos : p.row >= n} : d.at[x] = Absent
    BY <1>3, <1>6, <1>8, <1>9
  <2>. QED BY <1>9, <2>1, DestroyNothing DEF ResizeRows
<1>11. HasMoving(RowsSeen(S, first, count), "row", first)
  <2> SUFFICES ASSUME NEW h \in Pos, CellExists(content, h), h.row >= first
               PROVE  h \in RowsSeen(S, first, count)
    BY DEF HasMoving, Beyond
  <2>1. CASE h.row < first + count
    <3>1. h.row \in S /\ Within(h, "row", first, count)
      BY <1>3, <1>4, <1>6, <2>1
    <3>. QED BY <3>1 DEF RowsSeen, RowsLost
  <2>2. CASE ~(h.row < first + count)
    <3>1. h.row - count \in S
      BY <1>0, <1>3, <1>4, <1>6, <2>2 DEF n
    <3>. QED BY <3>1 DEF RowsSeen
  <2>. QED BY <2>1, <2>2
<1>12. HasDeleted(RowsLost(S, first, count), "row", first, count)
  <2> SUFFICES ASSUME NEW h \in Pos, CellExists(content, h), Within(h, "row", first, count)
               PROVE  h \in RowsLost(S, first, count)
    BY DEF HasDeleted
  <2>1. h.row \in S
    BY <1>3, <1>4, <1>6
  <2>. QED BY <2>1 DEF RowsLost
<1>13. Arrived(at, to)
  <2>1. \A h \in Pos : h \in Kept(to) <=> CellExists(content, h) /\ ~Within(h, "row", first, count)
    BY <1>2 DEF Kept
  <2>2. Kept(to) \subseteq Pos
    BY DEF Kept
  <2>3. \A h \in Kept(to) : to[h] \in Pos /\ at[to[h]] = h
    BY <1>7, <2>1, <2>2
  <2>4. \A x \in Pos : at[x] # Absent => at[x] \in Kept(to) /\ to[at[x]] = x
    BY <1>8, <2>1
  <2>. QED BY <2>3, <2>4 DEF Arrived
<1>14. Edited(d, to)
  BY <1>0, <1>1, <1>11, <1>12, <1>13, RemovedEdited
<1>. QED BY <1>9, <1>10, <1>14 DEF n

\* A deletion that is done has moved the texts as the contract says.
LEMMA RemovedIsPromised ==
  ASSUME TableOK, Tidy, Running, NEW axis \in Axis, NEW r \in Ranges,
         NEW e \in EditState, Edited(e, RemovedNames(axis, r.index, r.count)),
         Fits(e), Finish(e), outcome' = "Ok"
  PROVE  EditContract!Delete(axis, r.index, r.count)
<1> PICK first \in Nat, count \in Nat \ {0} : first = r.index /\ count = r.count
  BY EnteredAssumption
<1> PICK to : to = RemovedNames(axis, first, count)
  OBVIOUS
<1> DEFINE source(p) == IF p[axis] < first THEN p ELSE EditContract!Shifted(p, axis, count)
           text(p) == EditContract!DeletedText(EditContract!TextAt(source(p)), axis, first, count)
<1>1. /\ \A h \in Kept(to) : Texts'[to[h]] = Renaming(Texts[h], to)
      /\ \A x \in Pos : (\A h \in Pos : CellExists(content, h) => to[h] # x) => Texts'[x] = EmptyText
      /\ \A h \in Pos : Texts[h] # EmptyText => CellExists(content, h)
  BY EditedTexts
<1>2. /\ \A f \in Formula : Renaming(f, to) = RemovedAll(f, axis, first, count)
      /\ \A p \in Pos : /\ to[p] = Removed(p, axis, first, count)
                        /\ to[p] = Deleted <=> Within(p, axis, first, count)
  BY RemovedNaming
<1>3. \A h \in Pos : Texts[h] \in Content \ {Absent}
  <2>1. EmptyText # Absent
    BY TextAssumption DEF Text
  <2>. QED BY <2>1 DEF Texts, GetText, TableOK, Contents, Content
<1>4. \A h \in Pos : EditContract!DeletedText(Texts[h], axis, first, count) = Renaming(Texts[h], to)
  <2>1. \A h \in Pos : Texts[h] \notin UnplacedFormula
    BY <1>3, TextAssumption DEF Content
  <2>2. \A f : EditContract!RemovedAll(f, axis, first, count) = RemovedAll(f, axis, first, count)
    BY DEF EditContract!RemovedAll, EditContract!Removed, EditContract!Within,
       EditContract!Deleted, EditContract!At, RemovedAll, Removed, Within, Deleted, At
  <2>. QED BY <1>2, <2>1, <2>2 DEF EditContract!DeletedText, Renaming
<1>5. EditContract!DeletedText(EmptyText, axis, first, count) = EmptyText
  BY TextAssumption DEF EditContract!DeletedText, Text
<1>6. Rows \in Nat /\ Cols \in Nat
  BY TableAssumption
<1>7. \A p \in Pos : /\ p \in Reference /\ p[axis] \in Nat
                     /\ Within(p, axis, first, count) <=> (p[axis] >= first /\ p[axis] < first + count)
  BY <1>6, PosFacts DEF Axis, Within
<1>8. ASSUME NEW p \in Pos, ~Within(p, axis, first, count)
      PROVE  /\ to[p] \in Reference
             /\ to[p][axis] = IF p[axis] >= first + count THEN p[axis] - count ELSE p[axis]
             /\ \A other \in Axis : other # axis => to[p][other] = p[other]
  <2>1. p \in Reference /\ to[p] = Removed(p, axis, first, count)
    BY <1>2, <1>7
  <2>. QED BY <1>8, <2>1, RemovedFacts
<1>9. Deleted \notin Pos
  BY PosFacts
<1>10. ASSUME NEW x \in Pos
       PROVE  /\ source(x) \in Reference
              /\ source(x)[axis] = IF x[axis] < first THEN x[axis] ELSE x[axis] + count
              /\ \A other \in Axis : other # axis => source(x)[other] = x[other]
  <2>1. CASE x[axis] < first
    BY <1>7, <2>1
  <2>2. CASE ~(x[axis] < first)
    <3>1. source(x) = [x EXCEPT ![axis] = @ + count]
      BY <2>2 DEF EditContract!Shifted
    <3>2. source(x) = IF axis = "row" THEN At(x.row + count, x.col) ELSE At(x.row, x.col + count)
      BY <3>1, <1>7, PosFacts DEF Axis, At, Reference
    <3>3. x.row \in Int /\ x.col \in Int
      BY PosFacts
    <3> HIDE DEF source
    <3>. QED BY <2>2, <3>2, <3>3 DEF Axis, At, Reference
  <2>. QED BY <2>1, <2>2
<1> HIDE DEF source
<1>11. ASSUME NEW x \in Pos, NEW h \in Pos PROVE to[h] = x <=> h = source(x)
  <2>1. ASSUME to[h] = x PROVE h = source(x)
    <3>1. ~Within(h, axis, first, count)
      BY <1>2, <1>9, <2>1
    <3>2. h[axis] = source(x)[axis]
      BY <1>7, <1>8, <1>10, <2>1, <3>1
    <3>3. \A other \in Axis : other # axis => h[other] = source(x)[other]
      BY <1>8, <1>10, <2>1, <3>1
    <3>4. \A other \in Axis : h[other] = source(x)[other]
      BY <3>2, <3>3
    <3>. QED BY <1>7, <1>10, <3>4, Same
  <2>2. ASSUME h = source(x) PROVE to[h] = x
    <3>1. ~Within(h, axis, first, count)
      BY <1>7, <1>10, <2>2
    <3>2. to[h][axis] = x[axis] /\ to[h] \in Reference
      BY <1>7, <1>8, <1>10, <2>2, <3>1
    <3>3. \A other \in Axis : other # axis => to[h][other] = x[other]
      BY <1>8, <1>10, <2>2, <3>1
    <3>4. \A other \in Axis : to[h][other] = x[other]
      BY <3>2, <3>3
    <3>. QED BY <1>7, <3>2, <3>4, Same
  <2>. QED BY <2>1, <2>2
<1>12. ASSUME NEW x \in Pos PROVE Texts'[x] = text(x)
  <2> PICK y : y = source(x)
    OBVIOUS
  <2>1. CASE y \in Pos /\ CellExists(content, y)
    <3>1. to[y] = x /\ y \in Kept(to)
      BY <1>9, <1>11, <2>1 DEF Kept
    <3>2. EditContract!TextAt(y) = Texts[y]
      BY <2>1 DEF EditContract!TextAt
    <3>. QED BY <1>1, <1>4, <2>1, <3>1, <3>2
  <2>2. CASE ~(y \in Pos /\ CellExists(content, y))
    <3>1. EditContract!TextAt(y) = EmptyText
      BY <1>1, <2>2 DEF EditContract!TextAt
    <3>2. \A h \in Pos : CellExists(content, h) => to[h] # x
      BY <1>11, <2>2
    <3>3. Texts'[x] = EmptyText
      BY <1>1, <3>2
    <3>. QED BY <1>5, <3>1, <3>3
  <2>. QED BY <2>1, <2>2
<1>13. Texts' = [p \in Pos |-> text(p)]
  <2>1. Texts' = [p \in Pos |-> Texts'[p]]
    BY DEF Texts
  <2> HIDE DEF text
  <2>. QED BY <1>12, <2>1
<1>14. EditContract!Usable
  BY DEF Running, EditContract!Usable
<1>. QED BY <1>13, <1>14 DEF EditContract!Delete, source

-----------------------------------------------------------------------------
(* DeleteCols.                                                             *)

\* The cells of Q, all of row i, have moved to the left.
LeftMoved(at, Q, i, count) ==
  [x \in Pos |-> IF x.row = i /\ At(i, x.col + count) \in Q THEN at[At(i, x.col + count)]
                 ELSE IF x \in Q THEN Absent
                 ELSE at[x]]

\* The deleted cells of row i are empty, and what is behind them is no part of
\* what lies before.
RowEmptied(at, i, first, count) ==
  /\ \A x \in InRowWithin(i, first, count) : at[x] = Absent
  /\ FromBehind(at, InRowBehind(i, first, count), "col", first)

\* Of the cells behind the deleted ones the first move first.
FromLeft(S) == {Q \in SUBSET S : \A p \in Q, q \in S : q.col < p.col => q \in Q}

\* One cell moves to the left.
LEMMA MoveLeftStep ==
  ASSUME TableOK, Tidy, NEW first \in Nat, NEW count \in Nat \ {0},
         DeletedReadBefore("col", first, count), NEW i \in Row,
         NEW V, NEW G, NEW at \in [Pos -> Pos \cup {Absent}], RowEmptied(at, i, first, count),
         NEW Q \in FromLeft(InRowBehind(i, first, count)), NEW p \in Q,
         \A x \in Q : x.col <= p.col, NEW e,
         Removing(e, "col", first, count, V \cup HoldersAt(at, Q \ {p}), G,
                  LeftMoved(at, Q \ {p}, i, count))
  PROVE  Removing(Move(UpdateFormulaOnDelete(e, p, "col", first, count), p, At(i, p.col - count)),
                  "col", first, count, V \cup HoldersAt(at, Q), G, LeftMoved(at, Q, i, count))
<1> PICK U : U = Q \ {p}
  OBVIOUS
<1> PICK a : a = LeftMoved(at, U, i, count)
  OBVIOUS
<1> PICK W : W = V \cup HoldersAt(at, U)
  OBVIOUS
<1>0. /\ colsCount \in Nat /\ colsCount <= Cols /\ Cols \in Nat /\ Rows \in Nat
      /\ i \in 0 .. Rows - 1 /\ "col" \in Axis
  BY TableAssumption DEF Tidy, Axis, Row
<1>1. \A x \in Pos : /\ x = At(x.row, x.col) /\ x.row \in 0 .. Rows - 1 /\ x.col \in 0 .. Cols - 1
                     /\ x.col \in Nat
  BY <1>0, PosFacts
<1>2. /\ \A x \in Q : x \in Pos /\ x.row = i /\ x.col >= first + count /\ x.col < colsCount
      /\ \A q \in Pos : (q.row = i /\ q.col >= first + count /\ q.col < p.col) => q \in Q
  <2>1. \A x \in Pos : x \in InRowBehind(i, first, count) <=>
                         x.row = i /\ x.col >= first + count /\ x.col < colsCount
    BY <1>0, <1>1 DEF InRowBehind, InRow
  <2>2. \A x \in InRowBehind(i, first, count) : x \in Pos
    BY DEF InRowBehind, InRow
  <2>3. Q \subseteq InRowBehind(i, first, count) /\ p \in Q
    BY DEF FromLeft
  <2>4. \A x \in Q : x \in Pos /\ x.row = i /\ x.col >= first + count /\ x.col < colsCount
    BY <2>1, <2>2, <2>3
  <2>5. ASSUME NEW q \in Pos, q.row = i, q.col >= first + count, q.col < p.col PROVE q \in Q
    <3>1. q.col < colsCount
      BY <1>0, <1>1, <2>3, <2>4, <2>5
    <3>2. q \in InRowBehind(i, first, count)
      BY <2>1, <2>5, <3>1
    <3>. QED BY <2>5, <3>2 DEF FromLeft
  <2>. QED BY <2>4, <2>5
<1>3. p \in Pos /\ p.row = i /\ p.col \in Nat /\ p.col >= first + count /\ p.col < colsCount
  BY <1>1, <1>2
<1> PICK q \in Pos : q = At(i, p.col - count) /\ q.row = i /\ q.col = p.col - count
  <2>1. p.col - count \in 0 .. Cols - 1
    BY <1>0, <1>3
  <2>. QED BY <1>0, <2>1, PosFacts
<1>4. q # p /\ At(i, q.col + count) = p
  <2>1. q.col # p.col /\ q.col + count = p.col
    BY <1>3
  <2>. QED BY <1>1, <1>3, <2>1
<1>5. At(i, p.col + count) \notin Q
  <2> SUFFICES ASSUME NEW x \in Q, x = At(i, p.col + count) PROVE FALSE
    OBVIOUS
  <2>1. x.col = p.col + count /\ x.col <= p.col
    BY DEF At
  <2>. QED BY <1>3, <2>1
<1>6. \A x \in Pos : a[x] = IF x.row = i /\ At(i, x.col + count) \in U
                            THEN at[At(i, x.col + count)]
                            ELSE IF x \in U THEN Absent
                            ELSE at[x]
  BY DEF LeftMoved
<1>7. a[p] = at[p]
  BY <1>3, <1>5, <1>6
<1>8. a[q] = Absent
  <2>1. CASE q \in U
    BY <1>4, <1>6, <2>1
  <2>2. CASE q \notin U
    <3>1. q \notin Q /\ q.col < p.col
      BY <1>3, <1>4, <2>2
    <3>2. ~(q.col >= first + count)
      BY <1>2, <3>1
    <3>3. q \in InRowWithin(i, first, count)
      BY <1>3, <3>2 DEF InRowWithin, InRow, Within
    <3>. QED BY <1>4, <1>6, <2>2, <3>3 DEF RowEmptied
  <2>. QED BY <2>1, <2>2
<1> PICK d : d = UpdateFormulaOnDelete(e, p, "col", first, count)
  OBVIOUS
<1>9. Removing(d, "col", first, count, W \cup ({a[p]} \ {Absent}), G, a)
  <2>1. Removing(e, "col", first, count, W, G, a)
    OBVIOUS
  <2>2. a[p] # Absent => a[p]["col"] >= first
    BY <1>7 DEF RowEmptied, FromBehind, FromLeft
  <2>. QED BY <1>0, <1>3, <2>1, <2>2, DeleteUpdateStep
<1>10. W \cup ({a[p]} \ {Absent}) = V \cup HoldersAt(at, Q)
  BY <1>7 DEF HoldersAt
<1>11. Removing(Move(d, p, q), "col", first, count, V \cup HoldersAt(at, Q), G, MovedPlaces(a, p, q))
  BY <1>3, <1>4, <1>8, <1>9, <1>10, RemovedMoveStep
<1>12. MovedPlaces(a, p, q) = LeftMoved(at, Q, i, count)
  <2>1. ASSUME NEW x \in Pos
        PROVE  MovedPlaces(a, p, q)[x] = LeftMoved(at, Q, i, count)[x]
    <3>0. /\ MovedPlaces(a, p, q)[x] = IF x = q THEN a[p] ELSE IF x = p THEN Absent ELSE a[x]
          /\ LeftMoved(at, Q, i, count)[x] =
               IF x.row = i /\ At(i, x.col + count) \in Q THEN at[At(i, x.col + count)]
               ELSE IF x \in Q THEN Absent
               ELSE at[x]
      BY DEF MovedPlaces, LeftMoved
    <3>1. CASE x = q
      BY <1>4, <1>7, <3>0, <3>1
    <3>2. CASE x = p
      BY <1>4, <1>5, <3>0, <3>2
    <3>3. CASE x # p /\ x # q
      <4>1. x.row = i => At(i, x.col + count) # p
        <5> SUFFICES ASSUME x.row = i, At(i, x.col + count) = p PROVE FALSE
          OBVIOUS
        <5>1. x.col + count = p.col
          BY DEF At
        <5>2. x.col = p.col - count
          BY <1>1, <1>3, <5>1
        <5>. QED BY <1>1, <3>3, <5>2
      <4>. QED BY <1>6, <3>0, <3>3, <4>1
    <3>. QED BY <3>1, <3>2, <3>3
  <2>2. /\ MovedPlaces(a, p, q) = [x \in Pos |-> MovedPlaces(a, p, q)[x]]
        /\ LeftMoved(at, Q, i, count) = [x \in Pos |-> LeftMoved(at, Q, i, count)[x]]
    BY DEF MovedPlaces, LeftMoved
  <2>. QED BY <2>1, <2>2
<1>. QED BY <1>11, <1>12

\* The cells of a row behind its deleted ones move to the left.
LEMMA MoveLeftLoops ==
  ASSUME TableOK, Tidy, NEW first \in Nat, NEW count \in Nat \ {0},
         DeletedReadBefore("col", first, count), NEW i \in Row,
         NEW V, NEW G, NEW at, RowEmptied(at, i, first, count),
         NEW e, Removing(e, "col", first, count, V, G, at)
  PROVE  Removing(MoveLeft(e, i, first, count), "col", first, count,
                  V \cup HoldersAt(at, InRowBehind(i, first, count)), G,
                  LeftMoved(at, InRowBehind(i, first, count), i, count))
<1> DEFINE S == InRowBehind(i, first, count)
           Good == FromLeft(S)
<1>0. /\ colsCount \in Int /\ colsCount <= Cols /\ Cols \in Nat
      /\ e \in EditState /\ at \in [Pos -> Pos \cup {Absent}]
  BY TableAssumption DEF Tidy, Removing, RemovedSo, EditState
<1>1. S \in SUBSET Pos /\ IsFiniteSet(S) /\ \A x \in S : x.row = i /\ x.col \in Nat
  <2>1. S \in SUBSET Pos /\ \A x \in S : x.row = i
    BY DEF InRowBehind, InRow
  <2>2. \A x \in Pos : x.col \in Nat
    BY <1>0, PosFacts
  <2> HIDE DEF S
  <2>. QED BY <2>1, <2>2, PosIsFinite, FS_Subset
<1> PICK it : MoveLeft(e, i, first, count) = it[S] /\ MoveLeftSteps(it, e, i, first, count)
  BY <1>0, MoveLeftUnfolds
<1>2. it[{}] = e
  BY DEF MoveLeftSteps
<1> DEFINE Holds(T) == Removing(it[T], "col", first, count, V \cup HoldersAt(at, T), G,
                                LeftMoved(at, T, i, count))
           Fine == {T \in SUBSET S : Holds(T)}
<1>3. {} \in Fine
  <2>1. V \cup HoldersAt(at, {}) = V /\ LeftMoved(at, {}, i, count) = at
    BY <1>0 DEF HoldersAt, LeftMoved
  <2>. QED BY <1>2, <2>1
<1>4. ASSUME NEW T \in Good, T # {}
      PROVE  \E p \in T : T \ {p} \in Good /\ (T \ {p} \in Fine => T \in Fine)
  <2>0. T \in SUBSET S /\ T \in SUBSET Pos
    BY <1>1 DEF FromLeft
  <2> PICK p : p = Last(T, Forward)
    OBVIOUS
  <2>1. p \in T
        /\ it[T] = Move(UpdateFormulaOnDelete(it[T \ {p}], p, "col", first, count),
                        p, At(i, p.col - count))
    BY <1>4, <2>0 DEF MoveLeftSteps
  <2>2. \A x \in T : x.col <= p.col
    <3>1. \A x \in T : x.row = p.row
      BY <1>1, <2>0, <2>1
    <3>2. \A x \in T : x.row = p.row => x.col <= p.col
      BY <1>4, <2>0, LastInRow
    <3>. QED BY <3>1, <3>2
  <2>3. T \ {p} \in Good
    <3> SUFFICES ASSUME NEW x \in T \ {p}, NEW q \in S, q.col < x.col PROVE q \in T \ {p}
      BY <2>0 DEF FromLeft
    <3>1. q \in T
      BY DEF FromLeft
    <3>2. q # p
      <4>1. p.col \in Nat /\ x.col \in Nat /\ x.col <= p.col
        BY <1>1, <2>0, <2>1, <2>2
      <4>. QED BY <4>1
    <3>. QED BY <3>1, <3>2
  <2>4. ASSUME Holds(T \ {p}) PROVE Holds(T)
    <3> PICK d : d = it[T \ {p}]
      OBVIOUS
    <3>1. Removing(d, "col", first, count, V \cup HoldersAt(at, T \ {p}), G,
                   LeftMoved(at, T \ {p}, i, count))
      BY <2>4
    <3>2. T \in FromLeft(InRowBehind(i, first, count))
      OBVIOUS
    <3>3. Removing(Move(UpdateFormulaOnDelete(d, p, "col", first, count), p, At(i, p.col - count)),
                   "col", first, count, V \cup HoldersAt(at, T), G, LeftMoved(at, T, i, count))
      BY <1>0, <2>1, <2>2, <3>1, <3>2, MoveLeftStep
    <3>. QED BY <2>1, <3>3
  <2>. QED BY <2>0, <2>1, <2>3, <2>4
<1>5. S \in Good /\ Good \in SUBSET SUBSET S
  BY DEF FromLeft
<1> HIDE DEF Fine, Holds, Good, S
<1>6. Good \subseteq Fine
  BY <1>1, <1>3, <1>4, <1>5, LoopInduction
<1>7. Holds(S)
  BY <1>5, <1>6 DEF Fine
<1>. QED BY <1>7 DEF Holds, S

\* The rows T have lost the deleted cells, and what was behind them has moved
\* there.
ColsDeleted(T, first, count) ==
  [x \in Pos |-> IF x.row \notin T \/ x.col < first THEN Began.at[x]
                 ELSE IF x.col + count < colsCount THEN Began.at[At(x.row, x.col + count)]
                 ELSE Absent]

\* The deleted holders of the rows T, and those with the ones behind them.
ColsLost(T, first, count) ==
  {h \in Pos : CellExists(content, h) /\ h.row \in T /\ Within(h, "col", first, count)}
ColsSeen(T, first, count) ==
  {h \in Pos : CellExists(content, h) /\ h.row \in T /\ h.col >= first}

\* One row of DeleteCols.
LEMMA DeleteColsRow ==
  ASSUME TableOK, Tidy, NEW first \in Nat, NEW count \in Nat \ {0},
         ColsGoCleanly(first, count),
         NEW T \in SUBSET Row, NEW i \in T, NEW e,
         Removing(e, "col", first, count, ColsSeen(T \ {i}, first, count),
                  ColsLost(T \ {i}, first, count), ColsDeleted(T \ {i}, first, count))
  PROVE  Removing(ResizeRow(DeleteInRow(e, i, first, count), i, colsCount - count),
                  "col", first, count, ColsSeen(T, first, count),
                  ColsLost(T, first, count), ColsDeleted(T, first, count))
<1> PICK U : U = T \ {i}
  OBVIOUS
<1> PICK at : at = ColsDeleted(U, first, count)
  OBVIOUS
<1> PICK V : V = ColsSeen(U, first, count)
  OBVIOUS
<1> PICK G : G = ColsLost(U, first, count)
  OBVIOUS
<1>0. /\ colsCount \in Nat /\ colsCount <= Cols /\ Cols \in Nat /\ Rows \in Nat
      /\ i \in Row /\ i \in 0 .. Rows - 1 /\ "col" \in Axis
      /\ DeletedReadBefore("col", first, count) /\ ColsBeforeAreKept(first, count)
  BY TableAssumption DEF Tidy, Axis, Row, ColsGoCleanly
<1>1. \A x \in Pos : /\ x = At(x.row, x.col) /\ x.row \in 0 .. Rows - 1 /\ x.col \in 0 .. Cols - 1
                     /\ x.col \in Nat /\ x.row \in Nat
                     /\ Within(x, "col", first, count) <=> (x.col >= first /\ x.col < first + count)
                     /\ CellExists(content, x) => x.col < colsCount
  <2>1. \A x \in Pos : /\ x = At(x.row, x.col) /\ x.row \in 0 .. Rows - 1 /\ x.col \in 0 .. Cols - 1
    BY PosFacts
  <2>2. \A x \in Pos : Within(x, "col", first, count) <=> (x.col >= first /\ x.col < first + count)
    BY <1>0, <2>1 DEF Within
  <2>3. \A x \in Pos : CellExists(content, x) => x.col < colsCount
    BY DEF Tidy, SizeCovers
  <2>. QED BY <1>0, <2>1, <2>2, <2>3
<1>2. \A x \in Pos : at[x] = IF x.row \notin U \/ x.col < first THEN Began.at[x]
                             ELSE IF x.col + count < colsCount
                                  THEN Began.at[At(x.row, x.col + count)]
                             ELSE Absent
  BY DEF ColsDeleted
<1>3. \A x \in Pos : x.row = i => at[x] = Began.at[x]
  BY <1>2
<1> PICK S \in SUBSET Pos : S = InRowWithin(i, first, count)
  BY DEF InRowWithin, InRow
<1> PICK B \in SUBSET Pos : B = InRowBehind(i, first, count)
  BY DEF InRowBehind, InRow
<1>4. /\ \A x \in Pos : x \in S <=> x.row = i /\ x.col >= first /\ x.col < first + count
      /\ \A x \in Pos : x \in B <=> x.row = i /\ x.col >= first + count /\ x.col < colsCount
  BY <1>0, <1>1 DEF InRowWithin, InRowBehind, InRow
<1> PICK b : b = Emptied(at, S)
  OBVIOUS
<1>5. \A x \in Pos : b[x] = IF x \in S THEN Absent ELSE at[x]
  BY DEF Emptied
<1> PICK d : d = DeleteCells(e, S, "col", first, count)
  OBVIOUS
<1> PICK W : W = V \cup HoldersAt(at, S)
  OBVIOUS
<1> PICK H : H = G \cup HoldersAt(at, S)
  OBVIOUS
<1>6. Removing(d, "col", first, count, W, H, b)
  <2>1. KeptBefore(at, "col", first)
    BY <1>2 DEF KeptBefore
  <2>2. Doomed(at, S, "col", first, count)
    <3> SUFFICES ASSUME NEW y \in S
                 PROVE  /\ y \in Pos
                        /\ at[y] = Absent \/ (at[y] = y /\ Within(y, "col", first, count))
      BY DEF Doomed
    <3>1. y \in Pos /\ y.row = i /\ Within(y, "col", first, count)
      BY <1>1, <1>4
    <3>. QED BY <1>3, <3>1, BeganPlaces
  <2>3. Removing(e, "col", first, count, V, G, at)
    OBVIOUS
  <2>. QED BY <1>0, <2>1, <2>2, <2>3, DeleteCellsStep
<1>7. RowEmptied(b, i, first, count)
  <2>1. \A x \in InRowWithin(i, first, count) : b[x] = Absent
    BY <1>5
  <2>2. FromBehind(b, B, "col", first)
    <3> SUFFICES ASSUME NEW x \in B, b[x] # Absent PROVE b[x]["col"] >= first
      BY DEF FromBehind
    <3>1. x \in Pos /\ x.row = i /\ x.col >= first + count
      BY <1>4
    <3>2. b[x] = x
      BY <1>3, <1>5, <3>1, BeganPlaces
    <3>. QED BY <1>1, <3>1, <3>2
  <2>. QED BY <2>1, <2>2 DEF RowEmptied
<1> PICK x : x = MoveLeft(d, i, first, count)
  OBVIOUS
<1> PICK X : X = W \cup HoldersAt(b, B)
  OBVIOUS
<1>8. Removing(x, "col", first, count, X, H, LeftMoved(b, B, i, count))
  BY <1>0, <1>6, <1>7, MoveLeftLoops
<1>9. HoldersAt(at, S) = {h \in Pos : CellExists(content, h) /\ h.row = i
                                      /\ Within(h, "col", first, count)}
  <2>1. ASSUME NEW h \in HoldersAt(at, S)
        PROVE  h \in Pos /\ CellExists(content, h) /\ h.row = i /\ Within(h, "col", first, count)
    <3> PICK y \in S : h = at[y] /\ h # Absent
      BY DEF HoldersAt
    <3>1. y \in Pos /\ y.row = i /\ Within(y, "col", first, count)
      BY <1>1, <1>4
    <3>2. h = y /\ CellExists(content, y)
      BY <1>3, <3>1, BeganPlaces
    <3>. QED BY <3>1, <3>2
  <2>2. ASSUME NEW h \in Pos, CellExists(content, h), h.row = i, Within(h, "col", first, count)
        PROVE  h \in HoldersAt(at, S)
    <3>1. at[h] = h /\ h # Absent /\ h \in S
      BY <1>1, <1>3, <1>4, <2>2, BeganPlaces
    <3>. QED BY <3>1 DEF HoldersAt
  <2>. QED BY <2>1, <2>2
<1>10. HoldersAt(b, B) = {h \in Pos : CellExists(content, h) /\ h.row = i /\ h.col >= first + count}
  <2>0. ASSUME NEW y \in B
        PROVE  y \in Pos /\ y.row = i /\ y.col >= first + count /\ b[y] = Began.at[y]
    <3>1. y \in Pos
      BY DEF InRowBehind, InRow
    <3>2. y.row = i /\ y.col >= first + count
      BY <1>4, <3>1
    <3>3. y \notin S
      BY <1>1, <1>4, <3>1, <3>2
    <3>4. b[y] = at[y] /\ at[y] = Began.at[y]
      BY <1>3, <1>5, <3>1, <3>2, <3>3
    <3>. QED BY <3>1, <3>2, <3>4
  <2>1. ASSUME NEW h \in HoldersAt(b, B)
        PROVE  h \in Pos /\ CellExists(content, h) /\ h.row = i /\ h.col >= first + count
    <3> PICK y \in B : h = b[y] /\ h # Absent
      BY DEF HoldersAt
    <3>1. h = y /\ CellExists(content, y)
      BY <2>0, BeganPlaces
    <3>. QED BY <2>0, <3>1
  <2>2. ASSUME NEW h \in Pos, CellExists(content, h), h.row = i, h.col >= first + count
        PROVE  h \in HoldersAt(b, B)
    <3>1. h \in B
      BY <1>1, <1>4, <2>2
    <3>2. b[h] = h /\ h # Absent
      BY <2>0, <2>2, <3>1, BeganPlaces
    <3>. QED BY <3>1, <3>2 DEF HoldersAt
  <2>. QED BY <2>1, <2>2
<1>11. H = ColsLost(T, first, count)
  BY <1>9 DEF ColsLost
<1>12. X = ColsSeen(T, first, count)
  <2>1. \A h \in Pos : h.col >= first <=>
          Within(h, "col", first, count) \/ h.col >= first + count
    BY <1>1
  <2>. QED BY <1>9, <1>10, <2>1 DEF ColsSeen
<1>13. LeftMoved(b, B, i, count) = ColsDeleted(T, first, count)
  <2>1. ASSUME NEW y \in Pos
        PROVE  LeftMoved(b, B, i, count)[y] = ColsDeleted(T, first, count)[y]
    <3>0. /\ LeftMoved(b, B, i, count)[y] =
               IF y.row = i /\ At(i, y.col + count) \in B THEN b[At(i, y.col + count)]
               ELSE IF y \in B THEN Absent
               ELSE b[y]
          /\ ColsDeleted(T, first, count)[y] =
               IF y.row \notin T \/ y.col < first THEN Began.at[y]
               ELSE IF y.col + count < colsCount THEN Began.at[At(y.row, y.col + count)]
               ELSE Absent
      BY DEF LeftMoved, ColsDeleted
    <3>1. CASE y.row # i
      <4>1. y \notin B /\ y \notin S
        BY <1>4, <3>1
      <4>. QED BY <1>2, <1>5, <3>0, <3>1, <4>1
    <3>2. CASE y.row = i /\ y.col < first
      <4>1. y \notin B /\ y \notin S
        BY <1>1, <1>4, <3>2
      <4>2. At(i, y.col + count) \notin B
        <5> SUFFICES ASSUME NEW z \in B, z = At(i, y.col + count) PROVE FALSE
          OBVIOUS
        <5>1. z.col = y.col + count /\ z.col >= first + count
          BY <1>4 DEF At
        <5>. QED BY <1>1, <3>2, <5>1
      <4>. QED BY <1>3, <1>5, <3>0, <3>2, <4>1, <4>2
    <3>3. CASE y.row = i /\ ~(y.col < first) /\ y.col + count < colsCount
      <4> PICK z \in Pos : z = At(i, y.col + count) /\ z.row = i /\ z.col = y.col + count
        <5>1. y.col + count \in 0 .. Cols - 1
          BY <1>0, <1>1, <3>3
        <5>. QED BY <1>0, <5>1, PosFacts
      <4>1. z \in B /\ z \notin S
        BY <1>1, <1>4, <3>3
      <4>. QED BY <1>3, <1>5, <3>0, <3>3, <4>1
    <3>4. CASE y.row = i /\ ~(y.col < first) /\ ~(y.col + count < colsCount)
      <4>1. At(i, y.col + count) \notin B
        <5> SUFFICES ASSUME NEW z \in B, z = At(i, y.col + count) PROVE FALSE
          OBVIOUS
        <5>1. z.col = y.col + count /\ z.col < colsCount
          BY <1>4 DEF At
        <5>. QED BY <3>4, <5>1
      <4>2. y \in B \/ y \in S \/ ~(y.col < colsCount)
        BY <1>1, <1>4, <3>4
      <4>3. ~(y.col < colsCount) => at[y] = Absent
        BY <1>1, <1>3, <3>4, BeganPlaces
      <4>. QED BY <1>5, <3>0, <3>4, <4>1, <4>2, <4>3
    <3>. QED BY <3>1, <3>2, <3>3, <3>4
  <2>2. /\ LeftMoved(b, B, i, count) = [y \in Pos |-> LeftMoved(b, B, i, count)[y]]
        /\ ColsDeleted(T, first, count) = [y \in Pos |-> ColsDeleted(T, first, count)[y]]
    BY DEF LeftMoved, ColsDeleted
  <2>. QED BY <2>1, <2>2
<1>14. x = DeleteInRow(e, i, first, count)
  BY DEF DeleteInRow
<1>15. Removing(x, "col", first, count, ColsSeen(T, first, count),
                ColsLost(T, first, count), ColsDeleted(T, first, count))
  BY <1>8, <1>11, <1>12, <1>13
<1>16. ResizeRow(x, i, colsCount - count) = x
  <2>1. x \in EditState /\ x.at = ColsDeleted(T, first, count)
    BY <1>15 DEF Removing, RemovedSo
  <2> PICK Z \in SUBSET Pos : Z = {p \in InRow(i) : p.col >= colsCount - count}
    BY DEF InRow
  <2>2. ASSUME NEW y \in Z PROVE x.at[y] = Absent
    <3>1. y \in Pos /\ y.row = i /\ y.col >= colsCount - count
      BY DEF InRow
    <3>2. ColsDeleted(T, first, count)[y] =
            IF y.col < first THEN Began.at[y]
            ELSE IF y.col + count < colsCount THEN Began.at[At(y.row, y.col + count)]
            ELSE Absent
      BY <3>1 DEF ColsDeleted
    <3>3. ~(y.col + count < colsCount) /\ ~(y.col < colsCount - count)
      BY <1>0, <1>1, <3>1
    <3>4. y.col < first => ~CellExists(content, y)
      BY <1>0, <3>1, <3>3 DEF ColsBeforeAreKept
    <3>. QED BY <2>1, <3>1, <3>2, <3>3, <3>4, BeganPlaces
  <2>. QED BY <2>1, <2>2, DestroyNothing DEF ResizeRow
<1>. QED BY <1>14, <1>15, <1>16

\* The loop of DeleteCols.
LEMMA DeleteColsLoops ==
  ASSUME TableOK, Tidy, NEW first \in Nat, NEW count \in Nat \ {0},
         ColsGoCleanly(first, count)
  PROVE  Removing(DeleteColsLoop(first, count), "col", first, count,
                  ColsSeen(FinishedRows(first, count), first, count),
                  ColsLost(FinishedRows(first, count), first, count),
                  ColsDeleted(FinishedRows(first, count), first, count))
<1> DEFINE S == FinishedRows(first, count)
<1>0. colsCount \in Int /\ colsCount <= Cols
  BY TableAssumption DEF Tidy
<1>1. IsFiniteSet(S) /\ S \in SUBSET Row
  <2>1. S \in SUBSET Row
    BY DEF FinishedRows
  <2> HIDE DEF S
  <2>. QED BY <2>1, RowsFinite, FS_Subset
<1> PICK it : DeleteColsLoop(first, count) = it[S] /\ DeleteColsSteps(it, first, count)
  BY <1>0, DeleteColsUnfolds
<1>2. /\ it[{}] = Began
      /\ \A T \in SUBSET S : T # {} =>
           \E i \in T : it[T] = ResizeRow(DeleteInRow(it[T \ {i}], i, first, count),
                                          i, colsCount - count)
  BY DEF DeleteColsSteps
<1> DEFINE Holds(T) == Removing(it[T], "col", first, count, ColsSeen(T, first, count),
                                ColsLost(T, first, count), ColsDeleted(T, first, count))
           Fine == {T \in SUBSET S : Holds(T)}
<1>3. {} \in Fine
  <2>1. ColsSeen({}, first, count) = {} /\ ColsLost({}, first, count) = {}
        /\ ColsDeleted({}, first, count) = Began.at
    BY DEF ColsSeen, ColsLost, ColsDeleted, Began
  <2>2. Removing(Began, "col", first, count, {}, {}, Began.at)
    BY BeganIsRemoving
  <2>. QED BY <1>2, <2>1, <2>2
<1>4. ASSUME NEW T \in SUBSET S, T # {}
      PROVE  \E i \in T : T \ {i} \in Fine => T \in Fine
  <2> PICK i \in T : it[T] = ResizeRow(DeleteInRow(it[T \ {i}], i, first, count),
                                       i, colsCount - count)
    BY <1>2, <1>4
  <2> SUFFICES ASSUME Holds(T \ {i}) PROVE Holds(T)
    OBVIOUS
  <2> PICK d : d = it[T \ {i}]
    OBVIOUS
  <2>1. Removing(d, "col", first, count, ColsSeen(T \ {i}, first, count),
                 ColsLost(T \ {i}, first, count), ColsDeleted(T \ {i}, first, count))
    OBVIOUS
  <2>2. T \in SUBSET Row
    BY <1>1
  <2> HIDE DEF Holds
  <2>3. Removing(ResizeRow(DeleteInRow(d, i, first, count), i, colsCount - count),
                 "col", first, count, ColsSeen(T, first, count),
                 ColsLost(T, first, count), ColsDeleted(T, first, count))
    BY <2>1, <2>2, DeleteColsRow
  <2>. QED BY <2>3 DEF Holds
<1> HIDE DEF Fine, Holds, S
<1>5. S \in Fine
  BY <1>1, <1>3, <1>4, LoopSteps
<1>6. Holds(S)
  BY <1>5 DEF Fine
<1>. QED BY <1>6 DEF Holds, S

\* The whole of DeleteCols.
LEMMA DeleteColsEdited ==
  ASSUME TableOK, Tidy, NEW r \in Ranges, ColsGoCleanly(r.index, r.count), WidthOK,
         ThrowingRows(r.index, r.count) = {}
  PROVE  LET e == DeleteColsLoop(r.index, r.count)
         IN  e \in EditState /\ e.undefined = FALSE
             /\ Edited(e, RemovedNames("col", r.index, r.count))
<1> PICK first \in Nat, count \in Nat \ {0} : first = r.index /\ count = r.count
  BY EnteredAssumption
<1> PICK to : to = RemovedNames("col", first, count)
  OBVIOUS
<1> PICK d : d = DeleteColsLoop(first, count)
  OBVIOUS
<1> PICK S : S = FinishedRows(first, count)
  OBVIOUS
<1> PICK at : at = ColsDeleted(S, first, count)
  OBVIOUS
<1>0. /\ DeletedReadBefore("col", first, count) /\ "col" \in Axis
      /\ colsCount \in Nat /\ colsCount <= Cols /\ Cols \in Nat /\ Rows \in Nat
  BY TableAssumption DEF ColsGoCleanly, Tidy, Axis
<1>1. Removing(d, "col", first, count, ColsSeen(S, first, count), ColsLost(S, first, count), at)
  BY DeleteColsLoops
<1>2. /\ \A p \in Pos : to[p] = Removed(p, "col", first, count)
      /\ \A p \in Pos : to[p] = Deleted <=> Within(p, "col", first, count)
  BY <1>0, RemovedNaming
<1>3. \A x \in Pos : /\ x = At(x.row, x.col) /\ x.row \in 0 .. Rows - 1 /\ x.col \in 0 .. Cols - 1
                     /\ x.col \in Nat
                     /\ Within(x, "col", first, count) <=> (x.col >= first /\ x.col < first + count)
  <2>1. \A x \in Pos : /\ x = At(x.row, x.col) /\ x.row \in 0 .. Rows - 1 /\ x.col \in 0 .. Cols - 1
    BY PosFacts
  <2>2. \A x \in Pos : Within(x, "col", first, count) <=> (x.col >= first /\ x.col < first + count)
    BY <1>0, <2>1 DEF Within
  <2>. QED BY <1>0, <2>1, <2>2
<1>4. \A h \in Pos : CellExists(content, h) => h.col < colsCount /\ h.row \in S
  <2> SUFFICES ASSUME NEW h \in Pos, CellExists(content, h)
               PROVE  h.col < colsCount /\ h.row \in FinishedRows(first, count)
    OBVIOUS
  <2>1. h.col < colsCount /\ h.row < rowsCount /\ h.col < width[h.row]
    BY DEF Tidy, SizeCovers
  <2>2. h.row \in Row /\ h.col \in Nat
    BY <1>3 DEF Row
  <2>3. width[h.row] \in Int
    BY <1>0, <2>2 DEF WidthOK
  <2>4. width[h.row] > 0
    BY <2>1, <2>2, <2>3
  <2>. QED BY <2>1, <2>2, <2>4 DEF FinishedRows
<1>5. \A x \in Pos : at[x] = IF x.row \notin S \/ x.col < first THEN Began.at[x]
                             ELSE IF x.col + count < colsCount
                                  THEN Began.at[At(x.row, x.col + count)]
                             ELSE Absent
  BY DEF ColsDeleted
<1>6. ASSUME NEW h \in Pos, CellExists(content, h), ~Within(h, "col", first, count)
      PROVE  to[h] \in Pos /\ at[to[h]] = h
  <2>1. CASE h.col >= first + count
    <3>1. to[h] = At(h.row, h.col - count)
      BY <1>2, <1>6, <2>1, NewNames
    <3>2. h.col - count \in 0 .. Cols - 1 /\ h.col - count + count = h.col
          /\ ~(h.col - count < first)
      BY <1>0, <1>3, <2>1
    <3>3. to[h] \in Pos /\ to[h].row = h.row /\ to[h].col = h.col - count
      BY <1>3, <3>1, <3>2, PosFacts
    <3>4. at[to[h]] = Began.at[h]
      BY <1>3, <1>4, <1>5, <1>6, <3>2, <3>3
    <3>. QED BY <1>6, <3>3, <3>4, BeganPlaces
  <2>2. CASE ~(h.col >= first + count)
    <3>1. to[h] = h
      BY <1>2, <1>6, <2>2, NewNames
    <3>2. h.col < first
      BY <1>3, <1>6, <2>2
    <3>. QED BY <1>5, <1>6, <3>1, <3>2, BeganPlaces
  <2>. QED BY <2>1, <2>2
<1>7. ASSUME NEW x \in Pos, at[x] # Absent
      PROVE  /\ CellExists(content, at[x]) /\ at[x] \in Pos
             /\ ~Within(at[x], "col", first, count) /\ to[at[x]] = x
  <2>1. CASE x.row \in S /\ ~(x.col < first)
    <3>0. x.col + count < colsCount /\ x.col + count \in 0 .. Cols - 1
      BY <1>0, <1>3, <1>5, <1>7, <2>1
    <3> PICK y \in Pos : y = At(x.row, x.col + count)
      BY <1>3, <3>0, PosFacts
    <3>1. at[x] = y /\ CellExists(content, y)
      BY <1>5, <1>7, <2>1, <3>0, BeganPlaces
    <3>2. y.row = x.row /\ y.col = x.col + count
      BY DEF At
    <3>3. y.col >= first + count /\ y.col - count = x.col /\ ~Within(y, "col", first, count)
      BY <1>3, <2>1, <3>2
    <3>4. to[y] = x
      <4>1. Removed(y, "col", first, count) = At(y.row, y.col - count)
        BY <3>3, NewNames
      <4>2. At(y.row, y.col - count) = At(x.row, x.col)
        BY <3>2, <3>3
      <4>. QED BY <1>2, <1>3, <4>1, <4>2
    <3>. QED BY <3>1, <3>3, <3>4
  <2>2. CASE ~(x.row \in S /\ ~(x.col < first))
    <3>1. at[x] = x /\ CellExists(content, x)
      BY <1>5, <1>7, <2>2, BeganPlaces
    <3>2. x.col < first
      BY <1>4, <2>2, <3>1
    <3>3. ~Within(x, "col", first, count) /\ ~(x.col >= first + count)
      BY <1>3, <3>2
    <3>4. to[x] = x
      BY <1>2, <3>3, NewNames
    <3>. QED BY <3>1, <3>3, <3>4
  <2>. QED BY <2>1, <2>2
<1>8. d \in EditState /\ d.undefined = FALSE
  BY <1>1 DEF Removing, RemovedSo
<1>9. HasMoving(ColsSeen(S, first, count), "col", first)
  BY <1>4 DEF HasMoving, Beyond, ColsSeen
<1>10. HasDeleted(ColsLost(S, first, count), "col", first, count)
  BY <1>4 DEF HasDeleted, ColsLost
<1>11. Arrived(at, to)
  <2>1. \A h \in Pos : h \in Kept(to) <=> CellExists(content, h) /\ ~Within(h, "col", first, count)
    BY <1>2 DEF Kept
  <2>2. Kept(to) \subseteq Pos
    BY DEF Kept
  <2>3. \A h \in Kept(to) : to[h] \in Pos /\ at[to[h]] = h
    BY <1>6, <2>1, <2>2
  <2>4. \A x \in Pos : at[x] # Absent => at[x] \in Kept(to) /\ to[at[x]] = x
    BY <1>7, <2>1
  <2>. QED BY <2>3, <2>4 DEF Arrived
<1>12. Edited(d, to)
  BY <1>0, <1>1, <1>9, <1>10, <1>11, RemovedEdited
<1>. QED BY <1>8, <1>12

\* DeleteRows that loses nothing keeps the table tidy and does what the
\* interface promises of it.
LEMMA DeleteRowsTidy ==
  ASSUME EditInv, Tidy, Running, NEW r \in Ranges, DeleteRows(r.index, r.count),
         RowsGoCleanly(r.index, r.count)
  PROVE  Tidy' /\ EditContract!Delete("row", r.index, r.count)
<1> PICK first \in Nat, count \in Nat \ {0} : first = r.index /\ count = r.count
  BY EnteredAssumption
<1>0. /\ TableOK /\ rowsCount \in Nat /\ colsCount \in Nat /\ rowsCount <= Rows /\ Rows \in Nat
      /\ colsCount <= Cols /\ Cols \in Nat /\ "row" \in Axis
      /\ DeletedRowsAreVisited(first, count)
  BY TableAssumption DEF EditInv, Tidy, RowsGoCleanly, Axis
<1>1. count <= rowsCount
  BY <1>0 DEF DeletedRowsAreVisited
<1> PICK e : e = ResizeRows(DeleteRowsLoop(first, count), rowsCount - count)
  OBVIOUS
<1>2. e \in EditState /\ e.undefined = FALSE /\ Edited(e, RemovedNames("row", first, count))
  BY <1>0, DeleteRowsEdited
<1>3. /\ Fits(e) /\ Finish(e)
      /\ rowsCount' = rowsCount - count
      /\ width' = [i \in Row |-> IF i >= rowsCount' THEN 0
                                 ELSE IF i >= first THEN width[i + count]
                                 ELSE width[i]]
      /\ colsCount' = (IF colsCount = 1 /\ rowsCount' = 0 THEN 0 ELSE colsCount)
      /\ outcome' = "Ok"
  <2>1. ~(count > rowsCount)
    BY <1>0, <1>1
  <2>. QED BY <1>2, <2>1 DEF DeleteRows
<1> PICK to : to = RemovedNames("row", first, count)
  OBVIOUS
<1>4. \A p \in Pos : to[p] = Removed(p, "row", first, count)
                     /\ (to[p] = Deleted <=> Within(p, "row", first, count))
  BY <1>0, RemovedNaming
<1>5. Covered(to)
  <2> SUFFICES ASSUME NEW h \in Kept(to)
               PROVE  /\ to[h].row < rowsCount' /\ to[h].col < colsCount'
                      /\ to[h].col < width'[to[h].row]
    BY DEF Covered
  <2>1. /\ h \in Pos /\ CellExists(content, h) /\ ~Within(h, "row", first, count)
        /\ h.row < rowsCount /\ h.col < colsCount /\ h.col < width[h.row]
    BY <1>4 DEF Kept, Tidy, SizeCovers
  <2>2. h.row \in Row /\ h.row \in Nat /\ h.col \in Nat
    <3>1. h.row \in 0 .. Rows - 1 /\ h.col \in 0 .. Cols - 1
      BY <2>1, PosFacts
    <3>. QED BY <1>0, <3>1 DEF Row
  <2>3. h.row < first \/ h.row >= first + count
    BY <2>1, <2>2 DEF Within
  <2>4. rowsCount' > 0 => colsCount' = colsCount
    BY <1>0, <1>3
  <2>5. CASE h.row < first
    <3>1. to[h] = h
      BY <1>4, <2>1, <2>2, <2>5, NewNames
    <3>2. h.row < rowsCount'
      <4>1. h.row < first + count
        BY <2>2, <2>5
      <4>. QED BY <1>0, <1>3, <2>1, <4>1 DEF DeletedRowsAreVisited
    <3>3. width'[h.row] = width[h.row]
      BY <1>0, <1>1, <1>3, <2>2, <2>5, <3>2
    <3>. QED BY <1>0, <1>1, <1>3, <2>1, <2>2, <2>4, <3>1, <3>2, <3>3
  <2>6. CASE h.row >= first + count
    <3> PICK i \in Row : i = h.row - count /\ i \in Nat /\ i >= first /\ i + count = h.row
      BY <1>0, <2>2, <2>6 DEF Row
    <3>1. to[h].row = i /\ to[h].col = h.col
      BY <1>4, <2>1, <2>6, NewNames DEF At
    <3>2. i < rowsCount' /\ rowsCount' \in Nat
      BY <1>0, <1>1, <1>3, <2>1, <2>2
    <3>3. width'[i] = width[h.row]
      BY <1>3, <3>2
    <3>. QED BY <2>1, <2>4, <3>1, <3>2, <3>3
  <2>. QED BY <2>3, <2>5, <2>6
<1>6. rowsCount' \in 0 .. Rows /\ colsCount' \in 0 .. Cols
  BY <1>0, <1>1, <1>3
<1>7. Tidy'
  BY <1>0, <1>2, <1>3, <1>5, <1>6, EditedTidy
<1>8. EditContract!Delete("row", r.index, r.count)
  BY <1>0, <1>2, <1>3, RemovedIsPromised
<1>. QED BY <1>7, <1>8

\* DeleteCols that loses nothing keeps the table tidy and does what the
\* interface promises of it.
LEMMA DeleteColsTidy ==
  ASSUME EditInv, Tidy, Running, NEW r \in Ranges, DeleteCols(r.index, r.count),
         ColsGoCleanly(r.index, r.count)
  PROVE  Tidy' /\ EditContract!Delete("col", r.index, r.count)
<1> PICK first \in Nat, count \in Nat \ {0} : first = r.index /\ count = r.count
  BY EnteredAssumption
<1>0. /\ TableOK /\ rowsCount \in Nat /\ colsCount \in Nat /\ rowsCount <= Rows /\ Rows \in Nat
      /\ colsCount <= Cols /\ Cols \in Nat /\ "col" \in Axis
      /\ WidthOK /\ width \in [Row -> 0 .. Cols] /\ ColsBeforeAreKept(first, count)
  BY TableAssumption DEF EditInv, WidthOK, Tidy, ColsGoCleanly, Axis
<1> PICK e : e = DeleteColsLoop(first, count)
  OBVIOUS
<1>1. ThrowingRows(first, count) = {}
  BY DEF DeleteCols
<1>2. e \in EditState /\ e.undefined = FALSE /\ Edited(e, RemovedNames("col", first, count))
  BY <1>0, <1>1, DeleteColsEdited
<1>3. /\ Fits(e) /\ Finish(e)
      /\ colsCount' = ColsLeft(count)
      /\ rowsCount' = (IF ColsLeft(count) = 0 /\ rowsCount = 1 THEN 0 ELSE rowsCount)
      /\ width' = NarrowedRows(first, count)
      /\ outcome' = "Ok"
  BY <1>2 DEF DeleteCols
<1> PICK to : to = RemovedNames("col", first, count)
  OBVIOUS
<1>4. \A p \in Pos : to[p] = Removed(p, "col", first, count)
                     /\ (to[p] = Deleted <=> Within(p, "col", first, count))
  BY <1>0, RemovedNaming
<1>5. Covered(to)
  <2> SUFFICES ASSUME NEW h \in Kept(to)
               PROVE  /\ to[h].row < rowsCount' /\ to[h].col < colsCount'
                      /\ to[h].col < width'[to[h].row]
    BY DEF Covered
  <2>1. /\ h \in Pos /\ CellExists(content, h) /\ ~Within(h, "col", first, count)
        /\ h.row < rowsCount /\ h.col < colsCount /\ h.col < width[h.row]
    BY <1>4 DEF Kept, Tidy, SizeCovers
  <2>2. h.row \in Row /\ h.row \in Nat /\ h.col \in Nat
    <3>1. h.row \in 0 .. Rows - 1 /\ h.col \in 0 .. Cols - 1
      BY <2>1, PosFacts
    <3>. QED BY <1>0, <3>1 DEF Row
  <2>3. h.col < first \/ h.col >= first + count
    BY <2>1, <2>2 DEF Within
  <2>4. /\ to[h].row = h.row /\ to[h].col \in Nat /\ to[h].col < colsCount - count
    <3>1. CASE h.col < first
      <4>1. to[h] = h
        BY <1>4, <2>1, <2>2, <3>1, NewNames
      <4>2. h.col < colsCount - count
        BY <2>1, <3>1, <1>0 DEF ColsBeforeAreKept
      <4>. QED BY <2>2, <4>1, <4>2
    <3>2. CASE h.col >= first + count
      <4>1. to[h].row = h.row /\ to[h].col = h.col - count
        BY <1>4, <2>1, <3>2, NewNames DEF At
      <4>. QED BY <1>0, <2>1, <2>2, <3>2, <4>1
    <3>. QED BY <2>3, <3>1, <3>2
  <2>5. ColsLeft(count) = colsCount - count /\ ColsLeft(count) > 0
    BY <1>0, <2>4 DEF ColsLeft
  <2>6. colsCount' = colsCount - count /\ rowsCount' = rowsCount
    BY <1>0, <1>3, <2>5
  <2>7. width'[h.row] = colsCount - count
    <3>1. width[h.row] \in Nat
      BY <1>0, <2>2
    <3>2. width[h.row] > 0
      BY <2>1, <2>2, <3>1
    <3>3. h.row \in FinishedRows(first, count)
      BY <1>1, <2>1, <2>2, <3>2 DEF FinishedRows
    <3>. QED BY <1>3, <2>2, <3>3 DEF NarrowedRows
  <2>. QED BY <2>1, <2>4, <2>6, <2>7
<1>6. rowsCount' \in 0 .. Rows /\ colsCount' \in 0 .. Cols
  BY <1>0, <1>3 DEF ColsLeft
<1>7. Tidy'
  BY <1>0, <1>2, <1>3, <1>5, <1>6, EditedTidy
<1>8. EditContract!Delete("col", r.index, r.count)
  BY <1>0, <1>2, <1>3, RemovedIsPromised
<1>. QED BY <1>7, <1>8

-----------------------------------------------------------------------------
(* Every call and edit.                                                    *)

\* An intact table is tidy: with EditInv, what every step preserves.
TidyInv == EditInv /\ (intact => Tidy)

\* Each edit that keeps the table intact.
LEMMA EditTidy ==
  ASSUME EditInv, Tidy, Running, NEW r \in Ranges, Edit(r.index, r.count), intact'
  PROVE  Tidy' /\ EditContract!NextWithEdits(Ranges)
<1>1. CASE InsertRows(r.index, r.count) /\ AllRowsMove(r.index, r.count)
  BY <1>1, InsertRowsTidy DEF EditContract!NextWithEdits, EditContract!Axis
<1>2. CASE InsertCols(r.index, r.count)
  BY <1>2, InsertColsTidy DEF EditContract!NextWithEdits, EditContract!Axis
<1>3. CASE DeleteRows(r.index, r.count) /\ RowsGoCleanly(r.index, r.count)
  BY <1>3, DeleteRowsTidy DEF EditContract!NextWithEdits, EditContract!Axis
<1>4. CASE DeleteCols(r.index, r.count) /\ ColsGoCleanly(r.index, r.count)
  BY <1>4, DeleteColsTidy DEF EditContract!NextWithEdits, EditContract!Axis
<1>. QED BY <1>1, <1>2, <1>3, <1>4 DEF Edit

\* Whatever the step is, an edit that the sizes tell does what is promised.
LEMMA EditsKeepPromise ==
  ASSUME EditInv, Tidy, Running, NEW r \in Ranges
  PROVE  KeepsPromise(r.index, r.count)
<1>1. ASSUME rowsCount' = rowsCount + r.count,
             AllRowsMove(r.index, r.count), InsertRows(r.index, r.count)
      PROVE  EditContract!Insert("row", r.index, r.count)
  BY <1>1, InsertRowsTidy
<1>2. ASSUME colsCount' = colsCount + r.count, InsertCols(r.index, r.count)
      PROVE  EditContract!Insert("col", r.index, r.count)
  BY <1>2, InsertColsTidy
<1>3. ASSUME RowsGoCleanly(r.index, r.count), DeleteRows(r.index, r.count)
      PROVE  EditContract!Delete("row", r.index, r.count)
  BY <1>3, DeleteRowsTidy
<1>4. ASSUME ColsGoCleanly(r.index, r.count), DeleteCols(r.index, r.count)
      PROVE  EditContract!Delete("col", r.index, r.count)
  BY <1>4, DeleteColsTidy
<1>. QED BY <1>1, <1>2, <1>3, <1>4 DEF KeepsPromise

\* A step from an intact table to an intact one.
LEMMA IntactStep ==
  ASSUME EditInv, intact => Tidy, EditNext, intact'
  PROVE  /\ Tidy' /\ EditContract!NextWithEdits(Ranges)
         /\ \A r \in Ranges : KeepsPromise(r.index, r.count)
<1>1. Running
  BY DEF EditNext, Going
<1>2. intact
  BY DEF EditNext, Edit, SetCellOf, ReadCell, ClearCellOf
<1>3. Tidy
  BY <1>2
<1>4. Tidy' /\ EditContract!NextWithEdits(Ranges)
  <2>1. ASSUME NEW r \in Ranges, Edit(r.index, r.count)
        PROVE  Tidy' /\ EditContract!NextWithEdits(Ranges)
    BY <1>1, <1>3, <2>1, EditTidy
  <2>2. ASSUME NEW p \in Pos, SetCellOf(p) \/ ReadCell(p) \/ ClearCellOf(p)
        PROVE  Tidy' /\ EditContract!NextWithEdits(Ranges)
    BY <1>1, <1>3, <2>2, SetCellTidy, ReadTidy, ClearTidy DEF EditContract!NextWithEdits
  <2>. QED BY <2>1, <2>2 DEF EditNext
<1>5. ASSUME NEW r \in Ranges PROVE KeepsPromise(r.index, r.count)
  BY <1>1, <1>3, EditsKeepPromise
<1>. QED BY <1>4, <1>5

\* The empty table is tidy.
LEMMA EditInitTidy == EditInit => TidyInv
<1> SUFFICES ASSUME EditInit PROVE TidyInv
  OBVIOUS
<1>1. GraphInv
  BY InitInv DEF EditInit, Inv
<1>2. \A p \in Pos : ~CellExists(content, p) /\ GetReferencedCells(content[p]) = {}
  BY TextAssumption DEF EditInit, Init, CellExists, GetReferencedCells, Text
<1>3. AllLinked /\ SizeCovers
  BY <1>2 DEF AllLinked, SizeCovers
<1>4. Tidy
  BY <1>1, <1>2, <1>3, TableAssumption DEF EditInit, Init, Tidy
<1>. QED BY <1>4, EditInitInv DEF TidyInv

\* The invariant of edits and calls.
LEMMA TidyInvariant == TidyInv /\ [EditNext]_editVars => TidyInv'
<1> SUFFICES ASSUME TidyInv, [EditNext]_editVars PROVE TidyInv'
  OBVIOUS
<1>1. EditInv'
  BY EditNextInv DEF TidyInv
<1>2. CASE UNCHANGED editVars
  <2>1. Tidy => Tidy'
    BY <1>2 DEF editVars, Tidy, GraphInv, AllLinked, SizeCovers
  <2>2. intact' = intact
    BY <1>2 DEF editVars
  <2>. QED BY <1>1, <2>1, <2>2 DEF TidyInv
<1>3. CASE EditNext
  BY <1>1, <1>3, IntactStep DEF TidyInv
<1>. QED BY <1>2, <1>3

\* As long as no call was one that loses cells or their dependents, every
\* formula is listed by all it reads, no list names a destroyed holder and
\* every valid cache is current: InsertRows, InsertCols, DeleteRows and
\* DeleteCols leave what SetCell, ClearCell and GetValue rely on.
THEOREM IntactTablesAreTidy == EditSpec => []IntactIsTidy
<1>1. TidyInv => IntactIsTidy
  BY TidyMeans DEF TidyInv
<1>. QED BY <1>1, EditInitTidy, TidyInvariant, PTL DEF EditSpec

\* In such a run every call and every edit does what ISheet promises: texts
\* move with their cells and references with what they point to.
THEOREM IntactCallsAreContract == EditSpec => IntactCallsFollowContract
<1>1. TidyInv /\ [EditNext]_editVars =>
        [intact' => /\ EditContract!NextWithEdits(Ranges)
                    /\ \A r \in Ranges : KeepsPromise(r.index, r.count)]_editVars
  <2> SUFFICES ASSUME TidyInv, EditNext, intact'
               PROVE  /\ EditContract!NextWithEdits(Ranges)
                      /\ \A r \in Ranges : KeepsPromise(r.index, r.count)
    BY DEF editVars
  <2>. QED BY IntactStep DEF TidyInv
<1>. QED BY <1>1, EditInitTidy, TidyInvariant, PTL DEF EditSpec, IntactCallsFollowContract
=============================================================================
