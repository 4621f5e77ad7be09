----------------------------- MODULE SheetProofs -----------------------------
(***************************************************************************)
(* Theorems about Sheet, for every table, every set of texts and formulas  *)
(* and every way of evaluating them that meets its assumptions.            *)
(***************************************************************************)
EXTENDS Sheet, FiniteSetTheorems, TLAPS

Cache == [Pos -> Value \cup {Stale}]
Graph == [Pos -> [Pos -> Nat]]
Contents == [Pos -> Content]

\* The types of the data of a table, however its last call ended.
DataOK ==
  /\ content \in [Pos -> Content]
  /\ usedBy \in [Pos -> [Pos -> Nat]]
  /\ cache \in [Pos -> Value \cup {Stale}]
  /\ rowsCount \in 0 .. Rows /\ colsCount \in 0 .. Cols

-----------------------------------------------------------------------------
(* The table.                                                              *)

\* The table has finitely many cells.
LEMMA PosIsFinite ==
  /\ IsFiniteSet(Pos)
  /\ Pos \subseteq [row : 0 .. Rows - 1, col : 0 .. Cols - 1]
<1> DEFINE R == 0 .. Rows - 1
           C == 0 .. Cols - 1
           f == [x \in R \X C |-> At(x[1], x[2])]
<1>1. Rows \in Nat /\ Cols \in Nat
  BY TableAssumption
<1>2. IsFiniteSet(R) /\ IsFiniteSet(C)
  BY <1>1, FS_Interval
<1>3. IsFiniteSet(R \X C)
  BY <1>2, FS_Product
<1>4. f \in Surjection(R \X C, Pos)
  <2>1. \A x \in R \X C : x[1] \in R /\ x[2] \in C /\ f[x] = At(x[1], x[2])
    OBVIOUS
  <2>2. \A p \in Pos : \E x \in R \X C : f[x] = p
    <3> SUFFICES ASSUME NEW i \in R, NEW j \in C PROVE \E x \in R \X C : f[x] = At(i, j)
      BY DEF Pos
    <3>1. <<i, j>> \in R \X C /\ f[<<i, j>>] = At(i, j)
      OBVIOUS
    <3>. QED BY <3>1
  <2>3. f \in [R \X C -> Pos]
    BY <2>1 DEF Pos
  <2>. QED BY <2>2, <2>3 DEF Surjection
<1>5. Pos \subseteq [row : R, col : C]
  BY DEF Pos, At
<1>. QED BY <1>3, <1>4, <1>5, FS_Surjection

-----------------------------------------------------------------------------
(* Closures.                                                               *)

\* A closure holds what it starts from: the cell an invalidation starts at,
\* the references a walk begins with.
LEMMA ClosureContains ==
  ASSUME NEW S \in SUBSET Pos, NEW next
  PROVE  S \subseteq Closure(S, next)
BY DEF Closure

\* A closure is closed: a walk that reaches x goes on to what follows x.
LEMMA ClosureClosed ==
  ASSUME NEW S, NEW next, NEW x \in Closure(S, next), NEW y \in next[x], y \in Pos
  PROVE  y \in Closure(S, next)
BY DEF Closure

\* A closure is the least such set.
LEMMA ClosureLeast ==
  ASSUME NEW S, NEW next, NEW X \in SUBSET Pos,
         S \subseteq X, \A x \in X : next[x] \subseteq X
  PROVE  Closure(S, next) \subseteq X
<1> DEFINE ends == Pos \cap (S \cup UNION {next[x] : x \in Pos})
<1>1. X \cap ends \in SUBSET ends /\ S \subseteq X \cap ends
  OBVIOUS
<1>2. \A x \in X \cap ends : next[x] \subseteq X \cap ends
  OBVIOUS
<1>. QED BY <1>1, <1>2 DEF Closure

\* A walk stays in the table.
LEMMA ClosureInPos ==
  ASSUME NEW S, NEW next
  PROVE  Closure(S, next) \subseteq Pos
BY DEF Closure

-----------------------------------------------------------------------------
(* Values.                                                                 *)

\* What a formula is worth depends only on the cells it names.
LEMMA SameApply ==
  ASSUME NEW f \in Formula, NEW v \in [Pos -> Value], NEW w \in [Pos -> Value],
         \A q \in Refs(f) : v[q] = w[q]
  PROVE  Apply(f, v) = Apply(f, w)
<1> DEFINE Read(x) == [q \in Pos |-> IF q \in Refs(f) THEN x[q] ELSE Zero]
<1>1. Read(v) = Read(w)
  OBVIOUS
<1>2. Apply(f, v) = Apply(f, Read(v)) /\ Apply(f, w) = Apply(f, Read(w))
  BY FormulaAssumption
<1>. QED BY <1>1, <1>2

-----------------------------------------------------------------------------
(* The parts of the invariant, of any contents c, graph u and caches k.    *)

EdgesOK(c, u) ==
  \A r, p \in Pos : u[r][p] > 0 =>
    u[r][p] = 1 /\ CellExists(c, r) /\ r \in GetReferencedCells(c[p])

StaleOK(c, u, k) ==
  \A r, p \in Pos :
    (u[r][p] > 0 /\ c[r] \in Formula /\ k[r] = Stale) =>
      c[p] \in Formula /\ k[p] = Stale

\* The formula cell at p holds the value of its formula.
HasValue(c, k, p) ==
  /\ \A r \in Refs(c[p]) : r \notin Invalid(c, k)
  /\ k[p] = Apply(c[p], Reading(c, k, NoFresh))

CurrentOK(c, u, k) ==
  \A p \in Pos :
    (c[p] \in Formula /\ k[p] # Stale /\ \A r \in Refs(c[p]) : u[r][p] > 0) =>
      HasValue(c, k, p)

\* The properties are these parts, of the state.
LEMMA Parts ==
  /\ EdgesMatchFormulas <=> EdgesOK(content, usedBy)
  /\ DataOK => (StaleUpwards <=> StaleOK(content, usedBy, cache))
  /\ DataOK => (LinkedCellsAreCurrent <=> CurrentOK(content, usedBy, cache))
<1>1. EdgesMatchFormulas <=> EdgesOK(content, usedBy)
  BY DEF EdgesMatchFormulas, EdgesOK
<1>2. DataOK => (StaleUpwards <=> StaleOK(content, usedBy, cache))
  BY DEF StaleUpwards, StaleOK, Invalid
<1>3. DataOK => (LinkedCellsAreCurrent <=> CurrentOK(content, usedBy, cache))
  BY DEF LinkedCellsAreCurrent, CurrentOK, HasValue, Linked, GetReferencedCells
<1>. QED BY <1>1, <1>2, <1>3

-----------------------------------------------------------------------------
(* InvalidateCache.                                                        *)

\* The caches n come from k by making cells stale: p, whatever depends on p,
\* and whatever depends on a cell that became stale.
StaleFrom(u, k, p, n) ==
  /\ n \in Cache
  /\ n[p] = Stale
  /\ \A q \in Pos : n[q] \in {Stale, k[q]}
  /\ \A q, d \in Pos : (n[q] # k[q] /\ u[q][d] > 0) => n[d] = Stale
  /\ \A d \in Pos : u[p][d] > 0 => n[d] = Stale

\* The pruned walk of InvalidateCache reaches all of these.
LEMMA InvalidateReach ==
  ASSUME NEW c, NEW u, NEW k \in Cache, NEW p \in Pos
  PROVE  StaleFrom(u, k, p, InvalidateCache(c, u, k, p))
<1> DEFINE next == [q \in Pos |-> {d \in Pos : u[q][d] > 0 /\ d \notin Invalid(c, k)}]
           C == Closure({p}, next)
<1> PICK n : n = InvalidateCache(c, u, k, p)
  OBVIOUS
<1>1. n = [q \in Pos |-> IF q \in C THEN Stale ELSE k[q]]
  BY DEF InvalidateCache
<1>2. p \in C
  BY ClosureContains
<1>3. ASSUME NEW q \in Pos, NEW d \in Pos, q \in C, u[q][d] > 0
      PROVE  n[d] = Stale
  <2>1. CASE d \in Invalid(c, k)
    BY <1>1, <2>1 DEF Invalid
  <2>2. CASE d \notin Invalid(c, k)
    <3>1. d \in next[q]
      BY <1>3, <2>2
    <3>2. d \in C
      BY <3>1, <1>3, ClosureClosed
    <3>. QED BY <3>2, <1>1
  <2>. QED BY <2>1, <2>2
<1>4. n \in Cache
  BY <1>1 DEF Cache
<1>5. \A q \in Pos : n[q] \in {Stale, k[q]}
  BY <1>1
<1>6. \A q \in Pos : n[q] # k[q] => q \in C
  BY <1>1
<1> HIDE DEF C
<1>. QED BY <1>1, <1>2, <1>3, <1>4, <1>5, <1>6 DEF StaleFrom

-----------------------------------------------------------------------------
(* Recalculation.                                                          *)

\* What a refresh needs: invalid cells only, with all they read that is
\* invalid, and none whose own refresh would not end.
LEMMA NeedFacts ==
  ASSUME NEW c, NEW k, NEW S, ~Endless(c, k, S)
  PROVE  /\ Need(c, k, S) \subseteq Invalid(c, k)
         /\ \A x \in Need(c, k, S) :
              GetReferencedCells(c[x]) \cap Invalid(c, k) \subseteq Need(c, k, S)
         /\ Need(c, k, S) \subseteq Solvable(c, k)
<1> DEFINE T == Need(c, k, S)
           R == StaleReads(c, k)
<1>1. Invalid(c, k) \in SUBSET Pos
  BY DEF Invalid
<1>2. \A x \in Pos : R[x] = GetReferencedCells(c[x]) \cap Invalid(c, k)
  BY DEF StaleReads
<1>3. T \subseteq Invalid(c, k)
  <2>1. S \cap Invalid(c, k) \subseteq Invalid(c, k)
    OBVIOUS
  <2>2. \A x \in Invalid(c, k) : R[x] \subseteq Invalid(c, k)
    BY <1>1, <1>2
  <2> HIDE DEF R
  <2>. QED BY <1>1, <2>1, <2>2, ClosureLeast DEF Need, R
<1>4. \A x \in T : R[x] \subseteq T
  BY <1>1, <1>2, <1>3, ClosureClosed DEF Need
<1>5. ASSUME NEW x \in T
      PROVE  Need(c, k, {x}) \subseteq T
  <2>1. {x} \cap Invalid(c, k) \subseteq T
    BY <1>5
  <2>2. T \in SUBSET Pos
    BY <1>1, <1>3
  <2>. QED BY <2>1, <2>2, <1>4, ClosureLeast DEF Need
<1>6. T \subseteq Solvable(c, k)
  BY <1>3, <1>5 DEF Solvable, Endless, Cyclic
<1>. QED BY <1>1, <1>2, <1>3, <1>4, <1>6

\* A refresh that ends gives every cell it refreshes the value of its formula,
\* and the cells it leaves alone keep theirs.
LEMMA RefreshKeeps ==
  ASSUME NEW c \in Contents, NEW u, NEW k \in Cache, NEW S, NEW f \in Fresh(c, k),
         ~Endless(c, k, S), EdgesOK(c, u), StaleOK(c, u, k), CurrentOK(c, u, k)
  PROVE  LET n == Refreshed(k, Need(c, k, S), Reading(c, k, f))
         IN  n \in Cache /\ StaleOK(c, u, n) /\ CurrentOK(c, u, n)
<1> DEFINE T == Need(c, k, S)
           v == Reading(c, k, f)
           n == Refreshed(k, T, v)
<1>1. /\ T \subseteq Invalid(c, k)
      /\ \A x \in T : GetReferencedCells(c[x]) \cap Invalid(c, k) \subseteq T
      /\ T \subseteq Solvable(c, k)
  BY NeedFacts
<1>2. /\ f \in [Solvable(c, k) -> Value]
      /\ \A p \in Solvable(c, k) : f[p] = Apply(c[p], v)
      /\ Solvable(c, k) \subseteq Invalid(c, k)
  BY DEF Fresh, Solvable
<1>3. \A p \in T : n[p] = f[p] /\ f[p] \in Value /\ n[p] # Stale
  BY <1>1, <1>2, ValueAssumption DEF Refreshed, Reading, Invalid
<1>4. \A p \in Pos : p \notin T => n[p] = k[p]
  BY DEF Refreshed
<1>5. n \in Cache
  BY <1>1, <1>3, <1>4 DEF Cache, Refreshed
<1>6. Invalid(c, n) = Invalid(c, k) \ T
  BY <1>1, <1>3, <1>4 DEF Invalid
<1>7. StaleOK(c, u, n)
  <2> SUFFICES ASSUME NEW r \in Pos, NEW p \in Pos,
                      u[r][p] > 0, c[r] \in Formula, n[r] = Stale
               PROVE  c[p] \in Formula /\ n[p] = Stale
    BY DEF StaleOK
  <2>1. r \in Invalid(c, k) /\ r \notin T
    BY <1>3, <1>4 DEF Invalid
  <2>2. c[p] \in Formula /\ k[p] = Stale
    BY <2>1 DEF StaleOK, Invalid
  <2>3. r \in GetReferencedCells(c[p])
    BY DEF EdgesOK
  <2>4. p \notin T
    BY <2>1, <2>3, <1>1
  <2>. QED BY <2>2, <2>4, <1>4
<1>8. Reading(c, k, f) \in [Pos -> Value] /\ Reading(c, n, NoFresh) \in [Pos -> Value]
  BY <1>2, <1>5, ValueAssumption DEF Reading, NoFresh, Cache
<1>9. ASSUME NEW r \in Pos, r \in Invalid(c, k) => r \in T
      PROVE  Reading(c, n, NoFresh)[r] = v[r]
  <2>1. CASE r \in T
    BY <2>1, <1>1, <1>2, <1>3 DEF Reading, NoFresh, Invalid
  <2>2. CASE r \notin T
    <3>1. r \notin Solvable(c, k) /\ n[r] = k[r]
      BY <2>2, <1>2, <1>4, <1>9
    <3>. QED BY <3>1, <1>2 DEF Reading, NoFresh
  <2>. QED BY <2>1, <2>2
<1>10. CurrentOK(c, u, n)
  <2> SUFFICES ASSUME NEW p \in Pos, c[p] \in Formula, n[p] # Stale,
                      \A r \in Refs(c[p]) : u[r][p] > 0
               PROVE  HasValue(c, n, p)
    BY DEF CurrentOK
  <2>1. Refs(c[p]) \subseteq Pos
    BY FormulaAssumption
  <2>2. CASE p \in T
    <3>1. \A r \in Refs(c[p]) : r \in Invalid(c, k) => r \in T
      BY <2>2, <1>1 DEF GetReferencedCells
    <3>2. \A r \in Refs(c[p]) : Reading(c, n, NoFresh)[r] = v[r]
      BY <3>1, <2>1, <1>9
    <3>3. Apply(c[p], Reading(c, n, NoFresh)) = Apply(c[p], v)
      BY <3>2, <1>8, SameApply
    <3>. QED BY <2>2, <3>1, <3>3, <1>1, <1>2, <1>3, <1>6 DEF HasValue
  <2>3. CASE p \notin T
    <3>1. HasValue(c, k, p)
      BY <2>3, <1>4 DEF CurrentOK
    <3>2. \A r \in Refs(c[p]) : r \notin Invalid(c, k) /\ n[r] = k[r]
      BY <3>1, <2>1, <1>1, <1>4 DEF HasValue
    <3>3. \A r \in Refs(c[p]) : Reading(c, n, NoFresh)[r] = Reading(c, k, NoFresh)[r]
      BY <3>2, <2>1 DEF Reading, NoFresh
    <3>4. Reading(c, k, NoFresh) \in [Pos -> Value]
      BY ValueAssumption DEF Reading, NoFresh, Cache
    <3>5. Apply(c[p], Reading(c, n, NoFresh)) = Apply(c[p], Reading(c, k, NoFresh))
      BY <3>3, <3>4, <1>8, SameApply
    <3>. QED BY <2>3, <3>1, <3>2, <3>5, <1>4, <1>6 DEF HasValue
  <2>. QED BY <2>2, <2>3
<1>. QED BY <1>5, <1>7, <1>10

-----------------------------------------------------------------------------
(* The beginning of a call: the holder is there, usedBy has forgotten it.  *)

\* The two ways of holding nothing look the same to every formula.
SameCells(c, d) ==
  \A q \in Pos : c[q] = d[q] \/ {c[q], d[q]} \subseteq {Absent, EmptyText}

\* A formula reads the same from two states that differ only in holders
\* without a cell.
LEMMA SameReading ==
  ASSUME NEW c \in Contents, NEW d \in Contents, NEW k \in Cache, SameCells(c, d)
  PROVE  /\ Invalid(c, k) = Invalid(d, k)
         /\ Reading(c, k, NoFresh) = Reading(d, k, NoFresh)
         /\ \A q \in Pos : GetReferencedCells(c[q]) = GetReferencedCells(d[q])
         /\ \A q \in Pos : (c[q] \in Formula \/ d[q] \in Formula) => c[q] = d[q]
<1>1. {Absent, EmptyText} \cap (Formula \cup Literal \cup HugeFormula) = {}
  BY TextAssumption DEF Text
<1>2. \A q \in Pos : c[q] = d[q] \/ ({c[q], d[q]} \cap (Formula \cup Literal \cup HugeFormula) = {})
  BY <1>1 DEF SameCells
<1>3. Invalid(c, k) = Invalid(d, k)
  BY <1>2 DEF Invalid
<1>4. Reading(c, k, NoFresh) = Reading(d, k, NoFresh)
  BY <1>2 DEF Reading, NoFresh
<1>. QED BY <1>2, <1>3, <1>4 DEF GetReferencedCells

\* Forgetting entries, and creating or destroying holders without a formula,
\* keeps the caches right.
LEMMA WeakerGraph ==
  ASSUME NEW c \in Contents, NEW d \in Contents, NEW u, NEW w, NEW k \in Cache,
         SameCells(c, d), \A r, p \in Pos : w[r][p] > 0 => u[r][p] > 0,
         StaleOK(c, u, k), CurrentOK(c, u, k)
  PROVE  StaleOK(d, w, k) /\ CurrentOK(d, w, k)
<1>1. /\ Invalid(c, k) = Invalid(d, k)
      /\ Reading(c, k, NoFresh) = Reading(d, k, NoFresh)
      /\ \A q \in Pos : (c[q] \in Formula \/ d[q] \in Formula) => c[q] = d[q]
  BY SameReading
<1>2. StaleOK(d, w, k)
  BY <1>1 DEF StaleOK
<1>3. CurrentOK(d, w, k)
  <2> SUFFICES ASSUME NEW p \in Pos, d[p] \in Formula, k[p] # Stale,
                      \A r \in Refs(d[p]) : w[r][p] > 0
               PROVE  HasValue(d, k, p)
    BY DEF CurrentOK
  <2>1. c[p] = d[p] /\ Refs(c[p]) \subseteq Pos
    BY <1>1, FormulaAssumption
  <2>2. HasValue(c, k, p)
    BY <2>1 DEF CurrentOK
  <2>. QED BY <1>1, <2>1, <2>2 DEF HasValue
<1>. QED BY <1>2, <1>3

\* ClearUsedGraph adds no entry.
LEMMA UnlinkFacts ==
  ASSUME NEW u \in Graph, NEW refs, NEW p \in Pos
  PROVE  /\ Unlink(u, refs, p) \in Graph
         /\ \A r, q \in Pos : q # p => Unlink(u, refs, p)[r][q] = u[r][q]
         /\ \A r \in Pos : Unlink(u, refs, p)[r][p] =
                           IF r \in refs /\ u[r][p] > 0 THEN u[r][p] - 1 ELSE u[r][p]
BY DEF Unlink, Graph

\* push_back adds entries for p, one in each cell of refs, and no other.
LEMMA LinkFacts ==
  ASSUME NEW u \in Graph, NEW refs, NEW p \in Pos
  PROVE  /\ Link(u, refs, p) \in Graph
         /\ \A r, q \in Pos : q # p => Link(u, refs, p)[r][q] = u[r][q]
         /\ \A r \in Pos : Link(u, refs, p)[r][p] =
                           IF r \in refs THEN u[r][p] + 1 ELSE u[r][p]
BY DEF Link, Graph

\* The safety part of the invariant.
GraphInv ==
  /\ EdgesOK(content, usedBy)
  /\ StaleOK(content, usedBy, cache)
  /\ CurrentOK(content, usedBy, cache)

\* Creating the holder and forgetting the entries of the old formula (the
\* first steps of every SetCell) keeps edges and caches right.
LEMMA StartFacts ==
  ASSUME DataOK, GraphInv, NEW p \in Pos
  PROVE  /\ Started(p) \in Contents /\ SameCells(content, Started(p))
         /\ \A q \in Pos : q # p => Started(p)[q] = content[q]
         /\ CellExists(Started(p), p)
         /\ Forgotten(p) \in Graph
         /\ \A r \in Pos : Forgotten(p)[r][p] = 0
         /\ \A r, q \in Pos : q # p => Forgotten(p)[r][q] = usedBy[r][q]
         /\ EdgesOK(Started(p), Forgotten(p))
         /\ StaleOK(Started(p), Forgotten(p), cache)
         /\ CurrentOK(Started(p), Forgotten(p), cache)
<1> PICK c : c = Started(p)
  OBVIOUS
<1> PICK u : u = Forgotten(p)
  OBVIOUS
<1>1. /\ content \in Contents /\ usedBy \in Graph /\ cache \in Cache
  BY DEF DataOK, Contents, Graph, Cache
<1>2. Absent # EmptyText
  BY TextAssumption DEF Text
<1>3. /\ c \in Contents /\ SameCells(content, c)
      /\ \A q \in Pos : q # p => c[q] = content[q]
      /\ CellExists(c, p)
      /\ \A q \in Pos : CellExists(content, q) => CellExists(c, q)
  BY <1>1, <1>2 DEF Started, Created, Contents, Content, SameCells, CellExists
<1>4. \A q \in Pos : GetReferencedCells(content[q]) = GetReferencedCells(c[q])
  BY <1>1, <1>3, SameReading
<1>5. u = Unlink(usedBy, GetReferencedCells(content[p]), p)
  BY <1>4 DEF Forgotten
<1>6. /\ u \in Graph
      /\ \A r, q \in Pos : q # p => u[r][q] = usedBy[r][q]
      /\ \A r \in Pos : u[r][p] = IF r \in GetReferencedCells(content[p]) /\ usedBy[r][p] > 0
                                 THEN usedBy[r][p] - 1 ELSE usedBy[r][p]
  BY <1>1, <1>5, UnlinkFacts
<1>7. \A r \in Pos : usedBy[r][p] \in Nat
  BY <1>1 DEF Graph
<1>8. \A r \in Pos : u[r][p] = 0
  BY <1>6, <1>7 DEF GraphInv, EdgesOK
<1>9. EdgesOK(c, u)
  BY <1>3, <1>4, <1>6, <1>8 DEF GraphInv, EdgesOK
<1>10. \A r, q \in Pos : u[r][q] > 0 => usedBy[r][q] > 0
  BY <1>6, <1>8
<1>11. StaleOK(c, u, cache) /\ CurrentOK(c, u, cache)
  BY <1>1, <1>3, <1>10, WeakerGraph DEF GraphInv
<1>. QED BY <1>3, <1>6, <1>8, <1>9, <1>11

-----------------------------------------------------------------------------
(* The end of a call that changes the cell at p.  c, u and k are contents,  *)
(* graph and caches before the change, w the graph the invalidation walks, *)
(* d, x and n what the call leaves.                                        *)

\* A reset of p, followed by the invalidation of what depends on it, keeps
\* edges and caches right.
LEMMA ResetKeeps ==
  ASSUME NEW c, NEW d \in Contents, NEW u, NEW w, NEW x, NEW k \in Cache, NEW n,
         NEW p \in Pos,
         \A q \in Pos : q # p => d[q] = c[q] \/ (c[q] = Absent /\ d[q] = EmptyText),
         \A r, q \in Pos : (q # p /\ x[r][q] > 0) => u[r][q] > 0 /\ w[r][q] > 0,
         EdgesOK(c, u), StaleOK(c, u, k), CurrentOK(c, u, k),
         EdgesOK(d, x), StaleFrom(w, k, p, n)
  PROVE  StaleOK(d, x, n) /\ CurrentOK(d, x, n)
<1>1. EmptyText \notin Formula
  BY TextAssumption DEF Text
<1>2. StaleOK(d, x, n)
  <2> SUFFICES ASSUME NEW r \in Pos, NEW q \in Pos,
                      x[r][q] > 0, d[r] \in Formula, n[r] = Stale
               PROVE  d[q] \in Formula /\ n[q] = Stale
    BY DEF StaleOK
  <2>1. d[q] \in Formula
    BY DEF EdgesOK, GetReferencedCells
  <2>2. n[q] = Stale
    <3>1. CASE q = p
      BY <3>1 DEF StaleFrom
    <3>2. CASE q # p /\ (r = p \/ n[r] # k[r])
      BY <3>2 DEF StaleFrom
    <3>3. CASE q # p /\ r # p /\ n[r] = k[r]
      <4>1. c[r] \in Formula /\ k[r] = Stale /\ u[r][q] > 0
        BY <3>3, <1>1
      <4>2. k[q] = Stale
        BY <4>1 DEF StaleOK
      <4>. QED BY <4>2 DEF StaleFrom
    <3>. QED BY <3>1, <3>2, <3>3
  <2>. QED BY <2>1, <2>2
<1>3. CurrentOK(d, x, n)
  <2> SUFFICES ASSUME NEW q \in Pos, d[q] \in Formula, n[q] # Stale,
                      \A r \in Refs(d[q]) : x[r][q] > 0
               PROVE  HasValue(d, n, q)
    BY DEF CurrentOK
  <2>1. q # p
    BY DEF StaleFrom
  <2>2. c[q] = d[q] /\ k[q] = n[q]
    BY <2>1, <1>1 DEF StaleFrom
  <2>3. Refs(d[q]) \subseteq Pos
    BY FormulaAssumption
  <2>4. \A r \in Refs(d[q]) : u[r][q] > 0 /\ w[r][q] > 0
    BY <2>1, <2>3
  <2>5. \A r \in Refs(d[q]) : r # p /\ n[r] = k[r]
    BY <2>3, <2>4 DEF StaleFrom
  <2>6. \A r \in Refs(d[q]) : d[r] = c[r]
    BY <2>3, <2>4, <2>5 DEF EdgesOK, CellExists
  <2>7. HasValue(c, k, q)
    BY <2>2, <2>4 DEF CurrentOK
  <2>8. \A r \in Refs(d[q]) : r \notin Invalid(d, n)
    BY <2>2, <2>3, <2>5, <2>6, <2>7 DEF HasValue, Invalid
  <2>9. \A r \in Refs(d[q]) : Reading(d, n, NoFresh)[r] = Reading(c, k, NoFresh)[r]
    BY <2>3, <2>5, <2>6 DEF Reading, NoFresh
  <2>10. Reading(d, n, NoFresh) \in [Pos -> Value] /\ Reading(c, k, NoFresh) \in [Pos -> Value]
    BY ValueAssumption DEF Reading, NoFresh, Cache, StaleFrom
  <2>11. Apply(d[q], Reading(d, n, NoFresh)) = Apply(d[q], Reading(c, k, NoFresh))
    BY <2>2, <2>9, <2>10, SameApply
  <2>. QED BY <2>2, <2>7, <2>8, <2>11 DEF HasValue
<1>. QED BY <1>2, <1>3

-----------------------------------------------------------------------------
(* The invariant holds along every call.                                   *)

Inv == DataOK /\ GraphInv

\* The empty sheet satisfies the invariant.
LEMMA InitInv == Init => Inv
<1> SUFFICES ASSUME Init PROVE Inv
  OBVIOUS
<1>1. Absent \notin Formula
  BY TextAssumption DEF Text
<1>2. DataOK
  BY TableAssumption DEF Init, DataOK, Content
<1>3. GraphInv
  BY <1>1 DEF Init, GraphInv, EdgesOK, StaleOK, CurrentOK
<1>. QED BY <1>2, <1>3 DEF Inv

\* The counters of rows and columns stay in the table.
LEMMA GrowType ==
  ASSUME DataOK, NEW S, GrowTo(S)
  PROVE  rowsCount' \in 0 .. Rows /\ colsCount' \in 0 .. Cols
BY DEF GrowTo, Grown

\* The same when ClearCell may set them to zero.
LEMMA GrowCountType ==
  ASSUME DataOK, NEW S, NEW c, GrowToThenCount(S, c)
  PROVE  rowsCount' \in 0 .. Rows /\ colsCount' \in 0 .. Cols
BY GrowType, TableAssumption DEF GrowToThenCount

\* SetCell with a literal, an empty text or a formula that becomes an error.
LEMMA TextKeepsInv ==
  ASSUME Inv, NEW p \in Pos, NEW t, SetCellToText(p, t)
  PROVE  Inv'
<1>1. /\ content \in Contents /\ usedBy \in Graph /\ cache \in Cache
      /\ DataOK /\ GraphInv
  BY DEF Inv, DataOK, Contents, Graph, Cache
<1>2. /\ content' = [content EXCEPT ![p] = t]
      /\ usedBy' = Forgotten(p)
      /\ cache' = InvalidateCache(content', usedBy', cache, p)
      /\ GrowTo({p})
      /\ outcome' = "Ok"
      /\ t \in {EmptyText} \cup Literal \cup HugeFormula
  BY DEF SetCellToText
<1>3. /\ content' \in Contents
      /\ \A q \in Pos : q # p => content'[q] = content[q]
      /\ content'[p] = t
  BY <1>1, <1>2 DEF Contents, Content
<1>4. StaleFrom(usedBy', cache, p, cache')
  BY <1>1, <1>2, InvalidateReach
<1>5. DataOK'
  <2>1. usedBy' \in [Pos -> [Pos -> Nat]]
    BY <1>1, <1>2, StartFacts DEF Graph
  <2>2. cache' \in [Pos -> Value \cup {Stale}]
    BY <1>4 DEF StaleFrom, Cache
  <2>3. rowsCount' \in 0 .. Rows /\ colsCount' \in 0 .. Cols
    BY <1>1, <1>2, GrowType
  <2>. QED BY <1>2, <1>3, <2>1, <2>2, <2>3 DEF DataOK, Contents
<1>6. t # Absent /\ t \notin Formula
  BY <1>2, TextAssumption DEF Text
<1>7. /\ \A q \in Pos : q # p => Started(p)[q] = content[q]
      /\ EdgesOK(Started(p), usedBy')
      /\ StaleOK(Started(p), usedBy', cache)
      /\ CurrentOK(Started(p), usedBy', cache)
      /\ \A r \in Pos : usedBy'[r][p] = 0
  BY <1>1, <1>2, StartFacts
<1>8. EdgesOK(content', usedBy')
  BY <1>3, <1>6, <1>7 DEF EdgesOK, CellExists
<1>9. StaleOK(content', usedBy', cache') /\ CurrentOK(content', usedBy', cache')
  BY <1>1, <1>3, <1>4, <1>7, <1>8, ResetKeeps
<1>. QED BY <1>5, <1>8, <1>9 DEF Inv, GraphInv

\* SetCell with the text the cell has.
LEMMA SameTextKeepsInv ==
  ASSUME Inv, NEW p \in Pos, SetCellToSameText(p)
  PROVE  Inv'
<1>1. /\ content \in Contents /\ usedBy \in Graph /\ cache \in Cache
      /\ DataOK /\ GraphInv
  BY DEF Inv, DataOK, Contents, Graph, Cache
<1>2. /\ content' = Started(p) /\ usedBy' = usedBy /\ cache' = cache
      /\ GrowTo({p}) /\ outcome' = "Ok"
  BY DEF SetCellToSameText
<1>3. content' \in Contents /\ SameCells(content, content')
  BY <1>1, <1>2, StartFacts
<1>4. \A q \in Pos : CellExists(content, q) => CellExists(content', q)
  BY <1>1, <1>2 DEF Started, Created, CellExists, Contents
<1>5. EdgesOK(content', usedBy')
  BY <1>1, <1>2, <1>3, <1>4, SameReading DEF GraphInv, EdgesOK
<1>6. StaleOK(content', usedBy', cache') /\ CurrentOK(content', usedBy', cache')
  BY <1>1, <1>2, <1>3, WeakerGraph DEF GraphInv
<1>7. DataOK'
  BY <1>1, <1>2, <1>3, GrowType DEF DataOK, Contents
<1>. QED BY <1>5, <1>6, <1>7 DEF Inv, GraphInv

\* SetCell with a text that does not parse.
LEMMA ThrowKeepsInv ==
  ASSUME Inv, NEW p \in Pos, NEW t, SetCellThrows(p, t)
  PROVE  Inv'
<1>1. DataOK /\ GraphInv
  BY DEF Inv
<1>2. /\ content' = Started(p) /\ usedBy' = Forgotten(p) /\ cache' = cache
      /\ GrowTo({p})
  BY DEF SetCellThrows
<1>3. GraphInv'
  BY <1>1, <1>2, StartFacts DEF GraphInv
<1>4. DataOK'
  BY <1>1, <1>2, StartFacts, GrowType DEF DataOK, Contents, Graph
<1>. QED BY <1>3, <1>4 DEF Inv

\* What CheckDependency refreshes on its way is refreshed rightly, found a
\* cycle or not.
LEMMA CheckKeeps ==
  ASSUME Inv, NEW p \in Pos, NEW t, NEW v \in Readings(p), ~Overflows(p, t, v)
  PROVE  /\ CacheAfterCheck(p, t, v) \in Cache
         /\ StaleOK(Started(p), Forgotten(p), CacheAfterCheck(p, t, v))
         /\ CurrentOK(Started(p), Forgotten(p), CacheAfterCheck(p, t, v))
<1> PICK c : c = Started(p)
  OBVIOUS
<1> PICK u : u = Forgotten(p)
  OBVIOUS
<1> PICK S : S = Checked(p, t, v)
  OBVIOUS
<1>1. /\ cache \in Cache /\ DataOK /\ GraphInv
  BY DEF Inv, DataOK, Cache
<1>2. PICK f \in Fresh(c, cache) : v = Reading(c, cache, f)
  BY DEF Readings
<1>3. ~Endless(c, cache, S)
  BY DEF Overflows
<1>4. c \in Contents /\ EdgesOK(c, u) /\ StaleOK(c, u, cache) /\ CurrentOK(c, u, cache)
  BY <1>1, StartFacts
<1>5. CacheAfterCheck(p, t, v) = Refreshed(cache, Need(c, cache, S), Reading(c, cache, f))
  BY <1>2 DEF CacheAfterCheck
<1>. QED BY <1>1, <1>3, <1>4, <1>5, RefreshKeeps

\* The entries of the new formula are those of the other formulas, and one in
\* each cell of refs that exists.
LEMMA RegisteredFacts ==
  ASSUME Inv, NEW p \in Pos, NEW t
  PROVE  /\ Registered(p, t) \in Graph
         /\ \A r, q \in Pos : q # p => Registered(p, t)[r][q] = Forgotten(p)[r][q]
         /\ \A r \in Pos : Registered(p, t)[r][p] =
              IF r \in Refs(t) /\ CellExists(Started(p), r) THEN 1 ELSE 0
<1> PICK u : u = Forgotten(p)
  OBVIOUS
<1> DEFINE refs == {r \in Refs(t) : CellExists(Started(p), r)}
<1>1. u \in Graph /\ \A r \in Pos : u[r][p] = 0
  BY StartFacts DEF Inv
<1>2. Registered(p, t) = Link(u, refs, p)
  BY DEF Registered
<1> HIDE DEF refs
<1>3. /\ Registered(p, t) \in Graph
      /\ \A r, q \in Pos : q # p => Registered(p, t)[r][q] = u[r][q]
      /\ \A r \in Pos : Registered(p, t)[r][p] = IF r \in refs THEN u[r][p] + 1 ELSE u[r][p]
  BY <1>1, <1>2, LinkFacts
<1>. QED BY <1>1, <1>3 DEF refs

\* SetCell with a formula that is parsed and then rejected.
LEMMA RejectKeepsInv ==
  ASSUME Inv, NEW p \in Pos, NEW t, SetCellRejects(p, t)
  PROVE  Inv'
<1>1. /\ content \in Contents /\ DataOK /\ GraphInv
  BY DEF Inv, DataOK, Contents
<1>2. PICK v \in Readings(p) : /\ ~Overflows(p, t, v)
                               /\ cache' = CacheAfterCheck(p, t, v)
  BY DEF SetCellRejects
<1>3. /\ content' = content
      /\ usedBy' = Unlink(Registered(p, t), Refs(t), p)
      /\ GrowToThenCount({p}, content)
  BY DEF SetCellRejects
<1>4. /\ usedBy' \in Graph
      /\ \A r, q \in Pos : usedBy'[r][q] = Forgotten(p)[r][q]
  <2>1. /\ usedBy' \in Graph
        /\ \A r, q \in Pos : q # p => usedBy'[r][q] = Forgotten(p)[r][q]
        /\ \A r \in Pos : usedBy'[r][p] = 0
    BY <1>3, RegisteredFacts, UnlinkFacts
  <2>. QED BY <2>1, <1>1, StartFacts
<1>5. /\ Started(p) \in Contents /\ SameCells(content, Started(p))
      /\ \A r \in Pos : Forgotten(p)[r][p] = 0
      /\ \A r, q \in Pos : q # p => Forgotten(p)[r][q] = usedBy[r][q]
  BY <1>1, StartFacts
<1>6. SameCells(Started(p), content')
  BY <1>3, <1>5 DEF SameCells
<1>7. EdgesOK(content', usedBy')
  BY <1>1, <1>3, <1>4, <1>5 DEF EdgesOK, GraphInv
<1>8. /\ cache' \in Cache
      /\ StaleOK(Started(p), Forgotten(p), cache')
      /\ CurrentOK(Started(p), Forgotten(p), cache')
  BY <1>2, CheckKeeps
<1>9. \A r, q \in Pos : usedBy'[r][q] > 0 => Forgotten(p)[r][q] > 0
  BY <1>4
<1>10. StaleOK(content', usedBy', cache') /\ CurrentOK(content', usedBy', cache')
  BY <1>1, <1>3, <1>5, <1>6, <1>8, <1>9, WeakerGraph
<1>11. DataOK'
  BY <1>1, <1>2, <1>3, <1>4, <1>8, GrowCountType DEF DataOK, Cache, Graph
<1>. QED BY <1>7, <1>10, <1>11 DEF Inv, GraphInv

\* SetCell with a formula that is accepted.
LEMMA FormulaKeepsInv ==
  ASSUME Inv, NEW p \in Pos, NEW t \in Formula, SetCellToFormula(p, t)
  PROVE  Inv'
<1> PICK u : u = Forgotten(p)
  OBVIOUS
<1> PICK w : w = Registered(p, t)
  OBVIOUS
<1> DEFINE missing == {r \in Refs(t) : ~CellExists(Started(p), r)}
<1>1. /\ content \in Contents /\ DataOK /\ GraphInv
  BY DEF Inv, DataOK, Contents
<1>2. PICK v \in Readings(p) :
        /\ ~Overflows(p, t, v)
        /\ cache' = InvalidateCache([Started(p) EXCEPT ![p] = t], w, CacheAfterCheck(p, t, v), p)
  BY DEF SetCellToFormula
<1>3. PICK k : k = CacheAfterCheck(p, t, v)
  OBVIOUS
<1>4. /\ content' = [q \in Pos |-> IF q = p THEN t
                                 ELSE IF q \in Refs(t) /\ content[q] = Absent
                                      THEN EmptyText ELSE content[q]]
      /\ usedBy' = Link(w, missing, p)
      /\ GrowTo({p} \cup Refs(t))
      /\ outcome' = "Ok"
  BY DEF SetCellToFormula
<1>5. /\ k \in Cache /\ StaleOK(Started(p), u, k) /\ CurrentOK(Started(p), u, k)
  BY <1>2, <1>3, CheckKeeps
<1>6. /\ Started(p) \in Contents
      /\ \A q \in Pos : q # p => Started(p)[q] = content[q]
      /\ CellExists(Started(p), p)
      /\ EdgesOK(Started(p), u)
      /\ \A r \in Pos : u[r][p] = 0
  BY <1>1, StartFacts
<1>7. StaleFrom(w, k, p, cache')
  BY <1>2, <1>3, <1>5, InvalidateReach
<1>8. content' \in Contents
  BY <1>1, <1>4 DEF Contents, Content
<1>9. \A q \in Pos : q # p =>
        content'[q] = Started(p)[q] \/ (Started(p)[q] = Absent /\ content'[q] = EmptyText)
  BY <1>4, <1>6
<1>10. /\ w \in Graph
       /\ \A r, q \in Pos : q # p => w[r][q] = u[r][q]
       /\ \A r \in Pos : w[r][p] = IF r \in Refs(t) /\ CellExists(Started(p), r) THEN 1 ELSE 0
  BY RegisteredFacts
<1>11. /\ usedBy' \in Graph
       /\ \A r, q \in Pos : q # p => usedBy'[r][q] = u[r][q]
       /\ \A r \in Pos : usedBy'[r][p] = IF r \in Refs(t) THEN 1 ELSE 0
  <2> HIDE DEF missing
  <2>1. /\ usedBy' \in Graph
        /\ \A r, q \in Pos : q # p => usedBy'[r][q] = w[r][q]
        /\ \A r \in Pos : usedBy'[r][p] = IF r \in missing THEN w[r][p] + 1 ELSE w[r][p]
    BY <1>4, <1>10, LinkFacts
  <2>. QED BY <2>1, <1>10 DEF missing
<1>12. EmptyText # Absent /\ t # Absent
  BY TextAssumption DEF Text
<1>13. EdgesOK(content', usedBy')
  <2> SUFFICES ASSUME NEW r \in Pos, NEW q \in Pos, usedBy'[r][q] > 0
               PROVE  usedBy'[r][q] = 1 /\ CellExists(content', r)
                      /\ r \in GetReferencedCells(content'[q])
    BY DEF EdgesOK
  <2>1. CASE q = p
    BY <2>1, <1>4, <1>11, <1>12 DEF CellExists, GetReferencedCells
  <2>2. CASE q # p
    <3>1. /\ usedBy'[r][q] = 1 /\ CellExists(Started(p), r)
          /\ r \in GetReferencedCells(Started(p)[q])
      BY <2>2, <1>6, <1>11 DEF EdgesOK
    <3>2. CellExists(content', r)
      BY <3>1, <1>4, <1>9, <1>12 DEF CellExists
    <3>3. Started(p)[q] \in Formula
      BY <3>1 DEF GetReferencedCells
    <3>4. content'[q] = Started(p)[q]
      BY <2>2, <3>3, <1>9, TextAssumption DEF Text
    <3>. QED BY <3>1, <3>2, <3>4
  <2>. QED BY <2>1, <2>2
<1>14. \A r, q \in Pos : (q # p /\ usedBy'[r][q] > 0) => u[r][q] > 0 /\ w[r][q] > 0
  BY <1>10, <1>11
<1>15. StaleOK(content', usedBy', cache') /\ CurrentOK(content', usedBy', cache')
  BY <1>5, <1>6, <1>7, <1>8, <1>9, <1>13, <1>14, ResetKeeps
<1>16. DataOK'
  BY <1>1, <1>4, <1>7, <1>8, <1>11, GrowType
     DEF DataOK, Contents, Graph, Cache, StaleFrom
<1>. QED BY <1>13, <1>15, <1>16 DEF Inv, GraphInv

\* ClearCell.
LEMMA ClearKeepsInv ==
  ASSUME Inv, NEW p \in Pos, ClearCell(p)
  PROVE  Inv'
<1> PICK u : u = Unlink(usedBy, GetReferencedCells(content[p]), p)
  OBVIOUS
<1>1. /\ content \in Contents /\ usedBy \in Graph /\ cache \in Cache
      /\ DataOK /\ GraphInv
  BY DEF Inv, DataOK, Contents, Graph, Cache
<1>2. /\ cache' = InvalidateCache(content, usedBy, cache, p)
      /\ content' = [content EXCEPT ![p] = Absent]
      /\ usedBy' = [u EXCEPT ![p] = [q \in Pos |-> 0]]
      /\ GrowToThenCount({}, content')
      /\ outcome' = "Ok"
  BY DEF ClearCell
<1>3. StaleFrom(usedBy, cache, p, cache')
  BY <1>1, <1>2, InvalidateReach
<1>4. /\ u \in Graph
      /\ \A r, q \in Pos : q # p => u[r][q] = usedBy[r][q]
      /\ \A r \in Pos : u[r][p] = IF r \in GetReferencedCells(content[p]) /\ usedBy[r][p] > 0
                                 THEN usedBy[r][p] - 1 ELSE usedBy[r][p]
  BY <1>1, UnlinkFacts
<1>5. \A r \in Pos : u[r][p] = 0
  <2>1. \A r \in Pos : usedBy[r][p] \in Nat
    BY <1>1 DEF Graph
  <2>. QED BY <2>1, <1>1, <1>4 DEF GraphInv, EdgesOK
<1>6. /\ usedBy' \in Graph
      /\ \A r, q \in Pos : usedBy'[r][q] = IF r = p THEN 0 ELSE u[r][q]
  BY <1>2, <1>4 DEF Graph
<1>7. /\ content' \in Contents
      /\ \A q \in Pos : q # p => content'[q] = content[q]
  BY <1>1, <1>2 DEF Contents, Content
<1>8. EdgesOK(content, u)
  BY <1>1, <1>4, <1>5 DEF GraphInv, EdgesOK
<1>9. StaleOK(content, u, cache) /\ CurrentOK(content, u, cache)
  <2>1. \A r, q \in Pos : u[r][q] > 0 => usedBy[r][q] > 0
    BY <1>4, <1>5
  <2>2. SameCells(content, content)
    BY DEF SameCells
  <2>. QED BY <2>1, <2>2, <1>1, WeakerGraph DEF GraphInv
<1>10. EdgesOK(content', usedBy')
  BY <1>5, <1>6, <1>7, <1>8 DEF EdgesOK, CellExists
<1>11. \A r, q \in Pos : (q # p /\ usedBy'[r][q] > 0) => u[r][q] > 0 /\ usedBy[r][q] > 0
  BY <1>4, <1>6
<1>12. StaleOK(content', usedBy', cache') /\ CurrentOK(content', usedBy', cache')
  BY <1>1, <1>3, <1>7, <1>8, <1>9, <1>10, <1>11, ResetKeeps
<1>13. DataOK'
  BY <1>1, <1>2, <1>3, <1>6, <1>7, GrowCountType
     DEF DataOK, Contents, Graph, Cache, StaleFrom
<1>. QED BY <1>10, <1>12, <1>13 DEF Inv, GraphInv

\* GetValue and PrintValues.
LEMMA RecalculateKeepsInv ==
  ASSUME Inv, NEW S, Recalculate(S)
  PROVE  Inv'
<1>1. /\ content \in Contents /\ cache \in Cache
      /\ DataOK /\ GraphInv
  BY DEF Inv, DataOK, Contents, Cache
<1>2. UNCHANGED <<content, usedBy, rowsCount, colsCount>>
  BY DEF Recalculate
<1>3. /\ cache' \in Cache
      /\ StaleOK(content, usedBy, cache') /\ CurrentOK(content, usedBy, cache')
  <2>1. CASE Endless(content, cache, S)
    BY <2>1, <1>1 DEF Recalculate, GraphInv
  <2>2. CASE ~Endless(content, cache, S)
    <3>1. PICK f \in Fresh(content, cache) :
            cache' = Refreshed(cache, Need(content, cache, S), Reading(content, cache, f))
      BY <2>2 DEF Recalculate
    <3>. QED BY <2>2, <3>1, <1>1, RefreshKeeps DEF GraphInv
  <2>. QED BY <2>1, <2>2
<1>. QED BY <1>1, <1>2, <1>3 DEF Inv, DataOK, GraphInv, Cache

\* Every call keeps the invariant.
LEMMA NextInv == Inv /\ [Next]_vars => Inv'
<1> SUFFICES ASSUME Inv, [Next]_vars PROVE Inv'
  OBVIOUS
<1>1. CASE RejectPosition
  BY <1>1 DEF RejectPosition, Inv, DataOK, GraphInv
<1>2. CASE PrintValues
  BY <1>2, RecalculateKeepsInv DEF PrintValues
<1>3. ASSUME NEW p \in Pos, SetCellToSameText(p) PROVE Inv'
  BY <1>3, SameTextKeepsInv
<1>4. ASSUME NEW p \in Pos, ClearCell(p) PROVE Inv'
  BY <1>4, ClearKeepsInv
<1>5. ASSUME NEW p \in Pos, GetValue(p) PROVE Inv'
  BY <1>5, RecalculateKeepsInv DEF GetValue
<1>6. ASSUME NEW p \in Pos, NEW t \in Text, SetCell(p, t) PROVE Inv'
  <2>1. CASE SetCellToText(p, t)
    BY <2>1, TextKeepsInv
  <2>2. CASE SetCellThrows(p, t)
    BY <2>2, ThrowKeepsInv
  <2>3. CASE SetCellOverflows(p, t)
    BY <2>3 DEF SetCellOverflows, Inv, DataOK, GraphInv
  <2>4. CASE SetCellRejects(p, t)
    BY <2>4, RejectKeepsInv
  <2>5. CASE SetCellToFormula(p, t)
    <3>1. t \in Formula
      BY <2>5 DEF SetCellToFormula
    <3>. QED BY <2>5, <3>1, FormulaKeepsInv
  <2>. QED BY <1>6, <2>1, <2>2, <2>3, <2>4, <2>5 DEF SetCell
<1>7. CASE UNCHANGED vars
  BY <1>7 DEF vars, Inv, DataOK, GraphInv
<1>. QED BY <1>1, <1>2, <1>3, <1>4, <1>5, <1>6, <1>7 DEF Next

-----------------------------------------------------------------------------
(* The theorems.                                                           *)

\* Inv is an invariant: types, exact edges, upward closed staleness and current
\* linked caches hold after any sequence of calls.
THEOREM Invariance == Spec => []Inv
<1>1. Init => Inv
  BY InitInv
<1>2. Inv /\ [Next]_vars => Inv'
  BY NextInv
<1>. QED BY <1>1, <1>2, PTL DEF Spec

\* Every call keeps contents, graph, caches, sizes and outcomes in their
\* domains, however long the sequence of calls.
THEOREM TypeCorrect == Spec => []TypeOK
<1>1. Init => outcome \in Outcome
  BY DEF Init, Outcome
<1>2. outcome \in Outcome /\ [Next]_vars => (outcome \in Outcome)'
  BY DEF Outcome, Next, vars, RejectPosition, PrintValues, GetValue, Recalculate, ClearCell,
         SetCellToSameText, SetCell, SetCellToText, SetCellThrows, SetCellOverflows,
         SetCellRejects, SetCellToFormula
<1>3. Inv /\ outcome \in Outcome => TypeOK
  BY DEF Inv, DataOK, TypeOK
<1>. QED BY <1>1, <1>2, <1>3, Invariance, PTL DEF Spec

\* SetCell, ClearUsedGraph and ClearGraph never leave a dangling, duplicate or
\* outdated pointer in a usedBy.
THEOREM NoDanglingEdges == Spec => []EdgesMatchFormulas
<1>1. Inv => EdgesMatchFormulas
  BY Parts DEF Inv, GraphInv
<1>. QED BY <1>1, Invariance, PTL

\* The pruning of InvalidateCache is right: behind an invalid cell there is no
\* valid dependent it would miss.
THEOREM PruningIsRight == Spec => []StaleUpwards
<1>1. Inv => StaleUpwards
  BY Parts DEF Inv, GraphInv
<1>. QED BY <1>1, Invariance, PTL

\* A valid cache that is registered with all it reads is the formula's value.
THEOREM LinkedCachesAreCurrent == Spec => []LinkedCellsAreCurrent
<1>1. Inv => LinkedCellsAreCurrent
  BY Parts DEF Inv, GraphInv
<1>. QED BY <1>1, Invariance, PTL

-----------------------------------------------------------------------------
(* The printable size.                                                     *)

\* CreateCell at each cell of S: the counters cover S and what they covered.
LEMMA GrowCovers ==
  ASSUME DataOK, NEW S \in SUBSET Pos, GrowTo(S), NEW q \in Pos,
         q \in S \/ (q.row < rowsCount /\ q.col < colsCount)
  PROVE  q.row < rowsCount' /\ q.col < colsCount'
<1>1. /\ rowsCount \in Nat /\ colsCount \in Nat
      /\ rowsCount' \in Nat /\ colsCount' \in Nat
      /\ rowsCount <= rowsCount' /\ colsCount <= colsCount'
      /\ \A i \in {r.row : r \in S} : i < rowsCount'
      /\ \A j \in {r.col : r \in S} : j < colsCount'
  BY TableAssumption DEF DataOK, GrowTo, Grown
<1>2. q.row \in Nat /\ q.col \in Nat
  BY TableAssumption DEF Pos, At
<1>. QED BY <1>1, <1>2

\* Every call keeps the counters above every holder.
LEMMA NextCovers ==
  ASSUME Inv, SizeCovers, [Next]_vars
  PROVE  SizeCovers'
<1>1. DataOK
  BY DEF Inv
<1> DEFINE Kept == /\ \A q \in Pos : CellExists(content', q) => CellExists(content, q)
                   /\ rowsCount' = rowsCount /\ colsCount' = colsCount
<1>2. CASE Kept
  BY <1>2 DEF SizeCovers
<1>3. ASSUME NEW S \in SUBSET Pos, GrowTo(S),
             \A q \in Pos : CellExists(content', q) => CellExists(content, q) \/ q \in S
      PROVE  SizeCovers'
  BY <1>1, <1>3, GrowCovers DEF SizeCovers
<1>4. ASSUME NEW S \in SUBSET Pos, GrowToThenCount(S, content'),
             \A q \in Pos : CellExists(content', q) => CellExists(content, q)
      PROVE  SizeCovers'
  <2>1. CASE \A q \in Pos : ~CellExists(content', q)
    BY <2>1 DEF SizeCovers
  <2>2. CASE GrowTo(S)
    BY <1>3, <1>4, <2>2
  <2>. QED BY <1>4, <2>1, <2>2 DEF GrowToThenCount
<1>5. ASSUME NEW p \in Pos, SetCellToSameText(p) PROVE SizeCovers'
  <2>1. \A q \in Pos : CellExists(content', q) => CellExists(content, q) \/ q \in {p}
    BY <1>1, <1>5 DEF SetCellToSameText, Started, Created, CellExists, DataOK
  <2>. QED BY <1>3, <1>5, <2>1 DEF SetCellToSameText
<1>6. ASSUME NEW p \in Pos, ClearCell(p) PROVE SizeCovers'
  <2>1. \A q \in Pos : CellExists(content', q) => CellExists(content, q)
    BY <1>1, <1>6 DEF ClearCell, CellExists, DataOK
  <2>. QED BY <1>4, <1>6, <2>1 DEF ClearCell
<1>7. ASSUME NEW p \in Pos, NEW t, SetCell(p, t) PROVE SizeCovers'
  <2>1. CASE SetCellToText(p, t)
    <3>1. \A q \in Pos : CellExists(content', q) => CellExists(content, q) \/ q \in {p}
      BY <1>1, <2>1 DEF SetCellToText, CellExists, DataOK
    <3>. QED BY <1>3, <2>1, <3>1 DEF SetCellToText
  <2>2. CASE SetCellThrows(p, t)
    <3>1. \A q \in Pos : CellExists(content', q) => CellExists(content, q) \/ q \in {p}
      BY <1>1, <2>2 DEF SetCellThrows, Started, Created, CellExists, DataOK
    <3>. QED BY <1>3, <2>2, <3>1 DEF SetCellThrows
  <2>3. CASE SetCellOverflows(p, t)
    BY <1>2, <2>3 DEF SetCellOverflows
  <2>4. CASE SetCellRejects(p, t)
    BY <1>4, <2>4 DEF SetCellRejects
  <2>5. CASE SetCellToFormula(p, t)
    <3>1. {p} \cup Refs(t) \in SUBSET Pos
      BY <2>5, FormulaAssumption DEF SetCellToFormula
    <3>2. \A q \in Pos : CellExists(content', q) =>
            CellExists(content, q) \/ q \in {p} \cup Refs(t)
      BY <1>1, <2>5 DEF SetCellToFormula, CellExists
    <3>. QED BY <1>3, <2>5, <3>1, <3>2 DEF SetCellToFormula
  <2>. QED BY <1>7, <2>1, <2>2, <2>3, <2>4, <2>5 DEF SetCell
<1>8. ASSUME NEW S, Recalculate(S) PROVE SizeCovers'
  BY <1>2, <1>8 DEF Recalculate
<1>9. CASE RejectPosition \/ UNCHANGED vars
  BY <1>2, <1>9 DEF RejectPosition, vars
<1>. QED BY <1>5, <1>6, <1>7, <1>8, <1>9 DEF Next, PrintValues, GetValue

\* PrintValues and PrintTexts miss no holder.
THEOREM SizeCoversHolders == Spec => []SizeCovers
<1>1. Init => SizeCovers
  BY DEF Init, SizeCovers, CellExists
<1>2. Inv /\ SizeCovers /\ [Next]_vars => SizeCovers'
  BY NextCovers
<1>. QED BY <1>1, <1>2, Invariance, PTL DEF Spec

-----------------------------------------------------------------------------
(* Cycles.                                                                 *)

ReadsOf(c) == [q \in Pos |-> GetReferencedCells(c[q])]

\* Creating a holder changes no reference.
LEMMA StartReads ==
  ASSUME Inv, NEW p \in Pos
  PROVE  ReadsOf(Started(p)) = ReadsOf(content)
<1>1. /\ content \in Contents /\ cache \in Cache
      /\ Started(p) \in Contents /\ SameCells(content, Started(p))
  BY StartFacts DEF Inv, DataOK, Contents, Cache
<1>. QED BY <1>1, SameReading DEF ReadsOf

\* A relation that follows references only has no endless walk unless the
\* formulas form a cycle.
LEMMA CycleOfReads ==
  ASSUME NEW c, NEW T \in SUBSET Pos, NEW next, Cyclic(T, next),
         \A q \in T : next[q] \subseteq GetReferencedCells(c[q])
  PROVE  Cyclic(Pos, ReadsOf(c))
<1>1. PICK X \in SUBSET T : X # {} /\ \A x \in X : next[x] \cap X # {}
  BY DEF Cyclic
<1>2. X \in SUBSET Pos
  OBVIOUS
<1>3. \A x \in X : ReadsOf(c)[x] \cap X # {}
  BY <1>1 DEF ReadsOf
<1>. QED BY <1>1, <1>2, <1>3 DEF Cyclic

\* A refresh that does not end follows a cycle of references.
LEMMA EndlessNeedsCycle ==
  ASSUME NEW c, NEW k, NEW S, Endless(c, k, S)
  PROVE  Cyclic(Pos, ReadsOf(c))
<1> PICK next : next = StaleReads(c, k)
  OBVIOUS
<1>1. Need(c, k, S) \in SUBSET Pos
  BY ClosureInPos DEF Need
<1>2. \A q \in Need(c, k, S) : next[q] \subseteq GetReferencedCells(c[q])
  BY <1>1 DEF StaleReads
<1>3. Cyclic(Need(c, k, S), next)
  BY DEF Endless
<1>. QED BY <1>1, <1>2, <1>3, CycleOfReads

\* CheckDependency follows references only.
LEMMA FollowedReads ==
  ASSUME NEW c, NEW u, NEW v, NEW p, NEW q \in Pos
  PROVE  Followed(c, u, v, p)[q] \subseteq GetReferencedCells(c[q])
BY DEF Followed, GetReferencedCells

\* A CheckDependency that does not end follows a cycle of references.
LEMMA WalkNeedsCycle ==
  ASSUME NEW c, NEW u, NEW v, NEW p, NEW refs,
         Cyclic(Examined(refs, p, Followed(c, u, v, p)), Steps(p, Followed(c, u, v, p)))
  PROVE  Cyclic(Pos, ReadsOf(c))
<1> PICK next : next = Followed(c, u, v, p)
  OBVIOUS
<1> PICK T : T = Examined(refs, p, next)
  OBVIOUS
<1>1. T \in SUBSET Pos
  BY ClosureInPos DEF Examined
<1>2. \A q \in T : Steps(p, next)[q] \subseteq next[q]
  BY <1>1 DEF Steps, LookedAt
<1>3. \A q \in T : Steps(p, next)[q] \subseteq GetReferencedCells(c[q])
  BY <1>1, <1>2, FollowedReads
<1>. QED BY <1>1, <1>3, CycleOfReads

\* Every call that overflows the stack finds the table with a cycle.
LEMMA NextOverflow ==
  ASSUME Inv, OverflowNeedsCycle, [Next]_vars
  PROVE  OverflowNeedsCycle'
<1>1. ASSUME NEW p \in Pos, NEW t, SetCellOverflows(p, t) PROVE OverflowNeedsCycle'
  <2>1. PICK v \in Readings(p) : Overflows(p, t, v)
    BY <1>1 DEF SetCellOverflows
  <2>2. Cyclic(Pos, ReadsOf(Started(p)))
    BY <2>1, EndlessNeedsCycle, WalkNeedsCycle DEF Overflows, Walk
  <2>3. Cyclic(Pos, ReadsOf(content)) /\ content' = content
    BY <1>1, <2>2, StartReads DEF SetCellOverflows
  <2>. QED BY <2>3 DEF OverflowNeedsCycle, ReadsOf
<1>2. ASSUME NEW S, Recalculate(S) PROVE OverflowNeedsCycle'
  BY <1>2, EndlessNeedsCycle DEF Recalculate, OverflowNeedsCycle, ReadsOf
<1>3. CASE outcome' # "StackOverflow"
  BY <1>3 DEF OverflowNeedsCycle
<1>4. CASE UNCHANGED vars
  BY <1>4 DEF vars, OverflowNeedsCycle
<1>5. ASSUME NEW p \in Pos, NEW t, SetCell(p, t) PROVE OverflowNeedsCycle'
  BY <1>1, <1>3, <1>5
     DEF SetCell, SetCellToText, SetCellThrows, SetCellRejects, SetCellToFormula
<1>6. CASE RejectPosition \/ \E p \in Pos : SetCellToSameText(p) \/ ClearCell(p)
  BY <1>3, <1>6 DEF RejectPosition, SetCellToSameText, ClearCell
<1>. QED BY <1>2, <1>4, <1>5, <1>6 DEF Next, PrintValues, GetValue

\* Recalculation and CheckDependency terminate on every table whose formulas
\* form no cycle.
THEOREM OverflowOnlyOnCycles == Spec => []OverflowNeedsCycle
<1>1. Init => OverflowNeedsCycle
  BY DEF Init, OverflowNeedsCycle
<1>2. Inv /\ OverflowNeedsCycle /\ [Next]_vars => OverflowNeedsCycle'
  BY NextOverflow
<1>. QED BY <1>1, <1>2, Invariance, PTL DEF Spec

\* A cell from which the walk comes to p has p among what it leads to.
LEMMA LeadingLeads ==
  ASSUME NEW p \in Pos, NEW next, \A x \in Pos : next[x] \subseteq Pos,
         NEW r \in Leading(p, next)
  PROVE  p \in Closure({r}, next)
<1> DEFINE back == [q \in Pos |-> {x \in Pos : q \in next[x]}]
           leads == {q \in Pos : p \in Closure({q}, next)}
<1>1. {p} \subseteq leads
  BY ClosureContains
<1>2. ASSUME NEW q \in leads, NEW x \in back[q] PROVE x \in leads
  <2>1. x \in Pos /\ q \in Pos /\ q \in next[x]
    BY <1>2
  <2>2. PICK C : C = Closure({x}, next)
    OBVIOUS
  <2>3. C \in SUBSET Pos /\ x \in C
    BY <2>1, <2>2, ClosureContains, ClosureInPos
  <2>4. q \in C
    BY <2>1, <2>2, <2>3, ClosureClosed
  <2>5. \A y \in C : next[y] \subseteq C
    BY <2>2, <2>3, ClosureClosed
  <2>6. Closure({q}, next) \subseteq C
    BY <2>3, <2>4, <2>5, ClosureLeast
  <2>. QED BY <1>2, <2>1, <2>2, <2>6
<1>. QED BY <1>1, <1>2, ClosureLeast DEF Leading

\* A cycle CheckDependency finds is a cycle of references through p.
LEMMA RejectsCycle ==
  ASSUME Inv, NEW p \in Pos, NEW t \in Formula \cup UnplacedFormula, SetCellRejects(p, t),
         outcome' = "CircularDependencyException"
  PROVE  p \in Closure(Refs(t), ReadsOf(content))
<1>1. PICK v \in Readings(p) : CycleFound(Refs(t), p, Walk(p, t, v))
  BY DEF SetCellRejects
<1>2. PICK next : next = Walk(p, t, v)
  OBVIOUS
<1>3. PICK C : C = Closure(Refs(t), ReadsOf(content))
  OBVIOUS
<1>4. Refs(t) \in SUBSET Pos
  BY FormulaAssumption
<1>5. \A q \in Pos : next[q] \subseteq ReadsOf(content)[q]
  BY <1>2, FollowedReads, StartReads DEF Walk, ReadsOf
<1>6. \A q \in Pos : next[q] \subseteq Pos
  BY <1>5, FormulaAssumption DEF ReadsOf, GetReferencedCells
<1>7. PICK r \in Refs(t) : p \in Closure({r}, next)
  BY <1>1, <1>2, <1>6, LeadingLeads DEF CycleFound
<1>8. C \in SUBSET Pos /\ {r} \subseteq C
  BY <1>3, <1>4, ClosureContains, ClosureInPos
<1>9. ASSUME NEW x \in C, NEW y \in next[x] PROVE y \in C
  <2>1. y \in ReadsOf(content)[x]
    BY <1>5, <1>8
  <2>2. y \in Pos
    BY <2>1, <1>8, FormulaAssumption DEF ReadsOf, GetReferencedCells
  <2>. QED BY <2>1, <2>2, <1>3, ClosureClosed
<1>. QED BY <1>7, <1>3, <1>8, <1>9, ClosureLeast

\* CircularDependencyException is thrown only for a formula that would close a
\* cycle.
THEOREM RejectionsAreCycles == Spec => OnlyCyclesAreRejected
<1>1. Inv /\ [Next]_vars =>
        [outcome' = "CircularDependencyException" =>
           \A p \in Pos, t \in Formula \cup UnplacedFormula : SetCellRejects(p, t) =>
             p \in Closure(Refs(t), [q \in Pos |-> GetReferencedCells(content[q])])]_vars
  BY RejectsCycle DEF ReadsOf
<1>. QED BY <1>1, Invariance, PTL DEF Spec, OnlyCyclesAreRejected

-----------------------------------------------------------------------------
(* Changes reach the dependents, rejections change no text.                *)

\* When the caches become n by an invalidation from p, all that depended on p
\* before the call is stale.
LEMMA DependentsStale ==
  ASSUME Inv, NEW p \in Pos, NEW w, NEW k, NEW n, StaleFrom(w, k, p, n),
         \A r, q \in Pos : (q # p /\ usedBy[r][q] > 0) => w[r][q] > 0,
         \A r, q \in Pos : (usedBy[r][q] > 0 /\ q # p /\ r # p /\ content[r] \in Formula
                             /\ k[r] = Stale) => k[q] = Stale
  PROVE  \A d \in Dependents(p) \ {p} : n[d] = Stale
<1> DEFINE next == [q \in Pos |-> {d \in Pos : usedBy[q][d] > 0}]
           X == {d \in Pos : d = p \/ (n[d] = Stale /\ content[d] \in Formula)}
<1>1. EdgesOK(content, usedBy)
  BY DEF Inv, GraphInv
<1>2. ASSUME NEW x \in X, NEW d \in next[x] PROVE d \in X
  <2>1. d \in Pos /\ x \in Pos /\ usedBy[x][d] > 0
    BY <1>2
  <2>2. content[d] \in Formula
    BY <2>1, <1>1 DEF EdgesOK, GetReferencedCells
  <2>3. CASE d = p
    BY <2>1, <2>3
  <2>4. CASE d # p
    <3>1. w[x][d] > 0
      BY <2>1, <2>4
    <3>2. CASE x = p \/ n[x] # k[x]
      BY <2>1, <2>2, <3>1, <3>2 DEF StaleFrom
    <3>3. CASE x # p /\ n[x] = k[x]
      <4>1. k[d] = Stale
        BY <1>2, <2>1, <2>4, <3>3
      <4>. QED BY <2>1, <2>2, <4>1 DEF StaleFrom
    <3>. QED BY <3>2, <3>3
  <2>. QED BY <2>3, <2>4
<1>3. {p} \subseteq X /\ X \in SUBSET Pos
  OBVIOUS
<1>4. Dependents(p) = Closure({p}, next)
  BY DEF Dependents
<1>5. Dependents(p) \subseteq X
  <2> HIDE DEF X, next
  <2>. QED BY <1>2, <1>3, <1>4, ClosureLeast
<1>. QED BY <1>5

\* The action of ChangesReachDependents.
Reaches ==
  \A p \in Pos : content'[p] # Started(p)[p] =>
    \A d \in Dependents(p) \ {p} : cache'[d] = Stale

\* Every call that changes the text of p makes its dependents stale.
LEMMA NextReaches ==
  ASSUME Inv, [Next]_vars
  PROVE  Reaches
<1> SUFFICES ASSUME NEW p \in Pos, content'[p] # Started(p)[p]
             PROVE  \A d \in Dependents(p) \ {p} : cache'[d] = Stale
  BY DEF Reaches
<1>1. /\ content \in Contents /\ usedBy \in Graph /\ cache \in Cache
      /\ DataOK /\ GraphInv
  BY DEF Inv, DataOK, Contents, Graph, Cache
<1>2. Started(p)[p] = IF content[p] = Absent THEN EmptyText ELSE content[p]
  BY <1>1 DEF Started, Created, Contents
<1>3. StaleOK(content, usedBy, cache)
  BY <1>1 DEF GraphInv
<1>4. CASE \A d \in Pos : usedBy[p][d] = 0
  <2> DEFINE next == [q \in Pos |-> {d \in Pos : usedBy[q][d] > 0}]
  <2>1. next[p] = {}
    BY <1>4
  <2>2. Dependents(p) = Closure({p}, next)
    BY DEF Dependents
  <2>3. Dependents(p) \subseteq {p}
    <3>1. {p} \in SUBSET Pos /\ {p} \subseteq {p} /\ \A x \in {p} : next[x] \subseteq {p}
      BY <2>1
    <3> HIDE DEF next
    <3>. QED BY <3>1, <2>2, ClosureLeast
  <2>. QED BY <2>3
<1>5. CASE content[p] = Absent
  BY <1>1, <1>4, <1>5 DEF GraphInv, EdgesOK, CellExists, Graph
<1>6. ASSUME content[p] # Absent, NEW o \in Pos, NEW t, SetCellToText(o, t)
      PROVE  \A d \in Dependents(p) \ {p} : cache'[d] = Stale
  <2>1. o = p
    BY <1>1, <1>2, <1>6 DEF SetCellToText, Contents
  <2>2. StaleFrom(Forgotten(p), cache, p, cache')
    BY <1>1, <1>6, <2>1, InvalidateReach DEF SetCellToText
  <2>3. \A r, q \in Pos : (q # p /\ usedBy[r][q] > 0) => Forgotten(p)[r][q] > 0
    BY <1>1, StartFacts
  <2>4. \A r, q \in Pos : (usedBy[r][q] > 0 /\ content[r] \in Formula /\ cache[r] = Stale)
                          => cache[q] = Stale
    BY <1>3 DEF StaleOK
  <2>. QED BY <2>2, <2>3, <2>4, DependentsStale
<1>7. ASSUME content[p] # Absent, NEW o \in Pos, ClearCell(o)
      PROVE  \A d \in Dependents(p) \ {p} : cache'[d] = Stale
  <2>1. o = p
    BY <1>1, <1>2, <1>7 DEF ClearCell, Contents
  <2>2. StaleFrom(usedBy, cache, p, cache')
    BY <1>1, <1>7, <2>1, InvalidateReach DEF ClearCell
  <2>4. \A r, q \in Pos : (usedBy[r][q] > 0 /\ content[r] \in Formula /\ cache[r] = Stale)
                          => cache[q] = Stale
    BY <1>3 DEF StaleOK
  <2>. QED BY <2>2, <2>4, DependentsStale
<1>8. ASSUME content[p] # Absent, NEW o \in Pos, NEW t \in Formula, SetCellToFormula(o, t)
      PROVE  \A d \in Dependents(p) \ {p} : cache'[d] = Stale
  <2>1. o = p
    BY <1>2, <1>8 DEF SetCellToFormula
  <2>2. PICK v \in Readings(p) :
          /\ ~Overflows(p, t, v)
          /\ cache' = InvalidateCache([Started(p) EXCEPT ![p] = t], Registered(p, t),
                                      CacheAfterCheck(p, t, v), p)
    BY <1>8, <2>1 DEF SetCellToFormula
  <2>3. PICK k : k = CacheAfterCheck(p, t, v)
    OBVIOUS
  <2>4. k \in Cache /\ StaleOK(Started(p), Forgotten(p), k)
    BY <2>2, <2>3, CheckKeeps
  <2>5. StaleFrom(Registered(p, t), k, p, cache')
    BY <2>2, <2>3, <2>4, InvalidateReach
  <2>6. /\ \A q \in Pos : q # p => Started(p)[q] = content[q]
        /\ \A r, q \in Pos : q # p => Forgotten(p)[r][q] = usedBy[r][q]
    BY <1>1, StartFacts
  <2>7. \A r, q \in Pos : (q # p /\ usedBy[r][q] > 0) => Registered(p, t)[r][q] > 0
    BY <2>6, RegisteredFacts
  <2>8. \A r, q \in Pos : (usedBy[r][q] > 0 /\ q # p /\ r # p /\ content[r] \in Formula
                           /\ k[r] = Stale) => k[q] = Stale
    BY <2>4, <2>6 DEF StaleOK
  <2>. QED BY <2>5, <2>7, <2>8, DependentsStale
<1>9. CASE content' = content
  BY <1>2, <1>5, <1>9
<1>10. ASSUME NEW o \in Pos, content' = Started(o)
       PROVE  content'[p] = Started(p)[p] \/ content[p] = Absent
  BY <1>1, <1>2, <1>10 DEF Started, Created, Contents
<1>11. ASSUME NEW o \in Pos, NEW t, SetCell(o, t)
       PROVE  \A d \in Dependents(p) \ {p} : cache'[d] = Stale
  <2>1. CASE SetCellThrows(o, t)
    BY <1>5, <1>10, <2>1 DEF SetCellThrows
  <2>2. CASE SetCellToFormula(o, t)
    BY <1>5, <1>8, <2>2 DEF SetCellToFormula
  <2>3. CASE SetCellRejects(o, t) \/ SetCellOverflows(o, t)
    BY <1>9, <2>3 DEF SetCellRejects, SetCellOverflows
  <2>4. CASE SetCellToText(o, t)
    BY <1>5, <1>6, <2>4
  <2>. QED BY <1>11, <2>1, <2>2, <2>3, <2>4 DEF SetCell
<1>12. ASSUME NEW o \in Pos, SetCellToSameText(o)
       PROVE  \A d \in Dependents(p) \ {p} : cache'[d] = Stale
  BY <1>5, <1>10, <1>12 DEF SetCellToSameText
<1>13. ASSUME NEW S, Recalculate(S)
       PROVE  \A d \in Dependents(p) \ {p} : cache'[d] = Stale
  BY <1>9, <1>13 DEF Recalculate
<1>14. CASE RejectPosition \/ UNCHANGED vars
  BY <1>9, <1>14 DEF RejectPosition, vars
<1>. QED BY <1>5, <1>7, <1>11, <1>12, <1>13, <1>14 DEF Next, PrintValues, GetValue

\* No edit and no ClearCell leaves a registered dependent, at any distance,
\* with the value it had before.
THEOREM ChangesReach == Spec => ChangesReachDependents
<1>1. Inv /\ [Next]_vars =>
        [\A p \in Pos : content'[p] # Started(p)[p] =>
           \A d \in Dependents(p) \ {p} : cache'[d] = Stale]_vars
  BY NextReaches DEF Reaches
<1>. QED BY <1>1, Invariance, PTL DEF Spec, ChangesReachDependents

\* Creating a holder changes no text.
LEMMA StartText ==
  ASSUME DataOK, NEW p \in Pos, NEW q \in Pos
  PROVE  GetText(Started(p)[q]) = GetText(content[q])
BY TextAssumption DEF DataOK, Started, Created, GetText, Text

\* A call that throws keeps the texts.
LEMMA NextKeepsTexts ==
  ASSUME DataOK, [Next]_vars, outcome' # "Ok", NEW q \in Pos
  PROVE  GetText(content'[q]) = GetText(content[q])
<1>1. CASE content' = content
  BY <1>1
<1>2. ASSUME NEW p \in Pos, content' = Started(p)
      PROVE  GetText(content'[q]) = GetText(content[q])
  BY <1>2, StartText
<1>3. ASSUME NEW p \in Pos, NEW t, SetCell(p, t)
      PROVE  GetText(content'[q]) = GetText(content[q])
  BY <1>1, <1>2, <1>3 DEF SetCell, SetCellToText, SetCellThrows, SetCellOverflows,
                         SetCellRejects, SetCellToFormula
<1>4. ASSUME NEW S, Recalculate(S)
      PROVE  GetText(content'[q]) = GetText(content[q])
  BY <1>1, <1>4 DEF Recalculate
<1>5. CASE RejectPosition \/ UNCHANGED vars
  BY <1>1, <1>5 DEF RejectPosition, vars
<1>6. ~ \E p \in Pos : SetCellToSameText(p) \/ ClearCell(p)
  BY DEF SetCellToSameText, ClearCell
<1>. QED BY <1>3, <1>4, <1>5, <1>6 DEF Next, PrintValues, GetValue

\* Whatever a call has done before it throws, every text is what it was.
THEOREM RejectionKeepsTexts == Spec => RejectedKeepsTexts
<1>1. Inv /\ [Next]_vars =>
        [outcome' # "Ok" => \A p \in Pos : GetText(content'[p]) = GetText(content[p])]_vars
  BY NextKeepsTexts DEF Inv
<1>. QED BY <1>1, Invariance, PTL DEF Spec, RejectedKeepsTexts

-----------------------------------------------------------------------------
(* When no call throws and none clears a cell, no registration is missing. *)

AllLinked == \A p, r \in Pos : r \in GetReferencedCells(content[p]) => usedBy[r][p] > 0

\* The plain calls are calls.
LEMMA PlainIsNext == NextPlainCall => Next
BY DEF NextPlainCall, NextWithoutClear, Next

\* Plain calls keep every formula registered with all it reads.
LEMMA PlainKeepsLinked ==
  ASSUME Inv, AllLinked, [NextPlainCall]_vars
  PROVE  AllLinked'
<1>1. /\ content \in Contents /\ DataOK /\ GraphInv
  BY DEF Inv, DataOK, Contents
<1>2. CASE content' = content /\ usedBy' = usedBy
  BY <1>2 DEF AllLinked
<1>3. ASSUME NEW p \in Pos, SetCellToSameText(p) PROVE AllLinked'
  <2>1. content' = Started(p) /\ usedBy' = usedBy
    BY <1>3 DEF SetCellToSameText
  <2>2. ReadsOf(content') = ReadsOf(content)
    BY <2>1, StartReads
  <2>3. \A q \in Pos : GetReferencedCells(content'[q]) = GetReferencedCells(content[q])
    BY <2>2 DEF ReadsOf
  <2>. QED BY <2>1, <2>3 DEF AllLinked
<1>4. ASSUME NEW p \in Pos, NEW t, SetCellToText(p, t) PROVE AllLinked'
  <2>1. /\ content' = [content EXCEPT ![p] = t] /\ usedBy' = Forgotten(p)
        /\ t \notin Formula
    BY <1>4, TextAssumption DEF SetCellToText, Text
  <2>2. \A r, q \in Pos : q # p => usedBy'[r][q] = usedBy[r][q]
    BY <1>1, <2>1, StartFacts
  <2>. QED BY <1>1, <2>1, <2>2 DEF AllLinked, GetReferencedCells, Contents
<1>5. ASSUME NEW p \in Pos, NEW t \in Formula, SetCellToFormula(p, t) PROVE AllLinked'
  <2> DEFINE missing == {r \in Refs(t) : ~CellExists(Started(p), r)}
  <2>1. /\ \A q \in Pos : content'[q] = IF q = p THEN t
                                       ELSE IF q \in Refs(t) /\ content[q] = Absent
                                            THEN EmptyText ELSE content[q]
        /\ usedBy' = Link(Registered(p, t), missing, p)
    BY <1>5 DEF SetCellToFormula
  <2>2. /\ Registered(p, t) \in Graph
        /\ \A r, q \in Pos : q # p => Registered(p, t)[r][q] = usedBy[r][q]
        /\ \A r \in Pos : Registered(p, t)[r][p] =
             IF r \in Refs(t) /\ CellExists(Started(p), r) THEN 1 ELSE 0
    BY <1>1, RegisteredFacts, StartFacts
  <2>3. /\ \A r, q \in Pos : q # p => usedBy'[r][q] = usedBy[r][q]
        /\ \A r \in Pos : r \in Refs(t) => usedBy'[r][p] = 1
    <3> HIDE DEF missing
    <3>1. /\ \A r, q \in Pos : q # p => usedBy'[r][q] = Registered(p, t)[r][q]
          /\ \A r \in Pos : usedBy'[r][p] = IF r \in missing THEN Registered(p, t)[r][p] + 1
                                           ELSE Registered(p, t)[r][p]
      BY <2>1, <2>2, LinkFacts
    <3>. QED BY <2>2, <3>1 DEF missing
  <2>4. EmptyText \notin Formula
    BY TextAssumption DEF Text
  <2>. QED BY <2>1, <2>3, <2>4 DEF AllLinked, GetReferencedCells
<1>6. ASSUME NEW p \in Pos, NEW t, SetCell(p, t), outcome' = "Ok" PROVE AllLinked'
  <2>1. ~SetCellThrows(p, t) /\ ~SetCellOverflows(p, t) /\ ~SetCellRejects(p, t)
    BY <1>6 DEF SetCellThrows, SetCellOverflows, SetCellRejects
  <2>2. SetCellToFormula(p, t) => t \in Formula
    BY DEF SetCellToFormula
  <2>. QED BY <1>4, <1>5, <1>6, <2>1, <2>2 DEF SetCell
<1>7. ASSUME NEW S, Recalculate(S) PROVE AllLinked'
  BY <1>2, <1>7 DEF Recalculate
<1>8. CASE UNCHANGED vars
  BY <1>2, <1>8 DEF vars
<1>. QED BY <1>3, <1>6, <1>7, <1>8
         DEF NextPlainCall, NextWithoutClear, PrintValues, GetValue

\* Without throwing and clearing calls the cache of every formula cell is either
\* marked stale or the value of the formula: GetValue is always right.
THEOREM PlainCallsKeepValues == SpecPlainCalls => []CachedValueIsCurrent
<1>1. Init => Inv /\ AllLinked
  <2>1. Absent \notin Formula
    BY TextAssumption DEF Text
  <2>. QED BY <2>1, InitInv DEF Init, AllLinked, GetReferencedCells
<1>2. Inv /\ AllLinked /\ [NextPlainCall]_vars => Inv' /\ AllLinked'
  BY NextInv, PlainIsNext, PlainKeepsLinked
<1>3. Inv /\ AllLinked => CachedValueIsCurrent
  <2> SUFFICES ASSUME Inv, AllLinked, NEW p \in Pos, content[p] \in Formula, cache[p] # Stale
               PROVE  cache[p] = Apply(content[p], Reading(content, cache, NoFresh))
    BY DEF CachedValueIsCurrent
  <2>1. Refs(content[p]) \subseteq Pos
    BY FormulaAssumption
  <2>2. \A r \in Refs(content[p]) : usedBy[r][p] > 0
    BY <2>1 DEF AllLinked, GetReferencedCells
  <2>. QED BY <2>2 DEF Inv, GraphInv, CurrentOK, HasValue
<1>. QED BY <1>1, <1>2, <1>3, PTL DEF SpecPlainCalls

-----------------------------------------------------------------------------
(* Every step of a sheet is a step of what ISheet promises, or changes     *)
(* neither a text nor an outcome.                                          *)

\* What a stored text reads is what the cell that holds it reads.
LEMMA TextsRead ==
  ASSUME DataOK, NEW q \in Pos
  PROVE  Texts[q] = GetText(content[q]) /\ TextReads(Texts[q]) = ReadsOf(content)[q]
<1>1. content[q] \in Content
  BY DEF DataOK
<1>2. Texts[q] = GetText(content[q])
  BY DEF Texts
<1>. QED BY <1>1, <1>2, TextAssumption
         DEF Content, Text, GetText, TextReads, ReadsOf, GetReferencedCells

\* A step that keeps every text keeps Texts.
LEMMA SameTexts ==
  ASSUME \A q \in Pos : GetText(content'[q]) = GetText(content[q])
  PROVE  Texts' = Texts
BY DEF Texts

\* A step that gives p the text t and keeps the others.
LEMMA OneText ==
  ASSUME NEW p \in Pos, NEW t, GetText(content'[p]) = t,
         \A q \in Pos : q # p => GetText(content'[q]) = GetText(content[q])
  PROVE  Texts' = [Texts EXCEPT ![p] = t]
BY DEF Texts

\* Formulas that read each other in content read each other as texts.
LEMMA CyclicIsCircular ==
  ASSUME DataOK, Cyclic(Pos, ReadsOf(content))
  PROVE  Contract!Circular
<1>1. PICK X \in SUBSET Pos : X # {} /\ \A x \in X : ReadsOf(content)[x] \cap X # {}
  BY DEF Cyclic
<1>2. \A x \in X : TextReads(Texts[x]) \cap X # {}
  BY <1>1, TextsRead
<1>. QED BY <1>1, <1>2 DEF Contract!Circular

\* A formula that CheckDependency refuses closes a cycle of texts.
LEMMA RejectedClosesCycle ==
  ASSUME Inv, NEW p \in Pos, NEW t \in Formula \cup UnplacedFormula, SetCellRejects(p, t),
         outcome' = "CircularDependencyException"
  PROVE  Contract!ClosesCycle(p, t)
<1>1. p \in Closure(Refs(t), ReadsOf(content))
  BY RejectsCycle
<1>2. TextReads(t) = Refs(t)
  BY DEF TextReads
<1> SUFFICES ASSUME NEW X \in SUBSET Pos, Refs(t) \subseteq X,
                    \A x \in X : TextReads(Texts[x]) \subseteq X
             PROVE  p \in X
  BY <1>2 DEF Contract!ClosesCycle, Contract!Closed
<1>3. \A x \in X : ReadsOf(content)[x] \subseteq X
  BY TextsRead DEF Inv
<1>. QED BY <1>1, <1>3, ClosureLeast

\* The abstract step of a call.
Promised == Contract!Next

\* Calls that store a text.
LEMMA StoresPromised ==
  ASSUME DataOK, Running, outcome' = "Ok", NEW p \in Pos, NEW t \in Content \ {Absent},
         Texts' = [Texts EXCEPT ![p] = t]
  PROVE  Promised
<1>1. Contract!SetCell(p, t)
  BY DEF Contract!SetCell, Contract!Usable, Running
<1>. QED BY <1>1 DEF Promised, Contract!Next

\* Calls that fail without a claim on the formulas.
LEMMA RefusalPromised ==
  ASSUME Running, Texts' = Texts,
         outcome' \in {"InvalidPositionException", "FormulaException", "out_of_range"}
  PROVE  Promised
<1>1. Contract!Refuse
  BY DEF Contract!Refuse, Contract!Refusals, Contract!Usable, Running
<1>. QED BY <1>1 DEF Promised, Contract!Next

\* Calls that only read.
LEMMA ReadPromised ==
  ASSUME Running, Texts' = Texts, outcome' = "Ok"
  PROVE  Promised
<1>1. Contract!GetCell
  BY DEF Contract!GetCell, Contract!Usable, Running
<1>. QED BY <1>1 DEF Promised, Contract!Next

\* Calls that overflow the stack.
LEMMA OverflowPromised ==
  ASSUME Inv, OverflowNeedsCycle, [Next]_vars, Running, content' = content,
         outcome' = "StackOverflow"
  PROVE  Promised
<1>1. OverflowNeedsCycle'
  BY NextOverflow
<1>2. Cyclic(Pos, ReadsOf(content))
  BY <1>1 DEF OverflowNeedsCycle, ReadsOf, Cyclic
<1>3. Contract!Circular
  BY <1>2, CyclicIsCircular DEF Inv
<1>4. Texts' = Texts
  BY SameTexts
<1>5. Contract!Overflow
  BY <1>3, <1>4 DEF Contract!Overflow, Contract!Usable, Running
<1>. QED BY <1>5 DEF Promised, Contract!Next

\* SetCell, whatever becomes of it.
LEMMA SetCellPromised ==
  ASSUME Inv, OverflowNeedsCycle, NEW p \in Pos, NEW t \in Text, SetCell(p, t)
  PROVE  Promised
<1>1. DataOK /\ content \in [Pos -> Content] /\ [Next]_vars
  BY DEF Inv, DataOK, Next
<1>2. CASE SetCellToText(p, t)
  <2>1. t \in Content \ {Absent} /\ GetText(t) = t
    BY <1>2, TextAssumption DEF SetCellToText, Content, GetText
  <2>2. content' = [content EXCEPT ![p] = t]
    BY <1>2 DEF SetCellToText
  <2>3. Texts' = [Texts EXCEPT ![p] = t]
    BY <1>1, <2>1, <2>2, OneText
  <2>. QED BY <1>1, <1>2, <2>1, <2>3, StoresPromised DEF SetCellToText
<1>3. CASE SetCellThrows(p, t)
  <2>1. Texts' = Texts
    BY <1>1, <1>3, StartText, SameTexts DEF SetCellThrows
  <2>. QED BY <1>3, <2>1, RefusalPromised DEF SetCellThrows
<1>4. CASE SetCellOverflows(p, t)
  BY <1>1, <1>4, OverflowPromised DEF SetCellOverflows
<1>5. CASE SetCellRejects(p, t)
  <2>1. /\ content' = content /\ Running /\ t \in Formula \cup UnplacedFormula
        /\ outcome' \in {"CircularDependencyException", "FormulaException"}
    BY <1>5 DEF SetCellRejects
  <2>2. Texts' = Texts
    BY <2>1, SameTexts
  <2>3. CASE outcome' = "CircularDependencyException"
    <3>1. Contract!ClosesCycle(p, t)
      BY <1>5, <2>1, <2>3, RejectedClosesCycle
    <3>2. Contract!RefuseCircular(p, t)
      BY <2>1, <2>2, <2>3, <3>1 DEF Contract!RefuseCircular, Contract!Usable, Running
    <3>. QED BY <2>1, <3>2 DEF Promised, Contract!Next
  <2>. QED BY <2>1, <2>2, <2>3, RefusalPromised
<1>6. CASE SetCellToFormula(p, t)
  <2>1. t \in Content \ {Absent} /\ GetText(t) = t
    BY <1>6, TextAssumption DEF SetCellToFormula, Content, GetText, Text
  <2>2. content' = [q \in Pos |-> IF q = p THEN t
                                  ELSE IF q \in Refs(t) /\ content[q] = Absent
                                       THEN EmptyText ELSE content[q]]
    BY <1>6 DEF SetCellToFormula
  <2>3. \A q \in Pos : q # p => GetText(content'[q]) = GetText(content[q])
    BY <2>2 DEF GetText
  <2>4. Texts' = [Texts EXCEPT ![p] = t]
    BY <2>1, <2>2, <2>3, OneText
  <2>. QED BY <1>1, <1>6, <2>1, <2>4, StoresPromised DEF SetCellToFormula
<1>. QED BY <1>2, <1>3, <1>4, <1>5, <1>6 DEF SetCell

\* GetValue and PrintValues.
LEMMA RecalculationPromised ==
  ASSUME Inv, OverflowNeedsCycle, [Next]_vars, NEW S, Recalculate(S)
  PROVE  Promised
<1>1. Running /\ content' = content /\ outcome' \in {"Ok", "StackOverflow"}
  BY DEF Recalculate
<1>2. Texts' = Texts
  BY <1>1, SameTexts
<1>. QED BY <1>1, <1>2, OverflowPromised, ReadPromised

\* Every call.
LEMMA NextPromised ==
  ASSUME Inv, OverflowNeedsCycle, Next
  PROVE  Promised
<1>1. DataOK /\ [Next]_vars
  BY DEF Inv
<1>2. CASE RejectPosition
  <2>1. Texts' = Texts
    BY <1>2, SameTexts DEF RejectPosition
  <2>. QED BY <1>2, <2>1, RefusalPromised DEF RejectPosition
<1>3. CASE PrintValues
  BY <1>1, <1>3, RecalculationPromised DEF PrintValues
<1>4. ASSUME NEW p \in Pos, GetValue(p) PROVE Promised
  BY <1>1, <1>4, RecalculationPromised DEF GetValue
<1>5. ASSUME NEW p \in Pos, SetCellToSameText(p) PROVE Promised
  <2>1. Texts' = Texts
    BY <1>1, <1>5, StartText, SameTexts DEF SetCellToSameText
  <2>. QED BY <1>5, <2>1, ReadPromised DEF SetCellToSameText
<1>6. ASSUME NEW p \in Pos, ClearCell(p) PROVE Promised
  <2>1. content' = [content EXCEPT ![p] = Absent] /\ outcome' = "Ok" /\ Running
    BY <1>6 DEF ClearCell
  <2>2. Texts' = [Texts EXCEPT ![p] = EmptyText]
    BY <1>1, <2>1, OneText DEF GetText, DataOK
  <2>3. EmptyText \in Content \ {Absent}
    BY TextAssumption DEF Content, Text
  <2>. QED BY <1>1, <2>1, <2>2, <2>3, StoresPromised
<1>7. ASSUME NEW p \in Pos, NEW t \in Text, SetCell(p, t) PROVE Promised
  BY <1>7, SetCellPromised
<1>. QED BY <1>2, <1>3, <1>4, <1>5, <1>6, <1>7 DEF Next

\* A sheet does what ISheet promises of its texts: each call changes the text
\* of the cell it names or, failing, none; CircularDependencyException and
\* stack overflow only meet formulas that form a cycle.
THEOREM SheetImplementsContract == Spec => ImplementsContract
<1>1. Init => Contract!Init
  BY DEF Init, Contract!Init, Texts, GetText
<1>2. Inv /\ OverflowNeedsCycle /\ [Next]_vars => [Contract!Next]_<<Texts, outcome>>
  <2>1. UNCHANGED vars => UNCHANGED <<Texts, outcome>>
    BY DEF vars, Texts
  <2>. QED BY <2>1, NextPromised DEF Promised
<1>. QED BY <1>1, <1>2, Invariance, OverflowOnlyOnCycles, PTL
         DEF Spec, ImplementsContract, Contract!Spec

-----------------------------------------------------------------------------
(* Walks along a relation.                                                 *)

\* Any set of natural numbers that is not empty has a least member.
LEMMA LeastNumber ==
  ASSUME NEW T \in SUBSET Nat, T # {}
  PROVE  \E n \in T : \A m \in T : n <= m
<1>1. PICK n \in T : \A m \in T : ~(<<m, n>> \in OpToRel(<, Nat))
  BY NatLessThanWellFounded, WFMin, Zenon
<1>2. \A m \in T : ~(m < n)
  BY <1>1 DEF OpToRel
<1>. QED BY <1>2

Relation == [Pos -> SUBSET Pos]

\* Where a walk has come, everything it reaches from there belongs to it.
LEMMA ClosureWithin ==
  ASSUME NEW next \in Relation, NEW S, NEW x \in Closure(S, next)
  PROVE  Closure({x}, next) \subseteq Closure(S, next)
<1>1. Closure(S, next) \in SUBSET Pos /\ {x} \subseteq Closure(S, next)
  BY ClosureInPos
<1>2. \A y \in Closure(S, next) : next[y] \subseteq Closure(S, next)
  BY <1>1, ClosureClosed DEF Relation
<1>. QED BY <1>1, <1>2, ClosureLeast

\* A walk from q goes on from one of the cells that follow q.
LEMMA ClosureStep ==
  ASSUME NEW next \in Relation, NEW q \in Pos, NEW x \in Closure({q}, next)
  PROVE  x = q \/ \E e \in next[q] : x \in Closure({e}, next)
<1> DEFINE X == {y \in Pos : y = q \/ \E e \in next[q] : y \in Closure({e}, next)}
<1>1. next[q] \in SUBSET Pos
  BY DEF Relation
<1>2. \A e \in next[q] : e \in Closure({e}, next)
  BY <1>1, ClosureContains
<1>3. ASSUME NEW y \in X, NEW z \in next[y] PROVE z \in X
  <2>1. z \in Pos
    BY <1>3 DEF Relation
  <2>2. CASE y = q
    BY <1>2, <1>3, <2>1, <2>2
  <2>3. ASSUME NEW e \in next[q], y \in Closure({e}, next) PROVE z \in X
    <3>1. z \in Closure({e}, next)
      BY <1>3, <2>1, <2>3, ClosureClosed
    <3>. QED BY <2>1, <3>1
  <2>. QED BY <1>3, <2>2, <2>3
<1>4. X \in SUBSET Pos /\ {q} \subseteq X
  OBVIOUS
<1>5. Closure({q}, next) \subseteq X
  <2> HIDE DEF X
  <2>. QED BY <1>3, <1>4, ClosureLeast
<1>. QED BY <1>5

\* A walk that can go on for ever in a part can in the whole.
LEMMA CyclicWhole ==
  ASSUME NEW next, NEW S, NEW T, S \subseteq T, Cyclic(S, next)
  PROVE  Cyclic(T, next)
BY DEF Cyclic

\* It can from each cell of a cycle.
LEMMA CyclicFrom ==
  ASSUME NEW next \in Relation, NEW X \in SUBSET Pos, \A y \in X : next[y] \cap X # {},
         NEW x \in X
  PROVE  Cyclic(Closure({x}, next), next)
<1> DEFINE C == Closure({x}, next)
<1>1. x \in C /\ C \in SUBSET Pos
  BY ClosureContains, ClosureInPos
<1>2. ASSUME NEW y \in X \cap C PROVE next[y] \cap (X \cap C) # {}
  <2>1. PICK z \in next[y] : z \in X
    OBVIOUS
  <2>2. z \in C
    BY <1>2, <2>1, ClosureClosed
  <2>. QED BY <2>1, <2>2
<1>3. X \cap C \in SUBSET C /\ X \cap C # {}
  BY <1>1
<1>. QED BY <1>2, <1>3 DEF Cyclic

\* A walk that ends from all that follow q ends from q.
LEMMA EndsFrom ==
  ASSUME NEW next \in Relation, NEW q \in Pos,
         \A e \in next[q] : ~Cyclic(Closure({e}, next), next)
  PROVE  ~Cyclic(Closure({q}, next), next)
<1> SUFFICES ASSUME NEW X \in SUBSET Closure({q}, next), X # {},
                    \A y \in X : next[y] \cap X # {}
             PROVE  FALSE
  BY DEF Cyclic
<1>1. X \in SUBSET Pos
  BY ClosureInPos
<1>2. ASSUME NEW x \in X, NEW e \in next[q], x \in Closure({e}, next) PROVE FALSE
  <2>1. Cyclic(Closure({x}, next), next)
    BY <1>1, CyclicFrom
  <2>2. Closure({x}, next) \subseteq Closure({e}, next)
    BY <1>2, ClosureWithin
  <2>. QED BY <2>1, <2>2, CyclicWhole
<1>3. X = {q}
  <2>1. \A x \in X : x = q \/ \E e \in next[q] : x \in Closure({e}, next)
    BY ClosureStep
  <2>. QED BY <1>2, <2>1
<1>4. q \in next[q]
  BY <1>3
<1>5. q \in Closure({q}, next)
  BY ClosureContains
<1>. QED BY <1>2, <1>3, <1>4, <1>5

\* A walk that ends wherever it comes ends.
LEMMA EndsEverywhere ==
  ASSUME NEW next \in Relation, NEW S \in SUBSET Pos,
         \A x \in S : ~Cyclic(Closure({x}, next), next)
  PROVE  ~Cyclic(S, next)
<1> SUFFICES ASSUME NEW X \in SUBSET S, X # {}, \A y \in X : next[y] \cap X # {}
             PROVE  FALSE
  BY DEF Cyclic
<1>. QED BY CyclicFrom

-----------------------------------------------------------------------------
(* Which refreshes end, and what they find.                                *)

LEMMA StaleReadsFacts ==
  ASSUME NEW c, NEW k
  PROVE  /\ StaleReads(c, k) \in Relation /\ Invalid(c, k) \in SUBSET Pos
         /\ \A q \in Pos : StaleReads(c, k)[q] = GetReferencedCells(c[q]) \cap Invalid(c, k)
         /\ \A q \in Invalid(c, k) :
              /\ StaleReads(c, k)[q] = Refs(c[q]) \cap Invalid(c, k)
              /\ Need(c, k, {q}) = Closure({q}, StaleReads(c, k))
<1>1. Invalid(c, k) \in SUBSET Pos
  BY DEF Invalid
<1>2. StaleReads(c, k) \in Relation
  BY <1>1 DEF StaleReads, Relation
<1>3. \A q \in Pos : StaleReads(c, k)[q] = GetReferencedCells(c[q]) \cap Invalid(c, k)
  BY DEF StaleReads
<1>4. ASSUME NEW q \in Invalid(c, k)
      PROVE  GetReferencedCells(c[q]) = Refs(c[q]) /\ {q} \cap Invalid(c, k) = {q}
  BY DEF Invalid, GetReferencedCells
<1>. QED BY <1>1, <1>2, <1>3, <1>4 DEF Need

\* What a refresh of S refreshes.
LEMMA NeedParts ==
  ASSUME NEW c, NEW k, NEW S \in SUBSET Pos
  PROVE  /\ Need(c, k, S) \subseteq Invalid(c, k) /\ S \cap Invalid(c, k) \subseteq Need(c, k, S)
         /\ \A q \in Need(c, k, S) : Refs(c[q]) \cap Invalid(c, k) \subseteq Need(c, k, S)
         /\ \A T \in SUBSET Pos :
              /\ S \cap Invalid(c, k) \subseteq T
              /\ \A q \in T : q \in Invalid(c, k) => Refs(c[q]) \cap Invalid(c, k) \subseteq T
              => Need(c, k, S) \subseteq T
<1> DEFINE I == Invalid(c, k)
           next == StaleReads(c, k)
<1>1. /\ I \in SUBSET Pos
      /\ \A q \in I : next[q] = Refs(c[q]) \cap I
  BY StaleReadsFacts
<1>2. Need(c, k, S) = Closure(S \cap I, next) /\ S \cap I \in SUBSET Pos
  BY DEF Need
<1> HIDE DEF next
<1>3. \A q \in I : next[q] \subseteq I
  BY <1>1
<1>4. Need(c, k, S) \subseteq I
  BY <1>1, <1>2, <1>3, ClosureLeast
<1>5. S \cap I \subseteq Need(c, k, S)
  BY <1>2, ClosureContains
<1>6. ASSUME NEW q \in Need(c, k, S), NEW r \in Refs(c[q]) \cap I
      PROVE  r \in Need(c, k, S)
  <2>1. r \in Pos /\ r \in next[q] /\ q \in Closure(S \cap I, next)
    BY <1>1, <1>2, <1>4, <1>6
  <2>. QED BY <1>2, <2>1, ClosureClosed
<1>7. ASSUME NEW T \in SUBSET Pos, S \cap I \subseteq T,
             \A q \in T : q \in I => Refs(c[q]) \cap I \subseteq T
      PROVE  Need(c, k, S) \subseteq T
  <2>1. T \cap I \in SUBSET Pos /\ S \cap I \subseteq T \cap I
    BY <1>7
  <2>2. \A q \in T \cap I : next[q] \subseteq T \cap I
    BY <1>1, <1>7
  <2>3. Closure(S \cap I, next) \subseteq T \cap I
    BY <2>1, <2>2, ClosureLeast
  <2>. QED BY <1>2, <2>3
<1>. QED BY <1>4, <1>5, <1>6, <1>7

\* The refresh of a cell ends when that of each invalid cell it reads does.
LEMMA SolvableStep ==
  ASSUME NEW c, NEW k, NEW q \in Invalid(c, k),
         Refs(c[q]) \cap Invalid(c, k) \subseteq Solvable(c, k)
  PROVE  q \in Solvable(c, k)
<1> DEFINE next == StaleReads(c, k)
<1>1. next \in Relation /\ q \in Pos /\ next[q] = Refs(c[q]) \cap Invalid(c, k)
  BY StaleReadsFacts
<1>2. \A e \in Invalid(c, k) : Endless(c, k, {e}) <=> Cyclic(Closure({e}, next), next)
  BY StaleReadsFacts DEF Endless
<1>3. \A e \in next[q] : ~Cyclic(Closure({e}, next), next)
  BY <1>1, <1>2 DEF Solvable
<1> HIDE DEF next
<1>4. ~Cyclic(Closure({q}, next), next)
  BY <1>1, <1>3, EndsFrom
<1>. QED BY <1>2, <1>4 DEF Solvable

\* What a solvable cell reads is solvable.
LEMMA SolvableReads ==
  ASSUME NEW c, NEW k, NEW q \in Solvable(c, k)
  PROVE  Refs(c[q]) \cap Invalid(c, k) \subseteq Solvable(c, k)
<1>1. q \in Invalid(c, k) /\ ~Endless(c, k, {q}) /\ {q} \in SUBSET Pos
  BY DEF Solvable, Invalid
<1>2. q \in Need(c, k, {q})
  BY <1>1, NeedParts
<1>3. Refs(c[q]) \cap Invalid(c, k) \subseteq Need(c, k, {q})
  BY <1>1, <1>2, NeedParts
<1>. QED BY <1>1, <1>3, NeedFacts

\* A refresh that has only solvable cells to refresh ends.
LEMMA SolvableEnds ==
  ASSUME NEW c, NEW k, NEW S, Need(c, k, S) \subseteq Solvable(c, k)
  PROVE  ~Endless(c, k, S)
<1> DEFINE next == StaleReads(c, k)
<1>1. next \in Relation
  BY StaleReadsFacts
<1>2. \A x \in Solvable(c, k) : x \in Invalid(c, k) /\ ~Endless(c, k, {x})
  BY DEF Solvable
<1>3. \A x \in Need(c, k, S) : ~Cyclic(Closure({x}, next), next)
  BY <1>2, StaleReadsFacts DEF Endless
<1>4. Need(c, k, S) \in SUBSET Pos
  BY <1>2, StaleReadsFacts
<1> HIDE DEF next
<1>5. ~Cyclic(Need(c, k, S), next)
  BY <1>1, <1>3, <1>4, EndsEverywhere
<1>. QED BY <1>5 DEF Endless, next

\* What a formula reads, of a table and some fresh values.
LEMMA ReadingType ==
  ASSUME NEW c \in Contents, NEW k \in Cache, NEW T \in SUBSET Pos, NEW f \in [T -> Value]
  PROVE  /\ Reading(c, k, f) \in [Pos -> Value]
         /\ \A q \in T : Reading(c, k, f)[q] = f[q]
<1>1. \A q \in Pos : c[q] \in Content /\ k[q] \in Value \cup {Stale}
  BY DEF Contents, Cache
<1>. QED BY <1>1, ValueAssumption DEF Reading

\* The values of the formulas of T, from one another's.
Solutions(c, k, T) ==
  {f \in [T -> Value] : \A p \in T : f[p] = Apply(c[p], Reading(c, k, f))}

\* The values of T give one of a formula that reads no other invalid cell.
LEMMA OneMoreValue ==
  ASSUME NEW c \in Contents, NEW k \in Cache, NEW T \in SUBSET Invalid(c, k),
         \A q \in T : Refs(c[q]) \cap Invalid(c, k) \subseteq T,
         NEW f \in Solutions(c, k, T),
         NEW p \in Invalid(c, k), p \notin T, Refs(c[p]) \cap Invalid(c, k) \subseteq T
  PROVE  Solutions(c, k, T \cup {p}) # {}
<1> DEFINE v == Reading(c, k, f)
           g == [q \in T \cup {p} |-> IF q = p THEN Apply(c[p], v) ELSE f[q]]
           w == Reading(c, k, g)
<1>1. Invalid(c, k) \in SUBSET Pos /\ \A q \in Invalid(c, k) : c[q] \in Formula
  BY DEF Invalid
<1>2. T \in SUBSET Pos /\ f \in [T -> Value] /\ \A q \in T : f[q] = Apply(c[q], v)
  BY <1>1 DEF Solutions
<1>3. v \in [Pos -> Value] /\ \A q \in T : v[q] = f[q]
  BY <1>2, ReadingType
<1>4. Apply(c[p], v) \in Value
  BY <1>1, <1>3, FormulaAssumption
<1>5. g \in [T \cup {p} -> Value]
  BY <1>2, <1>4
<1>6. w \in [Pos -> Value] /\ \A q \in T \cup {p} : w[q] = g[q]
  BY <1>1, <1>2, <1>5, ReadingType
<1>7. \A q \in Pos : q \notin Invalid(c, k) => w[q] = v[q]
  BY <1>1, <1>2, <1>5 DEF Reading
<1>8. ASSUME NEW q \in T \cup {p} PROVE g[q] = Apply(c[q], w)
  <2>1. c[q] \in Formula /\ Refs(c[q]) \subseteq Pos /\ Refs(c[q]) \cap Invalid(c, k) \subseteq T
    BY <1>1, FormulaAssumption
  <2>2. \A r \in Refs(c[q]) : v[r] = w[r]
    BY <1>3, <1>6, <1>7, <2>1
  <2>3. Apply(c[q], v) = Apply(c[q], w)
    BY <1>3, <1>6, <2>1, <2>2, SameApply
  <2>. QED BY <1>2, <2>3
<1>9. g \in Solutions(c, k, T \cup {p})
  <2> HIDE DEF w, g
  <2>. QED BY <1>5, <1>8 DEF Solutions, w
<1>. QED BY <1>9

\* Of the cells whose refresh ends and T leaves out, one reads none of them.
LEMMA NextToRefresh ==
  ASSUME NEW c, NEW k, NEW T \in SUBSET Solvable(c, k), T # Solvable(c, k)
  PROVE  \E p \in Solvable(c, k) \ T : Refs(c[p]) \cap Invalid(c, k) \subseteq T
<1> SUFFICES ASSUME \A p \in Solvable(c, k) \ T : ~(Refs(c[p]) \cap Invalid(c, k) \subseteq T)
             PROVE  FALSE
  OBVIOUS
<1> DEFINE X == Solvable(c, k) \ T
           next == StaleReads(c, k)
<1>1. next \in Relation /\ X \in SUBSET Pos /\ X # {} /\ X \subseteq Invalid(c, k)
  BY StaleReadsFacts DEF Solvable
<1>2. ASSUME NEW p \in X PROVE next[p] \cap X # {}
  <2>1. next[p] = Refs(c[p]) \cap Invalid(c, k)
    BY <1>1, <1>2, StaleReadsFacts
  <2>2. Refs(c[p]) \cap Invalid(c, k) \subseteq Solvable(c, k)
    BY <1>2, SolvableReads
  <2>. QED BY <2>1, <2>2
<1>3. PICK x : x \in X
  BY <1>1
<1>4. ~Cyclic(Closure({x}, next), next)
  BY <1>1, <1>3, StaleReadsFacts DEF Solvable, Endless
<1> HIDE DEF next, X
<1>. QED BY <1>1, <1>2, <1>3, <1>4, CyclicFrom

\* The formulas whose refresh ends have values that solve them.
LEMMA FreshExists ==
  ASSUME NEW c \in Contents, NEW k \in Cache
  PROVE  Fresh(c, k) # {}
<1> DEFINE W == Solvable(c, k)
           Solved == {T \in SUBSET W : /\ \A q \in T : Refs(c[q]) \cap Invalid(c, k) \subseteq T
                                      /\ Solutions(c, k, T) # {}}
           Sizes == {Cardinality(W \ T) : T \in Solved}
<1>1. W \in SUBSET Invalid(c, k) /\ W \in SUBSET Pos
  BY DEF Solvable, Invalid
<1>2. \A T \in SUBSET W : IsFiniteSet(W \ T) /\ Cardinality(W \ T) \in Nat
  BY <1>1, PosIsFinite, FS_Subset, FS_CardinalityType
<1>3. {} \in Solved
  <2>1. [q \in {} |-> Zero] \in Solutions(c, k, {})
    BY DEF Solutions
  <2>. QED BY <2>1
<1>4. Sizes \in SUBSET Nat /\ Sizes # {}
  BY <1>2, <1>3
<1>5. PICK n \in Sizes : \A m \in Sizes : n <= m
  <2> HIDE DEF Sizes
  <2>. QED BY <1>4, LeastNumber
<1>6. PICK T \in Solved : n = Cardinality(W \ T)
  BY <1>5
<1>7. CASE T = W
  BY <1>6, <1>7 DEF Fresh, Solutions
<1>8. CASE T # W
  <2>1. PICK p \in W \ T : Refs(c[p]) \cap Invalid(c, k) \subseteq T
    BY <1>8, NextToRefresh
  <2>2. PICK f : f \in Solutions(c, k, T)
    BY <1>6
  <2>3. Solutions(c, k, T \cup {p}) # {}
    BY <1>1, <2>1, <2>2, OneMoreValue
  <2>4. T \cup {p} \in Solved
    BY <2>1, <2>3
  <2>5. Cardinality(W \ (T \cup {p})) = Cardinality(W \ T) - 1
    <3>1. W \ (T \cup {p}) = (W \ T) \ {p}
      OBVIOUS
    <3>2. IsFiniteSet(W \ T) /\ Cardinality(W \ T) \in Nat
      BY <1>2
    <3>3. Cardinality((W \ T) \ {p}) = Cardinality(W \ T) - 1
      <4> HIDE DEF W
      <4>. QED BY <2>1, <3>2, FS_RemoveElement
    <3>. QED BY <3>1, <3>3
  <2>6. Cardinality(W \ (T \cup {p})) \in Sizes
    BY <2>4
  <2>7. n <= Cardinality(W \ (T \cup {p})) /\ n \in Nat
    BY <1>4, <1>5, <2>6
  <2>. QED BY <1>6, <2>5, <2>7
<1>. QED BY <1>7, <1>8
=============================================================================
