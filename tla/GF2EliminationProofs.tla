------------------------- MODULE GF2EliminationProofs -------------------------
(***************************************************************************)
(* Proofs about GF2Elimination for every number of unknowns and equations: *)
(* types, preservation of the solution space, the shape of the matrix,     *)
(* that a system is rejected exactly when it has no solution, and that     *)
(* what is returned is the reduced basis of the solutions.                 *)
(***************************************************************************)
EXTENDS GF2Elimination, GF2Proofs

------------------------------------------------------------------------------
(* The columns, and one row operation *)

LEMMA ColumnsAreFinite ==
  /\ FiniteColumns(Columns)
  /\ Columns \subseteq Nat
  /\ Cardinality(Columns) = VariableCount
<1>1. IsFiniteSet(Columns) /\ Columns \subseteq Nat
  BY EliminationAssumption, FS_Interval DEF Columns
<1>2. Cardinality(Columns) = VariableCount
  <2>1. VariableCount - 1 \in Int /\ VariableCount \in Nat \ {0}
    BY EliminationAssumption
  <2>2. Cardinality(0 .. VariableCount - 1)
          = IF 0 > VariableCount - 1 THEN 0 ELSE (VariableCount - 1) - 0 + 1
    BY <2>1, FS_Interval
  <2> QED BY <2>1, <2>2 DEF Columns
<1> QED BY <1>1, <1>2 DEF FiniteColumns

\* Given that the pivot row holds, adding it changes no other row's meaning.
LEMMA AddingAHoldingRow ==
  ASSUME NEW a \in RowOver(Columns), NEW b \in RowOver(Columns), NEW x \in SUBSET Columns,
         Satisfies(x, b)
  PROVE  /\ AddRows(a, b) \in RowOver(Columns)
         /\ Satisfies(x, AddRows(a, b)) <=> Satisfies(x, a)
<1>1. AddRows(a, b) = RowSum(a, b)
  BY DEF AddRows, RowSum
<1> QED BY <1>1, ColumnsAreFinite, RowSumHolds

------------------------------------------------------------------------------
(* One pivot step *)

\* The step keeps rows rows.
LEMMA PivotStepKeepsRows ==
  ASSUME TypeOK, NEW candidate \in Candidates
  PROVE  /\ pivot_row \in Rows /\ candidate \in Rows
         /\ Swapped(candidate) \in [Rows -> RowOver(Columns)]
         /\ Eliminated(Swapped(candidate)) \in [Rows -> RowOver(Columns)]
<1>1. pivot_row \in Rows /\ candidate \in Rows
  BY EliminationAssumption DEF TypeOK, Candidates, Rows
<1>2. Swapped(candidate) \in [Rows -> RowOver(Columns)]
  BY <1>1 DEF Swapped, TypeOK
<1>3. \A a, b \in RowOver(Columns) : AddRows(a, b) \in RowOver(Columns)
  BY DEF AddRows, RowOver, SymDiff
<1> QED BY <1>1, <1>2, <1>3 DEF Eliminated

\* An assignment satisfies all rows before the step iff it does after it.
LEMMA PivotStepKeepsSolutions ==
  ASSUME TypeOK, NEW candidate \in Candidates, NEW x \in SUBSET Columns
  PROVE  (\A r \in Rows : Satisfies(x, Eliminated(Swapped(candidate))[r]))
           <=> (\A r \in Rows : Satisfies(x, rows[r]))
<1> DEFINE M == Swapped(candidate)
           E == Eliminated(M)
<1>1. /\ pivot_row \in Rows /\ candidate \in Rows
      /\ M \in [Rows -> RowOver(Columns)] /\ E \in [Rows -> RowOver(Columns)]
  BY PivotStepKeepsRows
<1>2. (\A r \in Rows : Satisfies(x, M[r])) <=> (\A r \in Rows : Satisfies(x, rows[r]))
  <2>1. M[pivot_row] = rows[candidate] /\ M[candidate] = rows[pivot_row]
    BY <1>1 DEF Swapped, TypeOK
  <2>2. \A r \in Rows : r # pivot_row /\ r # candidate => M[r] = rows[r]
    BY <1>1 DEF Swapped, TypeOK
  <2> HIDE DEF M
  <2> QED BY <1>1, <2>1, <2>2
<1>3. E[pivot_row] = M[pivot_row]
  BY <1>1 DEF Eliminated
<1>4. ASSUME NEW r \in Rows
      PROVE  E[r] = M[r] \/ E[r] = AddRows(M[r], M[pivot_row])
  BY <1>1 DEF Eliminated
<1> HIDE DEF M, E
<1>5. ASSUME Satisfies(x, M[pivot_row])
      PROVE  \A r \in Rows : Satisfies(x, E[r]) <=> Satisfies(x, M[r])
  BY <1>1, <1>4, <1>5, AddingAHoldingRow
<1>6. (\A r \in Rows : Satisfies(x, E[r])) <=> (\A r \in Rows : Satisfies(x, M[r]))
  BY <1>1, <1>3, <1>5
<1> QED BY <1>2, <1>6 DEF M, E

------------------------------------------------------------------------------
(* Type correctness *)

\* Rows stay rows over the declared columns with bits on their right, and the
\* pivot cursor never runs past the rows or past the columns visited.
THEOREM TypeCorrect == Spec => []TypeOK
<1>1. Init => TypeOK
  <2> SUFFICES ASSUME Init PROVE TypeOK
    OBVIOUS
  <2>1. \A r \in Rows : EffectiveRhs(equations[r]) \in 0 .. 1
    <3>1. ASSUME NEW r \in Rows PROVE EffectiveRhs(equations[r]) \in 0 .. 1
      <4>1. equations[r].source_rhs \in Nat /\ equations[r].fixed_ones \in Nat
        BY EliminationAssumption DEF Init, EquationType
      <4> QED BY <4>1 DEF EffectiveRhs
    <3> QED BY <3>1
  <2>2. rows \in [Rows -> RowOver(Columns)]
    BY <2>1 DEF Init, EquationType, RowOver
  <2> QED BY <2>2, EliminationAssumption DEF Init, TypeOK
<1>2. TypeOK /\ [Next]_vars => TypeOK'
  <2> SUFFICES ASSUME TypeOK, [Next]_vars PROVE TypeOK'
    OBVIOUS
  <2> USE EliminationAssumption
  <2>1. CASE SkipColumn
    BY <2>1 DEF SkipColumn, TypeOK, Columns
  <2>2. CASE PivotColumn
    <3>1. PICK candidate \in Candidates : rows' = Eliminated(Swapped(candidate))
      BY <2>2 DEF PivotColumn
    <3>2. rows' \in [Rows -> RowOver(Columns)] /\ pivot_row \in Rows
      BY <3>1, PivotStepKeepsRows
    <3> QED BY <2>2, <3>2 DEF PivotColumn, TypeOK, Columns, Rows
  <2>3. CASE Reject
    BY <2>3 DEF Reject, TypeOK
  <2>4. CASE Return
    BY <2>4 DEF Return, TypeOK
  <2>5. CASE UNCHANGED vars
    BY <2>5 DEF vars, TypeOK
  <2> QED BY <2>1, <2>2, <2>3, <2>4, <2>5 DEF Next
<1> QED BY <1>1, <1>2, PTL DEF Spec

------------------------------------------------------------------------------
(* The solution space *)

\* The elimination neither loses nor invents a solution: at every step the
\* rows have exactly the solutions of the equations it was given.
THEOREM SolutionsArePreserved == Spec => []SolutionsPreserved
<1>1. Init => SolutionsPreserved
  <2> SUFFICES ASSUME Init PROVE SolutionsPreserved
    OBVIOUS
  <2>1. ASSUME NEW x \in SUBSET Columns, NEW r \in Rows
        PROVE  Satisfies(x, rows[r]) <=> SolvesSource(x, equations[r])
    <3> DEFINE n == Cardinality(equations[r].variable_indices \cap x)
               s == equations[r].source_rhs
               f == equations[r].fixed_ones
    <3>1. n \in Nat /\ s \in 0 .. 1 /\ f \in Nat
      <4>1. equations[r] \in EquationType
        BY DEF Init
      <4>2. equations[r].variable_indices \cap x \in SUBSET Columns
        BY <4>1 DEF EquationType
      <4>3. n \in Nat
        BY <4>2, ColumnsAreFinite, FS_Subset, FS_CardinalityType DEF FiniteColumns
      <4> QED BY <4>1, <4>3, EliminationAssumption DEF EquationType
    <3>2. Satisfies(x, rows[r]) <=> n % 2 = (s + f) % 2
      BY DEF Init, Satisfies, Parity, EffectiveRhs
    <3>3. SolvesSource(x, equations[r]) <=> (n + f) % 2 = s
      BY DEF SolvesSource
    <3> HIDE DEF n, s, f
    <3>4. n % 2 = (s + f) % 2 <=> (n + f) % 2 = s
      BY <3>1
    <3> QED BY <3>2, <3>3, <3>4
  <2>2. DOMAIN rows = Rows
    BY DEF Init
  <2> QED BY <2>1, <2>2 DEF SolutionsPreserved, Solutions, SourceSolutions
<1>2. TypeOK /\ SolutionsPreserved /\ [Next]_vars => SolutionsPreserved'
  <2> SUFFICES ASSUME TypeOK, SolutionsPreserved, [Next]_vars PROVE SolutionsPreserved'
    OBVIOUS
  <2>1. CASE PivotColumn
    <3>1. PICK candidate \in Candidates : rows' = Eliminated(Swapped(candidate))
      BY <2>1 DEF PivotColumn
    <3>2. DOMAIN rows' = Rows /\ DOMAIN rows = Rows
      BY <3>1, PivotStepKeepsRows DEF TypeOK
    <3>3. Solutions(rows', Columns) = Solutions(rows, Columns)
      BY <3>1, <3>2, PivotStepKeepsSolutions DEF Solutions
    <3>4. SourceSolutions' = SourceSolutions
      BY <2>1 DEF PivotColumn, SourceSolutions
    <3> QED BY <3>3, <3>4 DEF SolutionsPreserved
  <2>2. CASE SkipColumn \/ Reject \/ Return \/ UNCHANGED vars
    <3>1. UNCHANGED <<rows, equations>>
      BY <2>2 DEF SkipColumn, Reject, Return, vars
    <3> QED BY <3>1 DEF SolutionsPreserved, SourceSolutions, Solutions
  <2> QED BY <2>1, <2>2 DEF Next
<1> QED BY <1>1, <1>2, TypeCorrect, PTL DEF Spec

------------------------------------------------------------------------------
(* The shape of the matrix *)

\* The pivots are columns and lie lowest in their rows, which is what makes
\* adding a later pivot row leave an earlier pivot where it is.
PivotsAreLowest ==
  \A r \in Rows : r < pivot_row => IsLowest(Pivot(r), rows[r].mask)

Echelon == PivotsAreLowest /\ ReducedSoFar

LEMMA LowestColumnIsUnique ==
  ASSUME NEW mask \in SUBSET Columns, NEW c, IsLowest(c, mask)
  PROVE  LowestColumn(mask) = c /\ c \in Columns
<1>1. \A d \in mask : IsLowest(d, mask) => d = c
  BY ColumnsAreFinite DEF IsLowest
<1> QED BY <1>1 DEF LowestColumn, IsLowest

\* What a pivot step does to each row, relative to the rows before it.
LEMMA PivotStepOnRows ==
  ASSUME TypeOK, Echelon, column \in Columns, NEW candidate \in Candidates,
         NEW M, M = Swapped(candidate), NEW E, E = Eliminated(M)
  PROVE  /\ IsLowest(column, M[pivot_row].mask)
         /\ E[pivot_row].mask = M[pivot_row].mask
         /\ \A r \in Rows : r < pivot_row =>
              /\ M[r] = rows[r]
              /\ \A q \in Rows : q # r => Pivot(r) \notin M[q].mask
         /\ \A r \in Rows : r >= pivot_row => \A d \in M[r].mask : column <= d
         /\ \A r \in Rows : r # pivot_row =>
              /\ column \notin E[r].mask
              /\ \/ E[r].mask = M[r].mask
                 \/ E[r].mask = SymDiff(M[r].mask, M[pivot_row].mask)
<1>1. /\ pivot_row \in Rows /\ candidate \in Rows /\ pivot_row <= candidate
      /\ M \in [Rows -> RowOver(Columns)] /\ E \in [Rows -> RowOver(Columns)]
      /\ column \in rows[candidate].mask
  BY PivotStepKeepsRows, EliminationAssumption DEF Candidates, TypeOK
<1>2. M[pivot_row] = rows[candidate] /\ M[candidate] = rows[pivot_row]
  BY <1>1 DEF Swapped, TypeOK
<1>3. \A r \in Rows : r # pivot_row /\ r # candidate => M[r] = rows[r]
  BY <1>1 DEF Swapped, TypeOK
<1>4. Rows \subseteq Int /\ pivot_row \in Int
  BY EliminationAssumption DEF Rows, TypeOK
<1>5. \A r \in Rows : r >= pivot_row => \A d \in M[r].mask : column <= d
  BY <1>1, <1>2, <1>3, <1>4, ColumnsAreFinite DEF Echelon, ReducedSoFar
<1>6. IsLowest(column, M[pivot_row].mask)
  BY <1>1, <1>2, <1>4, <1>5 DEF IsLowest
<1>7. ASSUME NEW r \in Rows, r < pivot_row
      PROVE  M[r] = rows[r] /\ \A q \in Rows : q # r => Pivot(r) \notin M[q].mask
  <2>1. r # pivot_row /\ r # candidate
    BY <1>1, <1>4, <1>7
  <2>2. M[r] = rows[r]
    BY <2>1, <1>3
  <2>3. \A q \in Rows : q # r => Pivot(r) \notin rows[q].mask
    BY <1>7 DEF Echelon, ReducedSoFar
  <2> QED BY <1>1, <1>2, <1>3, <2>1, <2>2, <2>3
<1>8. E[pivot_row].mask = M[pivot_row].mask
  BY <1>1 DEF Eliminated
<1>9. ASSUME NEW r \in Rows, r # pivot_row
      PROVE  /\ column \notin E[r].mask
             /\ \/ E[r].mask = M[r].mask
                \/ E[r].mask = SymDiff(M[r].mask, M[pivot_row].mask)
  <2>1. CASE column \in M[r].mask
    <3>1. E[r].mask = SymDiff(M[r].mask, M[pivot_row].mask)
      BY <1>1, <1>9, <2>1 DEF Eliminated, AddRows
    <3> QED BY <3>1, <2>1, <1>6 DEF SymDiff, IsLowest
  <2>2. CASE column \notin M[r].mask
    BY <1>1, <1>9, <2>2 DEF Eliminated
  <2> QED BY <2>1, <2>2
<1> QED BY <1>5, <1>6, <1>7, <1>8, <1>9

\* One pivot step extends the echelon shape by a row and a column.
LEMMA PivotStepKeepsEchelon ==
  ASSUME TypeOK, Echelon, PivotColumn
  PROVE  Echelon'
<1> USE EliminationAssumption
<1> PICK candidate \in Candidates : rows' = Eliminated(Swapped(candidate))
  BY DEF PivotColumn
<1> DEFINE p == pivot_row
           M == Swapped(candidate)
           E == Eliminated(M)
<1>0. column \in Columns /\ column \in Int
  BY DEF PivotColumn, Columns
<1>1. rows' = E /\ pivot_row' = p + 1 /\ column' = column + 1
  BY DEF PivotColumn
<1>2. /\ p \in Rows /\ M \in [Rows -> RowOver(Columns)] /\ E \in [Rows -> RowOver(Columns)]
      /\ Rows \subseteq Int /\ p \in Int
  BY PivotStepKeepsRows DEF Rows, TypeOK
<1>3. /\ IsLowest(column, M[p].mask)
      /\ E[p].mask = M[p].mask
      /\ \A r \in Rows : r < p =>
           /\ M[r] = rows[r]
           /\ \A q \in Rows : q # r => Pivot(r) \notin M[q].mask
      /\ \A r \in Rows : r >= p => \A d \in M[r].mask : column <= d
      /\ \A r \in Rows : r # p =>
           /\ column \notin E[r].mask
           /\ E[r].mask = M[r].mask \/ E[r].mask = SymDiff(M[r].mask, M[p].mask)
  BY <1>0, PivotStepOnRows
<1> HIDE DEF M, E, p
<1>4. \A r \in Rows : M[r].mask \in SUBSET Columns /\ E[r].mask \in SUBSET Columns
  BY <1>2 DEF RowOver
<1>5. /\ Columns \subseteq Int
      /\ \A r \in Rows : (\A d \in M[r].mask : d \in Int) /\ (\A d \in E[r].mask : d \in Int)
  BY <1>4 DEF Columns
<1>6. LowestColumn(E[p].mask) = column /\ IsLowest(column, E[p].mask)
  BY <1>2, <1>3, <1>4, LowestColumnIsUnique
<1>7. ASSUME NEW r \in Rows, r < p
      PROVE  /\ IsLowest(Pivot(r), E[r].mask)
             /\ LowestColumn(E[r].mask) = Pivot(r)
             /\ Pivot(r) \in Columns /\ Pivot(r) < column
  <2>1. IsLowest(Pivot(r), rows[r].mask) /\ Pivot(r) < column
    BY <1>7 DEF Echelon, PivotsAreLowest, ReducedSoFar, p
  <2>2. M[r].mask = rows[r].mask /\ Pivot(r) \in M[r].mask /\ Pivot(r) \in Columns
    BY <1>3, <1>4, <1>7, <2>1 DEF IsLowest
  <2>3. r # p /\ Pivot(r) \notin M[p].mask
    BY <1>2, <1>3, <1>7
  <2>4. \A d \in M[p].mask : Pivot(r) <= d
    <3>1. Pivot(r) \in Int /\ \A d \in M[p].mask : d \in Int /\ column <= d
      BY <1>2, <1>3, <1>5, <2>2 DEF IsLowest
    <3> QED BY <3>1, <2>1, <1>0
  <2>5. IsLowest(Pivot(r), E[r].mask)
    BY <1>3, <2>1, <2>2, <2>3, <2>4 DEF IsLowest, SymDiff
  <2> QED BY <2>1, <2>2, <2>5, <1>4, LowestColumnIsUnique
<1>8. ASSUME NEW r \in Rows, r < p, NEW q \in Rows, q # r
      PROVE  Pivot(r) \notin E[q].mask
  <2>1. Pivot(r) \notin M[q].mask /\ Pivot(r) \notin M[p].mask
    BY <1>2, <1>3, <1>8
  <2> QED BY <1>3, <2>1 DEF SymDiff
<1>9. ASSUME NEW r \in Rows, r > p, NEW d \in E[r].mask
      PROVE  column + 1 <= d
  <2>1. r # p /\ d \in M[r].mask \cup M[p].mask /\ d # column
    BY <1>2, <1>3, <1>9 DEF SymDiff
  <2>2. column <= d
    BY <1>2, <1>3, <1>9, <2>1
  <2>3. d \in Int
    BY <1>5, <1>9
  <2> QED BY <1>0, <2>1, <2>2, <2>3
<1>10. \A r \in Rows : Pivot(r)' = LowestColumn(E[r].mask)
  BY <1>1 DEF Pivot
<1>11. PivotsAreLowest'
  <2> SUFFICES ASSUME NEW r \in Rows, r < p + 1 PROVE IsLowest(LowestColumn(E[r].mask), E[r].mask)
    BY <1>1, <1>10 DEF PivotsAreLowest, Rows
  <2>1. CASE r = p
    BY <2>1, <1>6
  <2>2. CASE r < p
    BY <2>2, <1>7
  <2> QED BY <1>2, <2>1, <2>2
<1>12. ASSUME NEW r \in Rows, r < p + 1
       PROVE  /\ E[r].mask # {}
              /\ LowestColumn(E[r].mask) < column + 1
              /\ \A q \in Rows : q # r => LowestColumn(E[r].mask) \notin E[q].mask
              /\ \A q \in Rows : q < r => LowestColumn(E[q].mask) < LowestColumn(E[r].mask)
  <2>1. CASE r = p
    <3>1. \A q \in Rows : q < r => LowestColumn(E[q].mask) < column
      BY <2>1, <1>7
    <3>2. E[r].mask # {} /\ \A q \in Rows : q # r => column \notin E[q].mask
      BY <2>1, <1>3, <1>6 DEF IsLowest
    <3> QED BY <2>1, <3>1, <3>2, <1>6, <1>0
  <2>2. CASE r < p
    <3>1. E[r].mask # {} /\ LowestColumn(E[r].mask) = Pivot(r)
      BY <2>2, <1>7 DEF IsLowest
    <3>2. Pivot(r) < column + 1
      <4>1. Pivot(r) \in Int /\ Pivot(r) < column
        BY <2>2, <1>7, <1>5
      <4> QED BY <4>1, <1>0
    <3>3. \A q \in Rows : q < r => LowestColumn(E[q].mask) < Pivot(r)
      <4>1. ASSUME NEW q \in Rows, q < r PROVE LowestColumn(E[q].mask) < Pivot(r)
        <5>1. q < p
          BY <1>2, <2>2, <4>1
        <5>2. LowestColumn(E[q].mask) = Pivot(q)
          BY <5>1, <1>7
        <5>3. Pivot(q) < Pivot(r)
          BY <2>2, <4>1 DEF Echelon, ReducedSoFar, p
        <5> QED BY <5>2, <5>3
      <4> QED BY <4>1
    <3> QED BY <3>1, <3>2, <3>3, <2>2, <1>8
  <2> QED BY <1>2, <1>12, <2>1, <2>2
<1>13. ReducedSoFar'
  <2>1. \A r \in Rows : r >= p + 1 => \A d \in E[r].mask : d >= column + 1
    <3>1. ASSUME NEW r \in Rows, r >= p + 1, NEW d \in E[r].mask
          PROVE  d >= column + 1
      <4>1. r > p
        BY <1>2, <3>1
      <4>2. column + 1 <= d
        BY <4>1, <3>1, <1>9
      <4> QED BY <4>2, <3>1, <1>0, <1>5
    <3> QED BY <3>1
  <2> QED BY <1>1, <1>10, <1>12, <2>1 DEF ReducedSoFar, Rows
<1> QED BY <1>11, <1>13 DEF Echelon

\* After each column the matrix is reduced on the columns visited so far.
THEOREM MatrixIsReduced == Spec => []Echelon
<1>1. Init => Echelon
  BY EliminationAssumption DEF Init, EquationType, Echelon, PivotsAreLowest, ReducedSoFar, Rows,
                               Columns
<1>2. TypeOK /\ Echelon /\ [Next]_vars => Echelon'
  <2> SUFFICES ASSUME TypeOK, Echelon, [Next]_vars PROVE Echelon'
    OBVIOUS
  <2>1. CASE SkipColumn
    <3>1. UNCHANGED <<rows, pivot_row>> /\ column' = column + 1 /\ Candidates = {}
      BY <2>1 DEF SkipColumn
    <3>2. \A r \in Rows : r >= pivot_row => column \notin rows[r].mask
      BY <3>1, EliminationAssumption DEF Candidates, Rows, TypeOK
    <3>3. \A r \in Rows : rows[r].mask \in SUBSET Int
      BY EliminationAssumption DEF TypeOK, RowOver, Columns
    <3>4. \A r \in Rows : r >= pivot_row => \A c \in rows[r].mask : c >= column + 1
      BY <3>2, <3>3 DEF Echelon, ReducedSoFar, TypeOK
    <3>5. \A r \in Rows : r < pivot_row => Pivot(r) \in Int
      BY <3>3 DEF Echelon, PivotsAreLowest, IsLowest
    <3>6. \A r \in Rows : r < pivot_row => Pivot(r) < column + 1
      BY <3>5 DEF Echelon, ReducedSoFar, TypeOK
    <3>7. \A r \in Rows : Pivot(r)' = Pivot(r)
      BY <3>1 DEF Pivot
    <3>8. PivotsAreLowest'
      BY <3>1, <3>7 DEF Echelon, PivotsAreLowest, Rows
    <3>9. ReducedSoFar'
      BY <3>1, <3>4, <3>6, <3>7 DEF Echelon, ReducedSoFar, Rows
    <3> QED BY <3>8, <3>9 DEF Echelon
  <2>2. CASE PivotColumn
    BY <2>2, PivotStepKeepsEchelon
  <2>3. CASE Reject \/ Return \/ UNCHANGED vars
    <3>1. UNCHANGED <<rows, pivot_row, column>>
      BY <2>3 DEF Reject, Return, vars
    <3>2. \A r \in Rows : Pivot(r)' = Pivot(r)
      BY <3>1 DEF Pivot
    <3> QED BY <3>1, <3>2 DEF Echelon, PivotsAreLowest, ReducedSoFar, Rows
  <2> QED BY <2>1, <2>2, <2>3 DEF Next
<1> QED BY <1>1, <1>2, TypeCorrect, PTL DEF Spec

\* The part of the above that the runs check.
THEOREM ReducedAsItGoes == Spec => []ReducedSoFar
<1>1. Echelon => ReducedSoFar
  BY DEF Echelon
<1> QED BY <1>1, MatrixIsReduced, PTL

------------------------------------------------------------------------------
(* The verdict *)

VerdictInv ==
  /\ outcome = "inconsistent" => Contradiction
  /\ outcome = "returned" => column = VariableCount /\ ~Contradiction

LEMMA VerdictIsInvariant == Spec => []VerdictInv
<1>1. Init => VerdictInv
  BY DEF Init, VerdictInv
<1>2. VerdictInv /\ [Next]_vars => VerdictInv'
  BY DEF VerdictInv, Contradiction, Next, SkipColumn, PivotColumn, Reject, Return, vars
<1> QED BY <1>1, <1>2, PTL DEF Spec

\* A row without columns and with right-hand side 1 holds of no assignment.
LEMMA ContradictionHasNoSolution ==
  ASSUME TypeOK, Contradiction
  PROVE  Solutions(rows, Columns) = {}
<1> PICK r \in Rows : rows[r].mask = {} /\ rows[r].rhs = 1
  BY DEF Contradiction
<1>1. \A x : Parity(rows[r].mask \cap x) = 0
  <2>1. \A x : rows[r].mask \cap x = {}
    OBVIOUS
  <2> QED BY <2>1, FS_EmptySet DEF Parity
<1> QED BY <1>1 DEF Solutions, Satisfies, TypeOK

\* Once all columns are visited and no row is contradictory, setting exactly
\* the pivots of the rows with right-hand side 1 solves every row.
LEMMA ReducedMatrixHasASolution ==
  ASSUME TypeOK, Echelon, column = VariableCount, ~Contradiction
  PROVE  Solutions(rows, Columns) # {}
<1> DEFINE x == {Pivot(r) : r \in {q \in Rows : q < pivot_row /\ rows[q].rhs = 1}}
<1>1. \A r \in Rows : rows[r].mask \in SUBSET Columns /\ rows[r].rhs \in 0 .. 1
  BY DEF TypeOK, RowOver
<1>2. \A r \in Rows : r < pivot_row => Pivot(r) \in rows[r].mask
  BY DEF Echelon, PivotsAreLowest, IsLowest
<1>3. x \in SUBSET Columns
  BY <1>1, <1>2
<1>4. ASSUME NEW r \in Rows, r < pivot_row, rows[r].rhs = 1
      PROVE  Satisfies(x, rows[r])
  <2>1. rows[r].mask \cap x = {Pivot(r)}
    <3>1. Pivot(r) \in x /\ Pivot(r) \in rows[r].mask
      BY <1>2, <1>4
    <3>2. ASSUME NEW q \in Rows, q < pivot_row, Pivot(q) \in rows[r].mask
          PROVE  q = r
      BY <3>2 DEF Echelon, ReducedSoFar
    <3> QED BY <3>1, <3>2
  <2>2. Parity({Pivot(r)}) = 1
    <3>1. Cardinality({Pivot(r)}) = 1
      BY FS_Singleton
    <3> HIDE DEF Pivot
    <3> QED BY <3>1 DEF Parity
  <2> QED BY <1>4, <2>1, <2>2 DEF Satisfies
<1>5. Parity({}) = 0
  BY FS_EmptySet DEF Parity
<1>6. ASSUME NEW r \in Rows, r < pivot_row, rows[r].rhs # 1
      PROVE  Satisfies(x, rows[r])
  <2>1. rows[r].rhs = 0
    BY <1>1, <1>6
  <2>2. rows[r].mask \cap x = {}
    <3>1. ASSUME NEW q \in Rows, q < pivot_row, rows[q].rhs = 1, Pivot(q) \in rows[r].mask
          PROVE  FALSE
      <4>1. q # r
        BY <1>6, <3>1
      <4> QED BY <3>1, <4>1 DEF Echelon, ReducedSoFar
    <3> QED BY <3>1
  <2> QED BY <1>5, <2>1, <2>2 DEF Satisfies
<1>7. ASSUME NEW r \in Rows, r >= pivot_row
      PROVE  Satisfies(x, rows[r])
  <2>1. rows[r].mask = {}
    <3>1. \A c \in rows[r].mask : c >= VariableCount
      BY <1>7 DEF Echelon, ReducedSoFar
    <3>2. \A c \in Columns : ~(c >= VariableCount)
      BY EliminationAssumption DEF Columns
    <3> QED BY <1>1, <3>1, <3>2
  <2>2. rows[r].rhs = 0
    BY <1>1, <2>1 DEF Contradiction
  <2>3. rows[r].mask \cap x = {}
    BY <2>1
  <2> QED BY <1>5, <2>2, <2>3 DEF Satisfies
<1>8. \A r \in Rows : r < pivot_row \/ r >= pivot_row
  BY EliminationAssumption DEF Rows, TypeOK
<1>9. \A r \in Rows : Satisfies(x, rows[r])
  BY <1>4, <1>6, <1>7, <1>8
<1> QED BY <1>3, <1>9 DEF Solutions, TypeOK

\* A constraint set is rejected if no assignment satisfies the equations it
\* was built from, and accepted only if some assignment does.
THEOREM RejectionIsExact == Spec => []RejectedIffUnsolvable
<1>1. TypeOK /\ Echelon /\ VerdictInv /\ SolutionsPreserved => RejectedIffUnsolvable
  <2> SUFFICES ASSUME TypeOK, Echelon, VerdictInv, SolutionsPreserved
               PROVE  RejectedIffUnsolvable
    OBVIOUS
  <2>1. ASSUME outcome = "inconsistent" PROVE SourceSolutions = {}
    BY <2>1, ContradictionHasNoSolution DEF VerdictInv, SolutionsPreserved
  <2>2. ASSUME outcome = "returned" PROVE SourceSolutions # {}
    BY <2>2, ReducedMatrixHasASolution DEF VerdictInv, SolutionsPreserved
  <2> QED BY <2>1, <2>2 DEF RejectedIffUnsolvable
<1> QED BY <1>1, TypeCorrect, MatrixIsReduced, VerdictIsInvariant, SolutionsArePreserved, PTL

------------------------------------------------------------------------------
(* The result *)

\* The rows above the cursor.
PivotRows == {r \in Rows : r < pivot_row}
Result == {rows[r] : r \in PivotRows}

LEMMA PivotIsLead ==
  ASSUME TypeOK, Echelon, NEW r \in PivotRows
  PROVE  /\ rows[r] \in RowOver(Columns) /\ rows[r].mask # {}
         /\ Lead(rows[r]) = Pivot(r) /\ Pivot(r) \in rows[r].mask /\ Pivot(r) \in Columns
         /\ \A q \in Rows : q # r => Pivot(r) \notin rows[q].mask
<1>1. r \in Rows /\ r < pivot_row
  BY DEF PivotRows
<1>2. rows[r] \in RowOver(Columns) /\ rows[r].mask \in SUBSET Columns
  BY <1>1 DEF TypeOK, RowOver
<1>3. IsLowest(Pivot(r), rows[r].mask)
  BY <1>1 DEF Echelon, PivotsAreLowest
<1>4. \A q \in Rows : q # r => Pivot(r) \notin rows[q].mask
  BY <1>1 DEF Echelon, ReducedSoFar
<1> QED BY <1>2, <1>3, <1>4 DEF IsLowest, Lead, Pivot

\* Once all columns are visited, the rows from the cursor on are zero.
LEMMA RowsBelowAreZero ==
  ASSUME TypeOK, Echelon, column = VariableCount
  PROVE  /\ NonzeroRows = PivotRows
         /\ \A r \in Rows \ PivotRows : rows[r].mask = {}
<1>1. ASSUME NEW r \in Rows, r \notin PivotRows
      PROVE  rows[r].mask = {}
  <2>1. r >= pivot_row
    BY <1>1, EliminationAssumption DEF PivotRows, Rows, TypeOK
  <2>2. \A c \in rows[r].mask : c >= VariableCount
    BY <2>1, <1>1 DEF Echelon, ReducedSoFar
  <2>3. \A c \in Columns : ~(c >= VariableCount)
    BY EliminationAssumption DEF Columns
  <2>4. rows[r].mask \in SUBSET Columns
    BY <1>1 DEF TypeOK, RowOver
  <2> QED BY <2>2, <2>3, <2>4
<1>2. \A r \in PivotRows : r \in Rows /\ rows[r].mask # {}
  BY PivotIsLead DEF PivotRows
<1> QED BY <1>1, <1>2 DEF NonzeroRows

LEMMA ResultIsReduced ==
  ASSUME TypeOK, Echelon
  PROVE  /\ Reduced(Result, Columns)
         /\ \A r, q \in PivotRows : rows[r] = rows[q] => r = q
<1>1. Leads(Result) = {Pivot(r) : r \in PivotRows}
  <2>1. \A r \in PivotRows : Lead(rows[r]) = Pivot(r)
    BY PivotIsLead
  <2> QED BY <2>1 DEF Leads, Result
<1>2. ASSUME NEW r \in PivotRows
      PROVE  /\ rows[r] \in RowOver(Columns) /\ rows[r].mask # {}
             /\ rows[r].mask \cap Leads(Result) = {Lead(rows[r])}
  <2>1. \A q \in PivotRows : q # r => Pivot(q) \notin rows[r].mask
    BY PivotIsLead DEF PivotRows
  <2> QED BY <1>1, <2>1, PivotIsLead
<1>3. ASSUME NEW r \in PivotRows, NEW q \in PivotRows, Lead(rows[r]) = Lead(rows[q])
      PROVE  r = q
  <2>1. Pivot(r) = Pivot(q) /\ Pivot(q) \in rows[q].mask
    BY <1>3, PivotIsLead
  <2>2. q # r => Pivot(r) \notin rows[q].mask
    BY PivotIsLead DEF PivotRows
  <2> QED BY <2>1, <2>2
<1>4. \A s \in Result : \E r \in PivotRows : s = rows[r]
  BY DEF Result
<1>5. \A s \in Result : /\ s \in RowOver(Columns) /\ s.mask # {}
                       /\ s.mask \cap Leads(Result) = {Lead(s)}
  BY <1>2, <1>4
<1>6. \A s, t \in Result : Lead(s) = Lead(t) => s = t
  BY <1>3, <1>4
<1>7. Result \subseteq RowOver(Columns)
  BY <1>5
<1>8. Reduced(Result, Columns)
  BY <1>5, <1>6, <1>7 DEF Reduced
<1> QED BY <1>3, <1>8

\* The rows without columns say nothing.
LEMMA ResultHasTheSolutions ==
  ASSUME TypeOK, Echelon, column = VariableCount, ~Contradiction
  PROVE  Solutions(rows, Columns) = SolutionsOf(Result, Columns)
<1>1. DOMAIN rows = Rows /\ PivotRows \subseteq Rows
  BY DEF TypeOK, PivotRows
<1>2. ASSUME NEW r \in Rows \ PivotRows, NEW x
      PROVE  Satisfies(x, rows[r])
  <2>1. rows[r].mask = {}
    BY RowsBelowAreZero
  <2>2. rows[r].rhs = 0
    BY <2>1 DEF Contradiction, TypeOK, RowOver
  <2>3. rows[r].mask \cap x = {}
    BY <2>1
  <2> QED BY <2>2, <2>3, ParityOfEmpty DEF Satisfies
<1>3. \A x : (\A r \in Rows : Satisfies(x, rows[r])) <=> (\A r \in PivotRows : Satisfies(x, rows[r]))
  BY <1>1, <1>2
<1>4. \A x : (\A s \in Result : Satisfies(x, s)) <=> (\A r \in PivotRows : Satisfies(x, rows[r]))
  BY DEF Result
<1> QED BY <1>1, <1>3, <1>4 DEF Solutions, SolutionsOf

\* What has been returned: the rows above the cursor, each once, by their pivots.
ReturnInv ==
  outcome = "returned" =>
    /\ DOMAIN canonical_rows = 1 .. Len(canonical_rows)
    /\ Len(canonical_rows) = Cardinality(Result)
    /\ {canonical_rows[i] : i \in DOMAIN canonical_rows} = Result
    /\ \A i, j \in DOMAIN canonical_rows : i < j =>
         LowestColumn(canonical_rows[i].mask) < LowestColumn(canonical_rows[j].mask)

LEMMA ReturnDelivers ==
  ASSUME TypeOK, Echelon, Return
  PROVE  ReturnInv'
<1> DEFINE n == Cardinality(PivotRows)
<1>1. NonzeroRows = PivotRows
  BY RowsBelowAreZero DEF Return
<1>2. PICK order \in Bijection(1 .. n, PivotRows) :
        /\ \A i, j \in DOMAIN order : i < j =>
             LowestColumn(rows[order[i]].mask) <= LowestColumn(rows[order[j]].mask)
        /\ canonical_rows' = [i \in DOMAIN order |-> rows[order[i]]]
  BY <1>1 DEF Return
<1>3. IsFiniteSet(PivotRows) /\ n \in Nat
  <2>1. IsFiniteSet(Rows) /\ PivotRows \in SUBSET Rows
    BY EliminationAssumption, FS_Interval DEF Rows, PivotRows
  <2> QED BY <2>1, FS_Subset, FS_CardinalityType
<1>4. /\ order \in [1 .. n -> PivotRows]
      /\ \A i, j \in 1 .. n : order[i] = order[j] => i = j
      /\ \A r \in PivotRows : \E i \in 1 .. n : order[i] = r
  BY <1>2 DEF Bijection, Injection, Surjection, IsInjective
<1>5. n = Cardinality(Result)
  <2> DEFINE f == [r \in PivotRows |-> rows[r]]
  <2>1. f \in Bijection(PivotRows, Result)
    BY ResultIsReduced DEF Bijection, Injection, Surjection, IsInjective, Result
  <2> HIDE DEF f
  <2>2. ExistsBijection(PivotRows, Result)
    BY <2>1 DEF ExistsBijection
  <2> QED BY <1>3, <2>2, FS_Bijection
<1> HIDE DEF n
<1>6. /\ canonical_rows' = [i \in 1 .. n |-> rows[order[i]]]
      /\ \A i \in 1 .. n : canonical_rows'[i] = rows[order[i]]
  BY <1>2, <1>4
<1>7. Len(canonical_rows') = n /\ DOMAIN canonical_rows' = 1 .. n
  <2>1. \A i \in 1 .. n : rows[order[i]] \in RowOver(Columns)
    BY <1>4, PivotIsLead
  <2>2. canonical_rows' \in Seq(RowOver(Columns))
    BY <1>3, <1>6, <2>1
  <2> QED BY <1>3, <1>6, <2>2
<1>8. {canonical_rows'[i] : i \in 1 .. n} = Result
  BY <1>4, <1>6 DEF Result
<1>9. ASSUME NEW i \in 1 .. n, NEW j \in 1 .. n, i < j
      PROVE  LowestColumn(canonical_rows'[i].mask) < LowestColumn(canonical_rows'[j].mask)
  <2>1. order[i] \in PivotRows /\ order[j] \in PivotRows /\ order[i] # order[j]
    BY <1>3, <1>4, <1>9
  <2>2. LowestColumn(rows[order[i]].mask) <= LowestColumn(rows[order[j]].mask)
    BY <1>2, <1>4, <1>9
  <2>3. Pivot(order[i]) # Pivot(order[j]) /\ Pivot(order[i]) \in Nat /\ Pivot(order[j]) \in Nat
    BY <2>1, PivotIsLead, ColumnsAreFinite DEF PivotRows
  <2> QED BY <1>6, <2>2, <2>3 DEF Pivot
<1>10. Result' = Result
  BY DEF Return, Result, PivotRows
<1> QED BY <1>5, <1>7, <1>8, <1>9, <1>10 DEF ReturnInv

LEMMA ReturnIsInvariant == Spec => []ReturnInv
<1>1. Init => ReturnInv
  BY DEF Init, ReturnInv
<1>2. TypeOK /\ Echelon /\ ReturnInv /\ [Next]_vars => ReturnInv'
  <2> SUFFICES ASSUME TypeOK, Echelon, ReturnInv, [Next]_vars PROVE ReturnInv'
    OBVIOUS
  <2>1. CASE Return
    BY <2>1, ReturnDelivers
  <2>2. CASE SkipColumn \/ PivotColumn \/ Reject
    BY <2>2 DEF SkipColumn, PivotColumn, Reject, ReturnInv
  <2>3. CASE UNCHANGED vars
    BY <2>3 DEF vars, ReturnInv, Result, PivotRows
  <2> QED BY <2>1, <2>2, <2>3 DEF Next
<1> QED BY <1>1, <1>2, TypeCorrect, MatrixIsReduced, PTL DEF Spec

\* What is returned is determined by the solutions alone: the reduced basis of
\* their space, sorted, so that equal digests are equal solution sets.
THEOREM ResultIsCanonical == Spec => []CanonicalForm
<1>1. TypeOK /\ Echelon /\ VerdictInv /\ SolutionsPreserved /\ ReturnInv => CanonicalForm
  <2> SUFFICES ASSUME TypeOK, Echelon, VerdictInv, SolutionsPreserved, ReturnInv,
                      outcome = "returned"
               PROVE  CanonicalForm
    BY DEF CanonicalForm
  <2>1. SourceSolutions = SolutionsOf(Result, Columns)
    BY ResultHasTheSolutions DEF VerdictInv, SolutionsPreserved
  <2>2. ReducedBasis(SourceSolutions, Columns) = Result
    BY <2>1, ColumnsAreFinite, ResultIsReduced, ReducedIsItsBasis
  <2> QED BY <2>2 DEF CanonicalForm, ReturnInv
<1> QED BY <1>1, TypeCorrect, MatrixIsReduced, VerdictIsInvariant, SolutionsArePreserved,
           ReturnIsInvariant, PTL

\* The rank that a constraint set reports counts its solutions: there are
\* 2^(variables - rank) of them.
THEOREM RankCountsSolutions == Spec => []NullityCountsSolutions
<1>1. TypeOK /\ Echelon /\ VerdictInv /\ SolutionsPreserved /\ ReturnInv
        => NullityCountsSolutions
  <2> SUFFICES ASSUME TypeOK, Echelon, VerdictInv, SolutionsPreserved, ReturnInv,
                      outcome = "returned"
               PROVE  Cardinality(SourceSolutions) = 2 ^ (VariableCount - Len(canonical_rows))
    BY DEF NullityCountsSolutions
  <2>1. SourceSolutions = SolutionsOf(Result, Columns)
    BY ResultHasTheSolutions DEF VerdictInv, SolutionsPreserved
  <2>2. Cardinality(SourceSolutions) = 2 ^ (Cardinality(Columns) - Cardinality(Result))
    BY <2>1, ColumnsAreFinite, ResultIsReduced, SolutionsAreCounted
  <2> QED BY <2>2, ColumnsAreFinite DEF ReturnInv
<1> QED BY <1>1, TypeCorrect, MatrixIsReduced, VerdictIsInvariant, SolutionsArePreserved,
           ReturnIsInvariant, PTL
==============================================================================
