---------------------------- MODULE GF2Elimination ----------------------------
(***************************************************************************)
(* canonicalize_gf2_equations: Gauss-Jordan elimination over GF(2), the    *)
(* algorithm by which A2 and A3 decide whether constraint sets are         *)
(* consistent, equal, or implied by each other.  One step per column; the  *)
(* rows are numbered from 1 where the Python list is numbered from 0.      *)
(***************************************************************************)
EXTENDS GF2, Sequences, Functions

CONSTANTS
  VariableCount,    \* variable_count
  EquationCount,    \* len(equations)
  MaxFixedOnes      \* model bound: fixed terms of value 1 in one equation

ASSUME EliminationAssumption ==
  /\ VariableCount \in Nat \ {0}
  /\ EquationCount \in Nat
  /\ MaxFixedOnes \in Nat

VARIABLES
  equations,        \* the argument, never assigned
  rows, column, pivot_row,
  outcome,          \* "running", "returned" or "inconsistent"
  canonical_rows    \* what is returned

vars == <<equations, rows, column, pivot_row, outcome, canonical_rows>>

Columns == 0 .. VariableCount - 1
Rows == 1 .. EquationCount

\* GF2Equation: fixed terms of value 0 change nothing, so only the number of
\* those of value 1 is kept.
EquationType ==
  [variable_indices : SUBSET Columns, source_rhs : 0 .. 1, fixed_ones : 0 .. MaxFixedOnes]

EffectiveRhs_SourceOnly(equation) == equation.source_rhs

\* GF2Equation.effective_rhs: source_rhs xor every fixed term.
EffectiveRhs(equation) == (equation.source_rhs + equation.fixed_ones) % 2

Init ==
  /\ equations \in [Rows -> EquationType]
  /\ rows = [r \in Rows |-> [mask |-> equations[r].variable_indices,
                             rhs |-> EffectiveRhs(equations[r])]]
  /\ column = 0
  /\ pivot_row = 1
  /\ outcome = "running"
  /\ canonical_rows = <<>>

AddRows_NoReduction(a, b) == [mask |-> SymDiff(a.mask, b.mask), rhs |-> a.rhs + b.rhs]

\* row ^= pivot
AddRows(a, b) == [mask |-> SymDiff(a.mask, b.mask), rhs |-> (a.rhs + b.rhs) % 2]

Candidates_OffByOne == {r \in pivot_row + 1 .. EquationCount : column \in rows[r].mask}

Candidates == {r \in pivot_row .. EquationCount : column \in rows[r].mask}

Swapped(candidate) ==
  [rows EXCEPT ![pivot_row] = rows[candidate], ![candidate] = rows[pivot_row]]

Eliminated_BelowOnly(matrix) ==
  [r \in Rows |-> IF r > pivot_row /\ column \in matrix[r].mask
                  THEN AddRows(matrix[r], matrix[pivot_row]) ELSE matrix[r]]

\* Every other row that has the column gets the pivot row added to it.
Eliminated(matrix) ==
  [r \in Rows |-> IF r # pivot_row /\ column \in matrix[r].mask
                  THEN AddRows(matrix[r], matrix[pivot_row]) ELSE matrix[r]]

\* No row from pivot_row on has the column: continue.
SkipColumn ==
  /\ outcome = "running"
  /\ column \in Columns
  /\ Candidates = {}
  /\ column' = column + 1
  /\ UNCHANGED <<equations, rows, pivot_row, outcome, canonical_rows>>

\* The first such row is swapped into place and cleared from all the others.
PivotColumn ==
  /\ outcome = "running"
  /\ column \in Columns
  /\ \E candidate \in Candidates :
       /\ \A r \in Candidates : candidate <= r
       /\ rows' = Eliminated(Swapped(candidate))
  /\ pivot_row' = pivot_row + 1
  /\ column' = column + 1
  /\ UNCHANGED <<equations, outcome, canonical_rows>>

Contradiction_AnyZeroRow == \E r \in Rows : rows[r].mask = {}

\* any(mask == 0 and rhs == 1)
Contradiction == \E r \in Rows : rows[r].mask = {} /\ rows[r].rhs = 1

Reject ==
  /\ outcome = "running"
  /\ column = VariableCount
  /\ Contradiction
  /\ outcome' = "inconsistent"
  /\ UNCHANGED <<equations, rows, column, pivot_row, canonical_rows>>

NonzeroRows_ByRhs == {r \in Rows : rows[r].rhs # 0}

NonzeroRows == {r \in Rows : rows[r].mask # {}}

\* The nonzero rows, sorted by their lowest bit.
Return ==
  /\ outcome = "running"
  /\ column = VariableCount
  /\ ~Contradiction
  /\ \E order \in Bijection(1 .. Cardinality(NonzeroRows), NonzeroRows) :
       /\ \A i, j \in DOMAIN order : i < j =>
            LowestColumn(rows[order[i]].mask) <= LowestColumn(rows[order[j]].mask)
       /\ canonical_rows' = [i \in DOMAIN order |-> rows[order[i]]]
  /\ outcome' = "returned"
  /\ UNCHANGED <<equations, rows, column, pivot_row>>

Next == SkipColumn \/ PivotColumn \/ Reject \/ Return

Spec == Init /\ [][Next]_vars

------------------------------------------------------------------------------
(* Properties *)

\* The variables have their types; in particular sums of right-hand sides
\* stay bits, and the pivot cursor stays within the rows and the columns.
TypeOK ==
  /\ equations \in [Rows -> EquationType]
  /\ rows \in [Rows -> RowOver(Columns)]
  /\ column \in 0 .. VariableCount
  /\ pivot_row \in 1 .. EquationCount + 1
  /\ pivot_row <= column + 1
  /\ outcome \in {"running", "returned", "inconsistent"}

\* An assignment solves an equation of the source when the variables and the
\* fixed constants on its left add up to the source's right-hand side.
SolvesSource(x, equation) ==
  (Cardinality(equation.variable_indices \cap x) + equation.fixed_ones) % 2
    = equation.source_rhs

SourceSolutions == {x \in SUBSET Columns : \A r \in Rows : SolvesSource(x, equations[r])}

\* No step loses or invents a solution: at every point of the elimination the
\* rows cut out exactly the space of the equations the upstream program printed.
SolutionsPreserved == Solutions(rows, Columns) = SourceSolutions

\* The matrix is reduced on the columns already visited: every row above the
\* cursor owns a lowest column that no other row contains, in increasing order,
\* and the rows from the cursor on have none of the visited columns.
Pivot(r) == LowestColumn(rows[r].mask)

ReducedSoFar ==
  /\ \A r \in Rows : r < pivot_row =>
       /\ rows[r].mask # {}
       /\ Pivot(r) < column
       /\ \A q \in Rows : q # r => Pivot(r) \notin rows[q].mask
       /\ \A q \in Rows : q < r => Pivot(q) < Pivot(r)
  /\ \A r \in Rows : r >= pivot_row => \A c \in rows[r].mask : c >= column

\* A set of constraints is rejected exactly when no assignment satisfies it:
\* redundant equations are never taken for contradictory ones.
RejectedIffUnsolvable ==
  /\ outcome = "inconsistent" => SourceSolutions = {}
  /\ outcome = "returned" => SourceSolutions # {}

\* The result is the reduced basis of the space and so depends on the space
\* alone, not on the equations, their order or their redundancy: equality of
\* canonical rows, and with it semantic_sha256, is equality of solution sets.
CanonicalForm ==
  outcome = "returned" =>
    LET basis == ReducedBasis(SourceSolutions, Columns)
    IN  /\ {canonical_rows[i] : i \in DOMAIN canonical_rows} = basis
        /\ Len(canonical_rows) = Cardinality(basis)
        /\ \A i, j \in DOMAIN canonical_rows : i < j =>
             LowestColumn(canonical_rows[i].mask) < LowestColumn(canonical_rows[j].mask)

\* ConstraintSet.rank and .nullity are those of the space: there are
\* 2^nullity solutions.
NullityCountsSolutions ==
  outcome = "returned" =>
    Cardinality(SourceSolutions) = 2 ^ (VariableCount - Len(canonical_rows))
==============================================================================
