--------------------------------- MODULE GF2 ---------------------------------
(***************************************************************************)
(* Affine equations over GF(2), as shared/constraints.py represents them:  *)
(* a row is the set of its columns (the bits of the Python integer `mask`) *)
(* and a right-hand side, and a solution is the set of variables that are  *)
(* 1.  What rows mean is defined here, independently of any elimination.   *)
(***************************************************************************)
EXTENDS Integers, FiniteSets

Parity(S) == Cardinality(S) % 2

\* mask ^ mask
SymDiff(A, B) == (A \ B) \cup (B \ A)

RowOver(columns) == [mask : SUBSET columns, rhs : 0 .. 1]

Satisfies(x, row) == Parity(row.mask \cap x) = row.rhs

\* The affine space a family of rows cuts out of all assignments to `columns`.
Solutions(rows, columns) ==
  {x \in SUBSET columns : \A r \in DOMAIN rows : Satisfies(x, rows[r])}

\* Reference for the canonical form of a nonempty affine space, with no mention
\* of pivots or row operations: among the equations that hold everywhere on the
\* space, those whose mask meets the set of leading columns in its own only.
IsLowest(c, mask) == c \in mask /\ \A d \in mask : c <= d
LowestColumn(mask) == CHOOSE c \in mask : IsLowest(c, mask)

Implied(space, columns) ==
  {row \in RowOver(columns) : row.mask # {} /\ \A x \in space : Satisfies(x, row)}

ReducedBasis(space, columns) ==
  LET implied == Implied(space, columns)
      leads == {LowestColumn(row.mask) : row \in implied}
  IN  {row \in implied : row.mask \cap leads = {LowestColumn(row.mask)}}
==============================================================================
