--------------------------- MODULE ConstraintSpaces ---------------------------
(***************************************************************************)
(* constraint-set/v1 and constraint-space-comparison/v1 of                 *)
(* shared/constraints.py: sets of GF(2) equations on the master key, their *)
(* rank, and how the space of one set relates to that of another.          *)
(* Canonical rows are given by their definition (GF2!ReducedBasis), which  *)
(* GF2Elimination shows the elimination to compute.                        *)
(***************************************************************************)
EXTENDS GF2, Sequences, StageCommon

CONSTANT KeyBits   \* variable_count, 128 for GIFT-64

ASSUME KeyAssumption == KeyBits \in Nat \ {0}

KeyVariables == 0 .. KeyBits - 1

\* GF2Equation.effective_rhs: the fixed terms move to the right-hand side.
EffectiveRow(equation) ==
  [mask |-> equation.variable_indices,
   rhs |-> (equation.source_rhs
              + Cardinality({t \in equation.fixed_terms : t.value = 1})) % 2]

Space(equations) == Solutions([e \in equations |-> EffectiveRow(e)], KeyVariables)

\* canonicalize_gf2_equations raises on an inconsistent set.
Consistent(equations) == Space(equations) # {}
CanonicalRows(equations) == ReducedBasis(Space(equations), KeyVariables)

\* ConstraintSet: equations are kept as a set, since the adapters sort them
\* and never admit the same one twice.
ConstraintSet(kind, position, source_artifact_sha256, equations) ==
  [constraint_kind |-> kind, position |-> position,
   source_artifact_sha256 |-> source_artifact_sha256, equations |-> equations]

Rank(set) == Cardinality(CanonicalRows(set.equations))
SemanticSha256(set) == Sha256(CanonicalRows(set.equations))

\* _validate_comparable_constraint_spaces, for sets over the same key variables
\* and rounds.
Comparable(first, second) ==
  /\ first.source_artifact_sha256 = second.source_artifact_sha256
  /\ first.position = second.position

Implies_RankOfOther(set, other) ==
  LET joined == set.equations \cup other.equations
  IN  Consistent(joined) /\ Cardinality(CanonicalRows(joined)) = Rank(other)

\* ConstraintSet.implies: adding the other equations does not raise the rank.
Implies(set, other) ==
  LET joined == set.equations \cup other.equations
  IN  Consistent(joined) /\ Cardinality(CanonicalRows(joined)) = Rank(set)

NoRank == "null"

\* compare_constraint_spaces
CompareSpaces(base, combined) ==
  [position |-> base.position, source_artifact_sha256 |-> base.source_artifact_sha256,
   base_semantic_sha256 |-> SemanticSha256(base),
   combined_semantic_sha256 |-> SemanticSha256(combined),
   base_rank |-> Rank(base), combined_rank |-> Rank(combined),
   base_implied_by_combined |-> Implies(combined, base),
   incremental_rank |->
     IF Implies(combined, base) THEN Rank(combined) - Rank(base) ELSE NoRank]

\* ConstraintSpaceComparison.__post_init__
ValidComparison(c) ==
  IF c.base_implied_by_combined
  THEN c.combined_rank >= c.base_rank /\ c.incremental_rank = c.combined_rank - c.base_rank
  ELSE c.incremental_rank = NoRank
==============================================================================
