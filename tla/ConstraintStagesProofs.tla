------------------------ MODULE ConstraintStagesProofs ------------------------
(***************************************************************************)
(* Proofs about ConstraintStages for any number of trails, any matrices    *)
(* and any printed rows: both programs run on the pinned trails, and the   *)
(* spaces that are compared belong to one trail.                           *)
(***************************************************************************)
EXTENDS ConstraintStages, GF2Proofs

Pinned == [program |-> "pinned", trails |-> "pinned"]
Working == {"read_source", "read_trails", "build", "run", "parse"}

\* The bytes of each read stay the ones that are built and recorded, and a
\* finished adapter has one set per trail, in the order of the trails.
A2Inv ==
  /\ a2_step \in Working \cup {"returned", "raised"}
  /\ a2_step \in {"read_trails", "build", "run", "parse", "returned"} => a2_source = "pinned"
  /\ a2_step \in {"build", "run", "parse", "returned"} => a2_corpus = "pinned"
  /\ a2_step \in {"run", "parse", "returned"} => a2_built = Pinned
  /\ a2_step = "returned" =>
       a2_sets = [i \in 1 .. TrailCount |->
                    ConstraintSet("LC", i - 1, Sha256("pinned"), a2_rows[i - 1])]

A3Inv ==
  /\ a3_step \in Working \cup {"returned", "raised"}
  /\ a3_step \in {"read_trails", "build", "run", "parse", "returned"} => a3_source = "pinned"
  /\ a3_step \in {"build", "run", "parse", "returned"} => a3_corpus = "pinned"
  /\ a3_step \in {"run", "parse", "returned"} => a3_built = Pinned
  /\ a3_step = "returned" =>
       a3_sets = [i \in 1 .. TrailCount |->
                    ConstraintSet("LC_PLUS_LINEARIZED_RELATIONS", i - 1,
                                  Sha256("pinned"), a3_rows[i - 1])]

\* A3 starts after A2 has returned and compares after it has its own sets; it
\* was handed sets of A2, and returns only what its checks let through.
StagesInv ==
  /\ phase \in {"a2", "hand_over", "a3", "compare", "returned", "raised"}
  /\ phase = "a2" => a2_step \in Working
  /\ phase \in {"hand_over", "a3", "compare", "returned"} => a2_step = "returned"
  /\ phase \in {"a2", "hand_over", "a3"} => a3_step \in Working
  /\ phase \in {"compare", "returned"} => a3_step = "returned"
  /\ phase \in {"a2", "hand_over"} => lc_constraint_sets = <<>>
  /\ \A i \in DOMAIN lc_constraint_sets : \E j \in 1 .. TrailCount :
       lc_constraint_sets[i] = a2_sets[j]
  /\ phase = "returned" => PairingAccepted /\ comparisons = Comparisons
  /\ phase # "returned" => comparisons = <<>>

------------------------------------------------------------------------------
(* Spaces of equations *)

LEMMA KeysAreFinite == FiniteColumns(KeyVariables)
BY KeyAssumption, FS_Interval DEF FiniteColumns, KeyVariables

\* Equations that have a row on the key variables.
OnTheKey(equations) == \A e \in equations : EffectiveRow(e) \in RowOver(KeyVariables)

LEMMA SpaceIsOfRows ==
  ASSUME NEW equations
  PROVE  Space(equations) = SolutionsOf({EffectiveRow(e) : e \in equations}, KeyVariables)
BY DEF Space, Solutions, SolutionsOf

LEMMA SpaceIsAffine ==
  ASSUME NEW equations, OnTheKey(equations), Consistent(equations)
  PROVE  AffineSpace(Space(equations), KeyVariables)
<1> DEFINE R == {EffectiveRow(e) : e \in equations}
<1>1. R \in SUBSET RowOver(KeyVariables)
  BY DEF OnTheKey
<1>2. Space(equations) = SolutionsOf(R, KeyVariables)
  BY SpaceIsOfRows
<1> QED BY <1>1, <1>2 DEF AffineSpace, Consistent

LEMMA SpaceOfBoth ==
  ASSUME NEW E, NEW F
  PROVE  Space(E \cup F) = Space(E) \cap Space(F)
BY SpaceIsOfRows DEF SolutionsOf

\* ConstraintSet.implies says what it means for keys.
LEMMA ImpliesIsInclusion ==
  ASSUME NEW set, OnTheKey(set.equations), Consistent(set.equations),
         NEW other, OnTheKey(other.equations), Consistent(other.equations)
  PROVE  Implies(set, other) <=> Space(set.equations) \subseteq Space(other.equations)
<1> DEFINE joined == set.equations \cup other.equations
           S == Space(set.equations)
           T == Space(other.equations)
           J == Space(joined)
<1>1. J = S \cap T
  BY SpaceOfBoth
<1>2. OnTheKey(joined)
  BY DEF OnTheKey
<1>3. Implies(set, other) <=>
        Consistent(joined) /\ SpaceRank(J, KeyVariables) = SpaceRank(S, KeyVariables)
  BY DEF Implies, Rank, CanonicalRows, SpaceRank
<1>4. AffineSpace(S, KeyVariables) /\ (Consistent(joined) => AffineSpace(J, KeyVariables))
  BY <1>2, SpaceIsAffine
<1>5. Consistent(joined) <=> J # {}
  BY DEF Consistent
<1>6. S # {}
  BY DEF Consistent
<1> HIDE DEF joined, S, T, J
<1>7. ASSUME Implies(set, other) PROVE S \subseteq T
  <2>1. J \subseteq S /\ AffineSpace(J, KeyVariables)
    BY <1>1, <1>3, <1>4, <1>7
  <2>2. J = S
    BY <2>1, <1>3, <1>4, <1>7, KeysAreFinite, SmallerSpaceHigherRank
  <2> QED BY <1>1, <2>2
<1>8. ASSUME S \subseteq T PROVE Implies(set, other)
  <2>1. J = S
    BY <1>1, <1>8
  <2> QED BY <2>1, <1>3, <1>5, <1>6
<1> QED BY <1>7, <1>8 DEF S, T

\* Every comparison of two consistent sets passes its validator and says how
\* their spaces are related.
LEMMA ComparisonSays ==
  ASSUME NEW base, OnTheKey(base.equations), Consistent(base.equations),
         NEW combined, OnTheKey(combined.equations), Consistent(combined.equations),
         NEW c, c = CompareSpaces(base, combined)
  PROVE  LET S == Space(base.equations)
             T == Space(combined.equations)
         IN  /\ ValidComparison(c)
             /\ c.base_implied_by_combined <=> T \subseteq S
             /\ c.base_implied_by_combined =>
                  Cardinality(S) = 2 ^ c.incremental_rank * Cardinality(T)
             /\ c.base_semantic_sha256 = c.combined_semantic_sha256 <=> S = T
<1> DEFINE S == Space(base.equations)
           T == Space(combined.equations)
<1>1. AffineSpace(S, KeyVariables) /\ AffineSpace(T, KeyVariables)
  BY SpaceIsAffine
<1>2. Implies(combined, base) <=> T \subseteq S
  BY ImpliesIsInclusion
<1>3. /\ Rank(base) = SpaceRank(S, KeyVariables) /\ Rank(combined) = SpaceRank(T, KeyVariables)
      /\ CanonicalRows(base.equations) = ReducedBasis(S, KeyVariables)
      /\ CanonicalRows(combined.equations) = ReducedBasis(T, KeyVariables)
  BY DEF Rank, CanonicalRows, SpaceRank
<1> HIDE DEF S, T
<1>4. SpaceRank(S, KeyVariables) \in Nat /\ SpaceRank(T, KeyVariables) \in Nat
  <2>1. Cardinality(KeyVariables) \in Nat
    BY KeysAreFinite, FS_CardinalityType DEF FiniteColumns
  <2> QED BY <1>1, <2>1, KeysAreFinite, SpaceIsCounted
<1>5. T \subseteq S =>
        /\ SpaceRank(S, KeyVariables) <= SpaceRank(T, KeyVariables)
        /\ Cardinality(S)
             = 2 ^ (SpaceRank(T, KeyVariables) - SpaceRank(S, KeyVariables)) * Cardinality(T)
  BY <1>1, KeysAreFinite, SmallerSpaceHigherRank
<1>6. /\ c.base_implied_by_combined = Implies(combined, base)
      /\ c.base_rank = Rank(base) /\ c.combined_rank = Rank(combined)
      /\ Implies(combined, base) => c.incremental_rank = Rank(combined) - Rank(base)
      /\ ~Implies(combined, base) => c.incremental_rank = NoRank
      /\ c.base_semantic_sha256 = SemanticSha256(base)
      /\ c.combined_semantic_sha256 = SemanticSha256(combined)
  BY DEF CompareSpaces
<1>7. c.base_semantic_sha256 = c.combined_semantic_sha256 <=>
        ReducedBasis(S, KeyVariables) = ReducedBasis(T, KeyVariables)
  BY <1>3, <1>6 DEF SemanticSha256, Sha256
<1>8. c.base_semantic_sha256 = c.combined_semantic_sha256 <=> S = T
  BY <1>1, <1>7, KeysAreFinite, BasisTellsSpaces
<1>9. ValidComparison(c)
  BY <1>2, <1>3, <1>4, <1>5, <1>6 DEF ValidComparison
<1> QED BY <1>2, <1>3, <1>5, <1>6, <1>8, <1>9 DEF S, T

------------------------------------------------------------------------------
(* Rows of a matrix, and the equations made of them *)

LEMMA Widths == KeyBits \in Nat /\ RoundStart \in Nat /\ RoundCount \in Nat
BY StagesAssumption, KeyAssumption

LEMMA ConstantsAreNaturals ==
  ASSUME NEW round \in RoundStart .. RoundStart + RoundCount - 1
  PROVE  RoundConstant[round] \in Nat
<1>1. RoundConstant[round] \in 0 .. 63
  BY StagesAssumption
<1>2. \A x \in 0 .. 63 : x \in Nat
  OBVIOUS
<1> QED BY <1>1, <1>2, Zenon

\* A matrix with the key from column `first` on and `groups` groups of fixed
\* columns after it: A2 and A3 differ in these two only.
Term(first, c) ==
  LET group == (c - (first + KeyBits)) \div 7
      slot == (c - (first + KeyBits)) % 7
  IN  [name |-> <<RoundStart + group, slot>>,
       value |-> IF slot = 0 THEN 1 ELSE A2!Bit(RoundConstant[RoundStart + group], 5 - (slot - 1))]

FixedOf(first, m) == {c \in m.columns : c >= first + KeyBits}
TermsOf(first, m) == {Term(first, c) : c \in FixedOf(first, m)}
BitsOf(first, m) == {c - first : c \in {d \in m.columns : d < first + KeyBits}}

EquationOf(first, m, round) ==
  [variable_indices |-> BitsOf(first, m), source_rhs |-> m.rhs, source_round |-> round,
   fixed_terms |-> TermsOf(first, m)]

OnesOf(first, groups) ==
  {c \in first + KeyBits .. first + KeyBits + 7 * groups - 1 :
     LET group == (c - (first + KeyBits)) \div 7
         slot == (c - (first + KeyBits)) % 7
     IN  slot = 0 \/ A2!Bit(RoundConstant[RoundStart + group], 6 - slot) = 1}

LEMMA BitIsABit ==
  ASSUME NEW number \in Nat, NEW i \in Nat
  PROVE  A2!Bit(number, i) \in 0 .. 1
<1>1. 2 ^ i \in Nat /\ 2 ^ i # 0
  <2>1. IsFiniteSet(1 .. i) /\ Cardinality(1 .. i) = i
    BY FS_Interval
  <2>2. IsFiniteSet(SUBSET (1 .. i)) /\ Cardinality(SUBSET (1 .. i)) = 2 ^ i
    BY <2>1, FS_SUBSET
  <2>3. SUBSET (1 .. i) # {}
    OBVIOUS
  <2> QED BY <2>2, <2>3, FS_EmptySet, FS_CardinalityType
<1> DEFINE d == 2 ^ i
<1> HIDE DEF d
<1>2. (number \div d) % 2 \in 0 .. 1
  <2>1. d \in Nat \ {0}
    BY <1>1 DEF d
  <2> QED BY <2>1
<1> QED BY <1>2 DEF A2!Bit, d

\* The fixed columns of a matrix: their round is one of the characteristic, and
\* a fixed column is known by its round and its slot.
LEMMA TermsAreColumns ==
  ASSUME NEW first \in Nat, NEW groups \in 1 .. RoundCount,
         NEW c \in first + KeyBits .. first + KeyBits + 7 * groups - 1
  PROVE  /\ Term(first, c).value \in 0 .. 1
         /\ Term(first, c).value = 1 <=> c \in OnesOf(first, groups)
         /\ \A d \in first + KeyBits .. first + KeyBits + 7 * groups - 1 :
              Term(first, c).name = Term(first, d).name => c = d
<1> USE Widths
<1> DEFINE o == c - (first + KeyBits)
           group == o \div 7
           slot == o % 7
<1>1. o \in 0 .. 7 * groups - 1
  OBVIOUS
<1> HIDE DEF o
<1>2. group \in 0 .. groups - 1 /\ slot \in 0 .. 6 /\ o = 7 * group + slot
  BY <1>1
<1>3. RoundStart + group \in RoundStart .. RoundStart + RoundCount - 1
  <2> HIDE DEF group
  <2> QED BY <1>2
<1> DEFINE constant == RoundConstant[RoundStart + group]
<1>4. constant \in Nat
  <2> HIDE DEF group
  <2> QED BY <1>3, ConstantsAreNaturals
<1>5. Term(first, c) = [name |-> <<RoundStart + group, slot>>,
                        value |-> IF slot = 0 THEN 1 ELSE A2!Bit(constant, 5 - (slot - 1))]
  BY DEF Term, o
<1>6. c \in OnesOf(first, groups) <=> slot = 0 \/ A2!Bit(constant, 6 - slot) = 1
  BY DEF OnesOf, o
<1> HIDE DEF slot, group, constant
<1>7. slot # 0 => 6 - slot \in Nat /\ 5 - (slot - 1) = 6 - slot
  BY <1>2
<1>8. slot # 0 => A2!Bit(constant, 6 - slot) \in 0 .. 1
  BY <1>4, <1>7, BitIsABit
<1>9. ASSUME NEW d \in first + KeyBits .. first + KeyBits + 7 * groups - 1,
             Term(first, c).name = Term(first, d).name
      PROVE  c = d
  <2> DEFINE od == d - (first + KeyBits)
  <2>1. od \in Nat /\ od = 7 * (od \div 7) + (od % 7) /\ od \div 7 \in Int /\ od % 7 \in Int
    <3>1. od \in Nat
      OBVIOUS
    <3> HIDE DEF od
    <3> QED BY <3>1
  <2>2. Term(first, d).name = <<RoundStart + (od \div 7), od % 7>>
    BY DEF Term
  <2>3. RoundStart + group = RoundStart + (od \div 7) /\ slot = od % 7
    BY <1>5, <1>9, <2>2
  <2> HIDE DEF od
  <2>4. o = od
    BY <1>2, <2>1, <2>3
  <2> QED BY <2>4 DEF o, od
<1> QED BY <1>5, <1>6, <1>7, <1>8, <1>9

\* A row that fits the matrix.
Fits(first, groups, m) ==
  /\ m.columns \in SUBSET (first .. first + KeyBits + 7 * groups - 1)
  /\ m.rhs \in 0 .. 1

LEMMA RowIsFinite ==
  ASSUME NEW first \in Nat, NEW groups \in 1 .. RoundCount, NEW m, Fits(first, groups, m)
  PROVE  IsFiniteSet(m.columns)
<1>1. first + KeyBits + 7 * groups - 1 \in Int
  BY Widths
<1>2. IsFiniteSet(first .. first + KeyBits + 7 * groups - 1)
  BY <1>1, FS_Interval
<1> QED BY <1>2, FS_Subset DEF Fits

LEMMA FixedTermsAreTheOnes ==
  ASSUME NEW first \in Nat, NEW groups \in 1 .. RoundCount, NEW m, Fits(first, groups, m)
  PROVE  /\ IsFiniteSet(m.columns \cap OnesOf(first, groups))
         /\ Cardinality({t \in TermsOf(first, m) : t.value = 1})
              = Cardinality(m.columns \cap OnesOf(first, groups))
<1> USE Widths
<1> DEFINE O == m.columns \cap OnesOf(first, groups)
           T == {t \in TermsOf(first, m) : t.value = 1}
           f == [c \in O |-> Term(first, c)]
<1>2. IsFiniteSet(O)
  BY RowIsFinite, FS_Intersection
<1>3. \A c \in FixedOf(first, m) : c \in first + KeyBits .. first + KeyBits + 7 * groups - 1
  BY DEF FixedOf, Fits
<1>4. O \subseteq FixedOf(first, m)
  BY DEF FixedOf, OnesOf
<1>5. \A c \in FixedOf(first, m) : Term(first, c).value = 1 <=> c \in O
  BY <1>3, TermsAreColumns DEF FixedOf
<1>6. \A c, d \in FixedOf(first, m) : Term(first, c) = Term(first, d) => c = d
  BY <1>3, TermsAreColumns
<1> HIDE DEF O
<1>7. f \in [O -> T]
  BY <1>4, <1>5 DEF TermsOf
<1>8. \A c, d \in O : f[c] = f[d] => c = d
  BY <1>4, <1>6
<1>9. \A t \in T : \E c \in O : f[c] = t
  BY <1>5 DEF TermsOf
<1> HIDE DEF T, f
<1>10. f \in Bijection(O, T)
  BY <1>7, <1>8, <1>9 DEF Bijection, Injection, Surjection, IsInjective
<1>11. ExistsBijection(O, T)
  BY <1>10 DEF ExistsBijection
<1>12. Cardinality(T) = Cardinality(O)
  BY <1>2, <1>11, FS_Bijection
<1> QED BY <1>2, <1>12 DEF O, T

\* The key columns, moved down to the key variables.
KeyColumns(first, key) == {first + k : k \in key}

LEMMA KeyColumnsAreTheBits ==
  ASSUME NEW first \in Nat, NEW groups \in 1 .. RoundCount, NEW m, Fits(first, groups, m),
         NEW key \in SUBSET KeyVariables
  PROVE  /\ BitsOf(first, m) \in SUBSET KeyVariables
         /\ Cardinality(m.columns \cap KeyColumns(first, key))
              = Cardinality(BitsOf(first, m) \cap key)
<1> USE Widths
<1> DEFINE C == m.columns \cap KeyColumns(first, key)
           B == BitsOf(first, m) \cap key
           f == [k \in B |-> first + k]
<1>1. \A k \in key : k \in 0 .. KeyBits - 1 /\ k \in Int
  BY DEF KeyVariables
<1>2. m.columns \subseteq first .. first + KeyBits + 7 * groups - 1
  BY DEF Fits
<1>3. BitsOf(first, m) \in SUBSET KeyVariables
  BY <1>2 DEF BitsOf, KeyVariables
<1>4. ASSUME NEW k \in key
      PROVE  k \in BitsOf(first, m) <=> first + k \in m.columns
  <2>1. k \in Int /\ first + k < first + KeyBits /\ (first + k) - first = k
    BY <1>1
  <2>2. \A c \in m.columns : c \in Int /\ (c - first = k => c = first + k)
    BY <1>2, <2>1
  <2> QED BY <2>1, <2>2 DEF BitsOf
<1>5. IsFiniteSet(B)
  <2>1. B \in SUBSET KeyVariables
    BY <1>3
  <2> QED BY <2>1, KeysAreFinite, FS_Subset DEF FiniteColumns
<1>6. f \in [B -> C]
  BY <1>4 DEF KeyColumns
<1>7. \A k, l \in B : f[k] = f[l] => k = l
  <2>1. \A k \in B : k \in Int
    BY <1>1
  <2> HIDE DEF B
  <2>2. \A k \in B : f[k] = first + k
    OBVIOUS
  <2> HIDE DEF f
  <2>3. ASSUME NEW k \in B, NEW l \in B, f[k] = f[l] PROVE k = l
    <3>1. first + k = first + l
      BY <2>2, <2>3, Zenon
    <3>2. k \in Int /\ l \in Int
      BY <2>1
    <3> QED BY <3>1, <3>2
  <2> QED BY <2>3
<1>8. \A c \in C : \E k \in B : f[k] = c
  BY <1>4 DEF KeyColumns
<1> HIDE DEF B, C, f
<1>9. f \in Bijection(B, C)
  BY <1>6, <1>7, <1>8 DEF Bijection, Injection, Surjection, IsInjective
<1>10. ExistsBijection(B, C)
  BY <1>9 DEF ExistsBijection
<1>11. Cardinality(C) = Cardinality(B)
  BY <1>5, <1>10, FS_Bijection
<1> QED BY <1>3, <1>11 DEF B, C

\* A constant moved to the other side.
LEMMA ParityMoves ==
  ASSUME NEW b \in Nat, NEW n \in Nat, NEW r \in 0 .. 1
  PROVE  b % 2 = (r + n) % 2 <=> (b + n) % 2 = r
OBVIOUS

\* The equation of a row holds of the keys that satisfy the row: its constants
\* have moved to the right-hand side.
LEMMA EquationIsTheRow ==
  ASSUME NEW first \in Nat, NEW groups \in 1 .. RoundCount, NEW m, Fits(first, groups, m),
         NEW round, NEW e, e = EquationOf(first, m, round)
  PROVE  /\ EffectiveRow(e) \in RowOver(KeyVariables)
         /\ \A key \in SUBSET KeyVariables :
              Satisfies(key, EffectiveRow(e)) <=>
                Parity(m.columns \cap (KeyColumns(first, key) \cup OnesOf(first, groups))) = m.rhs
<1> USE Widths
<1> DEFINE O == m.columns \cap OnesOf(first, groups)
           n == Cardinality(O)
<1>1. IsFiniteSet(O) /\ Cardinality({t \in TermsOf(first, m) : t.value = 1}) = n
  BY FixedTermsAreTheOnes
<1>2. n \in Nat
  BY <1>1, FS_CardinalityType
<1>3. EffectiveRow(e) = [mask |-> BitsOf(first, m), rhs |-> (m.rhs + n) % 2]
  BY <1>1 DEF EffectiveRow, EquationOf
<1>4. BitsOf(first, m) \in SUBSET KeyVariables
  BY KeyColumnsAreTheBits
<1>5. m.rhs \in 0 .. 1
  BY DEF Fits
<1> HIDE DEF n, O
<1>6. EffectiveRow(e) \in RowOver(KeyVariables)
  BY <1>2, <1>3, <1>4, <1>5 DEF RowOver
<1>7. ASSUME NEW key \in SUBSET KeyVariables
      PROVE  Satisfies(key, EffectiveRow(e)) <=>
               Parity(m.columns \cap (KeyColumns(first, key) \cup OnesOf(first, groups))) = m.rhs
  <2> DEFINE C == m.columns \cap KeyColumns(first, key)
             b == Cardinality(BitsOf(first, m) \cap key)
  <2>1. IsFiniteSet(C) /\ Cardinality(C) = b
    <3>1. IsFiniteSet(m.columns \cap KeyColumns(first, key))
      BY RowIsFinite, FS_Intersection
    <3>2. Cardinality(m.columns \cap KeyColumns(first, key))
              = Cardinality(BitsOf(first, m) \cap key)
      BY KeyColumnsAreTheBits
    <3> QED BY <3>1, <3>2
  <2>2. b \in Nat
    BY <2>1, FS_CardinalityType
  <2>3. m.columns \cap (KeyColumns(first, key) \cup OnesOf(first, groups)) = C \cup O
    BY DEF O
  <2>4. C \cap O = {}
    BY DEF O, OnesOf, KeyVariables, KeyColumns
  <2> HIDE DEF C, b
  <2>5. Cardinality(C \cup O) = b + n
    <3>1. Cardinality(C \cup O) = Cardinality(C) + Cardinality(O) - Cardinality(C \cap O)
      BY <1>1, <2>1, FS_Union
    <3>2. Cardinality(C \cap O) = 0
      BY <2>4, FS_EmptySet
    <3> QED BY <1>2, <2>1, <2>2, <3>1, <3>2 DEF n
  <2>6. Satisfies(key, EffectiveRow(e)) <=> b % 2 = (m.rhs + n) % 2
    BY <1>3 DEF Satisfies, Parity, b
  <2>7. b % 2 = (m.rhs + n) % 2 <=> (b + n) % 2 = m.rhs
    BY <1>2, <1>5, <2>2, ParityMoves
  <2> QED BY <2>3, <2>5, <2>6, <2>7 DEF Parity, C
<1> QED BY <1>6, <1>7

\* The validators of GF2Equation and of the sets accept the equation.
LEMMA EquationIsValid ==
  ASSUME NEW first \in Nat, NEW groups \in 1 .. RoundCount, NEW m, Fits(first, groups, m),
         NEW round, NEW e, e = EquationOf(first, m, round)
  PROVE  /\ e.variable_indices \subseteq KeyVariables /\ e.source_rhs \in 0 .. 1
         /\ \A t \in e.fixed_terms : t.value \in 0 .. 1
         /\ \A s, t \in e.fixed_terms : s.name = t.name => s = t
<1>1. e.variable_indices = BitsOf(first, m) /\ e.source_rhs = m.rhs
      /\ e.fixed_terms = TermsOf(first, m)
  BY DEF EquationOf
<1>2. BitsOf(first, m) \subseteq KeyVariables
  <2>1. {} \in SUBSET KeyVariables
    OBVIOUS
  <2> QED BY <2>1, KeyColumnsAreTheBits
<1>3. \A c \in FixedOf(first, m) : c \in first + KeyBits .. first + KeyBits + 7 * groups - 1
  BY Widths DEF FixedOf, Fits
<1>4. \A t \in TermsOf(first, m) : \E c \in FixedOf(first, m) : t = Term(first, c)
  BY DEF TermsOf
<1>5. \A c \in FixedOf(first, m) : Term(first, c).value \in 0 .. 1
  BY <1>3, TermsAreColumns
<1>6. \A c, d \in FixedOf(first, m) : Term(first, c).name = Term(first, d).name => c = d
  BY <1>3, TermsAreColumns
<1> QED BY <1>1, <1>2, <1>4, <1>5, <1>6 DEF Fits

\* What a key must satisfy for the row of a matrix.
KeySatisfies(first, groups, key, m) ==
  Parity(m.columns \cap (KeyColumns(first, key) \cup OnesOf(first, groups))) = m.rhs

\* E consists of the equations of the rows M, which fit the matrix.
MadeOf(first, groups, M, E) ==
  /\ first \in Nat /\ groups \in 1 .. RoundCount
  /\ \A m \in M : Fits(first, groups, m)
  /\ \A e \in E : \E m \in M, round \in Nat : e = EquationOf(first, m, round)
  /\ \A m \in M : \E e \in E, round \in Nat : e = EquationOf(first, m, round)

\* Equations made of rows have the space of the rows.
HasTheSpaceOf(first, groups, M, E) ==
  /\ OnTheKey(E)
  /\ Space(E) = {key \in SUBSET KeyVariables : \A m \in M : KeySatisfies(first, groups, key, m)}

LEMMA EquationsHaveTheSpaceOfTheRows ==
  ASSUME NEW first, NEW groups, NEW M, NEW E, MadeOf(first, groups, M, E)
  PROVE  HasTheSpaceOf(first, groups, M, E)
<1> USE DEF MadeOf
<1>1. ASSUME NEW e \in E, NEW m \in M, NEW round \in Nat, e = EquationOf(first, m, round)
      PROVE  /\ EffectiveRow(e) \in RowOver(KeyVariables)
             /\ \A key \in SUBSET KeyVariables :
                  Satisfies(key, EffectiveRow(e)) <=> KeySatisfies(first, groups, key, m)
  BY <1>1, EquationIsTheRow DEF KeySatisfies
<1>2. OnTheKey(E)
  BY <1>1 DEF OnTheKey
<1>3. ASSUME NEW key \in SUBSET KeyVariables
      PROVE  (\A e \in E : Satisfies(key, EffectiveRow(e)))
               <=> (\A m \in M : KeySatisfies(first, groups, key, m))
  BY <1>1
<1>4. Space(E) = {key \in SUBSET KeyVariables : \A e \in E : Satisfies(key, EffectiveRow(e))}
  BY SpaceIsOfRows DEF SolutionsOf
<1> QED BY <1>2, <1>3, <1>4 DEF HasTheSpaceOf

------------------------------------------------------------------------------
(* The two matrices *)

LCGroups == RoundCount - 1
LNCFirst == (RoundCount + 1) * StateBits

LEMMA MatrixWidths ==
  /\ StateBits \in Nat /\ LCGroups \in 1 .. RoundCount
  /\ LNCFirst \in Nat /\ RoundCount \in 1 .. RoundCount
<1>1. RoundCount \in Nat /\ RoundCount # 0 /\ RoundCount # 1 /\ StateBits \in Nat
  BY StagesAssumption
<1> QED BY <1>1 DEF LCGroups, LNCFirst

\* The operators an instance brings along are the ones of this module.
LEMMA LCOperators ==
  /\ \A S : A2!Cardinality(S) = Cardinality(S)
  /\ \A S : A2!Parity(S) = Parity(S)
  /\ \A equations : A2!Space(equations) = Space(equations)
<1>1. \A S : A2!Cardinality(S) = Cardinality(S)
  BY DEF A2!Cardinality, Cardinality
<1>2. \A S : A2!Parity(S) = Parity(S)
  BY <1>1 DEF A2!Parity, Parity
<1>3. \A x, row : A2!Satisfies(x, row) <=> Satisfies(x, row)
  BY <1>2 DEF A2!Satisfies, Satisfies
<1>4. \A e : A2!EffectiveRow(e) = EffectiveRow(e)
  BY <1>1 DEF A2!EffectiveRow, EffectiveRow
<1>5. \A equations : A2!Space(equations) = Space(equations)
  BY <1>3, <1>4 DEF A2!Space, Space, A2!Solutions, Solutions, A2!KeyVariables, KeyVariables
<1> QED BY <1>1, <1>2, <1>5

LEMMA LNCOperators ==
  /\ \A S : A3!Cardinality(S) = Cardinality(S)
  /\ \A S : A3!Parity(S) = Parity(S)
  /\ \A equations : A3!Space(equations) = Space(equations)
<1>1. \A S : A3!Cardinality(S) = Cardinality(S)
  BY DEF A3!Cardinality, Cardinality
<1>2. \A S : A3!Parity(S) = Parity(S)
  BY <1>1 DEF A3!Parity, Parity
<1>3. \A x, row : A3!Satisfies(x, row) <=> Satisfies(x, row)
  BY <1>2 DEF A3!Satisfies, Satisfies
<1>4. \A e : A3!EffectiveRow(e) = EffectiveRow(e)
  BY <1>1 DEF A3!EffectiveRow, EffectiveRow
<1>5. \A equations : A3!Space(equations) = Space(equations)
  BY <1>3, <1>4 DEF A3!Space, Space, A3!Solutions, Solutions, A3!KeyVariables, KeyVariables
<1> QED BY <1>1, <1>2, <1>5

LEMMA LCMatrix ==
  /\ \A m : A2!Equation(m) = EquationOf(StateBits, m, RoundStart + m.bridge)
  /\ A2!RhsColumn = StateBits + KeyBits + 7 * LCGroups
  /\ \A key, m : A2!SatisfiesRow(key, m) <=> KeySatisfies(StateBits, LCGroups, key, m)
<1>1. \A c : A2!FixedTerm(c) = Term(StateBits, c)
  BY DEF A2!FixedTerm, Term, A2!Slot, A2!Slots, A2!Group, A2!FirstFixed
<1>2. \A m : A2!Equation(m) = EquationOf(StateBits, m, RoundStart + m.bridge)
  BY <1>1 DEF A2!Equation, EquationOf, BitsOf, TermsOf, FixedOf, A2!FirstFixed
<1>3. A2!RhsColumn = StateBits + KeyBits + 7 * LCGroups
  BY DEF A2!RhsColumn, A2!FirstFixed, A2!Slots, A2!FixedGroups, LCGroups
<1>4. A2!ConstantOnes = OnesOf(StateBits, LCGroups)
  <2>1. A2!FirstFixed = StateBits + KeyBits /\ A2!Slots = 7
    BY DEF A2!FirstFixed, A2!Slots
  <2>2. \A c : /\ A2!Slot(c) = (c - (StateBits + KeyBits)) % 7
              /\ A2!Group(c) = (c - (StateBits + KeyBits)) \div 7
    BY <2>1 DEF A2!Slot, A2!Group
  <2> DEFINE s(c) == (c - (StateBits + KeyBits)) % 7
             g(c) == (c - (StateBits + KeyBits)) \div 7
             I == StateBits + KeyBits .. StateBits + KeyBits + 7 * LCGroups - 1
             one(c) == s(c) = 0 \/ A2!Bit(RoundConstant[RoundStart + g(c)], 6 - s(c)) = 1
  <2>4. \A c : A2!Slot(c) = s(c) /\ A2!Group(c) = g(c)
    BY <2>2
  <2>5. A2!FirstFixed .. A2!RhsColumn - 1 = I
    <3>1. A2!RhsColumn - 1 = StateBits + KeyBits + 7 * LCGroups - 1
      BY <1>3, Widths, MatrixWidths
    <3> QED BY <2>1, <3>1
  <2>6. OnesOf(StateBits, LCGroups) = {c \in I : one(c)}
    BY DEF OnesOf
  <2> HIDE DEF s, g, I
  <2>7. A2!ConstantOnes = {c \in I : one(c)}
    BY <2>4, <2>5 DEF A2!ConstantOnes
  <2> QED BY <2>6, <2>7
<1>5. \A key, m : A2!SatisfiesRow(key, m) <=> KeySatisfies(StateBits, LCGroups, key, m)
  BY <1>4, LCOperators DEF A2!SatisfiesRow, KeySatisfies, KeyColumns
<1> QED BY <1>2, <1>3, <1>5

LEMMA LNCMatrix ==
  /\ \A m : A3!Equation(m) = EquationOf(LNCFirst, m, RoundStart)
  /\ A3!RhsColumn = LNCFirst + KeyBits + 7 * RoundCount
  /\ \A key, m : A3!SatisfiesRow(key, m) <=> KeySatisfies(LNCFirst, RoundCount, key, m)
<1>1. \A c : A3!FixedTerm(c) = Term(LNCFirst, c)
  BY DEF A3!FixedTerm, Term, A3!Slot, A3!Slots, A3!Group, A3!FirstFixed, LNCFirst, A2!Bit, A3!Bit
<1>2. \A m : A3!Equation(m) = EquationOf(LNCFirst, m, RoundStart)
  <2>1. RoundStart + 0 = RoundStart
    BY Widths
  <2> QED BY <1>1, <2>1 DEF A3!Equation, EquationOf, BitsOf, TermsOf, FixedOf, A3!FirstFixed,
                           LNCFirst
<1>3. A3!RhsColumn = LNCFirst + KeyBits + 7 * RoundCount
  BY DEF A3!RhsColumn, A3!FirstFixed, A3!Slots, A3!FixedGroups, LNCFirst
<1>4. A3!ConstantOnes = OnesOf(LNCFirst, RoundCount)
  <2>1. A3!FirstFixed = LNCFirst + KeyBits /\ A3!Slots = 7
    BY DEF A3!FirstFixed, A3!Slots, LNCFirst
  <2>2. \A c : /\ A3!Slot(c) = (c - (LNCFirst + KeyBits)) % 7
              /\ A3!Group(c) = (c - (LNCFirst + KeyBits)) \div 7
    BY <2>1 DEF A3!Slot, A3!Group
  <2>3. \A n, i : A3!Bit(n, i) = A2!Bit(n, i)
    BY DEF A2!Bit, A3!Bit
  <2> DEFINE s(c) == (c - (LNCFirst + KeyBits)) % 7
             g(c) == (c - (LNCFirst + KeyBits)) \div 7
             I == LNCFirst + KeyBits .. LNCFirst + KeyBits + 7 * RoundCount - 1
             one(c) == s(c) = 0 \/ A2!Bit(RoundConstant[RoundStart + g(c)], 6 - s(c)) = 1
  <2>4. \A c : A3!Slot(c) = s(c) /\ A3!Group(c) = g(c)
    BY <2>2
  <2>5. A3!FirstFixed .. A3!RhsColumn - 1 = I
    <3>1. A3!RhsColumn - 1 = LNCFirst + KeyBits + 7 * RoundCount - 1
      BY <1>3, Widths, MatrixWidths
    <3> QED BY <2>1, <3>1
  <2>6. OnesOf(LNCFirst, RoundCount) = {c \in I : one(c)}
    BY DEF OnesOf
  <2> HIDE DEF s, g, I
  <2>7. A3!ConstantOnes = {c \in I : one(c)}
    BY <2>4, <2>5, <2>3 DEF A3!ConstantOnes
  <2> QED BY <2>6, <2>7
<1>5. \A key, m : A3!SatisfiesRow(key, m) <=> KeySatisfies(LNCFirst, RoundCount, key, m)
  BY <1>4, LNCOperators DEF A3!SatisfiesRow, KeySatisfies, KeyColumns, LNCFirst
<1> QED BY <1>2, <1>3, <1>5

------------------------------------------------------------------------------
(* The equations of each trail are made of the rows parsed for it *)

\* The rows of S that belong to trail p, as equations.
LCEquations(S, p) ==
  {EquationOf(StateBits, m, RoundStart + m.bridge) : m \in {n \in S : n.position = p}}
LNCEquations(S, p) == {EquationOf(LNCFirst, m, RoundStart) : m \in {n \in S : n.position = p}}

\* One element more in one entry.
LEMMA OneEntryGrows ==
  ASSUME NEW D, NEW f, f = [p \in D |-> f[p]], NEW g, g = [p \in D |-> g[p]],
         NEW q \in D, NEW e, \A p \in D : g[p] = IF q = p THEN f[p] \cup {e} ELSE f[p]
  PROVE  [f EXCEPT ![q] = @ \cup {e}] = g
<1> DEFINE h == [f EXCEPT ![q] = @ \cup {e}]
<1>1. h = [p \in D |-> IF p = q THEN f[p] \cup {e} ELSE f[p]]
  OBVIOUS
<1>2. \A p \in D : h[p] = g[p]
  BY <1>1
<1>3. h = [p \in D |-> h[p]]
  BY <1>1
<1> HIDE DEF h
<1>4. h = g
  BY <1>2, <1>3
<1> QED BY <1>4 DEF h

\* One more row.
Joined(S, m, T) == T = S \cup {m}

LEMMA OneMoreRow ==
  ASSUME NEW S, NEW m, NEW T, Joined(S, m, T), NEW p
  PROVE  /\ LCEquations(T, p) =
              IF m.position = p
              THEN LCEquations(S, p) \cup {EquationOf(StateBits, m, RoundStart + m.bridge)}
              ELSE LCEquations(S, p)
         /\ LNCEquations(T, p) =
              IF m.position = p
              THEN LNCEquations(S, p) \cup {EquationOf(LNCFirst, m, RoundStart)}
              ELSE LNCEquations(S, p)
<1> DEFINE R(U) == {n \in U : n.position = p}
<1>1. CASE m.position = p
  <2>1. R(T) = R(S) \cup {m}
    BY <1>1 DEF Joined
  <2> QED BY <1>1, <2>1 DEF LCEquations, LNCEquations
<1>2. CASE m.position # p
  <2>1. R(T) = R(S)
    BY <1>2 DEF Joined
  <2> QED BY <1>2, <2>1 DEF LCEquations, LNCEquations
<1> QED BY <1>1, <1>2

\* What A2 has parsed fits its matrix and is what its equations are made of; it
\* returns only sets that some key satisfies.
A2Rows ==
  /\ {a2_source, a2_corpus, a2_built.program, a2_built.trails} \subseteq FileVersion
  /\ a2_seen \subseteq LCMarkers
  /\ \A m \in a2_seen : /\ m.position \in Positions /\ m.bridge \in 0 .. RoundCount - 2
                        /\ Fits(StateBits, LCGroups, m)
  /\ a2_rows = [p \in Positions |-> LCEquations(a2_seen, p)]
  /\ a2_step = "returned" => \A p \in Positions : Consistent(a2_rows[p])

A3Rows ==
  /\ {a3_source, a3_corpus, a3_built.program, a3_built.trails} \subseteq FileVersion
  /\ a3_seen \subseteq LNCMarkers
  /\ \A m \in a3_seen : m.position \in Positions /\ Fits(LNCFirst, RoundCount, m)
  /\ a3_rows = [p \in Positions |-> LNCEquations(a3_seen, p)]
  /\ a3_step = "returned" => \A p \in Positions : Consistent(a3_rows[p])

\* An accepted marker fits the matrix.
LEMMA LCAcceptsWhatFits ==
  ASSUME NEW m \in LCMarkers, A2!Accepted(m)
  PROVE  /\ m.position \in Positions /\ m.bridge \in 0 .. RoundCount - 2
         /\ Fits(StateBits, LCGroups, m)
<1>1. m.rhs \in 0 .. 1
  BY MarkersAssumption DEF A2!Marker
<1>2. StateBits .. A2!RhsColumn - 1 = StateBits .. StateBits + KeyBits + 7 * LCGroups - 1
  <2>1. A2!RhsColumn - 1 = StateBits + KeyBits + 7 * LCGroups - 1
    BY LCMatrix, Widths, MatrixWidths
  <2> QED BY <2>1
<1> QED BY <1>1, <1>2 DEF A2!Accepted, A2!Positions, Positions, Fits

LEMMA LNCAcceptsWhatFits ==
  ASSUME NEW m \in LNCMarkers, A3!Accepted(m)
  PROVE  m.position \in Positions /\ Fits(LNCFirst, RoundCount, m)
<1>1. m.rhs \in 0 .. 1
  BY MarkersAssumption DEF A3!Marker
<1>2. m.columns \subseteq LNCFirst .. LNCFirst + KeyBits + 7 * RoundCount - 1
  <2>1. A3!RhsColumn - 1 = LNCFirst + KeyBits + 7 * RoundCount - 1
    BY LNCMatrix, Widths, MatrixWidths
  <2> QED BY <2>1 DEF A3!Accepted, LNCFirst
<1> QED BY <1>1, <1>2 DEF A3!Accepted, A3!Positions, Positions, Fits

LEMMA A2RowsAtFirst == A2!Init => A2Rows
<1>1. \A p : LCEquations({}, p) = {}
  BY DEF LCEquations
<1> QED BY <1>1 DEF A2!Init, A2Rows, A2!NotBuilt, A2!Positions, Positions, FileVersion

LEMMA A3RowsAtFirst == A3!Init => A3Rows
<1>1. \A p : LNCEquations({}, p) = {}
  BY DEF LNCEquations
<1> QED BY <1>1 DEF A3!Init, A3Rows, A3!NotBuilt, A3!Positions, Positions, FileVersion

LEMMA A2KeepsItsRows == A2Rows /\ A2!Next => A2Rows'
<1> SUFFICES ASSUME A2Rows, A2!Next PROVE A2Rows'
  OBVIOUS
<1>1. CASE A2!ReadSource \/ A2!ReadTrails
  BY <1>1 DEF A2!ReadSource, A2!ReadTrails, A2Rows, A2!FileVersion, FileVersion
<1>2. CASE A2!RejectInput \/ A2!BuildFails \/ A2!ProgramFails \/ A2!RejectRow \/ A2!RejectOutput
  BY <1>2 DEF A2!RejectInput, A2!BuildFails, A2!ProgramFails, A2!RejectRow, A2!RejectOutput,
              A2!Raise, A2Rows
<1>3. CASE A2!WriteInputs \/ A2!RunProgram
  BY <1>3 DEF A2!WriteInputs, A2!RunProgram, A2Rows
<1>4. CASE A2!ParseRow
  <2>1. PICK m \in LCMarkers :
          /\ A2!Accepted(m)
          /\ a2_seen' = a2_seen \cup {m}
          /\ a2_rows' = [a2_rows EXCEPT ![m.position] = @ \cup {A2!Equation(m)}]
    BY <1>4 DEF A2!ParseRow
  <2>2. m.position \in Positions /\ m.bridge \in 0 .. RoundCount - 2
        /\ Fits(StateBits, LCGroups, m)
    BY <2>1, LCAcceptsWhatFits
  <2>3. A2!Equation(m) = EquationOf(StateBits, m, RoundStart + m.bridge)
    BY LCMatrix
  <2>4. a2_rows' = [p \in Positions |-> LCEquations(a2_seen', p)]
    <3> DEFINE e == A2!Equation(m)
               old(p) == LCEquations(a2_seen, p)
               new(p) == LCEquations(a2_seen', p)
    <3>1. a2_rows = [p \in Positions |-> old(p)]
      BY DEF A2Rows
    <3>2. \A p : new(p) = IF m.position = p THEN old(p) \cup {e} ELSE old(p)
      <4>1. Joined(a2_seen, m, a2_seen')
        BY <2>1 DEF Joined
      <4> QED BY <4>1, <2>3, OneMoreRow
    <3>3. a2_rows' = [a2_rows EXCEPT ![m.position] = @ \cup {e}]
      BY <2>1
    <3> DEFINE all == [p \in Positions |-> new(p)]
    <3>4. \A p \in Positions :
            all[p] = IF m.position = p THEN a2_rows[p] \cup {e} ELSE a2_rows[p]
      BY <3>1, <3>2
    <3>5. all = [p \in Positions |-> all[p]] /\ a2_rows = [p \in Positions |-> a2_rows[p]]
      BY <3>1
    <3> HIDE DEF e, old, new, all
    <3>6. [a2_rows EXCEPT ![m.position] = @ \cup {e}] = all
      BY <2>2, <3>4, <3>5, OneEntryGrows
    <3> QED BY <2>1, <3>3, <3>6 DEF all, new
  <2>5. a2_step' # "returned" /\ UNCHANGED <<a2_source, a2_corpus, a2_built>>
    BY <1>4 DEF A2!ParseRow
  <2> QED BY <2>1, <2>2, <2>4, <2>5 DEF A2Rows
<1>5. CASE A2!BuildSets
  <2>1. \A p \in Positions : Consistent(a2_rows[p])
    BY <1>5, LCOperators DEF A2!BuildSets, A2!Inconsistent, A2!Consistent, Consistent,
                             A2!Positions, Positions
  <2> QED BY <1>5, <2>1 DEF A2!BuildSets, A2Rows
<1> QED BY <1>1, <1>2, <1>3, <1>4, <1>5 DEF A2!Next

LEMMA A3KeepsItsRows == A3Rows /\ A3!Next => A3Rows'
<1> SUFFICES ASSUME A3Rows, A3!Next PROVE A3Rows'
  OBVIOUS
<1>1. CASE A3!ReadSource \/ A3!ReadTrails
  BY <1>1 DEF A3!ReadSource, A3!ReadTrails, A3Rows, A3!FileVersion, FileVersion
<1>2. CASE A3!RejectInput \/ A3!BuildFails \/ A3!ProgramFails \/ A3!RejectRow \/ A3!RejectOutput
  BY <1>2 DEF A3!RejectInput, A3!BuildFails, A3!ProgramFails, A3!RejectRow, A3!RejectOutput,
              A3!Raise, A3Rows
<1>3. CASE A3!WriteInputs \/ A3!RunProgram
  BY <1>3 DEF A3!WriteInputs, A3!RunProgram, A3Rows
<1>4. CASE A3!ParseRow
  <2>1. PICK m \in LNCMarkers :
          /\ A3!Accepted(m)
          /\ a3_seen' = a3_seen \cup {m}
          /\ a3_rows' = [a3_rows EXCEPT ![m.position] = @ \cup {A3!Equation(m)}]
    BY <1>4 DEF A3!ParseRow
  <2>2. m.position \in Positions /\ Fits(LNCFirst, RoundCount, m)
    BY <2>1, LNCAcceptsWhatFits
  <2>3. A3!Equation(m) = EquationOf(LNCFirst, m, RoundStart)
    BY LNCMatrix
  <2>4. a3_rows' = [p \in Positions |-> LNCEquations(a3_seen', p)]
    <3> DEFINE e == A3!Equation(m)
               old(p) == LNCEquations(a3_seen, p)
               new(p) == LNCEquations(a3_seen', p)
    <3>1. a3_rows = [p \in Positions |-> old(p)]
      BY DEF A3Rows
    <3>2. \A p : new(p) = IF m.position = p THEN old(p) \cup {e} ELSE old(p)
      <4>1. Joined(a3_seen, m, a3_seen')
        BY <2>1 DEF Joined
      <4> QED BY <4>1, <2>3, OneMoreRow
    <3>3. a3_rows' = [a3_rows EXCEPT ![m.position] = @ \cup {e}]
      BY <2>1
    <3> DEFINE all == [p \in Positions |-> new(p)]
    <3>4. \A p \in Positions :
            all[p] = IF m.position = p THEN a3_rows[p] \cup {e} ELSE a3_rows[p]
      BY <3>1, <3>2
    <3>5. all = [p \in Positions |-> all[p]] /\ a3_rows = [p \in Positions |-> a3_rows[p]]
      BY <3>1
    <3> HIDE DEF e, old, new, all
    <3>6. [a3_rows EXCEPT ![m.position] = @ \cup {e}] = all
      BY <2>2, <3>4, <3>5, OneEntryGrows
    <3> QED BY <2>1, <3>3, <3>6 DEF all, new
  <2>5. a3_step' # "returned" /\ UNCHANGED <<a3_source, a3_corpus, a3_built>>
    BY <1>4 DEF A3!ParseRow
  <2> QED BY <2>1, <2>2, <2>4, <2>5 DEF A3Rows
<1>5. CASE A3!BuildSets
  <2>1. \A p \in Positions : Consistent(a3_rows[p])
    BY <1>5, LNCOperators DEF A3!BuildSets, A3!Inconsistent, A3!Consistent, Consistent,
                             A3!Positions, Positions
  <2> QED BY <1>5, <2>1 DEF A3!BuildSets, A3Rows
<1> QED BY <1>1, <1>2, <1>3, <1>4, <1>5 DEF A3!Next

------------------------------------------------------------------------------

LEMMA A2KeepsItsBytes == A2Inv /\ A2!Next => A2Inv'
<1> SUFFICES ASSUME A2Inv, A2!Next PROVE A2Inv'
  OBVIOUS
<1> USE DEF A2Inv, Working, Pinned
<1>1. CASE A2!ReadSource \/ A2!ReadTrails
  BY <1>1 DEF A2!ReadSource, A2!ReadTrails
<1>2. CASE A2!RejectInput \/ A2!BuildFails \/ A2!ProgramFails \/ A2!RejectRow \/ A2!RejectOutput
  BY <1>2 DEF A2!RejectInput, A2!BuildFails, A2!ProgramFails, A2!RejectRow, A2!RejectOutput,
              A2!Raise
<1>3. CASE A2!WriteInputs \/ A2!RunProgram
  BY <1>3 DEF A2!WriteInputs, A2!RunProgram
<1>4. CASE A2!ParseRow
  BY <1>4 DEF A2!ParseRow
<1>5. CASE A2!BuildSets
  BY <1>5 DEF A2!BuildSets, A2!ConstraintSet, ConstraintSet, A2!Sha256, Sha256
<1> QED BY <1>1, <1>2, <1>3, <1>4, <1>5 DEF A2!Next

LEMMA A3KeepsItsBytes == A3Inv /\ A3!Next => A3Inv'
<1> SUFFICES ASSUME A3Inv, A3!Next PROVE A3Inv'
  OBVIOUS
<1> USE DEF A3Inv, Working, Pinned
<1>1. CASE A3!ReadSource \/ A3!ReadTrails
  BY <1>1 DEF A3!ReadSource, A3!ReadTrails
<1>2. CASE A3!RejectInput \/ A3!BuildFails \/ A3!ProgramFails \/ A3!RejectRow \/ A3!RejectOutput
  BY <1>2 DEF A3!RejectInput, A3!BuildFails, A3!ProgramFails, A3!RejectRow, A3!RejectOutput,
              A3!Raise
<1>3. CASE A3!WriteInputs \/ A3!RunProgram
  BY <1>3 DEF A3!WriteInputs, A3!RunProgram
<1>4. CASE A3!ParseRow
  BY <1>4 DEF A3!ParseRow
<1>5. CASE A3!BuildSets
  BY <1>5 DEF A3!BuildSets, A3!ConstraintSet, ConstraintSet, A3!Sha256, Sha256
<1> QED BY <1>1, <1>2, <1>3, <1>4, <1>5 DEF A3!Next

\* The conjunction is inductive.
LEMMA StagesInvariant == Spec => [](A2Inv /\ A3Inv /\ StagesInv)
<1>1. Init => A2Inv /\ A3Inv /\ StagesInv
  BY DEF Init, A2!Init, A3!Init, A2Inv, A3Inv, StagesInv, Working
<1>2. A2Inv /\ A3Inv /\ StagesInv /\ [Next]_vars => (A2Inv /\ A3Inv /\ StagesInv)'
  <2> SUFFICES ASSUME A2Inv, A3Inv, StagesInv, [Next]_vars
               PROVE  A2Inv' /\ A3Inv' /\ StagesInv'
    OBVIOUS
  <2>1. CASE A2Works
    <3>1. A2Inv' /\ a2_step' \in Working \cup {"returned", "raised"}
      BY <2>1, A2KeepsItsBytes DEF A2Works, A2Inv
    <3>2. A3Inv'
      BY <2>1 DEF A2Works, a3, A3Inv
    <3>3. /\ a2_step' = "returned" => phase' = "hand_over"
          /\ a2_step' = "raised" => phase' = "raised"
          /\ a2_step' \notin {"returned", "raised"} => phase' = "a2"
      BY <2>1 DEF A2Works, Proceed
    <3>4. phase = "a2" /\ UNCHANGED <<a3_step, lc_constraint_sets, comparisons>>
      BY <2>1 DEF A2Works, a3
    <3>5. lc_constraint_sets' = <<>> /\ DOMAIN lc_constraint_sets' = {} /\ comparisons' = <<>>
      BY <3>4 DEF StagesInv
    <3>6. CASE a2_step' = "returned" \/ a2_step' = "raised"
      BY <3>1, <3>2, <3>3, <3>4, <3>5, <3>6 DEF StagesInv
    <3>7. CASE a2_step' \in Working
      BY <3>1, <3>2, <3>3, <3>4, <3>5, <3>7 DEF StagesInv, Working
    <3> QED BY <3>1, <3>6, <3>7
  <2>2. CASE HandOver \/ HandOverOther
    <3>1. A2Inv' /\ A3Inv'
      BY <2>2 DEF HandOver, HandOverOther, a2, a3, A2Inv, A3Inv
    <3>2. a2_step = "returned" /\ DOMAIN a2_sets = 1 .. TrailCount /\ a3_step \in Working
      BY <2>2 DEF HandOver, HandOverOther, StagesInv, A2Inv
    <3>3. \A i \in DOMAIN lc_constraint_sets' : \E j \in 1 .. TrailCount :
            lc_constraint_sets'[i] = a2_sets[j]
      BY <2>2, <3>2 DEF HandOver, HandOverOther
    <3>4. phase' = "a3" /\ UNCHANGED <<a2_step, a2_sets, a3_step>> /\ comparisons' = <<>>
      BY <2>2 DEF HandOver, HandOverOther, a2, a3, StagesInv
    <3> QED BY <3>1, <3>2, <3>3, <3>4 DEF StagesInv
  <2>3. CASE A3Works
    <3>1. A3Inv' /\ a3_step' \in Working \cup {"returned", "raised"}
      BY <2>3, A3KeepsItsBytes DEF A3Works, A3Inv
    <3>2. A2Inv'
      BY <2>3 DEF A3Works, a2, A2Inv
    <3>3. /\ a3_step' = "returned" => phase' = "compare"
          /\ a3_step' = "raised" => phase' = "raised"
          /\ a3_step' \notin {"returned", "raised"} => phase' = "a3"
      BY <2>3 DEF A3Works, Proceed
    <3>4. phase = "a3" /\ UNCHANGED <<a2_step, a2_sets, lc_constraint_sets>> /\ comparisons' = <<>>
      BY <2>3 DEF A3Works, a2, StagesInv
    <3> QED BY <3>1, <3>2, <3>3, <3>4 DEF StagesInv, Working
  <2>4. CASE Compare
    <3>1. A2Inv' /\ A3Inv'
      BY <2>4 DEF Compare, a2, a3, A2Inv, A3Inv
    <3>2. /\ phase = "compare" /\ phase' = "returned"
          /\ UNCHANGED <<a2_step, a2_sets, lc_constraint_sets, a3_step, a3_sets>>
          /\ PairingAccepted /\ comparisons' = Comparisons
      BY <2>4 DEF Compare, a2, a3
    <3>3. PairingAccepted' = PairingAccepted /\ Comparisons' = Comparisons
      BY <3>2 DEF PairingAccepted, Comparisons, Unambiguous, PositionsOf, Base
    <3> QED BY <3>1, <3>2, <3>3 DEF StagesInv
  <2>5. CASE RefuseComparison
    BY <2>5 DEF RefuseComparison, a2, a3, A2Inv, A3Inv, StagesInv
  <2>6. CASE UNCHANGED vars
    <3>1. A2Inv' /\ A3Inv'
      BY <2>6 DEF vars, a2, a3, A2Inv, A3Inv
    <3>2. UNCHANGED <<phase, a2_step, a2_sets, lc_constraint_sets, a3_step, a3_sets, comparisons>>
      BY <2>6 DEF vars, a2, a3
    <3>3. PairingAccepted' = PairingAccepted /\ Comparisons' = Comparisons
      BY <3>2 DEF PairingAccepted, Comparisons, Unambiguous, PositionsOf, Base
    <3> QED BY <3>1, <3>2, <3>3 DEF StagesInv
  <2> QED BY <2>1, <2>2, <2>3, <2>4, <2>5, <2>6 DEF Next
<1> QED BY <1>1, <1>2, PTL DEF Spec

------------------------------------------------------------------------------

\* What a returned A3 knows of the tuple it was given: its sets are those of A2,
\* and they have a set of A3 and only one at each of their positions.
LEMMA OneBasePerTrail ==
  ASSUME A2Inv, A3Inv, StagesInv, phase = "returned", NEW p \in Positions
  PROVE  \E i \in DOMAIN lc_constraint_sets :
           /\ lc_constraint_sets[i] = a2_sets[p + 1]
           /\ \A j \in DOMAIN lc_constraint_sets : lc_constraint_sets[j].position = p => j = i
<1> USE StagesAssumption
<1>1. a3_sets = [i \in 1 .. TrailCount |->
                   ConstraintSet("LC_PLUS_LINEARIZED_RELATIONS", i - 1,
                                 Sha256("pinned"), a3_rows[i - 1])]
  BY DEF StagesInv, A3Inv
<1>2. a2_sets = [i \in 1 .. TrailCount |->
                   ConstraintSet("LC", i - 1, Sha256("pinned"), a2_rows[i - 1])]
  BY DEF StagesInv, A2Inv
<1>3. p + 1 \in 1 .. TrailCount /\ (p + 1) - 1 = p
  BY DEF Positions
<1>4. p + 1 \in DOMAIN a3_sets /\ a3_sets[p + 1].position = p
  BY <1>1, <1>3 DEF ConstraintSet
<1>5. p \in PositionsOf(a3_sets)
  BY <1>4 DEF PositionsOf
<1>6. PICK i \in DOMAIN lc_constraint_sets : lc_constraint_sets[i].position = p
  <2>1. p \in PositionsOf(lc_constraint_sets)
    BY <1>5 DEF StagesInv, PairingAccepted
  <2> QED BY <2>1 DEF PositionsOf
<1>7. PICK j \in 1 .. TrailCount : lc_constraint_sets[i] = a2_sets[j]
  BY <1>6 DEF StagesInv
<1>8. a2_sets[j].position = j - 1
  BY <1>2 DEF ConstraintSet
<1>9. j = p + 1
  BY <1>6, <1>7, <1>8 DEF Positions
<1>10. Unambiguous(lc_constraint_sets)
  BY DEF StagesInv, PairingAccepted
<1> QED BY <1>6, <1>7, <1>9, <1>10 DEF Unambiguous

\* The sets an adapter has returned.
LEMMA SetsOfTheTrail ==
  ASSUME NEW p \in Positions, NEW q, q = p + 1
  PROVE  /\ q \in 1 .. TrailCount
         /\ A2Inv /\ a2_step = "returned" =>
              a2_sets[q] = ConstraintSet("LC", p, Sha256("pinned"), a2_rows[p])
         /\ A3Inv /\ a3_step = "returned" =>
              a3_sets[q] = ConstraintSet("LC_PLUS_LINEARIZED_RELATIONS", p,
                                         Sha256("pinned"), a3_rows[p])
<1>1. q \in 1 .. TrailCount /\ q - 1 = p
  BY StagesAssumption DEF Positions
<1>2. A2Inv /\ a2_step = "returned" =>
        a2_sets[q] = ConstraintSet("LC", p, Sha256("pinned"), a2_rows[p])
  BY <1>1 DEF A2Inv
<1>3. A3Inv /\ a3_step = "returned" =>
        a3_sets[q] = ConstraintSet("LC_PLUS_LINEARIZED_RELATIONS", p,
                                   Sha256("pinned"), a3_rows[p])
  BY <1>1 DEF A3Inv
<1> QED BY <1>1, <1>2, <1>3

\* Base(p) is the set A2 built for trail p, wherever the tuple holds it.
LEMMA BaseIsOfTheTrail ==
  ASSUME A2Inv, a2_step = "returned", IsRearrangement, NEW p \in Positions
  PROVE  Base(p) = a2_sets[p + 1]
<1>1. PICK i \in DOMAIN lc_constraint_sets :
        /\ lc_constraint_sets[i] = a2_sets[p + 1]
        /\ \A j \in DOMAIN lc_constraint_sets : lc_constraint_sets[j].position = p => j = i
  BY DEF IsRearrangement
<1>2. lc_constraint_sets[i].position = p
  <2> DEFINE q == p + 1
  <2>1. lc_constraint_sets[i] = a2_sets[q] /\ q = p + 1
    BY <1>1
  <2> HIDE DEF q
  <2>2. a2_sets[q] = ConstraintSet("LC", p, Sha256("pinned"), a2_rows[p])
    BY <2>1, SetsOfTheTrail
  <2> QED BY <2>1, <2>2 DEF ConstraintSet
<1>3. (CHOOSE j \in DOMAIN lc_constraint_sets : lc_constraint_sets[j].position = p) = i
  BY <1>1, <1>2
<1> QED BY <1>1, <1>3 DEF Base

\* What A3 returns, trail by trail.
LEMMA ComparisonOfTrail ==
  ASSUME A2Inv, A3Inv, StagesInv, phase = "returned"
  PROVE  /\ DOMAIN comparisons = 1 .. TrailCount
         /\ \A p \in Positions :
              comparisons[p + 1] = CompareSpaces(a2_sets[p + 1], a3_sets[p + 1])
<1> USE StagesAssumption
<1>1. a3_sets = [i \in 1 .. TrailCount |->
                   ConstraintSet("LC_PLUS_LINEARIZED_RELATIONS", i - 1,
                                 Sha256("pinned"), a3_rows[i - 1])]
  BY DEF StagesInv, A3Inv
<1>2. comparisons = [i \in 1 .. TrailCount |->
                       CompareSpaces(Base(a3_sets[i].position), a3_sets[i])]
  BY <1>1 DEF StagesInv, Comparisons
<1>3. ASSUME NEW p \in Positions
      PROVE  comparisons[p + 1] = CompareSpaces(a2_sets[p + 1], a3_sets[p + 1])
  <2>1. p + 1 \in 1 .. TrailCount /\ (p + 1) - 1 = p
    BY DEF Positions
  <2>2. a3_sets[p + 1].position = p
    BY <1>1, <2>1 DEF ConstraintSet
  <2>3. Base(p) = a2_sets[p + 1]
    BY BaseIsOfTheTrail, OneBasePerTrail DEF IsRearrangement, StagesInv
  <2> QED BY <1>2, <2>1, <2>2, <2>3
<1> QED BY <1>2, <1>3

------------------------------------------------------------------------------
(* The rows of each trail, and the spaces they have *)

LEMMA RowsInvariant == Spec => [](A2Rows /\ A3Rows)
<1>1. Init => A2Rows /\ A3Rows
  BY A2RowsAtFirst, A3RowsAtFirst DEF Init
<1>2. A2Rows /\ A3Rows /\ [Next]_vars => (A2Rows /\ A3Rows)'
  <2> SUFFICES ASSUME A2Rows, A3Rows, [Next]_vars PROVE A2Rows' /\ A3Rows'
    OBVIOUS
  <2>1. UNCHANGED a2 => A2Rows'
    BY DEF a2, A2Rows
  <2>2. UNCHANGED a3 => A3Rows'
    BY DEF a3, A3Rows
  <2>3. CASE A2Works
    <3>1. A2Rows'
      BY <2>3, A2KeepsItsRows DEF A2Works
    <3> QED BY <2>2, <2>3, <3>1 DEF A2Works
  <2>4. CASE A3Works
    <3>1. A3Rows'
      BY <2>4, A3KeepsItsRows DEF A3Works
    <3> QED BY <2>1, <2>4, <3>1 DEF A3Works
  <2>5. CASE HandOver \/ HandOverOther \/ Compare \/ RefuseComparison \/ UNCHANGED vars
    <3>1. UNCHANGED a2 /\ UNCHANGED a3
      BY <2>5 DEF HandOver, HandOverOther, Compare, RefuseComparison, vars
    <3> QED BY <2>1, <2>2, <3>1
  <2> QED BY <2>3, <2>4, <2>5 DEF Next
<1> QED BY <1>1, <1>2, PTL DEF Spec

\* The equations of a trail have the space of its rows.
LEMMA LCSpaceOfTrail ==
  ASSUME A2Rows, NEW p \in Positions
  PROVE  /\ OnTheKey(a2_rows[p])
         /\ Space(a2_rows[p]) =
              {key \in SUBSET KeyVariables :
                 \A m \in a2_seen : m.position = p => KeySatisfies(StateBits, LCGroups, key, m)}
<1> DEFINE M == {m \in a2_seen : m.position = p}
           E == LCEquations(a2_seen, p)
<1>1. a2_rows[p] = E
  BY DEF A2Rows
<1>2. \A m \in M : Fits(StateBits, LCGroups, m) /\ RoundStart + m.bridge \in Nat
  BY Widths DEF A2Rows
<1>3. E = {EquationOf(StateBits, m, RoundStart + m.bridge) : m \in M}
  BY DEF LCEquations
<1> HIDE DEF M, E
<1>4. \A e \in E : \E m \in M, round \in Nat : e = EquationOf(StateBits, m, round)
  BY <1>2, <1>3
<1>5. \A m \in M : \E e \in E, round \in Nat : e = EquationOf(StateBits, m, round)
  BY <1>2, <1>3
<1>6. MadeOf(StateBits, LCGroups, M, E)
  BY <1>2, <1>4, <1>5, MatrixWidths DEF MadeOf
<1>10. HasTheSpaceOf(StateBits, LCGroups, M, E)
  BY <1>6, EquationsHaveTheSpaceOfTheRows
<1> DEFINE ofM(key) == \A m \in M : KeySatisfies(StateBits, LCGroups, key, m)
           ofSeen(key) == \A m \in a2_seen : m.position = p => KeySatisfies(StateBits, LCGroups, key, m)
<1>7. \A key : ofM(key) <=> ofSeen(key)
  BY DEF M
<1>8. OnTheKey(a2_rows[p]) /\ Space(a2_rows[p]) = {key \in SUBSET KeyVariables : ofM(key)}
  BY <1>1, <1>10 DEF HasTheSpaceOf
<1> HIDE DEF ofM, ofSeen
<1>9. {key \in SUBSET KeyVariables : ofM(key)} = {key \in SUBSET KeyVariables : ofSeen(key)}
  BY <1>7
<1> QED BY <1>8, <1>9 DEF ofSeen

LEMMA LNCSpaceOfTrail ==
  ASSUME A3Rows, NEW p \in Positions
  PROVE  /\ OnTheKey(a3_rows[p])
         /\ Space(a3_rows[p]) =
              {key \in SUBSET KeyVariables :
                 \A m \in a3_seen : m.position = p => KeySatisfies(LNCFirst, RoundCount, key, m)}
<1> DEFINE M == {m \in a3_seen : m.position = p}
           E == LNCEquations(a3_seen, p)
<1>1. a3_rows[p] = E
  BY DEF A3Rows
<1>2. \A m \in M : Fits(LNCFirst, RoundCount, m) /\ RoundStart \in Nat
  BY Widths DEF A3Rows
<1>3. E = {EquationOf(LNCFirst, m, RoundStart) : m \in M}
  BY DEF LNCEquations
<1> HIDE DEF M, E
<1>4. \A e \in E : \E m \in M, round \in Nat : e = EquationOf(LNCFirst, m, round)
  BY <1>2, <1>3
<1>5. \A m \in M : \E e \in E, round \in Nat : e = EquationOf(LNCFirst, m, round)
  BY <1>2, <1>3
<1>6. MadeOf(LNCFirst, RoundCount, M, E)
  BY <1>2, <1>4, <1>5, MatrixWidths DEF MadeOf
<1>10. HasTheSpaceOf(LNCFirst, RoundCount, M, E)
  BY <1>6, EquationsHaveTheSpaceOfTheRows
<1> DEFINE ofM(key) == \A m \in M : KeySatisfies(LNCFirst, RoundCount, key, m)
           ofSeen(key) == \A m \in a3_seen : m.position = p => KeySatisfies(LNCFirst, RoundCount, key, m)
<1>7. \A key : ofM(key) <=> ofSeen(key)
  BY DEF M
<1>8. OnTheKey(a3_rows[p]) /\ Space(a3_rows[p]) = {key \in SUBSET KeyVariables : ofM(key)}
  BY <1>1, <1>10 DEF HasTheSpaceOf
<1> HIDE DEF ofM, ofSeen
<1>9. {key \in SUBSET KeyVariables : ofM(key)} = {key \in SUBSET KeyVariables : ofSeen(key)}
  BY <1>7
<1> QED BY <1>8, <1>9 DEF ofSeen

\* Once both have returned, the sets of a trail can be compared, and the
\* comparison says how their spaces are related.
LEMMA TrailComparison ==
  ASSUME A2Inv, A3Inv, A2Rows, A3Rows, a2_step = "returned", a3_step = "returned",
         NEW p \in Positions, NEW c, c = CompareSpaces(a2_sets[p + 1], a3_sets[p + 1])
  PROVE  LET S == Space(a2_sets[p + 1].equations)
             T == Space(a3_sets[p + 1].equations)
         IN  /\ ValidComparison(c)
             /\ c.base_implied_by_combined <=> T \subseteq S
             /\ c.base_implied_by_combined =>
                  Cardinality(S) = 2 ^ c.incremental_rank * Cardinality(T)
             /\ c.base_semantic_sha256 = c.combined_semantic_sha256 <=> S = T
<1>1. a2_sets[p + 1].equations = a2_rows[p] /\ a3_sets[p + 1].equations = a3_rows[p]
  <2> DEFINE q == p + 1
  <2>1. q = p + 1
    OBVIOUS
  <2> HIDE DEF q
  <2>2. /\ a2_sets[q] = ConstraintSet("LC", p, Sha256("pinned"), a2_rows[p])
        /\ a3_sets[q] = ConstraintSet("LC_PLUS_LINEARIZED_RELATIONS", p,
                                      Sha256("pinned"), a3_rows[p])
    BY <2>1, SetsOfTheTrail
  <2>3. a2_sets[q].equations = a2_rows[p] /\ a3_sets[q].equations = a3_rows[p]
    BY <2>2 DEF ConstraintSet
  <2> QED BY <2>1, <2>3
<1>2. OnTheKey(a2_rows[p]) /\ OnTheKey(a3_rows[p])
  BY LCSpaceOfTrail, LNCSpaceOfTrail
<1>3. Consistent(a2_rows[p]) /\ Consistent(a3_rows[p])
  BY DEF A2Rows, A3Rows
<1> DEFINE base == a2_sets[p + 1]
           combined == a3_sets[p + 1]
<1>4. /\ OnTheKey(base.equations) /\ Consistent(base.equations)
      /\ OnTheKey(combined.equations) /\ Consistent(combined.equations)
  BY <1>1, <1>2, <1>3
<1> HIDE DEF base, combined
<1>5. c = CompareSpaces(base, combined)
  BY DEF base, combined
<1>6. LET S == Space(base.equations)
          T == Space(combined.equations)
      IN  /\ ValidComparison(c)
          /\ c.base_implied_by_combined <=> T \subseteq S
          /\ c.base_implied_by_combined =>
               Cardinality(S) = 2 ^ c.incremental_rank * Cardinality(T)
          /\ c.base_semantic_sha256 = c.combined_semantic_sha256 <=> S = T
  BY <1>4, <1>5, ComparisonSays
<1> QED BY <1>6 DEF base, combined

------------------------------------------------------------------------------

\* Both programs ran on the pinned trails, and every comparison carries the
\* digest of them, however often the files change during the two calls.
THEOREM SameTrails == Spec => []SameTrailsThroughout
<1>1. A2Inv /\ A3Inv /\ StagesInv => SameTrailsThroughout
  <2> SUFFICES ASSUME A2Inv, A3Inv, StagesInv, phase = "returned"
               PROVE  /\ a2_built = Pinned /\ a3_built = Pinned
                      /\ \A i \in DOMAIN comparisons :
                           comparisons[i].source_artifact_sha256 = Sha256("pinned")
    BY DEF SameTrailsThroughout, Pinned
  <2>1. a2_built = Pinned /\ a3_built = Pinned
    BY DEF StagesInv, A2Inv, A3Inv
  <2>2. ASSUME NEW i \in DOMAIN comparisons
        PROVE  comparisons[i].source_artifact_sha256 = Sha256("pinned")
    <3>1. i \in 1 .. TrailCount /\ i - 1 \in Positions /\ (i - 1) + 1 = i
      BY ComparisonOfTrail, StagesAssumption DEF Positions
    <3>2. comparisons[i] = CompareSpaces(a2_sets[i], a3_sets[i])
      BY <3>1, ComparisonOfTrail
    <3>3. a2_sets[i] = ConstraintSet("LC", i - 1, Sha256("pinned"), a2_rows[i - 1])
      BY <3>1 DEF StagesInv, A2Inv
    <3> QED BY <3>2, <3>3 DEF CompareSpaces, ConstraintSet
  <2> QED BY <2>1, <2>2
<1> QED BY <1>1, StagesInvariant, PTL

\* The variables of both adapters have their types: whatever the programs print,
\* an equation passes the validators of GF2Equation and of the set it ends up in.
THEOREM StagesTypes == Spec => []TypeOK
<1>1. A2Inv /\ A2Rows => A2!TypeOK
  <2> SUFFICES ASSUME A2Inv, A2Rows PROVE A2!TypeOK
    OBVIOUS
  <2>1. ASSUME NEW p \in Positions, NEW e \in a2_rows[p] PROVE A2!EquationOK(e)
    <3>1. PICK m \in a2_seen : m.position = p
                               /\ e = EquationOf(StateBits, m, RoundStart + m.bridge)
      BY <2>1 DEF A2Rows, LCEquations
    <3>2. Fits(StateBits, LCGroups, m) /\ m.bridge \in 0 .. RoundCount - 2
      BY <3>1 DEF A2Rows
    <3>3. RoundStart + m.bridge \in RoundStart .. RoundStart + RoundCount - 1
      BY <3>2, Widths
    <3>4. /\ e.variable_indices \subseteq KeyVariables /\ e.source_rhs \in 0 .. 1
          /\ \A t \in e.fixed_terms : t.value \in 0 .. 1
          /\ \A s, t \in e.fixed_terms : s.name = t.name => s = t
      BY <3>1, <3>2, MatrixWidths, EquationIsValid
    <3>5. e.source_round = RoundStart + m.bridge
      BY <3>1 DEF EquationOf
    <3> QED BY <3>3, <3>4, <3>5 DEF A2!EquationOK, A2!KeyVariables, KeyVariables
  <2>2. DOMAIN a2_rows = Positions
    BY DEF A2Rows
  <2>3. a2_step = "returned" => DOMAIN a2_sets = 1 .. TrailCount
    BY DEF A2Inv
  <2>4. {a2_source, a2_corpus, a2_built.program, a2_built.trails} \subseteq A2!FileVersion
    BY DEF A2Rows, A2!FileVersion, FileVersion
  <2>5. a2_step \in {"read_source", "read_trails", "build", "run", "parse", "returned", "raised"}
    BY DEF A2Inv, Working
  <2>6. a2_seen \subseteq LCMarkers
    BY DEF A2Rows
  <2> QED BY <2>1, <2>2, <2>3, <2>4, <2>5, <2>6 DEF A2!TypeOK, A2!Positions, Positions
<1>2. A3Inv /\ A3Rows => A3!TypeOK
  <2> SUFFICES ASSUME A3Inv, A3Rows PROVE A3!TypeOK
    OBVIOUS
  <2>1. ASSUME NEW p \in Positions, NEW e \in a3_rows[p] PROVE A3!EquationOK(e)
    <3>1. PICK m \in a3_seen : m.position = p /\ e = EquationOf(LNCFirst, m, RoundStart)
      BY <2>1 DEF A3Rows, LNCEquations
    <3>2. Fits(LNCFirst, RoundCount, m)
      BY <3>1 DEF A3Rows
    <3>3. RoundStart \in RoundStart .. RoundStart + RoundCount - 1
      BY Widths, MatrixWidths
    <3>4. /\ e.variable_indices \subseteq KeyVariables /\ e.source_rhs \in 0 .. 1
          /\ \A t \in e.fixed_terms : t.value \in 0 .. 1
          /\ \A s, t \in e.fixed_terms : s.name = t.name => s = t
      BY <3>1, <3>2, MatrixWidths, EquationIsValid
    <3>5. e.source_round = RoundStart
      BY <3>1 DEF EquationOf
    <3> QED BY <3>3, <3>4, <3>5 DEF A3!EquationOK, A3!KeyVariables, KeyVariables
  <2>2. DOMAIN a3_rows = Positions
    BY DEF A3Rows
  <2>3. a3_step = "returned" => DOMAIN a3_sets = 1 .. TrailCount
    BY DEF A3Inv
  <2>4. {a3_source, a3_corpus, a3_built.program, a3_built.trails} \subseteq A3!FileVersion
    BY DEF A3Rows, A3!FileVersion, FileVersion
  <2>5. a3_step \in {"read_source", "read_trails", "build", "run", "parse", "returned", "raised"}
    BY DEF A3Inv, Working
  <2>6. a3_seen \subseteq LNCMarkers
    BY DEF A3Rows
  <2> QED BY <2>1, <2>2, <2>3, <2>4, <2>5, <2>6 DEF A3!TypeOK, A3!Positions, Positions
<1>3. StagesInv => \A i \in DOMAIN lc_constraint_sets : \E p \in Positions :
                     lc_constraint_sets[i] = a2_sets[p + 1]
  <2> SUFFICES ASSUME StagesInv, NEW i \in DOMAIN lc_constraint_sets
               PROVE  \E p \in Positions : lc_constraint_sets[i] = a2_sets[p + 1]
    OBVIOUS
  <2>1. PICK j \in 1 .. TrailCount : lc_constraint_sets[i] = a2_sets[j]
    BY DEF StagesInv
  <2>2. j - 1 \in Positions /\ (j - 1) + 1 = j
    BY StagesAssumption DEF Positions
  <2> QED BY <2>1, <2>2
<1>4. A2Inv /\ A3Inv /\ StagesInv /\ A2Rows /\ A3Rows => TypeOK
  BY <1>1, <1>2, <1>3 DEF StagesInv, TypeOK
<1> QED BY <1>4, StagesInvariant, RowsInvariant, PTL

\* The sets A2 and A3 return admit exactly the keys that satisfy the rows printed
\* for their trail: the key columns are moved down by the width of the state,
\* and the fixed terms of an equation are the constants of its matrix.
THEOREM SpacesArePrinted == Spec => []SpacesAreThePrintedRows
<1>1. A2Inv /\ A2Rows => A2!SpacesAreThePrintedRows
  <2> SUFFICES ASSUME A2Inv, A2Rows, a2_step = "returned", NEW p \in Positions
               PROVE  /\ a2_sets[p + 1].position = p
                      /\ A2!Space(a2_sets[p + 1].equations) =
                           {key \in SUBSET KeyVariables :
                              \A m \in a2_seen : m.position = p => A2!SatisfiesRow(key, m)}
    BY DEF A2!SpacesAreThePrintedRows, A2!Positions, Positions, A2!KeyVariables, KeyVariables
  <2> DEFINE q == p + 1
  <2>1. q = p + 1
    OBVIOUS
  <2> HIDE DEF q
  <2>2. a2_sets[q] = ConstraintSet("LC", p, Sha256("pinned"), a2_rows[p])
    BY <2>1, SetsOfTheTrail
  <2>3. a2_sets[q].position = p /\ a2_sets[q].equations = a2_rows[p]
    BY <2>2 DEF ConstraintSet
  <2> DEFINE satisfied(key) == \A m \in a2_seen :
                                 m.position = p => KeySatisfies(StateBits, LCGroups, key, m)
             admitted(key) == \A m \in a2_seen : m.position = p => A2!SatisfiesRow(key, m)
  <2>4. \A key : satisfied(key) <=> admitted(key)
    BY LCMatrix
  <2>5. A2!Space(a2_rows[p]) = {key \in SUBSET KeyVariables : satisfied(key)}
    BY LCSpaceOfTrail, LCOperators
  <2> HIDE DEF satisfied, admitted
  <2>6. A2!Space(a2_rows[p]) = {key \in SUBSET KeyVariables : admitted(key)}
    BY <2>4, <2>5
  <2> QED BY <2>1, <2>3, <2>6 DEF admitted
<1>2. A3Inv /\ A3Rows => A3!SpacesAreThePrintedRows
  <2> SUFFICES ASSUME A3Inv, A3Rows, a3_step = "returned", NEW p \in Positions
               PROVE  /\ a3_sets[p + 1].position = p
                      /\ A3!Space(a3_sets[p + 1].equations) =
                           {key \in SUBSET KeyVariables :
                              \A m \in a3_seen : m.position = p => A3!SatisfiesRow(key, m)}
    BY DEF A3!SpacesAreThePrintedRows, A3!Positions, Positions, A3!KeyVariables, KeyVariables
  <2> DEFINE q == p + 1
  <2>1. q = p + 1
    OBVIOUS
  <2> HIDE DEF q
  <2>2. a3_sets[q] = ConstraintSet("LC_PLUS_LINEARIZED_RELATIONS", p,
                                   Sha256("pinned"), a3_rows[p])
    BY <2>1, SetsOfTheTrail
  <2>3. a3_sets[q].position = p /\ a3_sets[q].equations = a3_rows[p]
    BY <2>2 DEF ConstraintSet
  <2> DEFINE satisfied(key) == \A m \in a3_seen :
                                 m.position = p => KeySatisfies(LNCFirst, RoundCount, key, m)
             admitted(key) == \A m \in a3_seen : m.position = p => A3!SatisfiesRow(key, m)
  <2>4. \A key : satisfied(key) <=> admitted(key)
    BY LNCMatrix
  <2>5. A3!Space(a3_rows[p]) = {key \in SUBSET KeyVariables : satisfied(key)}
    BY LNCSpaceOfTrail, LNCOperators
  <2> HIDE DEF satisfied, admitted
  <2>6. A3!Space(a3_rows[p]) = {key \in SUBSET KeyVariables : admitted(key)}
    BY <2>4, <2>5
  <2> QED BY <2>1, <2>3, <2>6 DEF admitted
<1>3. A2Inv /\ A3Inv /\ A2Rows /\ A3Rows => SpacesAreThePrintedRows
  BY <1>1, <1>2 DEF SpacesAreThePrintedRows
<1> QED BY <1>3, StagesInvariant, RowsInvariant, PTL

\* A tuple that holds each set of A2 once passes every check of A3, whatever the
\* two programs have printed.
LEMMA NothingToRefuse ==
  ASSUME A2Inv, A3Inv, StagesInv, A2Rows, A3Rows, phase = "compare", IsRearrangement
  PROVE  PairingAccepted /\ \A i \in DOMAIN a3_sets : ValidComparison(Comparisons[i])
<1>1. a2_step = "returned" /\ a3_step = "returned"
  BY DEF StagesInv
<1>2. a3_sets = [i \in 1 .. TrailCount |->
                   ConstraintSet("LC_PLUS_LINEARIZED_RELATIONS", i - 1,
                                 Sha256("pinned"), a3_rows[i - 1])]
  BY <1>1 DEF A3Inv
<1>3. ASSUME NEW i \in DOMAIN lc_constraint_sets
      PROVE  /\ lc_constraint_sets[i].constraint_kind = "LC"
             /\ lc_constraint_sets[i].position \in Positions
  <2>1. PICK j \in 1 .. TrailCount : lc_constraint_sets[i] = a2_sets[j]
    BY DEF StagesInv
  <2>2. a2_sets[j] = ConstraintSet("LC", j - 1, Sha256("pinned"), a2_rows[j - 1])
    BY <1>1 DEF A2Inv
  <2>3. j - 1 \in Positions
    BY StagesAssumption DEF Positions
  <2> QED BY <2>1, <2>2, <2>3 DEF ConstraintSet
<1>4. ASSUME NEW p \in Positions
      PROVE  \E i \in DOMAIN lc_constraint_sets :
               /\ lc_constraint_sets[i].position = p
               /\ \A j \in DOMAIN lc_constraint_sets : lc_constraint_sets[j].position = p => j = i
  <2> DEFINE q == p + 1
  <2>1. q = p + 1
    OBVIOUS
  <2>2. PICK i \in DOMAIN lc_constraint_sets :
          /\ lc_constraint_sets[i] = a2_sets[q]
          /\ \A j \in DOMAIN lc_constraint_sets : lc_constraint_sets[j].position = p => j = i
    BY DEF IsRearrangement
  <2> HIDE DEF q
  <2>3. a2_sets[q] = ConstraintSet("LC", p, Sha256("pinned"), a2_rows[p])
    BY <1>1, <2>1, SetsOfTheTrail
  <2>4. lc_constraint_sets[i].position = p
    BY <2>2, <2>3 DEF ConstraintSet
  <2> QED BY <2>2, <2>4
<1>5. ASSUME NEW i \in DOMAIN a3_sets
      PROVE  /\ i - 1 \in Positions /\ (i - 1) + 1 = i
             /\ a3_sets[i].constraint_kind = "LC_PLUS_LINEARIZED_RELATIONS"
             /\ a3_sets[i].position = i - 1
             /\ a3_sets[i].source_artifact_sha256 = Sha256("pinned")
  <2>1. i \in 1 .. TrailCount
    BY <1>2
  <2>2. i - 1 \in Positions /\ (i - 1) + 1 = i
    BY <2>1, StagesAssumption DEF Positions
  <2>3. a3_sets[i] = ConstraintSet("LC_PLUS_LINEARIZED_RELATIONS", i - 1,
                                   Sha256("pinned"), a3_rows[i - 1])
    BY <1>2, <2>1
  <2> QED BY <2>2, <2>3 DEF ConstraintSet
<1>6. Unambiguous(lc_constraint_sets)
  BY <1>3, <1>4 DEF Unambiguous
<1>7. Unambiguous(a3_sets)
  <2> SUFFICES ASSUME NEW i \in DOMAIN a3_sets, NEW j \in DOMAIN a3_sets,
                      a3_sets[i].position = a3_sets[j].position
               PROVE  i = j
    BY DEF Unambiguous
  <2>1. i - 1 = j - 1 /\ i \in 1 .. TrailCount /\ j \in 1 .. TrailCount
    BY <1>2, <1>5
  <2> QED BY <2>1
<1>8. PositionsOf(lc_constraint_sets) = Positions
  BY <1>3, <1>4 DEF PositionsOf
<1>9. PositionsOf(a3_sets) = Positions
  <2>1. ASSUME NEW p \in Positions PROVE \E i \in DOMAIN a3_sets : a3_sets[i].position = p
    <3>1. p + 1 \in 1 .. TrailCount /\ (p + 1) - 1 = p
      BY StagesAssumption DEF Positions
    <3>2. p + 1 \in DOMAIN a3_sets
      BY <1>2, <3>1
    <3> QED BY <1>5, <3>1, <3>2
  <2> QED BY <1>5, <2>1 DEF PositionsOf
<1>10. ASSUME NEW i \in DOMAIN a3_sets
       PROVE  /\ Comparable(Base(a3_sets[i].position), a3_sets[i])
              /\ ValidComparison(Comparisons[i])
  <2> DEFINE p == i - 1
  <2>1. p \in Positions /\ p + 1 = i /\ a3_sets[i].position = p
        /\ a3_sets[i].source_artifact_sha256 = Sha256("pinned")
    BY <1>5
  <2> HIDE DEF p
  <2>2. Base(p) = a2_sets[p + 1]
    BY <1>1, <2>1, BaseIsOfTheTrail
  <2>3. Base(p) = a2_sets[i]
    BY <2>1, <2>2
  <2>4. a2_sets[i] = ConstraintSet("LC", p, Sha256("pinned"), a2_rows[p])
    BY <1>1, <2>1, SetsOfTheTrail
  <2>5. Comparable(Base(p), a3_sets[i])
    BY <2>1, <2>3, <2>4 DEF Comparable, ConstraintSet
  <2>6. Comparisons[i] = CompareSpaces(a2_sets[p + 1], a3_sets[p + 1])
    BY <2>1, <2>3 DEF Comparisons
  <2>7. ValidComparison(Comparisons[i])
    BY <1>1, <2>1, <2>6, TrailComparison
  <2> QED BY <2>1, <2>5, <2>7
<1> QED BY <1>3, <1>5, <1>6, <1>7, <1>8, <1>9, <1>10 DEF PairingAccepted

\* A3 refused the tuple it was given: a set is missing, or there twice.
Refused == phase = "raised" /\ a3_step = "returned" => ~IsRearrangement

LEMMA RefusalInvariant == Spec => []Refused
<1>1. Init => Refused
  BY DEF Init, Refused
<1>2. A2Inv /\ A3Inv /\ StagesInv /\ A2Rows /\ A3Rows /\ Refused /\ [Next]_vars => Refused'
  <2> SUFFICES ASSUME A2Inv, A3Inv, StagesInv, A2Rows, A3Rows, Refused, [Next]_vars,
                      phase' = "raised", a3_step' = "returned"
               PROVE  ~IsRearrangement'
    BY DEF Refused
  <2>1. CASE A2Works
    <3>1. a3_step' = a3_step /\ a3_step \in Working
      BY <2>1 DEF A2Works, a3, StagesInv
    <3> QED BY <3>1 DEF Working
  <2>2. CASE HandOver \/ HandOverOther \/ Compare
    BY <2>2 DEF HandOver, HandOverOther, Compare
  <2>3. CASE A3Works
    BY <2>3 DEF A3Works, Proceed
  <2>4. CASE RefuseComparison
    <3>1. ~IsRearrangement
      BY <2>4, NothingToRefuse DEF RefuseComparison
    <3>2. UNCHANGED <<a2_sets, lc_constraint_sets>>
      BY <2>4 DEF RefuseComparison, a2
    <3> QED BY <3>1, <3>2 DEF IsRearrangement
  <2>5. CASE UNCHANGED vars
    <3>1. UNCHANGED <<phase, a2_sets, lc_constraint_sets, a3_step>>
      BY <2>5 DEF vars, a2, a3
    <3> QED BY <3>1 DEF Refused, IsRearrangement
  <2> QED BY <2>1, <2>2, <2>3, <2>4, <2>5 DEF Next
<1> QED BY <1>1, <1>2, StagesInvariant, RowsInvariant, PTL DEF Spec

\* A3 never compares the sets of two different trails, in whatever order it is
\* given them, and refuses a tuple only if a set is missing or there twice: no
\* pair of spaces makes a comparison that its own validator rejects.
THEOREM PairsAreOfOneTrail == Spec => []PairedByPosition
<1>1. A2Inv /\ A3Inv /\ StagesInv /\ Refused => PairedByPosition
  BY OneBasePerTrail, ComparisonOfTrail DEF PairedByPosition, IsRearrangement, Refused
<1> QED BY <1>1, StagesInvariant, RefusalInvariant, PTL

\* What A3 reports of two spaces is what it means for keys: implication is
\* inclusion, the incremental rank counts the key bits that are taken, and equal
\* digests are equal spaces.
THEOREM ComparisonsAreOfKeys == Spec => []ComparisonIsOfKeys
<1>1. ASSUME A2Inv, A3Inv, StagesInv, A2Rows, A3Rows, NEW i \in DOMAIN comparisons
      PROVE  LET c == comparisons[i]
                 base == Space(Base(c.position).equations)
                 combined == Space(a3_sets[c.position + 1].equations)
             IN  /\ c.base_implied_by_combined <=> combined \subseteq base
                 /\ c.base_implied_by_combined =>
                      Cardinality(base) = 2 ^ c.incremental_rank * Cardinality(combined)
                 /\ c.base_semantic_sha256 = c.combined_semantic_sha256 <=> base = combined
  <2> DEFINE p == i - 1
             c == comparisons[i]
  <2>1. phase = "returned" /\ a2_step = "returned" /\ a3_step = "returned"
    BY <1>1 DEF StagesInv
  <2>2. DOMAIN comparisons = 1 .. TrailCount
    BY <1>1, <2>1, ComparisonOfTrail
  <2>3. p \in Positions /\ p + 1 = i
    BY <1>1, <2>2, StagesAssumption DEF Positions
  <2> HIDE DEF p
  <2>4. c = CompareSpaces(a2_sets[p + 1], a3_sets[p + 1])
    BY <1>1, <2>1, <2>3, ComparisonOfTrail
  <2>5. a2_sets[i] = ConstraintSet("LC", p, Sha256("pinned"), a2_rows[p])
    BY <1>1, <2>1, <2>3, SetsOfTheTrail
  <2>6. c.position = p
    BY <2>3, <2>4, <2>5 DEF CompareSpaces, ConstraintSet
  <2>7. IsRearrangement
    BY <1>1, <2>1, OneBasePerTrail DEF IsRearrangement
  <2>8. Base(p) = a2_sets[p + 1]
    BY <1>1, <2>1, <2>3, <2>7, BaseIsOfTheTrail
  <2> HIDE DEF c
  <2>9. LET S == Space(a2_sets[p + 1].equations)
            T == Space(a3_sets[p + 1].equations)
        IN  /\ ValidComparison(c)
            /\ c.base_implied_by_combined <=> T \subseteq S
            /\ c.base_implied_by_combined =>
                 Cardinality(S) = 2 ^ c.incremental_rank * Cardinality(T)
            /\ c.base_semantic_sha256 = c.combined_semantic_sha256 <=> S = T
    BY <1>1, <2>1, <2>3, <2>4, TrailComparison
  <2>10. LET base == Space(Base(c.position).equations)
             combined == Space(a3_sets[c.position + 1].equations)
         IN  /\ c.base_implied_by_combined <=> combined \subseteq base
             /\ c.base_implied_by_combined =>
                  Cardinality(base) = 2 ^ c.incremental_rank * Cardinality(combined)
             /\ c.base_semantic_sha256 = c.combined_semantic_sha256 <=> base = combined
    BY <2>6, <2>8, <2>9, Zenon
  <2> QED BY <2>10 DEF c
<1>2. A2Inv /\ A3Inv /\ StagesInv /\ A2Rows /\ A3Rows => ComparisonIsOfKeys
  BY <1>1 DEF ComparisonIsOfKeys
<1> QED BY <1>2, StagesInvariant, RowsInvariant, PTL
==============================================================================
