------------------------------- MODULE GF2Proofs -------------------------------
(***************************************************************************)
(* The linear algebra behind GF2: what sums of rows preserve, how many     *)
(* solutions a reduced system has, that it is the reduced basis of its own *)
(* solutions, and that every space that has an equation system has such a  *)
(* basis.  Columns are any finite set of natural numbers.                  *)
(***************************************************************************)
EXTENDS GF2, FiniteSetTheorems, TLAPS

------------------------------------------------------------------------------
(* Finite sets *)

Family(F, S) == F # {} /\ F \subseteq SUBSET S

IsMinimal(T, F) == T \in F /\ \A U \in F : U \subseteq T => U = T

\* Induction: a nonempty family of subsets of a finite set has a minimal one.
LEMMA MinimalSubset ==
  ASSUME NEW S, IsFiniteSet(S), NEW F, Family(F, S)
  PROVE  \E T : IsMinimal(T, F)
<1> USE DEF Family
<1>1. F \subseteq FiniteSubsetsOf(S)
  BY FS_Subset DEF FiniteSubsetsOf
<1>2. \E T \in F : \A U \in F : <<U, T>> \notin StrictSubsetOrdering(S)
  BY <1>1, FS_StrictSubsetOrderingWellFounded, WFMin
<1> QED BY <1>1, <1>2 DEF StrictSubsetOrdering, IsMinimal

LEMMA LowestExists ==
  ASSUME NEW mask \in SUBSET Nat, mask # {}
  PROVE  \E c \in mask : IsLowest(c, mask)
<1>1. \E c \in mask : \A d \in mask : <<d, c>> \notin OpToRel(<, Nat)
  BY NatLessThanWellFounded, WFMin, Zenon
<1>2. \A c, d \in mask : <<d, c>> \notin OpToRel(<, Nat) => c <= d
  BY DEF OpToRel
<1> QED BY <1>1, <1>2 DEF IsLowest

LEMMA GreatestExists ==
  ASSUME NEW mask \in SUBSET Nat, IsFiniteSet(mask), mask # {}
  PROVE  \E c \in mask : \A d \in mask : d <= c
<1> DEFINE From(c) == {d \in mask : c <= d}
           F == {From(c) : c \in mask}
<1>1. Family(F, mask)
  BY DEF Family
<1>2. \A T : T \in F <=> \E c \in mask : T = From(c)
  OBVIOUS
<1>3. \A c \in mask : From(c) \in F
  OBVIOUS
<1>4. \A c, d \in mask : d \in From(c) <=> c <= d
  OBVIOUS
<1>5. ASSUME NEW c \in mask, NEW d \in mask, c <= d, NEW e \in From(d)
      PROVE  e \in From(c)
  BY <1>5
<1>6. \A c \in mask : c \in From(c)
  OBVIOUS
<1> HIDE DEF F, From
<1>7. \E T : IsMinimal(T, F)
  BY <1>1, MinimalSubset, Zenon
<1>8. PICK c \in mask : \A d \in mask : From(d) \subseteq From(c) => From(d) = From(c)
  BY <1>2, <1>3, <1>7 DEF IsMinimal
<1>9. ASSUME NEW d \in mask, ~(d <= c) PROVE FALSE
  <2>1. c <= d
    BY <1>9
  <2>2. c \in From(d)
    BY <1>5, <1>6, <1>8, <2>1
  <2> QED BY <1>4, <1>9, <2>2
<1> QED BY <1>9

LEMMA LowestColumnOf ==
  ASSUME NEW mask \in SUBSET Nat, NEW c, IsLowest(c, mask)
  PROVE  LowestColumn(mask) = c
<1>1. \A d \in mask : IsLowest(d, mask) => d = c
  BY DEF IsLowest
<1> QED BY <1>1 DEF LowestColumn, IsLowest

LEMMA LowestColumnIsLowest ==
  ASSUME NEW mask \in SUBSET Nat, mask # {}
  PROVE  IsLowest(LowestColumn(mask), mask)
<1> PICK c \in mask : IsLowest(c, mask)
  BY LowestExists
<1> QED BY LowestColumnOf

------------------------------------------------------------------------------
(* Parity and sums of rows *)

LEMMA ParityIsABit ==
  ASSUME NEW S, IsFiniteSet(S)
  PROVE  Cardinality(S) \in Nat /\ Parity(S) \in 0 .. 1
<1>1. Cardinality(S) \in Nat
  BY FS_CardinalityType
<1> QED BY <1>1 DEF Parity

LEMMA ParityOfEmpty == Parity({}) = 0
BY FS_EmptySet DEF Parity

\* One element more turns the parity.
LEMMA ParityTurns ==
  ASSUME NEW S, IsFiniteSet(S), NEW c, c \notin S
  PROVE  Parity(S \cup {c}) = 1 - Parity(S)
<1>1. Cardinality(S \cup {c}) = Cardinality(S) + 1 /\ Cardinality(S) \in Nat
  BY FS_AddElement, FS_CardinalityType
<1> DEFINE n == Cardinality(S)
<1> HIDE DEF n
<1>2. n \in Nat => (n + 1) % 2 = 1 - (n % 2)
  OBVIOUS
<1> QED BY <1>1, <1>2 DEF Parity, n

\* Adding masks adds parities.
LEMMA ParityOfSymDiff ==
  ASSUME NEW A, NEW B, IsFiniteSet(A), IsFiniteSet(B)
  PROVE  Parity(SymDiff(A, B)) = (Parity(A) + Parity(B)) % 2
<1>1. /\ IsFiniteSet(A \ B) /\ IsFiniteSet(B \ A) /\ IsFiniteSet(A \cap B)
      /\ Cardinality(A) \in Nat /\ Cardinality(B) \in Nat
  BY FS_Subset, FS_CardinalityType
<1>2. Cardinality(A \ B) = Cardinality(A) - Cardinality(A \cap B)
  BY FS_Difference
<1>3. Cardinality(B \ A) = Cardinality(B) - Cardinality(A \cap B)
  <2>1. B \cap A = A \cap B
    OBVIOUS
  <2> QED BY <2>1, FS_Difference
<1>4. Cardinality(SymDiff(A, B)) = Cardinality(A \ B) + Cardinality(B \ A)
  <2>1. (A \ B) \cap (B \ A) = {}
    OBVIOUS
  <2>2. Cardinality({}) = 0
    BY FS_EmptySet
  <2>3. Cardinality(A \ B) \in Nat /\ Cardinality(B \ A) \in Nat
    BY <1>1, FS_CardinalityType
  <2>4. Cardinality((A \ B) \cup (B \ A))
          = Cardinality(A \ B) + Cardinality(B \ A) - Cardinality((A \ B) \cap (B \ A))
    BY <1>1, FS_Union
  <2>5. SymDiff(A, B) = (A \ B) \cup (B \ A)
    BY DEF SymDiff
  <2>6. Cardinality((A \ B) \cap (B \ A)) = 0
    BY <2>1, <2>2, Zenon
  <2> HIDE DEF SymDiff
  <2> QED BY <2>3, <2>4, <2>5, <2>6
<1>5. Cardinality(A \cap B) \in Nat
  BY <1>1, FS_CardinalityType
<1> DEFINE a == Cardinality(A)
           b == Cardinality(B)
           n == Cardinality(A \cap B)
<1>6. Cardinality(SymDiff(A, B)) = a + b - 2 * n
  BY <1>1, <1>2, <1>3, <1>4, <1>5
<1>7. a \in Nat /\ b \in Nat /\ n \in Nat
  BY <1>1, <1>5
<1> HIDE DEF a, b, n
<1>8. (a + b - 2 * n) % 2 = ((a % 2) + (b % 2)) % 2
  BY <1>7
<1> QED BY <1>6, <1>8 DEF Parity, a, b

\* row ^ pivot: the sum of two equations.
RowSum(a, b) == [mask |-> SymDiff(a.mask, b.mask), rhs |-> (a.rhs + b.rhs) % 2]

FiniteColumns(columns) == columns \in SUBSET Nat /\ IsFiniteSet(columns)

LEMMA MasksAreFinite ==
  ASSUME NEW columns, FiniteColumns(columns), NEW mask \in SUBSET columns, NEW x
  PROVE  /\ mask \in SUBSET Nat /\ IsFiniteSet(mask)
         /\ IsFiniteSet(mask \cap x) /\ Parity(mask \cap x) \in 0 .. 1
<1>1. IsFiniteSet(mask) /\ IsFiniteSet(mask \cap x)
  BY FS_Subset DEF FiniteColumns
<1> QED BY <1>1, ParityIsABit DEF FiniteColumns

\* Where one equation holds, adding it to another changes nothing.
LEMMA RowSumHolds ==
  ASSUME NEW columns, FiniteColumns(columns),
         NEW a \in RowOver(columns), NEW b \in RowOver(columns), NEW x, Satisfies(x, b)
  PROVE  /\ RowSum(a, b) \in RowOver(columns)
         /\ Satisfies(x, RowSum(a, b)) <=> Satisfies(x, a)
<1> DEFINE pa == Parity(a.mask \cap x)
           pb == Parity(b.mask \cap x)
<1>1. /\ a.mask \in SUBSET columns /\ b.mask \in SUBSET columns
      /\ a.rhs \in 0 .. 1 /\ b.rhs \in 0 .. 1
  BY DEF RowOver
<1>2. SymDiff(a.mask, b.mask) \cap x = SymDiff(a.mask \cap x, b.mask \cap x)
  BY DEF SymDiff
<1>3. /\ IsFiniteSet(a.mask \cap x) /\ IsFiniteSet(b.mask \cap x)
      /\ pa \in 0 .. 1 /\ pb \in 0 .. 1
  BY <1>1, MasksAreFinite
<1>4. Parity(SymDiff(a.mask, b.mask) \cap x) = (pa + pb) % 2
  BY <1>2, <1>3, ParityOfSymDiff
<1>5. pb = b.rhs
  BY DEF Satisfies
<1>6. RowSum(a, b).mask = SymDiff(a.mask, b.mask) /\ RowSum(a, b).rhs = (a.rhs + b.rhs) % 2
  BY DEF RowSum
<1>7. RowSum(a, b) \in RowOver(columns)
  BY <1>1 DEF RowSum, RowOver, SymDiff
<1>8. Satisfies(x, RowSum(a, b)) <=> (pa + pb) % 2 = (a.rhs + b.rhs) % 2
  BY <1>4, <1>6 DEF Satisfies
<1>9. Satisfies(x, a) <=> pa = a.rhs
  BY DEF Satisfies
<1> HIDE DEF pa, pb
<1>10. (pa + b.rhs) % 2 = (a.rhs + b.rhs) % 2 <=> pa = a.rhs
  BY <1>1, <1>3
<1> QED BY <1>5, <1>7, <1>8, <1>9, <1>10

------------------------------------------------------------------------------
(* Reduced systems *)

SolutionsOf(N, columns) == {x \in SUBSET columns : \A r \in N : Satisfies(x, r)}

Lead(row) == LowestColumn(row.mask)
Leads(N) == {Lead(r) : r \in N}

\* Every row owns its lowest column, which no other row contains.
Reduced(N, columns) ==
  /\ N \subseteq RowOver(columns)
  /\ \A r \in N : r.mask # {} /\ r.mask \cap Leads(N) = {Lead(r)}
  /\ \A r, q \in N : Lead(r) = Lead(q) => r = q

LEMMA LeadIsLowest ==
  ASSUME NEW columns, FiniteColumns(columns), NEW row \in RowOver(columns), row.mask # {}
  PROVE  /\ Lead(row) \in row.mask /\ Lead(row) \in columns /\ Lead(row) \in Nat
         /\ \A c \in row.mask : Lead(row) <= c
<1>1. row.mask \in SUBSET Nat /\ row.mask \in SUBSET columns
  BY DEF RowOver, FiniteColumns
<1>2. IsLowest(LowestColumn(row.mask), row.mask)
  BY <1>1, LowestColumnIsLowest
<1> QED BY <1>1, <1>2 DEF IsLowest, Lead

\* In a reduced system the free columns decide which of the leads are 1.
LEMMA LeadIsDecided ==
  ASSUME NEW columns, FiniteColumns(columns), NEW N, Reduced(N, columns),
         NEW r \in N, NEW z \in SUBSET columns
  PROVE  Satisfies(z, r) <=>
           (Lead(r) \in z <=> Parity(r.mask \cap (z \ Leads(N))) # r.rhs)
<1> DEFINE y == r.mask \cap (z \ Leads(N))
<1>1. r \in RowOver(columns) /\ r.mask \in SUBSET columns /\ r.rhs \in 0 .. 1
      /\ r.mask \cap Leads(N) = {Lead(r)}
  BY DEF Reduced, RowOver
<1>2. IsFiniteSet(y) /\ Parity(y) \in 0 .. 1
  BY <1>1, MasksAreFinite
<1>3. CASE Lead(r) \in z
  <2>1. r.mask \cap z = y \cup {Lead(r)} /\ Lead(r) \notin y
    BY <1>1, <1>3
  <2>2. Parity(r.mask \cap z) = 1 - Parity(y)
    BY <1>2, <2>1, ParityTurns
  <2> HIDE DEF y
  <2> QED BY <1>1, <1>2, <1>3, <2>2 DEF Satisfies, y
<1>4. CASE Lead(r) \notin z
  <2>1. r.mask \cap z = y
    BY <1>1, <1>4
  <2> QED BY <1>4, <2>1 DEF Satisfies
<1> QED BY <1>3, <1>4

\* The solution with the given values of the free columns.
Filled(N, y) ==
  y \cup {Lead(r) : r \in {m \in N : Parity(m.mask \cap y) # m.rhs}}

LEMMA FilledIsASolution ==
  ASSUME NEW columns, FiniteColumns(columns), NEW N, Reduced(N, columns),
         NEW y \in SUBSET (columns \ Leads(N))
  PROVE  /\ Filled(N, y) \in SolutionsOf(N, columns)
         /\ Filled(N, y) \ Leads(N) = y
         /\ \A r \in N : Lead(r) \in Filled(N, y) <=> Parity(r.mask \cap y) # r.rhs
<1> DEFINE x == Filled(N, y)
<1>1. \A r \in N : Lead(r) \in columns /\ Lead(r) \in Leads(N)
  BY LeadIsLowest DEF Reduced, Leads
<1>2. x \in SUBSET columns /\ x \ Leads(N) = y
  BY <1>1 DEF Filled
<1>3. ASSUME NEW r \in N
      PROVE  Lead(r) \in x <=> Parity(r.mask \cap y) # r.rhs
  <2>1. \A q \in N : Lead(q) = Lead(r) => q = r
    BY DEF Reduced
  <2>2. Lead(r) \notin y
    BY <1>1
  <2> QED BY <2>1, <2>2 DEF Filled
<1>4. ASSUME NEW r \in N PROVE Satisfies(x, r)
  <2> HIDE DEF x
  <2>1. Satisfies(x, r) <=> (Lead(r) \in x <=> Parity(r.mask \cap (x \ Leads(N))) # r.rhs)
    BY <1>2, LeadIsDecided
  <2> QED BY <1>2, <1>3, <2>1
<1> QED BY <1>2, <1>3, <1>4 DEF SolutionsOf

LEMMA SolutionIsFilled ==
  ASSUME NEW columns, FiniteColumns(columns), NEW N, Reduced(N, columns),
         NEW x \in SolutionsOf(N, columns)
  PROVE  /\ x \ Leads(N) \in SUBSET (columns \ Leads(N))
         /\ x = Filled(N, x \ Leads(N))
<1> DEFINE y == x \ Leads(N)
<1>1. x \in SUBSET columns /\ \A r \in N : Satisfies(x, r)
  BY DEF SolutionsOf
<1>2. y \in SUBSET (columns \ Leads(N))
  BY <1>1
<1>3. \A r \in N : Lead(r) \in x <=> Parity(r.mask \cap y) # r.rhs
  BY <1>1, LeadIsDecided
<1>4. /\ Filled(N, y) \ Leads(N) = y
      /\ \A r \in N : Lead(r) \in Filled(N, y) <=> Parity(r.mask \cap y) # r.rhs
  BY <1>2, FilledIsASolution
<1>5. \A c \in Leads(N) : c \in x <=> c \in Filled(N, y)
  BY <1>3, <1>4 DEF Leads
<1>6. \A c : c \notin Leads(N) => (c \in x <=> c \in Filled(N, y))
  BY <1>4
<1> QED BY <1>2, <1>5, <1>6

\* 2^free solutions: each choice of the free columns gives one.
LEMMA SolutionsAreCounted ==
  ASSUME NEW columns, FiniteColumns(columns), NEW N, Reduced(N, columns)
  PROVE  /\ IsFiniteSet(N) /\ Cardinality(N) = Cardinality(Leads(N))
         /\ Cardinality(N) <= Cardinality(columns)
         /\ IsFiniteSet(SolutionsOf(N, columns))
         /\ Cardinality(SolutionsOf(N, columns)) = 2 ^ (Cardinality(columns) - Cardinality(N))
<1>1. Leads(N) \in SUBSET columns
  BY LeadIsLowest DEF Reduced, Leads
<1>2. /\ IsFiniteSet(columns) /\ IsFiniteSet(Leads(N)) /\ IsFiniteSet(columns \ Leads(N))
      /\ Cardinality(Leads(N)) <= Cardinality(columns)
  BY <1>1, FS_Subset DEF FiniteColumns
<1>3. IsFiniteSet(N) /\ Cardinality(N) = Cardinality(Leads(N))
  <2> DEFINE f == [r \in N |-> Lead(r)]
  <2>1. f \in Injection(N, Leads(N)) /\ f \in Surjection(N, Leads(N))
    BY DEF Injection, Surjection, IsInjective, Leads, Reduced
  <2> HIDE DEF f
  <2> QED BY <1>2, <2>1, FS_Injection
<1>4. Cardinality(columns \ Leads(N)) = Cardinality(columns) - Cardinality(N)
  <2>1. columns \cap Leads(N) = Leads(N)
    BY <1>1
  <2>2. Cardinality(columns \ Leads(N))
          = Cardinality(columns) - Cardinality(columns \cap Leads(N))
    BY <1>2, FS_Difference
  <2> QED BY <1>3, <2>1, <2>2
<1>5. /\ IsFiniteSet(SUBSET (columns \ Leads(N)))
      /\ Cardinality(SUBSET (columns \ Leads(N))) = 2 ^ (Cardinality(columns) - Cardinality(N))
  BY <1>2, <1>4, FS_SUBSET
<1>6. ExistsBijection(SUBSET (columns \ Leads(N)), SolutionsOf(N, columns))
  <2> DEFINE free == SUBSET (columns \ Leads(N))
             f == [y \in free |-> Filled(N, y)]
  <2>1. \A y \in free : Filled(N, y) \in SolutionsOf(N, columns) /\ Filled(N, y) \ Leads(N) = y
    BY FilledIsASolution
  <2>2. \A x \in SolutionsOf(N, columns) : x \ Leads(N) \in free /\ Filled(N, x \ Leads(N)) = x
    BY SolutionIsFilled
  <2> HIDE DEF free
  <2>3. f \in [free -> SolutionsOf(N, columns)]
    BY <2>1
  <2>4. \A y, z \in free : f[y] = f[z] => y = z
    BY <2>1
  <2>5. \A x \in SolutionsOf(N, columns) : \E y \in free : f[y] = x
    BY <2>2
  <2> HIDE DEF f
  <2>6. f \in Bijection(free, SolutionsOf(N, columns))
    BY <2>3, <2>4, <2>5 DEF Bijection, Injection, Surjection, IsInjective
  <2> QED BY <2>6 DEF ExistsBijection, free
<1>7. /\ IsFiniteSet(SolutionsOf(N, columns))
      /\ Cardinality(SolutionsOf(N, columns)) = Cardinality(SUBSET (columns \ Leads(N)))
  BY <1>5, <1>6, FS_Bijection
<1> QED BY <1>2, <1>3, <1>5, <1>7

------------------------------------------------------------------------------
(* What a space implies *)

\* The sum of two equations that hold on a space holds on it.
LEMMA SumIsImplied ==
  ASSUME NEW columns, FiniteColumns(columns), NEW S,
         NEW r \in Implied(S, columns), NEW q \in Implied(S, columns),
         SymDiff(r.mask, q.mask) # {}
  PROVE  /\ RowSum(r, q) \in Implied(S, columns)
         /\ RowSum(r, q).mask = SymDiff(r.mask, q.mask)
<1>1. \A x \in S : Satisfies(x, r) /\ Satisfies(x, q)
  BY DEF Implied
<1>2. r \in RowOver(columns) /\ q \in RowOver(columns)
  BY DEF Implied
<1>3. \A x \in S : Satisfies(x, RowSum(r, q))
  BY <1>1, <1>2, RowSumHolds
<1>4. RowSum(r, q).mask = SymDiff(r.mask, q.mask)
  BY DEF RowSum
<1>5. RowSum(r, q) \in RowOver(columns)
  BY <1>2 DEF RowSum, RowOver, SymDiff
<1> QED BY <1>3, <1>4, <1>5 DEF Implied

\* On a nonempty space, equations that meet the leads alike are equal.
LEMMA LeadsTellRowsApart ==
  ASSUME NEW columns, FiniteColumns(columns), NEW S, S # {},
         NEW r \in Implied(S, columns), NEW q \in Implied(S, columns),
         NEW L, Leads(Implied(S, columns)) \subseteq L, r.mask \cap L = q.mask \cap L
  PROVE  r = q
<1>1. r \in RowOver(columns) /\ q \in RowOver(columns)
  BY DEF Implied
<1>2. r.mask = q.mask
  <2> SUFFICES ASSUME SymDiff(r.mask, q.mask) # {} PROVE FALSE
    BY DEF SymDiff
  <2> DEFINE s == RowSum(r, q)
  <2>1. s \in Implied(S, columns) /\ s.mask = SymDiff(r.mask, q.mask)
    BY SumIsImplied
  <2> HIDE DEF s
  <2>2. Lead(s) \in s.mask /\ Lead(s) \in L
    BY <2>1, LeadIsLowest DEF Implied, Leads
  <2> QED BY <2>1, <2>2 DEF SymDiff
<1>3. PICK x \in S : TRUE
  OBVIOUS
<1>4. r.rhs = q.rhs
  BY <1>2, <1>3 DEF Implied, Satisfies
<1> QED BY <1>1, <1>2, <1>4 DEF RowOver

------------------------------------------------------------------------------
(* A reduced system is the reduced basis of its solutions *)

\* Turning one free column changes no lead above it, so an equation that held
\* before and whose lowest column it is no longer holds.
LEMMA ImpliedHasItsLead ==
  ASSUME NEW columns, FiniteColumns(columns), NEW N, Reduced(N, columns),
         NEW row \in Implied(SolutionsOf(N, columns), columns)
  PROVE  Lead(row) \in Leads(N)
<1> SUFFICES ASSUME Lead(row) \notin Leads(N) PROVE FALSE
  OBVIOUS
<1> DEFINE c == Lead(row)
           x == Filled(N, {})
           z == Filled(N, {c})
<1>1. row \in RowOver(columns) /\ row.mask # {} /\ row.mask \in SUBSET columns
  BY DEF Implied, RowOver
<1>2. c \in row.mask /\ c \in columns /\ c \in Nat /\ \A d \in row.mask : c <= d
  BY <1>1, LeadIsLowest
<1>3. /\ x \in SolutionsOf(N, columns) /\ x \ Leads(N) = {}
      /\ \A r \in N : Lead(r) \in x <=> Parity(r.mask \cap {}) # r.rhs
  BY FilledIsASolution
<1>4. /\ z \in SolutionsOf(N, columns) /\ z \ Leads(N) = {c}
      /\ \A r \in N : Lead(r) \in z <=> Parity(r.mask \cap {c}) # r.rhs
  <2>1. {c} \in SUBSET (columns \ Leads(N))
    BY <1>2
  <2> HIDE DEF c
  <2> QED BY <2>1, FilledIsASolution
<1>5. Satisfies(x, row) /\ Satisfies(z, row)
  BY <1>3, <1>4 DEF Implied
<1> HIDE DEF x, z, c
<1>6. ASSUME NEW d \in row.mask, d # c
      PROVE  d \in x <=> d \in z
  <2>1. CASE d \notin Leads(N)
    BY <1>3, <1>4, <1>6, <2>1
  <2>2. CASE d \in Leads(N)
    <3>1. PICK r \in N : d = Lead(r)
      BY <2>2 DEF Leads
    <3>2. r \in RowOver(columns) /\ r.mask # {}
      BY DEF Reduced
    <3>3. d \in Nat /\ \A e \in r.mask : d <= e
      BY <3>1, <3>2, LeadIsLowest
    <3>4. c \notin r.mask
      BY <1>2, <1>6, <3>3
    <3>5. r.mask \cap {c} = r.mask \cap {}
      BY <3>4
    <3> QED BY <1>3, <1>4, <3>1, <3>5
  <2> QED BY <2>1, <2>2
<1>7. c \notin x /\ c \in z
  BY <1>3, <1>4 DEF c
<1>8. row.mask \cap z = (row.mask \cap x) \cup {c}
  BY <1>2, <1>6, <1>7
<1>9. IsFiniteSet(row.mask \cap x) /\ Parity(row.mask \cap x) \in 0 .. 1
  BY <1>1, MasksAreFinite
<1>10. Parity(row.mask \cap z) = 1 - Parity(row.mask \cap x)
  BY <1>7, <1>8, <1>9, ParityTurns
<1> QED BY <1>5, <1>9, <1>10 DEF Satisfies

\* A system in reduced form is the reduced basis of its own solutions: what
\* elimination returns depends on nothing else of the equations it was given.
THEOREM ReducedIsItsBasis ==
  ASSUME NEW columns, FiniteColumns(columns), NEW N, Reduced(N, columns)
  PROVE  /\ SolutionsOf(N, columns) # {}
         /\ ReducedBasis(SolutionsOf(N, columns), columns) = N
<1> DEFINE S == SolutionsOf(N, columns)
           I == Implied(S, columns)
<1>1. S # {}
  <2>1. {} \in SUBSET (columns \ Leads(N))
    OBVIOUS
  <2> QED BY <2>1, FilledIsASolution
<1>2. \A r \in N : r \in I /\ r.mask \cap Leads(N) = {Lead(r)}
  BY DEF Implied, SolutionsOf, Reduced
<1>3. \A r \in I : Lead(r) \in Leads(N)
  BY ImpliedHasItsLead
<1> HIDE DEF I, S
<1>4. Leads(I) = Leads(N)
  BY <1>2, <1>3 DEF Leads
<1>5. ReducedBasis(S, columns) = {r \in I : r.mask \cap Leads(I) = {Lead(r)}}
  BY DEF ReducedBasis, Leads, Lead, I
<1>6. ASSUME NEW r \in I, r.mask \cap Leads(N) = {Lead(r)}
      PROVE  r \in N
  <2>1. PICK q \in N : Lead(q) = Lead(r)
    BY <1>3 DEF Leads
  <2>2. q \in I /\ q.mask \cap Leads(N) = r.mask \cap Leads(N)
    BY <1>2, <1>6, <2>1
  <2>3. r = q
    BY <1>1, <1>4, <2>2, LeadsTellRowsApart DEF I
  <2> QED BY <2>3
<1> QED BY <1>1, <1>2, <1>4, <1>5, <1>6 DEF S

------------------------------------------------------------------------------
(* Every space of a system has such a basis *)

\* The family of what the rows that satisfy some condition have of the leads.
LeadParts(rows, L) == {r.mask \cap L : r \in rows}

HasFewestLeads(r, rows, L) ==
  /\ r \in rows
  /\ \A q \in rows : q.mask \cap L \subseteq r.mask \cap L => q.mask \cap L = r.mask \cap L

LEMMA RowWithFewestLeads ==
  ASSUME NEW columns, FiniteColumns(columns), NEW R, R \subseteq RowOver(columns), R # {}, NEW L
  PROVE  \E r : HasFewestLeads(r, R, L)
<1>1. Family(LeadParts(R, L), columns)
  BY DEF Family, LeadParts, RowOver
<1>2. PICK T : IsMinimal(T, LeadParts(R, L))
  BY <1>1, MinimalSubset DEF FiniteColumns
<1>3. PICK r \in R : T = r.mask \cap L
  BY <1>2 DEF IsMinimal, LeadParts
<1>4. \A q \in R : q.mask \cap L \in LeadParts(R, L)
  BY DEF LeadParts
<1> QED BY <1>2, <1>3, <1>4 DEF IsMinimal, HasFewestLeads

\* Adding a basis row to an equation takes its lead out and no lead in.
LEMMA ClearingALead ==
  ASSUME NEW columns, FiniteColumns(columns), NEW S,
         NEW r \in Implied(S, columns), NEW b \in ReducedBasis(S, columns),
         Lead(b) \in r.mask, r.mask # b.mask
  PROVE  LET L == Leads(Implied(S, columns))
         IN  /\ RowSum(r, b) \in Implied(S, columns)
             /\ RowSum(r, b).mask = SymDiff(r.mask, b.mask)
             /\ RowSum(r, b).mask \cap L = (r.mask \cap L) \ {Lead(b)}
<1> DEFINE L == Leads(Implied(S, columns))
<1>1. b \in Implied(S, columns) /\ b.mask \cap L = {Lead(b)} /\ Lead(b) \in L
  BY DEF ReducedBasis, Leads, Lead
<1>2. SymDiff(r.mask, b.mask) # {}
  BY DEF SymDiff
<1>3. RowSum(r, b) \in Implied(S, columns) /\ RowSum(r, b).mask = SymDiff(r.mask, b.mask)
  BY <1>1, <1>2, SumIsImplied
<1> HIDE DEF L
<1>4. SymDiff(r.mask, b.mask) \cap L = (r.mask \cap L) \ {Lead(b)}
  BY <1>1 DEF SymDiff
<1> QED BY <1>3, <1>4 DEF L

\* No lead lacks its basis row: above the greatest that did, the other leads
\* could be cleared from its equations one by one.
LEMMA LeadsHaveBasisRows ==
  ASSUME NEW columns, FiniteColumns(columns), NEW S
  PROVE  Leads(ReducedBasis(S, columns)) = Leads(Implied(S, columns))
<1> DEFINE I == Implied(S, columns)
           B == ReducedBasis(S, columns)
           L == Leads(I)
           Bad == L \ Leads(B)
<1>1. B = {r \in I : r.mask \cap L = {Lead(r)}}
  BY DEF ReducedBasis, Leads, Lead
<1>2. Leads(B) \subseteq L
  BY <1>1 DEF Leads
<1>3. \A r \in I : /\ r \in RowOver(columns) /\ r.mask # {} /\ Lead(r) \in L
                  /\ Lead(r) \in r.mask /\ Lead(r) \in columns /\ Lead(r) \in Nat
                  /\ \A c \in r.mask : Lead(r) <= c
  BY LeadIsLowest DEF Implied, Leads
<1>4. Bad = {}
  <2> SUFFICES ASSUME Bad # {} PROVE FALSE
    OBVIOUS
  <2>1. Bad \in SUBSET Nat /\ IsFiniteSet(Bad)
    <3>1. L \in SUBSET columns
      BY <1>3 DEF Leads
    <3> QED BY <3>1, FS_Subset DEF FiniteColumns
  <2>2. PICK p \in Bad : \A d \in Bad : d <= p
    <3> HIDE DEF Bad
    <3> QED BY <2>1, GreatestExists
  <2> DEFINE R == {r \in I : Lead(r) = p}
  <2>3. R # {} /\ R \subseteq RowOver(columns)
    BY <1>3, <2>2 DEF Leads
  <2>4. PICK r : HasFewestLeads(r, R, L)
    <3> HIDE DEF R, L
    <3> QED BY <2>3, RowWithFewestLeads
  <2> USE DEF HasFewestLeads
  <2>5. r \in I /\ Lead(r) = p /\ p \in r.mask /\ p \in L /\ p \in Nat
    BY <1>3, <2>4
  <2>6. r \notin B
    BY <2>2, <2>5 DEF Leads
  <2>7. PICK c \in r.mask \cap L : c # p
    BY <1>1, <2>5, <2>6
  <2>8. c \in Nat /\ p <= c
    BY <1>3, <2>5, <2>7 DEF RowOver, FiniteColumns
  <2>9. PICK b \in B : Lead(b) = c
    <3>1. c \notin Bad
      BY <2>2, <2>7, <2>8, <2>5
    <3> QED BY <2>7, <3>1 DEF Leads
  <2>10. b \in I /\ p \notin b.mask
    BY <1>1, <1>3, <2>5, <2>7, <2>8, <2>9
  <2> DEFINE s == RowSum(r, b)
  <2>11. s \in I /\ s.mask = SymDiff(r.mask, b.mask) /\ s.mask \cap L = (r.mask \cap L) \ {c}
    <3>1. r.mask # b.mask /\ Lead(b) \in r.mask
      BY <2>5, <2>7, <2>9, <2>10
    <3> QED BY <2>5, <2>9, <3>1, ClearingALead
  <2> HIDE DEF s
  <2>12. Lead(s) = p
    <3>1. p \in s.mask
      BY <2>5, <2>10, <2>11 DEF SymDiff
    <3>2. \A d \in s.mask : p <= d
      <4>1. \A d \in r.mask : p <= d
        BY <1>3, <2>5
      <4>2. \A d \in b.mask : d \in Nat /\ c <= d
        BY <1>3, <2>9, <2>10 DEF RowOver, FiniteColumns
      <4>3. \A d \in b.mask : p <= d
        BY <4>2, <2>5, <2>8
      <4> QED BY <4>1, <4>3, <2>11 DEF SymDiff
    <3>3. s.mask \in SUBSET Nat
      BY <1>3, <2>11 DEF RowOver, FiniteColumns
    <3> QED BY <3>1, <3>2, <3>3, LowestColumnOf DEF IsLowest, Lead
  <2>13. s.mask \cap L = r.mask \cap L
    BY <2>4, <2>11, <2>12
  <2> QED BY <2>7, <2>11, <2>13
<1> QED BY <1>2, <1>4

LEMMA BasisIsReduced ==
  ASSUME NEW columns, FiniteColumns(columns), NEW S, S # {}
  PROVE  Reduced(ReducedBasis(S, columns), columns)
<1> DEFINE I == Implied(S, columns)
           B == ReducedBasis(S, columns)
           L == Leads(I)
<1>1. B = {r \in I : r.mask \cap L = {Lead(r)}}
  BY DEF ReducedBasis, Leads, Lead
<1>2. Leads(B) = L
  BY LeadsHaveBasisRows
<1>3. \A r \in I : r \in RowOver(columns) /\ r.mask # {}
  BY DEF Implied
<1>4. ASSUME NEW r \in B, NEW q \in B, Lead(r) = Lead(q)
      PROVE  r = q
  <2>1. r \in I /\ q \in I /\ r.mask \cap L = q.mask \cap L
    BY <1>1, <1>4
  <2> QED BY <2>1, LeadsTellRowsApart
<1> QED BY <1>1, <1>2, <1>3, <1>4 DEF Reduced

\* What satisfies the basis satisfies all that the space implies.
LEMMA BasisImpliesAll ==
  ASSUME NEW columns, FiniteColumns(columns), NEW S, S # {},
         NEW x \in SUBSET columns, \A b \in ReducedBasis(S, columns) : Satisfies(x, b)
  PROVE  \A r \in Implied(S, columns) : Satisfies(x, r)
<1> DEFINE I == Implied(S, columns)
           B == ReducedBasis(S, columns)
           L == Leads(I)
           R == {r \in I : ~Satisfies(x, r)}
<1> SUFFICES ASSUME R # {} PROVE FALSE
  OBVIOUS
<1>1. B = {r \in I : r.mask \cap L = {Lead(r)}} /\ Leads(B) = L
  BY LeadsHaveBasisRows DEF ReducedBasis, Leads, Lead
<1>2. \A r \in I : r \in RowOver(columns) /\ r.mask # {} /\ Lead(r) \in L /\ Lead(r) \in r.mask
  BY LeadIsLowest DEF Implied, Leads
<1>3. PICK r : HasFewestLeads(r, R, L)
  <2>1. R \subseteq RowOver(columns)
    BY <1>2
  <2> HIDE DEF R, L
  <2> QED BY <2>1, RowWithFewestLeads, Zenon
<1>4. r \in I /\ ~Satisfies(x, r)
  BY <1>3 DEF HasFewestLeads
<1>5. PICK b \in B : Lead(b) = Lead(r)
  <2>1. Lead(r) \in Leads(B)
    BY <1>1, <1>2, <1>4
  <2> QED BY <2>1 DEF Leads
<1>6. b \in I /\ Satisfies(x, b) /\ Lead(b) \in r.mask
  BY <1>1, <1>2, <1>4, <1>5
<1>7. r.mask # b.mask
  <2> SUFFICES ASSUME r.mask = b.mask PROVE FALSE
    OBVIOUS
  <2>1. r = b
    BY <1>4, <1>6, LeadsTellRowsApart
  <2> QED BY <2>1, <1>4, <1>6
<1> DEFINE s == RowSum(r, b)
<1>8. s \in I /\ s.mask \cap L = (r.mask \cap L) \ {Lead(b)}
  BY <1>4, <1>5, <1>6, <1>7, ClearingALead
<1>9. ~Satisfies(x, s)
  BY <1>2, <1>4, <1>6, RowSumHolds
<1> HIDE DEF s
<1>10. s.mask \cap L = r.mask \cap L
  BY <1>3, <1>8, <1>9 DEF HasFewestLeads
<1> QED BY <1>2, <1>4, <1>5, <1>8, <1>10

------------------------------------------------------------------------------
(* Affine spaces *)

\* The spaces that equations have, when they have any solution.
AffineSpace(S, columns) ==
  S # {} /\ \E R \in SUBSET RowOver(columns) : S = SolutionsOf(R, columns)

SpaceRank(S, columns) == Cardinality(ReducedBasis(S, columns))

\* A space is the solutions of its reduced basis.
LEMMA BasisSolutions ==
  ASSUME NEW columns, FiniteColumns(columns), NEW S, AffineSpace(S, columns)
  PROVE  SolutionsOf(ReducedBasis(S, columns), columns) = S
<1> PICK R \in SUBSET RowOver(columns) : S = SolutionsOf(R, columns)
  BY DEF AffineSpace
<1>1. PICK z \in S : TRUE
  BY DEF AffineSpace
<1>2. S \subseteq SolutionsOf(ReducedBasis(S, columns), columns)
  BY DEF SolutionsOf, ReducedBasis, Implied
<1>3. ASSUME NEW x \in SolutionsOf(ReducedBasis(S, columns), columns), NEW r \in R
      PROVE  Satisfies(x, r)
  <2>1. CASE r.mask # {}
    <3>1. r \in Implied(S, columns)
      BY <2>1 DEF Implied, SolutionsOf
    <3>2. x \in SUBSET columns /\ \A b \in ReducedBasis(S, columns) : Satisfies(x, b)
      BY DEF SolutionsOf
    <3> QED BY <3>1, <3>2, BasisImpliesAll DEF AffineSpace
  <2>2. CASE r.mask = {}
    <3>1. Satisfies(z, r)
      BY <1>1 DEF SolutionsOf
    <3>2. r.mask \cap z = r.mask \cap x
      BY <2>2
    <3> QED BY <3>1, <3>2 DEF Satisfies
  <2> QED BY <2>1, <2>2
<1>4. SolutionsOf(ReducedBasis(S, columns), columns) \subseteq S
  BY <1>3 DEF SolutionsOf
<1> QED BY <1>2, <1>4

\* A space of rank r has 2^(columns - r) elements.
LEMMA SpaceIsCounted ==
  ASSUME NEW columns, FiniteColumns(columns), NEW S, AffineSpace(S, columns)
  PROVE  /\ IsFiniteSet(S)
         /\ SpaceRank(S, columns) \in 0 .. Cardinality(columns)
         /\ Cardinality(S) = 2 ^ (Cardinality(columns) - SpaceRank(S, columns))
<1> DEFINE B == ReducedBasis(S, columns)
<1>1. Reduced(B, columns) /\ SolutionsOf(B, columns) = S
  BY BasisIsReduced, BasisSolutions DEF AffineSpace
<1>2. /\ IsFiniteSet(B) /\ Cardinality(B) <= Cardinality(columns)
      /\ IsFiniteSet(SolutionsOf(B, columns))
      /\ Cardinality(SolutionsOf(B, columns)) = 2 ^ (Cardinality(columns) - Cardinality(B))
  BY <1>1, SolutionsAreCounted
<1>3. Cardinality(B) \in Nat /\ Cardinality(columns) \in Nat
  BY <1>2, FS_CardinalityType DEF FiniteColumns
<1> QED BY <1>1, <1>2, <1>3 DEF SpaceRank

\* Equal bases, equal spaces.
LEMMA BasisTellsSpaces ==
  ASSUME NEW columns, FiniteColumns(columns),
         NEW S, AffineSpace(S, columns), NEW T, AffineSpace(T, columns)
  PROVE  ReducedBasis(S, columns) = ReducedBasis(T, columns) <=> S = T
BY BasisSolutions

LEMMA PowersMultiply ==
  ASSUME NEW a \in Nat, NEW b \in Nat
  PROVE  2 ^ (a + b) = 2 ^ a * 2 ^ b
<1> DEFINE A == 1 .. a
           B == a + 1 .. a + b
           C == 1 .. a + b
<1>1. /\ IsFiniteSet(A) /\ IsFiniteSet(B) /\ IsFiniteSet(C)
      /\ Cardinality(A) = a /\ Cardinality(B) = b /\ Cardinality(C) = a + b
  <2>1. IsFiniteSet(A) /\ Cardinality(A) = a
    BY FS_Interval
  <2>2. IsFiniteSet(B) /\ Cardinality(B) = b
    <3>1. a + 1 \in Int /\ a + b \in Int
      OBVIOUS
    <3>2. /\ IsFiniteSet(B)
          /\ Cardinality(B) = IF a + 1 > a + b THEN 0 ELSE (a + b) - (a + 1) + 1
      BY <3>1, FS_Interval
    <3> QED BY <3>2
  <2>3. IsFiniteSet(C) /\ Cardinality(C) = a + b
    <3>1. a + b \in Nat
      OBVIOUS
    <3>2. IsFiniteSet(C) /\ Cardinality(C) = IF 1 > a + b THEN 0 ELSE (a + b) - 1 + 1
      BY <3>1, FS_Interval
    <3> QED BY <3>1, <3>2
  <2> QED BY <2>1, <2>2, <2>3
<1>2. A \cap B = {} /\ A \cup B = C
  OBVIOUS
<1> HIDE DEF A, B, C
<1>3. /\ IsFiniteSet(SUBSET A) /\ Cardinality(SUBSET A) = 2 ^ a
      /\ IsFiniteSet(SUBSET B) /\ Cardinality(SUBSET B) = 2 ^ b
      /\ IsFiniteSet(SUBSET C) /\ Cardinality(SUBSET C) = 2 ^ (a + b)
  BY <1>1, FS_SUBSET
<1>4. ExistsBijection(SUBSET C, (SUBSET A) \X (SUBSET B))
  <2> DEFINE f == [U \in SUBSET C |-> <<U \cap A, U \cap B>>]
  <2>1. f \in [SUBSET C -> (SUBSET A) \X (SUBSET B)]
    OBVIOUS
  <2>2. ASSUME NEW U \in SUBSET C, NEW V \in SUBSET C, f[U] = f[V]
        PROVE  U = V
    BY <1>2, <2>2
  <2>3. ASSUME NEW p \in (SUBSET A) \X (SUBSET B)
        PROVE  \E U \in SUBSET C : f[U] = p
    <3>1. p = <<p[1], p[2]>> /\ p[1] \in SUBSET A /\ p[2] \in SUBSET B
      OBVIOUS
    <3>2. (p[1] \cup p[2]) \cap A = p[1] /\ (p[1] \cup p[2]) \cap B = p[2]
      BY <1>2, <3>1
    <3>3. p[1] \cup p[2] \in SUBSET C
      BY <1>2, <3>1
    <3> QED BY <3>1, <3>2, <3>3
  <2> HIDE DEF f
  <2>4. f \in Bijection(SUBSET C, (SUBSET A) \X (SUBSET B))
    BY <2>1, <2>2, <2>3 DEF Bijection, Injection, Surjection, IsInjective
  <2> QED BY <2>4 DEF ExistsBijection
<1>5. /\ IsFiniteSet((SUBSET A) \X (SUBSET B))
      /\ Cardinality((SUBSET A) \X (SUBSET B)) = Cardinality(SUBSET C)
  BY <1>3, <1>4, FS_Bijection
<1>6. Cardinality((SUBSET A) \X (SUBSET B)) = Cardinality(SUBSET A) * Cardinality(SUBSET B)
  BY <1>3, FS_Product
<1> QED BY <1>3, <1>5, <1>6

\* ConstraintSet.implies and compare_constraint_spaces in terms of ranks: fewer
\* solutions, higher rank, and each rank more halves the space.
THEOREM SmallerSpaceHigherRank ==
  ASSUME NEW columns, FiniteColumns(columns),
         NEW S, AffineSpace(S, columns), NEW T, AffineSpace(T, columns), S \subseteq T
  PROVE  /\ SpaceRank(T, columns) <= SpaceRank(S, columns)
         /\ SpaceRank(S, columns) = SpaceRank(T, columns) <=> S = T
         /\ Cardinality(T)
              = 2 ^ (SpaceRank(S, columns) - SpaceRank(T, columns)) * Cardinality(S)
<1> DEFINE BS == ReducedBasis(S, columns)
           BT == ReducedBasis(T, columns)
           s == SpaceRank(S, columns)
           t == SpaceRank(T, columns)
           n == Cardinality(columns)
<1>1. Leads(BT) \subseteq Leads(BS)
  <2>1. Implied(T, columns) \subseteq Implied(S, columns)
    BY DEF Implied
  <2>2. Leads(Implied(T, columns)) \subseteq Leads(Implied(S, columns))
    BY <2>1 DEF Leads
  <2> QED BY <2>2, LeadsHaveBasisRows
<1>2. /\ IsFiniteSet(BS) /\ Cardinality(BS) = Cardinality(Leads(BS))
      /\ Cardinality(BT) = Cardinality(Leads(BT))
  BY BasisIsReduced, SolutionsAreCounted DEF AffineSpace
<1>3. IsFiniteSet(Leads(BS))
  <2>1. Leads(BS) \in SUBSET columns
    BY BasisIsReduced, LeadIsLowest DEF AffineSpace, Reduced, Leads
  <2> QED BY <2>1, FS_Subset DEF FiniteColumns
<1>4. t <= s
  BY <1>1, <1>2, <1>3, FS_Subset DEF SpaceRank
<1>5. /\ IsFiniteSet(S) /\ s \in 0 .. n /\ Cardinality(S) = 2 ^ (n - s)
      /\ IsFiniteSet(T) /\ t \in 0 .. n /\ Cardinality(T) = 2 ^ (n - t)
      /\ n \in Nat
  BY SpaceIsCounted, FS_CardinalityType DEF FiniteColumns
<1>6. s = t => S = T
  <2> SUFFICES ASSUME s = t PROVE S = T
    OBVIOUS
  <2>1. Cardinality(S) = Cardinality(T)
    BY <1>5
  <2> QED BY <1>5, <2>1, FS_Subset
<1> HIDE DEF s, t, n
<1>7. 2 ^ (n - t) = 2 ^ (s - t) * 2 ^ (n - s)
  <2>1. s - t \in Nat /\ n - s \in Nat /\ (s - t) + (n - s) = n - t
    BY <1>4, <1>5
  <2>2. 2 ^ ((s - t) + (n - s)) = 2 ^ (s - t) * 2 ^ (n - s)
    BY <2>1, PowersMultiply
  <2> QED BY <2>1, <2>2
<1> QED BY <1>4, <1>5, <1>6, <1>7 DEF s, t
================================================================================
