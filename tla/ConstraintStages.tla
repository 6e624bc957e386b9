--------------------------- MODULE ConstraintStages ---------------------------
(***************************************************************************)
(* A2 and A3 together: the LC sets of run_gift64_lc_observation are handed *)
(* to run_gift64_lnc_observation, which derives sets of its own from       *)
(* another program and compares the two trail by trail.  The runner hands  *)
(* over what A2 returned; the function is public and may be called with    *)
(* any tuple of these sets.                                                *)
(***************************************************************************)
EXTENDS ConstraintSpaces

CONSTANTS
  TrailCount, RoundStart, RoundCount, RoundConstant,   \* as in ConstraintAdapter
  StateBits,               \* bits of the differential state, 64 for GIFT-64
  LCMarkers, LNCMarkers,   \* model bounds: the rows the two programs may report
  LCRows, LNCRows          \* model bounds: how many of them

ASSUME StagesAssumption ==
  /\ TrailCount \in Nat \ {0}
  /\ RoundStart \in Nat /\ RoundCount \in Nat \ {0, 1}
  /\ RoundConstant \in [RoundStart .. RoundStart + RoundCount - 1 -> 0 .. 63]
  /\ StateBits \in Nat \ {0}
  /\ LCRows \in Nat /\ LNCRows \in Nat

VARIABLES
  phase,
  a2_step, a2_source, a2_corpus, a2_built, a2_seen, a2_rows, a2_sets,
  lc_constraint_sets,      \* the argument of A3
  a3_step, a3_source, a3_corpus, a3_built, a3_seen, a3_rows, a3_sets,
  comparisons

a2 == <<a2_step, a2_source, a2_corpus, a2_built, a2_seen, a2_rows, a2_sets>>
a3 == <<a3_step, a3_source, a3_corpus, a3_built, a3_seen, a3_rows, a3_sets>>
vars == <<phase, a2, lc_constraint_sets, a3, comparisons>>

\* The LC matrix has one state layer, the LNC matrix one more than rounds.
A2 == INSTANCE ConstraintAdapter WITH
  Kind <- "LC", FirstKey <- StateBits, Markers <- LCMarkers, MaxRows <- LCRows,
  step <- a2_step, source <- a2_source, corpus <- a2_corpus, built <- a2_built,
  seen <- a2_seen, rows <- a2_rows, sets <- a2_sets
A3 == INSTANCE ConstraintAdapter WITH
  Kind <- "LC_PLUS_LINEARIZED_RELATIONS", FirstKey <- (RoundCount + 1) * StateBits,
  Markers <- LNCMarkers, MaxRows <- LNCRows,
  step <- a3_step, source <- a3_source, corpus <- a3_corpus, built <- a3_built,
  seen <- a3_seen, rows <- a3_rows, sets <- a3_sets

\* The programs print what the marker patterns match.
ASSUME MarkersAssumption == LCMarkers \subseteq A2!Marker /\ LNCMarkers \subseteq A3!Marker

Positions == 0 .. TrailCount - 1

Init ==
  /\ phase = "a2"
  /\ A2!Init
  /\ lc_constraint_sets = <<>>
  /\ A3!Init
  /\ comparisons = <<>>

\* How a phase goes on after a step of the adapter at work in it.
Proceed(here, step, next) ==
  phase' = CASE step = "returned" -> next
             [] step = "raised" -> "raised"
             [] OTHER -> here

A2Works ==
  /\ phase = "a2"
  /\ A2!Next
  /\ Proceed("a2", a2_step', "hand_over")
  /\ UNCHANGED <<lc_constraint_sets, a3, comparisons>>

\* lc_constraint_sets=a2_observation.constraint_sets
HandOver ==
  /\ phase = "hand_over"
  /\ lc_constraint_sets' = a2_sets
  /\ phase' = "a3"
  /\ UNCHANGED <<a2, a3, comparisons>>

\* Another caller: the sets in any order, some missing, some twice.
HandOverOther ==
  /\ phase = "hand_over"
  /\ \E n \in 0 .. TrailCount + 1 : \E choice \in [1 .. n -> 1 .. TrailCount] :
       lc_constraint_sets' = [i \in 1 .. n |-> a2_sets[choice[i]]]
  /\ phase' = "a3"
  /\ UNCHANGED <<a2, a3, comparisons>>

A3Works ==
  /\ phase = "a3"
  /\ A3!Next
  /\ Proceed("a3", a3_step', "compare")
  /\ UNCHANGED <<a2, lc_constraint_sets, comparisons>>

------------------------------------------------------------------------------
(* compare_lnc_with_lc *)

PositionsOf(tuple) == {tuple[i].position : i \in DOMAIN tuple}

\* No position comes twice.
Unambiguous(tuple) ==
  \A i, j \in DOMAIN tuple : tuple[i].position = tuple[j].position => i = j

Base_ByPlace(position) == lc_constraint_sets[position + 1]

\* base_by_position
Base(position) ==
  lc_constraint_sets[CHOOSE i \in DOMAIN lc_constraint_sets :
                       lc_constraint_sets[i].position = position]

\* Every check that precedes the comparisons: the kinds of both tuples, no
\* duplicate on either side, a base for every combined set and none left over.
PairingAccepted ==
  /\ \A i \in DOMAIN lc_constraint_sets : lc_constraint_sets[i].constraint_kind = "LC"
  /\ Unambiguous(lc_constraint_sets)
  /\ \A i \in DOMAIN a3_sets : a3_sets[i].constraint_kind = "LC_PLUS_LINEARIZED_RELATIONS"
  /\ Unambiguous(a3_sets)
  /\ PositionsOf(lc_constraint_sets) = PositionsOf(a3_sets)
  /\ \A i \in DOMAIN a3_sets : Comparable(Base(a3_sets[i].position), a3_sets[i])

Comparisons ==
  [i \in DOMAIN a3_sets |-> CompareSpaces(Base(a3_sets[i].position), a3_sets[i])]

Compare ==
  /\ phase = "compare"
  /\ PairingAccepted
  /\ \A i \in DOMAIN a3_sets : ValidComparison(Comparisons[i])
  /\ comparisons' = Comparisons
  /\ phase' = "returned"
  /\ UNCHANGED <<a2, lc_constraint_sets, a3>>

\* A pairing error, or a comparison its own validator rejects.
RefuseComparison ==
  /\ phase = "compare"
  /\ PairingAccepted => \E i \in DOMAIN a3_sets : ~ValidComparison(Comparisons[i])
  /\ phase' = "raised"
  /\ UNCHANGED <<a2, lc_constraint_sets, a3, comparisons>>

Next == A2Works \/ HandOver \/ HandOverOther \/ A3Works \/ Compare \/ RefuseComparison

Spec == Init /\ [][Next]_vars

------------------------------------------------------------------------------
(* Properties *)

\* The variables have their types, in both adapters.
TypeOK ==
  /\ phase \in {"a2", "hand_over", "a3", "compare", "returned", "raised"}
  /\ A2!TypeOK
  /\ A3!TypeOK
  /\ \A i \in DOMAIN lc_constraint_sets : \E p \in Positions :
       lc_constraint_sets[i] = a2_sets[p + 1]

\* What A2 and A3 deliver are the key spaces of the rows the programs printed.
SpacesAreThePrintedRows == A2!SpacesAreThePrintedRows /\ A3!SpacesAreThePrintedRows

\* Both stages speak about the same trails: whatever is edited before, between
\* or after their reads, what each program ran on is the pinned corpus, and
\* this is the digest its sets carry.
SameTrailsThroughout ==
  phase = "returned" =>
    /\ a2_built = [program |-> "pinned", trails |-> "pinned"]
    /\ a3_built = [program |-> "pinned", trails |-> "pinned"]
    /\ \A i \in DOMAIN comparisons :
         comparisons[i].source_artifact_sha256 = Sha256("pinned")

\* The tuple A3 was given holds each of A2's sets exactly once, in any order.
IsRearrangement ==
  \A p \in Positions : \E i \in DOMAIN lc_constraint_sets :
    /\ lc_constraint_sets[i] = a2_sets[p + 1]
    /\ \A j \in DOMAIN lc_constraint_sets :
         lc_constraint_sets[j].position = p => j = i

\* Spaces are paired by trail, never by place: A3 returns one comparison per
\* trail, of its own set with A2's set of this trail, in whatever order it was
\* given them; and it refuses a tuple only if a set is missing or there twice.
PairedByPosition ==
  /\ phase = "returned" =>
       /\ IsRearrangement
       /\ DOMAIN comparisons = 1 .. TrailCount
       /\ \A p \in Positions :
            comparisons[p + 1] = CompareSpaces(a2_sets[p + 1], a3_sets[p + 1])
  /\ phase = "raised" /\ a3_step = "returned" => ~IsRearrangement

\* A comparison says what it means for keys: the LC space is reported as
\* implied iff every key that is left satisfies it, the incremental rank is
\* then the number of key bits the additional relations take, and digests are equal
\* iff the spaces are.
ComparisonIsOfKeys ==
  \A i \in DOMAIN comparisons :
    LET c == comparisons[i]
        base == Space(Base(c.position).equations)
        combined == Space(a3_sets[c.position + 1].equations)
    IN  /\ c.base_implied_by_combined <=> combined \subseteq base
        /\ c.base_implied_by_combined =>
             Cardinality(base) = 2 ^ c.incremental_rank * Cardinality(combined)
        /\ c.base_semantic_sha256 = c.combined_semantic_sha256 <=> base = combined
==============================================================================
