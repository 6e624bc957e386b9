--------------------------- MODULE ConstraintAdapter ---------------------------
(***************************************************************************)
(* run_gift64_lc_observation (A2) and run_gift64_lnc_observation (A3) up   *)
(* to their constraint sets: check the program and the trails, compile and *)
(* run an instrumented copy, and map the matrix rows it reports on stderr  *)
(* into one ConstraintSet per trail.  Columns of a matrix row: first the   *)
(* differential state, then the key, then seven fixed round-constant       *)
(* slots per round, then the right-hand side.                              *)
(***************************************************************************)
EXTENDS ConstraintSpaces

CONSTANTS
  Kind,            \* constraint_kind: LC, or LC_PLUS_LINEARIZED_RELATIONS for A3
  TrailCount,      \* layout.group_count * layout.trails_per_group
  RoundStart,      \* layout.round_start
  RoundCount,      \* layout.round_count
  RoundConstant,   \* GIFT64_ROUND_CONSTANTS
  FirstKey,        \* the first key column: 64 in the LC matrix, 576 in the LNC matrix
  Markers,         \* model bound: the rows the program may report
  MaxRows          \* model bound: how many of them it reports

VARIABLES
  step,      \* the statement reached
  source,    \* the bytes of source_path, as read
  corpus,    \* the bytes of trail_path, as read
  built,     \* what the build directory holds: program and trails
  seen,      \* identities of the rows parsed so far
  rows,      \* the equations of each trail
  sets       \* constraint_sets, once built

vars == <<step, source, corpus, built, seen, rows, sets>>

Positions == 0 .. TrailCount - 1   \* (group, trail), group by group

NotBuilt == [program |-> "missing", trails |-> "missing"]

\* LGCA_LC_ROW and LGCA_LNC_ROW; the latter has no bridge, which is 0 here.
\* `ordered` says that the columns are listed in order and once each.
Marker == [position : Nat, bridge : Nat, columns : SUBSET Nat, rhs : 0 .. 1, ordered : BOOLEAN]

Init ==
  /\ step = "read_source"
  /\ source = "missing" /\ corpus = "missing"
  /\ built = NotBuilt
  /\ seen = {}
  /\ rows = [p \in Positions |-> {}]
  /\ sets = <<>>

\* Every exception ends the call; what has been built is gone with it.
Raise ==
  /\ step' = "raised"
  /\ UNCHANGED <<source, corpus, built, seen, rows, sets>>

\* Each file is read once, when it may hold anything; only the pinned bytes
\* pass the hash check, and the LC or LNC program is instrumented from them.
ReadSource ==
  /\ step = "read_source"
  /\ source' \in {bytes \in FileVersion : bytes = "pinned"}
  /\ step' = "read_trails"
  /\ UNCHANGED <<corpus, built, seen, rows, sets>>

ReadTrails ==
  /\ step = "read_trails"
  /\ corpus' \in {bytes \in FileVersion : bytes = "pinned"}
  /\ step' = "build"
  /\ UNCHANGED <<source, built, seen, rows, sets>>

\* A file that is missing or not the pinned one.
RejectInput == step \in {"read_source", "read_trails"} /\ Raise

WriteInputs_TrailsReread ==
  /\ step = "build"
  /\ \E bytes \in FileVersion : built' = [program |-> source, trails |-> bytes]
  /\ step' = "run"
  /\ UNCHANGED <<source, corpus, seen, rows, sets>>

\* The bytes held in memory are written to the build directory and compiled.
WriteInputs ==
  /\ step = "build"
  /\ built' = [program |-> source, trails |-> corpus]
  /\ step' = "run"
  /\ UNCHANGED <<source, corpus, seen, rows, sets>>

\* No compiler, a compile error or the 60 seconds it gets.
BuildFails == step = "build" /\ Raise

RunProgram ==
  /\ step = "run"
  /\ step' = "parse"
  /\ UNCHANGED <<source, corpus, built, seen, rows, sets>>

\* A nonzero exit code, undecodable output, or the time limit.
ProgramFails == step = "run" /\ Raise

------------------------------------------------------------------------------
(* parse_gift64_lc_markers, parse_gift64_lnc_markers *)

FirstFixed == FirstKey + KeyBits
Slots == 7

\* The LC matrix has fixed columns for each bridge between rounds, the LNC
\* matrix for each round.
FixedGroups == IF Kind = "LC" THEN RoundCount - 1 ELSE RoundCount
RhsColumn == FirstFixed + Slots * FixedGroups

\* divmod(offset, 7)
Group(column) == (column - FirstFixed) \div Slots
Slot(column) == (column - FirstFixed) % Slots

Bit(number, i) == (number \div 2 ^ i) % 2

FixedTerm_LowBitFirst(column) ==
  LET round == RoundStart + Group(column)
  IN  [name |-> <<round, Slot(column)>>,
       value |-> IF Slot(column) = 0 THEN 1
                 ELSE Bit(RoundConstant[round], Slot(column) - 1)]

\* _fixed_term: slot 0 is the constant 1, the others the six bits of the
\* round constant, the highest first.
FixedTerm(column) ==
  LET round == RoundStart + Group(column)
  IN  [name |-> <<round, Slot(column)>>,
       value |-> IF Slot(column) = 0 THEN 1
                 ELSE Bit(RoundConstant[round], 5 - (Slot(column) - 1))]

\* The checks of one line, in the order of the code; an LC row may use the
\* fixed columns of its own bridge only.
Accepted(marker) ==
  /\ marker.position \in Positions
  /\ Kind = "LC" => marker.bridge \in 0 .. RoundCount - 2
  /\ marker.ordered
  /\ marker.columns \subseteq FirstKey .. RhsColumn - 1
  /\ marker \notin seen
  /\ Kind = "LC" => \A c \in marker.columns : c >= FirstFixed => Group(c) = marker.bridge

Equation_RawColumns(marker) ==
  [variable_indices |-> {c \in marker.columns : c < FirstFixed},
   source_rhs |-> marker.rhs,
   source_round |-> RoundStart + (IF Kind = "LC" THEN marker.bridge ELSE 0),
   fixed_terms |-> {FixedTerm(c) : c \in {d \in marker.columns : d >= FirstFixed}}]

\* GF2Equation(...) of a row; LNC rows come from one global elimination and
\* carry the first round.
Equation(marker) ==
  [variable_indices |-> {c - FirstKey : c \in {d \in marker.columns : d < FirstFixed}},
   source_rhs |-> marker.rhs,
   source_round |-> RoundStart + (IF Kind = "LC" THEN marker.bridge ELSE 0),
   fixed_terms |-> {FixedTerm(c) : c \in {d \in marker.columns : d >= FirstFixed}}]

ParseRow ==
  /\ step = "parse"
  /\ Cardinality(seen) < MaxRows
  /\ \E marker \in Markers :
       /\ Accepted(marker)
       /\ seen' = seen \cup {marker}
       /\ rows' = [rows EXCEPT ![marker.position] = @ \cup {Equation(marker)}]
  /\ UNCHANGED <<step, source, corpus, built, sets>>

\* A marker that is not accepted, or a line that is no marker.
RejectRow == step = "parse" /\ Raise

\* LC asks for some row, LNC for a row of every trail: a trail without linear
\* constraints is one the LC program says nothing about.
OutputComplete ==
  /\ seen # {}
  /\ Kind # "LC" => \A p \in Positions : rows[p] # {}

Inconsistent == \E p \in Positions : ~Consistent(rows[p])

\* ConstraintSet.__post_init__ canonicalises, and so rejects a set without solution.
BuildSets ==
  /\ step = "parse"
  /\ OutputComplete
  /\ ~Inconsistent
  /\ sets' = [i \in 1 .. TrailCount |->
                ConstraintSet(Kind, i - 1, Sha256(corpus), rows[i - 1])]
  /\ step' = "returned"
  /\ UNCHANGED <<source, corpus, built, seen, rows>>

RejectOutput ==
  /\ step = "parse"
  /\ ~OutputComplete \/ Inconsistent
  /\ Raise

Next ==
  \/ ReadSource \/ ReadTrails \/ RejectInput
  \/ WriteInputs \/ BuildFails
  \/ RunProgram \/ ProgramFails
  \/ ParseRow \/ RejectRow
  \/ BuildSets \/ RejectOutput

Spec == Init /\ [][Next]_vars

------------------------------------------------------------------------------
(* Properties *)

EquationOK(equation) ==
  /\ equation.variable_indices \subseteq KeyVariables
  /\ equation.source_rhs \in 0 .. 1
  /\ equation.source_round \in RoundStart .. RoundStart + RoundCount - 1
  /\ \A t \in equation.fixed_terms : t.value \in 0 .. 1
  /\ \A s, t \in equation.fixed_terms : s.name = t.name => s = t

\* The variables have their types; every equation passes the validators of
\* GF2Equation and of the ConstraintSet it ends up in.
TypeOK ==
  /\ step \in {"read_source", "read_trails", "build", "run", "parse", "returned", "raised"}
  /\ {source, corpus, built.program, built.trails} \subseteq FileVersion
  /\ seen \subseteq Markers
  /\ DOMAIN rows = Positions
  /\ \A p \in Positions : \A e \in rows[p] : EquationOK(e)
  /\ step = "returned" => DOMAIN sets = 1 .. TrailCount

\* The fixed columns that hold a 1 in the matrix of the program.
ConstantOnes ==
  {c \in FirstFixed .. RhsColumn - 1 :
     Slot(c) = 0 \/ Bit(RoundConstant[RoundStart + Group(c)], 6 - Slot(c)) = 1}

\* A key satisfies a matrix row when the columns of its one bits and of the
\* one constants add up to the right-hand side.
SatisfiesRow(key, marker) ==
  Parity(marker.columns \cap ({FirstKey + k : k \in key} \cup ConstantOnes)) = marker.rhs

\* The delivered set of each trail admits exactly the keys that satisfy all the
\* rows printed for this trail: no row is lost, moved to another trail or
\* shifted by a column, and every constant is the one of its round.
SpacesAreThePrintedRows ==
  step = "returned" =>
    \A p \in Positions :
      /\ sets[p + 1].position = p
      /\ Space(sets[p + 1].equations) =
           {key \in SUBSET KeyVariables :
              \A marker \in seen : marker.position = p => SatisfiesRow(key, marker)}
==============================================================================
