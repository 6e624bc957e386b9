-------------------------- MODULE Stage3Enumeration --------------------------
(***************************************************************************)
(* What the instrumented Stage 3 program does for one sample: enumerate    *)
(* the inputs that satisfy the formula and agree with the sampled bits.    *)
(* instrument_gift64_stage3_source writes this loop into the pinned source *)
(* in place of the program's own; the solver is external.  An input is an  *)
(* assignment of bits; a model may leave some of them undefined.           *)
(***************************************************************************)
EXTENDS StageCommon, FiniteSets

CONSTANT Width     \* bits of an input, and of an unsigned long long

ASSUME WidthAssumption == Width \in Nat \ {0}

Bit == 0 .. Width - 1
Input == [Bit -> 0 .. 1]
PartialModel == UNION {[defined -> 0 .. 1] : defined \in SUBSET Bit}

\* The inputs that a partial assignment leaves possible.
Cube(model) == {x \in Input : \A b \in DOMAIN model : x[b] = model[b]}

\* RandomFixBitIndex and RandomFixValue: Gift64Stage3ProbabilityRequest wants
\* at least one fixed bit and at least one free one.
FixedAssignments == {f \in PartialModel : Cardinality(DOMAIN f) \in 1 .. Width - 1}

VARIABLES
  pc,           \* "solve", "check", "marker" or "done"
  fixed,        \* the sampled subcube
  satisfying,   \* its inputs that satisfy the formula of key and trail
  remaining,    \* those that no clause forbids yet
  model,        \* solver.get_model(), of the input bits
  Solution,
  ret,
  lgca_undefined_xin_model_bit,
  terminal      \* as printed in the marker

formula == <<fixed, satisfying>>
vars == <<pc, formula, remaining, model, Solution, ret, lgca_undefined_xin_model_bit, terminal>>

Init ==
  /\ pc = "solve"
  /\ fixed \in FixedAssignments
  /\ satisfying \in SUBSET Cube(fixed)
  /\ remaining = satisfying
  /\ model = << >>
  /\ Solution = 0
  /\ ret = "l_Undef"
  /\ lgca_undefined_xin_model_bit = FALSE
  /\ terminal = "none"

\* The solver has a model: no input that the model leaves possible is forbidden.
SolverFindsModel ==
  /\ pc = "solve"
  /\ model' \in {m \in PartialModel : Cube(m) \subseteq remaining}
  /\ ret' = "l_True" /\ pc' = "check"
  /\ UNCHANGED <<formula, remaining, Solution, lgca_undefined_xin_model_bit, terminal>>

\* No model is left, or the solver gives up: the loop is left.
SolverFindsNone ==
  /\ pc = "solve"
  /\ ret' \in IF remaining = {} THEN {"l_False", "l_Undef"} ELSE {"l_Undef"}
  /\ pc' = "marker"
  /\ UNCHANGED <<formula, remaining, model, Solution, lgca_undefined_xin_model_bit, terminal>>

\* The clause that deletes a model: a literal for every defined bit.
Allows(clause_model, x) == \E b \in DOMAIN clause_model : x[b] # clause_model[b]

\* One more solution, modulo the width of the counter, and its clause.
CountModel ==
  /\ Solution' = (Solution + 1) % 2 ^ Width
  /\ remaining' = {x \in remaining : Allows(model, x)}
  /\ pc' = "solve"
  /\ UNCHANGED <<formula, model, ret, lgca_undefined_xin_model_bit, terminal>>

\* The program's own loop: a model of several inputs counts as one and is
\* deleted with all of them.
CheckModel_Legacy == pc = "check" /\ CountModel

\* Only a model that defines every bit is counted; another one ends the loop.
CheckModel ==
  /\ pc = "check"
  /\ \/ DOMAIN model = Bit /\ CountModel
     \/ /\ DOMAIN model # Bit
        /\ lgca_undefined_xin_model_bit' = TRUE
        /\ ret' = "l_Undef" /\ pc' = "marker"
        /\ UNCHANGED <<formula, remaining, model, Solution, terminal>>

Terminal ==
  IF lgca_undefined_xin_model_bit THEN "ERROR"
  ELSE IF ret = "l_False" THEN "UNSAT" ELSE "UNKNOWN"

PrintMarker ==
  /\ pc = "marker"
  /\ terminal' = Terminal
  /\ pc' = "done"
  /\ UNCHANGED <<formula, remaining, model, Solution, ret, lgca_undefined_xin_model_bit>>

Next == SolverFindsModel \/ SolverFindsNone \/ CheckModel \/ PrintMarker

\* The process may hang in the solver or be killed: no step has to happen.
Spec == Init /\ [][Next]_vars

------------------------------------------------------------------------------
(* Properties *)

\* The printed count is true, whatever models the solver chooses to give: with
\* UNSAT it is the number of satisfying inputs of the subcube, with any other
\* marker no more than that; so it stays within the subcube, and the counter
\* never wraps.  Stage3Adapter takes this for granted of the program it runs.
CountIsTrue ==
  pc = "done" => Solution \in TrueCounts(terminal, Cardinality(satisfying))
==============================================================================
