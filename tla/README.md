# TLA+ model of the differential cryptanalysis toolchain

The repository wraps research programs for differential cryptanalysis of GIFT-64
(and, as empty directories so far, other ciphers) in adapters that pin the
programs by hash, run them in private build directories under time limits, and
turn what they print into records with provenance. What makes the toolchain
worth having is not that it computes something but that it does not claim more
than it computed: an unfinished run is not an answer, an answer belongs to the
bytes whose digest is recorded, a label "exact" is earned by an independent
verification. These claims are what the specifications here are about.

Paths are relative to the repository. `adapters/`, `formats/` and
`pipeline_runner.py` are below `src/automated_differential_analysis/`, `shared/`
below `src/`.

## 1. Inventory

| component | code | state it keeps | operations | correct when |
|---|---|---|---|---|
| plan loader (pipeline script) | `scripts/run_gift64_pipeline_demo.py`, `formats/gift64_pipeline_demo.py` and the two stage request formats | three request files | load, validate, cross-check | a plan that does not fit the profile is refused before any stage runs |
| pipeline runner | `pipeline_runner.py` | stage list, first failed stage | five stage calls in order, classify, aggregate | exit code and result state follow from the raw outcomes |
| A1 trail parser | `formats/gift64_trail_information.py` | none | parse `TrailInformation.out` behind a hash check | other bytes are refused |
| A2 LC adapter | `adapters/gift64_lc_legacy.py` | private build root | instrument, compile, run, parse markers into constraint sets | the sets admit exactly the keys that satisfy the printed rows |
| A3 LNC adapter | `adapters/gift64_lnc_legacy.py` | as A2, plus A2's sets | as A2, then compare with A2's spaces by position | each set is compared with its own counterpart |
| GF(2) algebra | `shared/constraints.py` | none | canonical rows, rank, nullity, implication, comparison | canonical rows are determined by the solution space |
| A4 Stage 2 adapter | `adapters/gift64_stage2_legacy.py`, `formats/gift64_stage2_key_corpus.py` | clock, result list, budget flag, build root | read, check, probe tools, compile, one process per key | see `BatchSafe`, `BudgetFlagExact` |
| A5 Stage 3 adapter | `adapters/gift64_stage3_legacy.py`, `formats/gift64_stage3_probability.py` | clock, sample list, build root | as A4, one process per subcube, estimate | the estimate is of true counts |
| B2 contracts | `shared/sat/contracts.py`, `shared/trails.py` | none | validate request, result, trail | status, model, label are coherent |
| B3 verifier | `shared/ciphers/gift64.py` | none | recompute weights, check S-box transitions, linear layer, objective | it depends on the trail and request only, not on the encoding |
| B5 controlled run and script | `adapters/gift64_improved_legacy.py`, `scripts/run_gift64_b5.py` | private build root; artifact root, shared by whoever is given the same one | compile, solve, decode, verify, persist, print | labels are earned; a printed reference leads to its model |
| B6 regression | `shared/sat/regression.py`, `scripts/check_gift64_b6.py` | checked-in expectation, artifact root of its own | one controlled run, compare, exit code | a pass is earned, a deviation is reported |
| B7 thread comparison | `scripts/run_gift64_b7.py` | results per configuration | alternate runs, check, report | a report rests on verified runs |
| key corpus | `formats/gift64_stage2_key_corpus.py` | none | SHA-256 counter construction | digests match |
| other scripts, docs, experiments, `ml_guided_sat` | | none | argument parsing, printing, prose, requests; `ml_guided_sat` has no code yet | |

How they interact. A script loads a plan and calls the runner; the runner calls
A1 to A5 one after the other, hands A2's constraint sets to A3, and stops calling
after the first stage that raises. A4 and A5 share no state: each copies
the upstream program and trail into a temporary directory of its own. The SAT
baseline is separate: a script calls the controlled run, which calls the
verifier and builds a contract record. Every script is one Python process with
child processes it waits for, so there are no threads of its own to interleave. What
can move while a run is in progress is the **upstream tree**, owned by somebody
else; the **clock**; the **child processes**, unmodified research code that may
print anything, hang or crash; and, for B5, **other runs** with the same artifact root,
into which all of them write their model files in place.

Hard behaviours, therefore: two time limits (per item and in total) together with a compiler guard,
each with a boundary; a file read three times with one check; five exception classes
and what is lost when one escapes; partial results next to complete ones;
five conversions between a process's exit and the pipeline's exit code; records
that validate themselves at the end of an hour's work; row operations whose
off-by-ones change nothing on most inputs. `PROJECT.json` lists these hazards at
their lines, with the properties that would catch each.

## 2. Modules

| module | models | state and actions |
|---|---|---|
| `StageCommon` | solver statuses, versions of an upstream file, digests | operators only; a digest is injective |
| `BudgetedBatch` | the abstract promise of A4 and A5 to their caller | one outcome per item, one bit for the budget, a verdict; `Settle`, `GiveUp`, `Prepare`, `Deliver`, `Fail` |
| `Stage2Adapter` | `run_gift64_stage2_demo` | `pc` is the statement reached, with a state of its own for each process that is waited for (`probe_tools`, `compiling`, `querying`); `elapsed` is `time.monotonic() - run_start`, `results` is `result_items`; one action per outcome of each statement, `UpstreamEdit` at any moment |
| `Stage3Adapter` | `run_gift64_stage3_probability_demo` | the same shape (`probe_tools`, `compiling`, `enumerating`); `truth` is the number of solutions the instrumented program would find, chosen at the start and never read by the adapter |
| `Stage3Enumeration` | the loop `instrument_gift64_stage3_source` writes into the program, for one sample; the solver is external | `remaining` is what the clauses still allow, `model` a partial assignment; `SolverFindsModel`, `CheckModel`, `SolverFindsNone`, `PrintMarker` |
| `PipelineRunner` | the script, the plan loader and `run_gift64_pipeline_demo` | request files, the stage list, two instances of `BudgetedBatch` in progress, observation, exit code |
| `GF2` | rows, solutions, and a definition of the reduced basis that mentions no elimination | operators only |
| `ConstraintSpaces` | `GF2Equation`, `ConstraintSet`, `implies`, `compare_constraint_spaces` | operators only |
| `ConstraintAdapter` | `run_gift64_lc_observation` and `run_gift64_lnc_observation` up to their sets | `step` is the statement reached, `built` what the build root holds; reads, build, run, one `ParseRow` per printed row, `BuildSets` |
| `ConstraintStages` | A2, the hand-over, A3 and `compare_lnc_with_lc` | both adapters' variables, the tuple handed over, the comparisons |
| `GF2Elimination` | `canonicalize_gf2_equations` | one step per column (`SkipColumn`, `PivotColumn`), then `Reject` or `Return` |
| `SolverContract` | `SolverRequest`, `SolverResult`, `TrailRecord` as far as a result depends on them; the issues a request's layout and objective raise | operators only |
| `ControlledGift64` | `run_controlled_gift64`, with decoding and the verifier's issues | the steps of one call, `RunStep`, for a caller to use |
| `GiftVerifier` | `verify_gift64_four_round_trail`: S-box difference table, weights, bit permutation, issues; next to it the cipher's round function | operators only |
| `BaselineScripts` | `run_gift64_b5.py` and `check_gift64_b6.py`, any number of processes, over real trails | for each process the statement reached, request, decoded trail, outcome, exit code; `models` is the shared directory |
| `ThreadComparison` | `run_gift64_b7.py` over `ControlledGift64` | results by configuration, loop counters, report |

Composition. `PipelineRunner` holds two instances of `BudgetedBatch`, one per
budgeted stage; that `Stage2Adapter` and `Stage3Adapter` implement it is checked (`BatchSafe`)
and proved (`ImplementsBatch`), so the runner is modelled against what the adapters promise
rather than against their details. `ConstraintStages` holds two instances of
`ConstraintAdapter`, which differ in the layout of their matrix and in what they accept, and the
hand-over between them: the runner's, in order, and that of any other caller of the
public function, with sets missing, repeated or in another order.
`Stage3Adapter` takes for granted that a printed count is one of `TrueCounts`; that the
enumeration prints such a count is `CountIsTrue`, of `Stage3Enumeration`.
`ThreadComparison` extends `ControlledGift64`, which extends `SolverContract`.
`BaselineScripts` extends `GiftVerifier`, which extends `SolverContract` too;
each of its processes implements `ControlledGift64` under the mapping `Run(p)`, which replaces a trail
by what the verifier makes of it (`RunsAreControlled`). `GF2Elimination` and `ConstraintSpaces`
extend `GF2`. The `MC*` modules add only what a configuration needs, and
`*Proofs` modules hold theorems, each about the module of its name (`GF2Proofs` about the
operators of `GF2`, for both `GF2EliminationProofs` and `ConstraintStagesProofs`).

Definitions named `<Definition>_<Variation>` (for example `BudgetLeft_ZeroCounts`)
stand next to the definition they vary. They are plausible mistakes in that
piece of code and no specification uses them; replacing the definition by
its variation makes TLC report the property `PROJECT.json` names with it, which shows that
the property depends on that piece of code.

### Abstractions

- Time is in whole units. A process is launched in one step and waited for in a state of its own,
  which it may never leave by itself. If it ends it takes any time up to its limit,
  one that is killed takes its limit; either may take up to `Slack` more, because
  `subprocess.run` kills, reaps and returns after the limit. Reading inputs and
  probing tools takes 0 to `PrepBound` units: the probes have timeouts of their
  own and are not under the total budget. Time spent in Python between two clock readings
  next to each other is zero.
- A file is `pinned`, `edited` or `missing`. Reading it once and holding the bytes is a
  variable, reading it again is another read of `upstream`.
- A key or a sample is its index; what a program prints is the status the parser arrives at.
  A marker that is missing, repeated, malformed or about another item is one case,
  because the code treats them alike.
- The probability estimate is the family of counts it is computed from.
- In `SolverContract` a weight has the two components of the code, and a request bounds any of them,
  or one with a name the verifier does not know (`"unknown"`). Its layout is the reference one or
  another, an objective the verifier does not know is `"other"`. `Trail.sound` stands for everything the
  verifier checks about a trail apart from that (continuity, nonzero input, S-box transitions, fixed
  differences); `GiftVerifier` has the checks themselves.
- `GiftVerifier` has the S-box of GIFT; width, rounds and permutation are constants. A *trail's*
  layout and the indices of its rounds are right by decoding, so their checks never fail and are left
  out; the layout of a *request* is free and is compared (`ContractIssues`).
- In `Stage3Enumeration` a model of the formula is the assignment it gives to the input bits, a partial
  one standing for all inputs it leaves possible; the formula is the set of satisfying inputs in the
  sampled subcube.
- In `BaselineScripts` a file is opened, which empties it, and written, in two steps. A
  process that is killed takes no further step, at any point. Up to the
  decoded model a run is a few coarse steps, `ControlledGift64` has the fine ones. What a
  program may print (`Printed`) is a set of rounds.
- A row of a GF(2) matrix is the set of columns whose bit is set in the Python integer.
- A printed marker is a record of its position, bridge, columns and right-hand side; `ordered`
  says that the columns come in order and once each. Everything else a line can get wrong is one case
  (`RejectRow`). Canonical rows in `ConstraintSpaces` are given by their definition
  (`GF2!ReducedBasis`); that the elimination computes it is `CanonicalForm`, checked in run `gf2`
  and proved (`ResultIsCanonical`).
- `GiftVerifier` writes powers as products (`Power`), because the prover has no facts about `^`.

## 3. Runs

All runs say `CHECK_DEADLOCK FALSE`: each models a function or script that returns,
raises or exits and then stops. That it does so although the processes it waits for may hang is a
liveness property of `stage2`, `stage3` and `threads`.

| run | instance | what it shows |
|---|---|---|
| `stage2` | 3 keys, limit 2 per key and 4 in total, guard 2, preparation up to 5, slack 1, one edit | `BatchSafe`, `WallTimeBounded`, `BudgetFlagExact`, `OnlyPinnedProgramRuns`; `BatchReturns`, with processes that may hang (136,934 states) |
| `stage3` | 2 samples, subcubes of 2, limits 2 and 3, guard 2, preparation up to 3, slack 1, two edits | the estimate is of true, complete counts; the observation never rejects itself; only pinned program and keys run; `SingleEditShows`, that a changed trail is visible in the record; the wall time is bounded; the batch is implemented, and returns with processes that may hang (240,966 states) |
| `enumeration` | inputs of 3 bits, 1 or 2 of them fixed, every set of satisfying inputs, every model the solver may give (4,530 states) | `CountIsTrue`: with `UNSAT` the count is the number of satisfying inputs, otherwise no more than that |
| `pipeline` | 2 keys, 2 samples | exit codes 0, 1, 2 and the result state mean what they say; a failure cascades (20,432 states) |
| `gf2` | 3 equations in 3 unknowns, at most one fixed term of value 1 each (163,840 states) | solutions are preserved, rejection is exact, the result is the reduced basis, the rank is the space's |
| `constraints` | 2 key bits, 2 trails, 3 rounds, up to 3 LC rows and 4 LNC rows out of 12 and 10, some of which the parsers refuse (171,801 states) | `SpacesAreThePrintedRows`: no row lost, shifted or moved to another trail, every constant of its round; `SameTrailsThroughout`; `PairedByPosition`, for any tuple handed over; `ComparisonIsOfKeys` |
| `baseline` | 2 processes, one B5 and one B5 or B6; 2 nibbles, 2 rounds, the S-box of GIFT, bound (4, 0); 7 requests, 4 expectations (501,618 states) | `VerdictExact`, both halves, against the round function; `RunsAreControlled`; `ReferencesResolve`; `RegressionPassIsEarned` |
| `threads` | weights (0, 0), (1, 1), (0, 2), bound (1, 1), 2 repetitions | labels are earned, results are never rejected by their own contract, a report rests on verified runs only, the script ends whatever hangs (635,930 states) |

The bounds. In `stage2` the total limit is two per-key limits, so the budget can
go exactly at the end of a key, in the middle of one (with less than a per-key limit
left, and with exactly that) and before one, with a key left in each case. `CompileGuard`
is less than, equal to and more than what is left when compilation starts,
`PrepBound` exceeds the total budget, so that it can also be gone before that. In `stage3`
two samples are enough for a partial count, a complete one and a count of
zero to stand next to each other, and `SubcubeSize` 2 for a partial count to differ
from both zero and the complete one; with two edits a changed trail can also be restored in time, the case that
`SingleEditShows` leaves out. In `pipeline` two items let a stage mix any two statuses
and lose its budget between them. In `gf2` 3 × 3 has every rank, redundant rows before and
after the pivot, and inconsistency through a sum of two or three rows; the theorems
below drop the bound. In `constraints` the rows are chosen one by one: redundant, contradictory,
void, with the constant 1 and with constants of each round, and for each check of the parsers one
row that fails it; two trails are enough to be swapped, lost or doubled, and two key
bits for a relation that is not one bit; tuples handed over have up to three sets.
In `baseline` the first program prints a transition of every count of the table (16, 6, 4, 2,
0), alone and beside an active nibble, and a trail that does not continue; the second prints some of the same, so that
two runs meet in one model file; the permutation is not its own inverse; one trail breaks only the second
component of the bound. The expectations are one that is met, the same with an
exact digest, an UNSAT one, and one whose summary its validator refuses.
The requests include ones that are refused, for another cipher or without a limit, one with a foreign layout, one
that fixes a difference, comparisons `<=`, `=` and `>=`, a component left unbounded and one the verifier does not know. In `enumeration` three bits leave subcubes of two and
four inputs, in which models can leave one or two bits undefined, overlap no other or be given
in any order. In `threads` the weights are at
the bound, below it, and below it in one component only, which decides every comparison
both ways, and two repetitions are needed for them to disagree and for both orders of configurations.

### Disagreements

Four runs are expected to end in a counterexample. Each states a sentence of the
documentation as a property; `PROJECT.json` quotes the sentence.

| run | property | what the code does |
|---|---|---|
| `stage2_inputs` | `OnlyPinnedTrailAnswers` | the trail is checked on one read, used from a second and recorded from a third |
| `stage3_budget` | `BudgetExhaustedIsUnstarted` | a budget that is gone by the end of compilation raises, where Stage 2 reports unstarted items |
| `pipeline_exit` | `ExitOneIsReported` | exceptions outside the two handlers' lists exit 1 without an observation |
| `thread_agreement` | `RepetitionsAgree` | repetitions are compared within a configuration, never across |

With the pinned trail none of them touches the headline numbers: `EstimateIsOfCompleteCounts` (conditional on
the trail that was built), `ExitZeroMeansAnswered` and `ReportIsVerified` hold in the same models.

Three more deviations are in the models without a run of their own. Stage 3 reads its trail three times as
Stage 2 does; there `SingleEditShows` says how much of an edit its record still shows. An enumeration that the
solver gives up keeps its partial count in the sample, which `EstimateIsOfCompleteCounts` keeps out of the
estimate. And output that is not text, an executable that cannot be started or a limit that `subprocess`
refuses raises out of `run_controlled_gift64` (`CompileRaises`, `SolveRaises`, `LimitRefused`), where
`docs/current_analysis/sat_baseline_b5.md:66` promises an `ERROR`; the comparison script then ends and loses the runs it has.

### What the models make visible

- **A shared artifact root (B5).** A model file is named after the states of its trail alone
  and written in place. `ReferencesResolve` therefore has exceptions, and they are exactly
  these: another run that found the same states is in the middle of its write, failed
  in it (or was killed), or recorded the states for another cipher. In every other case the
  printed digest is that of the file.
- **The regression check (B6)** can only pass with a model: an expectation without one records a verifier
  version, and a verification that did not run has none. So a checked-in expectation
  of UNSAT would fail forever rather than pass for the wrong reason.
- **A2 and A3 differ on silence.** A trail without any printed row is an unconstrained set for A2 and an
  error for A3, which is why `OutputComplete` depends on the kind.

### Fairness

Every call that could block (tool probe, compiler, program) is a `subprocess.run` with a timeout,
after which the child is killed. The children are unmodified research code and other people's tools,
so none of them is assumed ever to exit: the next-state relations are split into `OwnStep`, what the
function does by itself, the expiry of a timeout included, and `ProcessExits`, what takes a child that ends.
`Fairness` is weak fairness of `OwnStep` only, and `UpstreamEdit` need never happen either. What
`BatchReturns` and `Ends` then show is that behind every wait there is a timeout: without the one of a key's
process (`KeyTimesOut_NoTimeout`) or of a tool probe (`ProbeTimesOut_NoTimeout`) a hanging
child keeps the adapter forever. In `ControlledGift64` the solver's limit is optional in the request, and
only a process with a limit is cut off; `Ends` needs the check that refuses a request without one
(`PreparationSucceeds_AnyLimit` drops it). What is assumed is that the interpreter runs on and that
`subprocess.run` returns once the child is killed.

The other modules state no fairness. `PipelineRunner` is straight-line code over stage calls, and that
these return is `BatchReturns`; `ConstraintStages`, `BaselineScripts` and `Stage3Enumeration`
have safety properties, and a process that is killed or hangs takes no further step.

## 4. Proofs

Every safety property, action property and refinement (its safety part) that a passing run checks is also a
theorem, but for `CountIsTrue`. The theorems hold for all values of the constants that satisfy the named assumptions,
which TLC evaluates in the runs:

| assumption | says | because |
|---|---|---|
| `Stage2Assumption`, `Stage3Assumption`, `PipelineAssumption`, `ComparisonAssumption` | counts and limits are natural numbers, positive where it matters | the validators of the requests refuse others |
| `EliminationAssumption`, `KeyAssumption`, `StagesAssumption` | numbers of unknowns, key bits, trails and rounds | `ConstraintSet` and the profiles fix them |
| `MarkersAssumption` | a printed marker is one of the shapes a line can be parsed into, right or wrong | `ConstraintAdapter!Marker` has a case for each |
| `ContractAssumption` | a weight has two natural components | `ObjectiveComponents` |
| `VerifierAssumption` | there are nibbles and rounds, the bit permutation is one | `GIFT64_PERMUTATION` |
| `ScriptsAssumption` | processes are B5 or B6; rounds that are printed decode; requests pass `SolverRequest`; an expectation has a verifier version and one of two hash policies | decoding and the loaders refuse everything else (`regression.py:240` and `:253`) |
| `WeightsAssumption` | `Weights` has the weights of what may be printed | a bound of the model: the set that `ControlledGift64` draws from |

**Stage2AdapterProofs.** `TypeCorrect` includes the relation between the cursor and the results: the
ones before it are valid, the others pending. It is inductive by itself because
each step that records a result moves the cursor. `WallTimeIsBounded` needs
`TimeInv`: before the first budget check only preparation has passed and no key has
been taken, and afterwards each step adds at most what was left of the budget plus
`Slack`, since every limit is the lesser of itself and the remainder
(`LimitsFitTheBudget`); a preparation that outlives the budget leads to no launch. `LaunchInv` carries the
check at a launch to the end of the wait: while a compiler or a program is waited for, there was budget left
when it was launched, and a key is still to be recorded. `BudgetFlagIsExact` needs
`FlagInv`: the property is about the final state, the invariant says it of the
keys recorded so far. `OnlyThePinnedProgramRuns` needs `ProvenanceInv`: the bytes
held since the hash check are the ones written. `ImplementsBatch` shows that the
initial states map to the batch's and each step to a step or a stutter: recording a key is `Settle`,
skipping the rest is `GiveUp`, raising is `Fail`, everything else is
`Prepare`, `Deliver` or a stutter. It needs `BatchInv`, that every key behind the cursor
has run while the loop is on, because `Settle` demands it.

**Stage3AdapterProofs.** `TypeCorrect` as above. `EstimateIsSound` and
`ObservationIsAccepted` need `CountInv`: the count of a complete sample is the true
one as long as the build root holds the pinned trail, every count has parsed assignments, and a
finished run's estimate is the one computed from its samples. `ChangedTrailShows` needs `TrailInv`: until the
first edit the trail is the one that was checked, and an only edit has not been undone. `OnlyThePinnedBytesRun`,
`WallTimeIsBounded` and `ImplementsBatch` follow the lines of Stage 2's, with one difference: a
budget that is gone by the end of the compilation raises, which maps to `Fail`.

**PipelineRunnerProofs.** All five theorems come from one invariant, over `VerdictsOK`
(what a batch in progress may have concluded). `RecordsOK` says that
each stage record passes its validator, `Progress` that there are as many as stages passed and that nothing is
reported before the end, `Cascade` what follows a failure, `ResultsOK` that the result state of a
stage is the one its items deserve, and `ReportOK` that the report is the aggregate of the records.
`ResultStateOfSummary` carries the weight: the code counts statuses and compares counts, the
property asks which statuses occur, and the two agree because a finite set has a positive
cardinality iff it has a member. `OwnReportIsValid` shows that the report never rejects itself,
without which `TwoMeansRefused` would be false.

**Induction over finite sets.** The library's induction theorems take an operator as a parameter, which
the provers cannot instantiate. `MinimalSubset` replaces them: a nonempty family of
subsets of a finite set has a minimal member, because strict inclusion is well-founded there. To prove
something of a set, take the family of its subsets for which it fails and a minimal one among them: it is not
empty, and without one of its elements it does not fail. Cardinalities, sums and products below are all
done this way.

**GF2Proofs.** The linear algebra, for any finite set of columns. `ParityOfSymDiff` makes a sum of rows a
sum of equations (`RowSumHolds`). In a reduced system every row owns its lowest column, its lead:
the free columns decide the leads (`LeadIsDecided`), so there are 2^free solutions
(`SolutionsAreCounted`, by a bijection with the sets of free columns). `ReducedIsItsBasis` shows that
such a system is exactly the basis defined from its solutions: an implied equation has
its lowest column among the leads, because turning a free column changes only leads below it and would
break the equation (`ImpliedHasItsLead`), and two that meet the leads alike are equal (`LeadsTellRowsApart`). Conversely,
the solutions of any equations have such a basis (`LeadsHaveBasisRows`: take the greatest lead without its
row; of the equations that have this lead, one with fewest others has none, since any other
could be cleared). Hence `SmallerSpaceHigherRank`: rank, inclusion and size of spaces determine each other.

**GF2EliminationProofs.** `SolutionsArePreserved` rests on `ParityOfSymDiff` (the parity
of a sum of rows is the sum of parities, from the cardinality of unions) and `AddingAHoldingRow`.
`MatrixIsReduced` proves the echelon invariant `Echelon`; `ReducedSoFar` alone is
not inductive, since the `CHOOSE` in `LowestColumn` says nothing until a lowest column is
known to exist, which `PivotsAreLowest` adds. `RejectionIsExact` combines them with `VerdictInv`: a reduced matrix without
contradiction has a solution (set exactly the pivots of rows with right-hand side
1), a contradiction has none, and neither had the source by preservation.
`ResultIsCanonical` adds that once all columns are visited the rows from the cursor on are zero, so what
is returned is a reduced system with the same solutions, sorted; by `ReducedIsItsBasis` it is *the* basis of
these solutions. `RankCountsSolutions` is then `SolutionsAreCounted`.

**ConstraintStagesProofs.** `A2Inv` and `A3Inv` follow the bytes from the check to the build root
and the sets, `StagesInv` the hand-over: every set in the tuple is one of A2's; `SameTrails` follows.
`A2Rows` and `A3Rows` say what the equations of each trail are made of: of the rows parsed for it, each
of which fits its matrix. Both matrices are proved about once, as a matrix with the key from some
column on and some groups of fixed columns behind it (the two adapters differ in these numbers only):
the equation of a row passes the validators and holds of exactly the keys that satisfy the row,
as moving a constant to the right-hand side turns the parity of both sides. This gives `StagesTypes` and
`SpacesArePrinted`. `ComparisonsAreOfKeys` reads A3's report through `SmallerSpaceHigherRank`.
`PairsAreOfOneTrail` has two halves: with `OneBasePerTrail` (the checks leave exactly one set for each
trail) what is published is of the two sets of one trail; and by `NothingToRefuse` a tuple with
every set of A2 once is never refused, because no two satisfiable sets make a comparison that its
validator rejects.

**BaselineScriptsProofs.** Everything here is for any number of processes, and for a cipher of any width,
number of rounds and bit permutation.

- *Shared files.* `Shapes` has the types (`TypeCorrect`, which no run needs to check besides) and `LocalInv` relates a process's label, record and outcome.
  `ModelInv` is the strengthening for `ReferencesAreKept`: every file is named after somebody's states, and the
  file of a run whose reference may be printed holds its digest unless some other run `Shadows` it. The
  steps are sorted by their effect on the file first (none, emptied, written), so that
  interference is considered once for each effect and not for each action.
- *Runs.* `RunsOfProcesses` is a refinement, one process at a time: a step of another process changes nothing
  that `Run(p)` sees (`OnlyItsOwn`), and a step of its own is the step of `ControlledGift64` of that name or
  none. It needs `CallInv`: what a process has in hand is a decoded trail with the
  verifier's verdict on it, and the issues that the abstract run recomputes are those that
  decide the result (`SatOfTheRun`; the contract raises the same issues on both sides, by `IssuesOf`).
- *Verdicts.* `VerdictsAreExact` relates the table lookups of `verify_gift64_four_round_trail` to the round
  function. Bits and nibbles determine each other (`NibbleOfItsBits`, `StateOfBits`); after its S-boxes the
  round is linear, so that a state leads to an output difference iff its S-boxes lead to the
  logical one, which undoes the permutation (`DifferenceOfRounds`); hence a state
  follows a round iff each of its nibbles follows its S-box (`FollowsIsLocal`), and the states that do
  are as many as the table entries multiply to (`ChoicesAreCounted`). The entries of the GIFT table
  are 0, 2, 4, 6 and 16 (`CountsOfTheTable`, row by row), each of which the code gives the right weight,
  and one more S-box keeps the product of counts and the sums of weights in balance (`OneMoreWeighed`,
  `EverythingWeighed`). Products and sums are taken in the unspecified order of `FoldFunction`, so
  `FoldTakes` shows first that the order does not matter.
- *Passes.* `PassesAreEarned` needs `AnswerInv`: the verdict in hand stays the one on the record in hand until
  the end, a returned answer is the SAT result about it or has no verification, and a check
  that exits with 0 has compared equals. Equal verifier versions then exclude an answer
  without a model, and an equal label gives an empty list of issues, to which `VerdictSays` applies.

**ThreadComparisonProofs.** `LabelsAreEarned` and `ResultIsAccepted`, from `IInv`: a
trail that reaches the verdict was decoded, for a request of four rounds. `TypeCorrect` and
`ComparisonsAreVerified` add `LoopInv`, how many results each configuration has at each point of the
alternating loop and that exact labels among them are earned, and `ReportInv`, that
a report has been checked for both.

Only model-checked: liveness (`BatchReturns`, `Ends`) and the fairness of the
refinements, which the prover does not handle; the enumeration of
Stage 3 (`CountIsTrue`); and the counterexamples of section 3.

## 5. Not modelled

- A1's text parsing: `PipelineRunner` has the call, which returns or raises, and the adapters the
  verdict, pinned or not. What the hash check lets through is one fixed file.
- The formulas of the programs and the rows they print. For Stage 3 the enumeration that is written into the program is
  modelled (`Stage3Enumeration`), the formula it enumerates and the solver are not.
- Key generation, a pure SHA-256 counter construction whose output is only compared by digest.
- JSON parsing and serialisation of requests, results, trails and constraint sets, with the validators of fields
  no decision depends on; timing statistics.
- The other scripts, which parse arguments, make one call and print.
- Bounds, assumptions and fixed differences of a request are not handed to the SAT program, so an UNSAT answer
  is about the program's own formula. The code gives no exact label to it, and no regression check passes on one (`LabelIsEarned`,
  `RegressionPassIsEarned`); no property here says more.

## 6. Plan

1. `PipelineSystem`: the runner with the detailed adapters and `ConstraintStages` in place of its calls.
2. The A1 parser as a state machine over lines, in front of the hash-checked readers.
