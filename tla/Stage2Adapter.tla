---------------------------- MODULE Stage2Adapter ----------------------------
(***************************************************************************)
(* run_gift64_stage2_demo (A4): compile one hash-pinned, instrumented copy *)
(* of the Stage 2 program and query it once per generated key, each key in *)
(* a process of its own, under a per-key limit and a total wall-time       *)
(* budget.  Time is counted in whole units since run_start and is read     *)
(* where the code reads time.monotonic().  Probes, compiler and program    *)
(* are processes the function waits for and that may never exit; only a    *)
(* timeout ends the wait then.  Somebody else owns the upstream tree and   *)
(* may edit it while the run is in progress.                               *)
(***************************************************************************)
EXTENDS StageCommon

CONSTANTS
  KeyCount,       \* key_corpus_spec.key_count
  PerKeyLimit,    \* per_key_time_limit_s
  TotalLimit,     \* total_time_limit_s
  CompileGuard,   \* _COMPILE_GUARD_S, 60 seconds in the code
  PrepBound,      \* model bound: time from run_start to the first budget check
  Slack,          \* model bound: time around one process call beyond its limit
  MaxEdits        \* model bound: edits of the upstream tree during one run

ASSUME Stage2Assumption ==
  /\ KeyCount \in Nat \ {0}
  /\ PerKeyLimit \in Nat \ {0}
  /\ TotalLimit \in Nat \ {0}
  /\ CompileGuard \in Nat \ {0}
  /\ PrepBound \in Nat
  /\ Slack \in Nat
  /\ MaxEdits \in Nat

VARIABLES
  pc,             \* the statement run_gift64_stage2_demo has reached
  elapsed,        \* time.monotonic() - run_start
  results,        \* result_items, "pending" where nothing is appended yet
  key_index,      \* the loop's next key
  total_time_budget_exhausted,
  source,               \* bytes of the only read of main.cpp, "missing" before it
  built_source,         \* what was written to main.instrumented.cpp
  built_trail,          \* what was written to the build root's TrailInformation.out
  source_sha256,        \* digests recorded in the observation
  trail_source_sha256,
  upstream,             \* the files as they are on disk now
  edits                 \* how often the upstream tree was edited

inputs == <<source, built_source, built_trail>>
digests == <<source_sha256, trail_source_sha256>>
environment == <<upstream, edits>>
vars == <<pc, elapsed, results, key_index, total_time_budget_exhausted,
          inputs, digests, environment>>

Keys == 0 .. KeyCount - 1

\* Gift64Stage2KeyResult: wall_time_s is what the clock said around the process.
Result(state, status, wall, diagnostics) ==
  [execution_state |-> state, status |-> status,
   wall_time_s |-> wall, diagnostics |-> diagnostics]

PendingResult == Result("pending", NoStatus, 0, "none")

NotStartedTotalBudgetResult_AsTimeout ==
  Result("not_started_total_budget", "TIMEOUT", 0, "exhausted_before_launch")

NotStartedTotalBudgetResult ==
  Result("not_started_total_budget", NoStatus, 0, "exhausted_before_launch")

\* Gift64Stage2KeyResult.__post_init__
ValidResult(r) ==
  /\ r.execution_state \in {"ran", "not_started_total_budget"}
  /\ r.execution_state = "ran" => r.status \in SolverStatus
  /\ r.execution_state = "not_started_total_budget" =>
       r.status = NoStatus /\ r.wall_time_s = 0
  /\ r.wall_time_s >= 0

Remaining == TotalLimit - elapsed

BudgetLeft_ZeroCounts == Remaining >= 0

\* The code's test is `remaining <= 0`, before the compiler and before each key.
BudgetLeft == Remaining > 0

Init ==
  /\ pc = "read_source"
  /\ elapsed = 0
  /\ results = [k \in Keys |-> PendingResult]
  /\ key_index = 0
  /\ total_time_budget_exhausted = FALSE
  /\ source = "missing"
  /\ source_sha256 = NoDigest
  /\ built_source = "missing"
  /\ built_trail = "missing"
  /\ trail_source_sha256 = NoDigest
  /\ upstream \in [{"source", "trail"} -> FileVersion]
  /\ edits = 0

\* Any exception leaves the function: nothing already computed is returned.
Raise ==
  /\ pc' = "raised"
  /\ UNCHANGED <<results, key_index, total_time_budget_exhausted,
                 inputs, digests, environment>>

\* source_path.read_bytes() and the hash check of instrument_gift64_stage2_source.
ReadSource ==
  /\ pc = "read_source"
  /\ upstream.source = "pinned"
  /\ source' = upstream.source
  /\ pc' = "parse_trail"
  /\ UNCHANGED <<elapsed, results, key_index, total_time_budget_exhausted,
                 built_source, built_trail, digests, environment>>

RejectSource ==
  /\ pc = "read_source"
  /\ upstream.source # "pinned"
  /\ Raise
  /\ UNCHANGED elapsed

\* parse_gift64_trail_information with its expected hash: the first read of the trail.
ParseTrail ==
  /\ pc = "parse_trail"
  /\ upstream.trail = "pinned"
  /\ pc' = "probe_tools"
  /\ UNCHANGED <<elapsed, results, key_index, total_time_budget_exhausted,
                 inputs, digests, environment>>

RejectTrail ==
  /\ pc = "parse_trail"
  /\ upstream.trail # "pinned"
  /\ Raise
  /\ UNCHANGED elapsed

\* brew --prefix, twice, and cryptominisat5 --version: each is waited for.
ProbeTools ==
  /\ pc = "probe_tools"
  /\ \E d \in 0 .. PrepBound : elapsed' = elapsed + d
  /\ pc' = "copy_inputs"
  /\ UNCHANGED <<results, key_index, total_time_budget_exhausted,
                 inputs, digests, environment>>

\* No compiler, no brew, or not the CryptoMiniSat the study names.
ProbeFails ==
  /\ pc = "probe_tools"
  /\ \E d \in 0 .. PrepBound : elapsed' = elapsed + d
  /\ Raise

\* A probe is given 30 seconds, and TimeoutExpired becomes the adapter's error.
ProbeTimesOut ==
  /\ pc = "probe_tools"
  /\ \E d \in 0 .. PrepBound : elapsed' = elapsed + d
  /\ Raise

CopyInputs_SourceReread ==
  /\ pc = "copy_inputs"
  /\ upstream.trail # "missing"
  /\ built_source' = upstream.source
  /\ built_trail' = upstream.trail
  /\ pc' = "compile"
  /\ UNCHANGED <<elapsed, results, key_index, total_time_budget_exhausted,
                 source, digests, environment>>

\* The build root gets the instrumented bytes held since ReadSource, and the
\* trail, which is read from upstream a second time.
CopyInputs ==
  /\ pc = "copy_inputs"
  /\ upstream.trail # "missing"
  /\ built_source' = source
  /\ built_trail' = upstream.trail
  /\ pc' = "compile"
  /\ UNCHANGED <<elapsed, results, key_index, total_time_budget_exhausted,
                 source, digests, environment>>

\* The upstream trail has gone since it was parsed.
CopyFails ==
  /\ pc = "copy_inputs"
  /\ upstream.trail = "missing"
  /\ Raise
  /\ UNCHANGED elapsed

\* Every key not yet recorded is recorded as unstarted.
SkipRemainingKeys ==
  /\ results' = [k \in Keys |-> IF k >= key_index THEN NotStartedTotalBudgetResult
                                ELSE results[k]]
  /\ key_index' = KeyCount
  /\ total_time_budget_exhausted' = TRUE
  /\ pc' = "observe"
  /\ UNCHANGED <<inputs, digests, environment>>

CompileSkipped ==
  /\ pc = "compile"
  /\ ~BudgetLeft
  /\ SkipRemainingKeys
  /\ UNCHANGED elapsed

LaunchCompiler ==
  /\ pc = "compile"
  /\ BudgetLeft
  /\ pc' = "compiling"
  /\ UNCHANGED <<elapsed, results, key_index, total_time_budget_exhausted,
                 inputs, digests, environment>>

CompileTimeout == Lesser(CompileGuard, Remaining)

CompileTimeoutExhaustedTotalBudget_Always == TRUE

\* _compile_timeout_exhausted_total_budget
CompileTimeoutExhaustedTotalBudget == Remaining <= CompileGuard

CompileTimesOut ==
  /\ pc = "compiling"
  /\ \E d \in 0 .. Slack : elapsed' = elapsed + CompileTimeout + d
  /\ IF CompileTimeoutExhaustedTotalBudget THEN SkipRemainingKeys ELSE Raise

CompileFails ==
  /\ pc = "compiling"
  /\ \E d \in 0 .. CompileTimeout + Slack : elapsed' = elapsed + d
  /\ Raise

CompileSucceeds ==
  /\ pc = "compiling"
  /\ \E d \in 0 .. CompileTimeout + Slack : elapsed' = elapsed + d
  /\ pc' = "keys"
  /\ UNCHANGED <<results, key_index, total_time_budget_exhausted,
                 inputs, digests, environment>>

KeysLeft == pc = "keys" /\ key_index < KeyCount

BudgetGoneBeforeKey ==
  /\ KeysLeft
  /\ ~BudgetLeft
  /\ SkipRemainingKeys
  /\ UNCHANGED elapsed

LaunchKey ==
  /\ KeysLeft
  /\ BudgetLeft
  /\ pc' = "querying"
  /\ UNCHANGED <<elapsed, results, key_index, total_time_budget_exhausted,
                 inputs, digests, environment>>

KeyTimeLimit_PerKeyOnly == PerKeyLimit

KeyTimeLimit == Lesser(PerKeyLimit, Remaining)

TimeoutReason ==
  IF Remaining < PerKeyLimit THEN "exhausted_during_key" ELSE "per_key_timeout"

RecordKey(result) ==
  /\ results' = [results EXCEPT ![key_index] = result]
  /\ key_index' = key_index + 1
  /\ pc' = "keys"
  /\ UNCHANGED <<inputs, digests, environment>>

KeyTimesOut_FlagForgotten ==
  /\ pc = "querying"
  /\ \E d \in 0 .. Slack :
       /\ elapsed' = elapsed + KeyTimeLimit + d
       /\ RecordKey(Result("ran", "TIMEOUT", KeyTimeLimit + d, TimeoutReason))
  /\ UNCHANGED total_time_budget_exhausted

KeyTimesOut_NoTimeout == FALSE

\* subprocess.run raises TimeoutExpired: the process was killed at its limit.
KeyTimesOut ==
  /\ pc = "querying"
  /\ \E d \in 0 .. Slack :
       /\ elapsed' = elapsed + KeyTimeLimit + d
       /\ RecordKey(Result("ran", "TIMEOUT", KeyTimeLimit + d, TimeoutReason))
  /\ total_time_budget_exhausted' =
       (total_time_budget_exhausted \/ Remaining < PerKeyLimit)

\* The process exits by itself: a native status, or ERROR for a nonzero exit
\* code and for a marker that is missing, repeated or of another key or trail.
KeyExits ==
  /\ pc = "querying"
  /\ \E d \in 0 .. KeyTimeLimit + Slack, status \in NativeStatus \cup {"ERROR"} :
       /\ elapsed' = elapsed + d
       /\ RecordKey(Result("ran", status, d,
                           IF status = "ERROR" THEN "process_error" ELSE "native"))
  /\ UNCHANGED total_time_budget_exhausted

\* KeyCandidate.out cannot be written, the executable cannot be started, or
\* its output is not UTF-8: the exception also drops the keys already done.
KeyRaises ==
  /\ pc = "querying"
  /\ \E d \in 0 .. KeyTimeLimit + Slack : elapsed' = elapsed + d
  /\ Raise

KeysDone ==
  /\ pc = "keys"
  /\ key_index = KeyCount
  /\ pc' = "observe"
  /\ UNCHANGED <<elapsed, results, key_index, total_time_budget_exhausted,
                 inputs, digests, environment>>

\* Gift64Stage2Observation: the trail is read from upstream a third time, for
\* the digest that is recorded.  One result per key, in order, as its
\* __post_init__ demands, is the shape of `results` here.
BuildObservation ==
  /\ pc = "observe"
  /\ upstream.trail # "missing"
  /\ source_sha256' = Sha256(source)
  /\ trail_source_sha256' = Sha256(upstream.trail)
  /\ pc' = "done"
  /\ UNCHANGED <<elapsed, results, key_index, total_time_budget_exhausted,
                 inputs, environment>>

ObservationFails ==
  /\ pc = "observe"
  /\ upstream.trail = "missing"
  /\ Raise
  /\ UNCHANGED elapsed

\* The researcher who owns the upstream tree edits, removes or restores a file.
UpstreamEdit ==
  /\ pc \notin {"done", "raised"}
  /\ edits < MaxEdits
  /\ \E file \in DOMAIN upstream, version \in FileVersion :
       /\ version # upstream[file]
       /\ upstream' = [upstream EXCEPT ![file] = version]
  /\ edits' = edits + 1
  /\ UNCHANGED <<pc, elapsed, results, key_index, total_time_budget_exhausted,
                 inputs, digests>>

\* What the function does by itself: it reads, copies, launches, records and
\* gives up waiting.
OwnStep ==
  \/ ReadSource \/ RejectSource
  \/ ParseTrail \/ RejectTrail
  \/ ProbeTimesOut
  \/ CopyInputs \/ CopyFails
  \/ CompileSkipped \/ LaunchCompiler \/ CompileTimesOut
  \/ BudgetGoneBeforeKey \/ LaunchKey \/ KeyTimesOut \/ KeysDone
  \/ BuildObservation \/ ObservationFails

\* What takes a process that exits by itself.
ProcessExits ==
  \/ ProbeTools \/ ProbeFails
  \/ CompileFails \/ CompileSucceeds
  \/ KeyExits \/ KeyRaises

Next == OwnStep \/ ProcessExits \/ UpstreamEdit

\* The interpreter keeps running, and a timeout that is due fires.  No process
\* is assumed ever to exit, and nobody to edit the upstream tree.
Fairness == WF_vars(OwnStep)

Spec == Init /\ [][Next]_vars /\ Fairness

------------------------------------------------------------------------------
(* Properties *)

ResultType ==
  [execution_state : {"pending", "ran", "not_started_total_budget"},
   status : SolverStatus \cup {NoStatus},
   wall_time_s : Nat,
   diagnostics : {"none", "exhausted_before_launch", "exhausted_during_key",
                  "per_key_timeout", "process_error", "native"}]

\* The variables have their types, and exactly the keys before the cursor
\* carry a result, each one acceptable to Gift64Stage2KeyResult.__post_init__.
TypeOK ==
  /\ pc \in {"read_source", "parse_trail", "probe_tools", "copy_inputs", "compile",
             "compiling", "keys", "querying", "observe", "done", "raised"}
  /\ elapsed \in Nat
  /\ results \in [Keys -> ResultType]
  /\ key_index \in 0 .. KeyCount
  /\ total_time_budget_exhausted \in BOOLEAN
  /\ source_sha256 \in {NoDigest} \cup {Sha256(v) : v \in FileVersion}
  /\ source \in FileVersion
  /\ built_source \in FileVersion
  /\ built_trail \in FileVersion
  /\ trail_source_sha256 \in {NoDigest} \cup {Sha256(v) : v \in FileVersion}
  /\ upstream \in [{"source", "trail"} -> FileVersion]
  /\ edits \in 0 .. MaxEdits
  /\ \A k \in Keys : IF k < key_index THEN ValidResult(results[k])
                                      ELSE results[k] = PendingResult

\* The run never outlives its budget by more than the reaping of one process,
\* however long the compiler and the keys took: every limit handed to a process
\* is what is left of the budget, or less.  The tool probes alone are not under
\* the budget, and when they outlive it no key is launched.
SomeKeyRan == \E k \in Keys : results[k].execution_state = "ran"

WallTimeBounded ==
  elapsed <= (IF SomeKeyRan THEN TotalLimit ELSE Greater(PrepBound, TotalLimit)) + Slack

\* total_time_budget_exhausted tells the truth in both directions: when it is
\* set the budget had run out, and when it is not, every key was launched and
\* every key reported TIMEOUT had its whole per-key allotment.
BudgetFlagExact ==
  pc = "done" =>
    IF total_time_budget_exhausted
    THEN elapsed >= TotalLimit
    ELSE \A k \in Keys :
           /\ results[k].execution_state = "ran"
           /\ results[k].status = "TIMEOUT" => results[k].wall_time_s >= PerKeyLimit

\* A key is never run against a program other than the pinned one, and the
\* digest in the observation is that of the program that ran, whatever happens
\* to main.cpp after the run has started.
OnlyPinnedProgramRuns ==
  /\ (\E k \in Keys : results[k].execution_state = "ran") => built_source = "pinned"
  /\ pc = "done" => source_sha256 = Sha256(built_source)

\* The trail the program reads is the one whose digest is recorded, and it is
\* the pinned one: a changed trail fails the run.  The code does not do this.
OnlyPinnedTrailAnswers ==
  pc = "done" /\ (\E k \in Keys : results[k].execution_state = "ran") =>
    /\ built_trail = "pinned"
    /\ trail_source_sha256 = Sha256(built_trail)

\* The abstract batch this run implements: the clock becomes one bit.
OutcomeOf(r) ==
  IF r.execution_state = "not_started_total_budget" THEN "unstarted"
  ELSE r.execution_state

Outcome == [k \in Keys |-> OutcomeOf(results[k])]
BudgetGone == elapsed >= TotalLimit
Verdict == IF pc = "done" THEN "delivered" ELSE IF pc = "raised" THEN "failed" ELSE "open"

Batch == INSTANCE BudgetedBatch WITH
  ItemCount <- KeyCount, outcome <- Outcome, budget_gone <- BudgetGone, verdict <- Verdict

\* Stage 2 implements the budgeted batch: keys are taken in order and only
\* while the budget lasts, a key is unstarted only because the budget is gone,
\* nothing is delivered before every key is accounted for.
BatchSafe == Batch!SafeSpec

\* The run returns or raises although any tool probe, the compiler and the
\* program on any key may hang: the function has a timeout for each of them.
BatchReturns == Batch!Returns
==============================================================================
