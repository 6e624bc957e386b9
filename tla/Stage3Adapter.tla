---------------------------- MODULE Stage3Adapter ----------------------------
(***************************************************************************)
(* run_gift64_stage3_probability_demo (A5): count the solutions of one     *)
(* fixed key and trail in RepeatCount deterministic subcubes, one process  *)
(* per subcube, and estimate a probability when every count is complete.   *)
(* Its loop is the one of Stage 2; its answer is not: a count is worth     *)
(* something only if the enumeration behind it has ended.  As there, a     *)
(* process that is waited for may never exit.                              *)
(***************************************************************************)
EXTENDS StageCommon

CONSTANTS
  RepeatCount,      \* request.repeat_count
  SubcubeSize,      \* request.subcube_size, 2^(64 - fixed_bit_count)
  PerSampleLimit,   \* request.per_sample_time_limit_s
  TotalLimit,       \* request.total_time_limit_s
  CompileGuard,     \* 60 seconds in the code
  PrepBound,        \* model bound: time from run_start to the first budget check
  Slack,            \* model bound: time around one process call beyond its limit
  MaxEdits          \* model bound: edits of the upstream tree during one run

ASSUME Stage3Assumption ==
  /\ RepeatCount \in Nat \ {0}
  /\ SubcubeSize \in Nat \ {0, 1}
  /\ PerSampleLimit \in Nat \ {0}
  /\ TotalLimit \in Nat \ {0}
  /\ CompileGuard \in Nat \ {0}
  /\ PrepBound \in Nat
  /\ Slack \in Nat
  /\ MaxEdits \in Nat

VARIABLES
  pc,             \* the statement run_gift64_stage3_probability_demo has reached
  elapsed,        \* time.monotonic() - run_start
  samples,        \* sample_results, "pending" where nothing is appended yet
  sample_index,   \* the loop's next sample
  source, key_fixture,                     \* bytes held in memory since their read
  built_source, built_trail, built_keys,   \* what was written to the build root
  source_sha256, trail_source_sha256, key_corpus_sha256,
  estimate,       \* observation.estimate
  upstream,       \* the files as they are on disk now
  edits,          \* how often the upstream tree was edited
  truth           \* external: solutions of the pinned formula in each subcube

held == <<source, key_fixture>>
build_root == <<built_source, built_trail, built_keys>>
observation == <<source_sha256, trail_source_sha256, key_corpus_sha256, estimate>>
environment == <<upstream, edits, truth>>
vars == <<pc, elapsed, samples, sample_index, held, build_root, observation, environment>>

Samples == 0 .. RepeatCount - 1
NoCount == -1
NoEstimate == <<>>

\* Gift64Stage3SampleResult; `fixed` says whether fixed_assignments is parsed.
Sample(state, status, fixed, count) ==
  [execution_state |-> state, terminal_status |-> status,
   fixed |-> fixed, solution_count |-> count]

PendingSample == Sample("pending", NoStatus, FALSE, NoCount)
NotStartedTotalBudgetResult ==
  Sample("not_started_total_budget", NoStatus, FALSE, NoCount)

\* Gift64Stage3SampleResult.__post_init__
ValidSample(s) ==
  /\ s.execution_state \in {"ran", "not_started_total_budget"}
  /\ s.execution_state = "ran" => s.terminal_status \in SolverStatus
  /\ s.execution_state = "not_started_total_budget" =>
       s.terminal_status = NoStatus /\ ~s.fixed /\ s.solution_count = NoCount
  /\ s.terminal_status = "UNSAT" => s.solution_count # NoCount

Complete_UnknownToo(s) ==
  s.execution_state = "ran" /\ s.terminal_status \in {"UNSAT", "UNKNOWN"}

\* Gift64Stage3SampleResult.complete
Complete(s) == s.execution_state = "ran" /\ s.terminal_status = "UNSAT"

CompleteSamples == {k \in Samples : Complete(samples[k]) /\ samples[k].solution_count # NoCount}

\* estimate_subcube_probability: mean, extremes and deviation of the counts are
\* kept as the counts they are computed from.
EstimateSubcubeProbability(ks) == [k \in ks |-> samples[k].solution_count]

Estimate_AnyComplete ==
  IF CompleteSamples # {} THEN EstimateSubcubeProbability(CompleteSamples) ELSE NoEstimate

\* An estimate is computed only when every sample is complete.
Estimate ==
  IF CompleteSamples = Samples THEN EstimateSubcubeProbability(CompleteSamples)
                               ELSE NoEstimate

\* Gift64Stage3Observation.__post_init__
ValidObservation(est) ==
  /\ \A k \in Samples : samples[k].solution_count # NoCount =>
       samples[k].fixed /\ samples[k].solution_count <= SubcubeSize
  /\ est = (IF CompleteSamples = Samples THEN EstimateSubcubeProbability(Samples)
                                         ELSE NoEstimate)

Remaining == TotalLimit - elapsed
BudgetLeft_ZeroCounts == Remaining >= 0

\* The code's test is `remaining <= 0`, before the compiler and before each sample.
BudgetLeft == Remaining > 0

Init ==
  /\ pc = "read_source"
  /\ elapsed = 0
  /\ samples = [k \in Samples |-> PendingSample]
  /\ sample_index = 0
  /\ source = "missing" /\ key_fixture = "missing"
  /\ built_source = "missing" /\ built_trail = "missing" /\ built_keys = "missing"
  /\ source_sha256 = NoDigest /\ trail_source_sha256 = NoDigest
  /\ key_corpus_sha256 = NoDigest
  /\ estimate = NoEstimate
  /\ upstream \in [{"source", "trail", "keys"} -> FileVersion]
  /\ edits = 0
  /\ truth \in [Samples -> 0 .. SubcubeSize]

\* Any exception leaves the function: nothing already computed is returned.
Raise ==
  /\ pc' = "raised"
  /\ UNCHANGED <<samples, sample_index, held, build_root, observation, environment>>

\* The three inputs are read and hash-checked one after the other; the trail
\* is parsed and forgotten, the other two are held in memory.
ReadSource ==
  /\ pc = "read_source"
  /\ upstream.source = "pinned"
  /\ source' = upstream.source
  /\ pc' = "parse_trail"
  /\ UNCHANGED <<elapsed, samples, sample_index, key_fixture, build_root,
                 observation, environment>>

ParseTrail ==
  /\ pc = "parse_trail"
  /\ upstream.trail = "pinned"
  /\ pc' = "read_keys"
  /\ UNCHANGED <<elapsed, samples, sample_index, held, build_root,
                 observation, environment>>

ReadKeyFixture ==
  /\ pc = "read_keys"
  /\ upstream.keys = "pinned"
  /\ key_fixture' = upstream.keys
  /\ pc' = "parse_keys"
  /\ UNCHANGED <<elapsed, samples, sample_index, source, build_root,
                 observation, environment>>

FileAt == [read_source |-> "source", parse_trail |-> "trail", read_keys |-> "keys"]

RejectInput ==
  /\ pc \in DOMAIN FileAt
  /\ upstream[FileAt[pc]] # "pinned"
  /\ Raise
  /\ UNCHANGED elapsed

\* parse_stage2_key_corpus reads the file again to check its format: an edited
\* fixture may or may not still be a thousand records.
ParseKeys ==
  /\ pc = "parse_keys"
  /\ upstream.keys # "missing"
  /\ pc' = "probe_tools"
  /\ UNCHANGED <<elapsed, samples, sample_index, held, build_root,
                 observation, environment>>

RejectKeys ==
  /\ pc = "parse_keys"
  /\ upstream.keys # "pinned"
  /\ Raise
  /\ UNCHANGED elapsed

\* brew --prefix, twice, and cryptominisat5 --version: each is waited for.
ProbeTools ==
  /\ pc = "probe_tools"
  /\ \E d \in 0 .. PrepBound : elapsed' = elapsed + d
  /\ pc' = "copy_inputs"
  /\ UNCHANGED <<samples, sample_index, held, build_root, observation, environment>>

\* No compiler, no brew, or not the CryptoMiniSat the study names.
ProbeFails ==
  /\ pc = "probe_tools"
  /\ \E d \in 0 .. PrepBound : elapsed' = elapsed + d
  /\ Raise

ProbeTimesOut_NoTimeout == FALSE

\* A probe is given 30 seconds, and TimeoutExpired leaves the function.
ProbeTimesOut ==
  /\ pc = "probe_tools"
  /\ \E d \in 0 .. PrepBound : elapsed' = elapsed + d
  /\ Raise

CopyInputs_KeysReread ==
  /\ pc = "copy_inputs"
  /\ upstream.trail # "missing"
  /\ built_source' = source
  /\ built_trail' = upstream.trail
  /\ built_keys' = upstream.keys
  /\ pc' = "compile"
  /\ UNCHANGED <<elapsed, samples, sample_index, held, observation, environment>>

\* The build root gets program and keys from memory, and the trail from
\* upstream a second time.
CopyInputs ==
  /\ pc = "copy_inputs"
  /\ upstream.trail # "missing"
  /\ built_source' = source
  /\ built_trail' = upstream.trail
  /\ built_keys' = key_fixture
  /\ pc' = "compile"
  /\ UNCHANGED <<elapsed, samples, sample_index, held, observation, environment>>

\* The upstream trail has gone since it was parsed.
CopyFails ==
  /\ pc = "copy_inputs"
  /\ upstream.trail = "missing"
  /\ Raise
  /\ UNCHANGED elapsed

\* Unlike Stage 2, a budget that is gone before the compiler starts, or
\* during it, raises: no sample is reported as unstarted.
BudgetGoneBeforeCompile ==
  /\ pc = "compile"
  /\ ~BudgetLeft
  /\ Raise
  /\ UNCHANGED elapsed

LaunchCompiler ==
  /\ pc = "compile"
  /\ BudgetLeft
  /\ pc' = "compiling"
  /\ UNCHANGED <<elapsed, samples, sample_index, held, build_root,
                 observation, environment>>

CompileTimeout == Lesser(CompileGuard, Remaining)

CompileTimesOut ==
  /\ pc = "compiling"
  /\ \E d \in 0 .. Slack : elapsed' = elapsed + CompileTimeout + d
  /\ Raise

CompileFails ==
  /\ pc = "compiling"
  /\ \E d \in 0 .. CompileTimeout + Slack : elapsed' = elapsed + d
  /\ Raise

CompileSucceeds ==
  /\ pc = "compiling"
  /\ \E d \in 0 .. CompileTimeout + Slack : elapsed' = elapsed + d
  /\ pc' = "samples"
  /\ UNCHANGED <<samples, sample_index, held, build_root, observation, environment>>

SamplesLeft == pc = "samples" /\ sample_index < RepeatCount

BudgetGoneBeforeSample ==
  /\ SamplesLeft
  /\ ~BudgetLeft
  /\ samples' = [k \in Samples |-> IF k >= sample_index THEN NotStartedTotalBudgetResult
                                   ELSE samples[k]]
  /\ sample_index' = RepeatCount
  /\ pc' = "observe"
  /\ UNCHANGED <<elapsed, held, build_root, observation, environment>>

LaunchSample ==
  /\ SamplesLeft
  /\ BudgetLeft
  /\ pc' = "enumerating"
  /\ UNCHANGED <<elapsed, samples, sample_index, held, build_root,
                 observation, environment>>

SampleTimeLimit_PerSampleOnly == PerSampleLimit

SampleTimeLimit == Lesser(PerSampleLimit, Remaining)

RecordSample(s) ==
  /\ samples' = [samples EXCEPT ![sample_index] = s]
  /\ sample_index' = sample_index + 1
  /\ pc' = "samples"
  /\ UNCHANGED <<held, build_root, observation, environment>>

\* subprocess.run raises TimeoutExpired: the process was killed at its limit.
SampleTimesOut ==
  /\ pc = "enumerating"
  /\ \E d \in 0 .. Slack : elapsed' = elapsed + SampleTimeLimit + d
  /\ RecordSample(Sample("ran", "TIMEOUT", FALSE, NoCount))

\* What the instrumented enumeration counts is true (CountIsTrue in
\* Stage3Enumeration).  About another trail than the pinned one nothing is known.
ProgramCounts(terminal) ==
  IF built_trail # "pinned" THEN 0 .. SubcubeSize
  ELSE TrueCounts(terminal, truth[sample_index])

SampleResult_ZeroIsNone(terminal, solutions) ==
  Sample("ran", terminal, TRUE,
         IF terminal = "ERROR" \/ solutions = 0 THEN NoCount ELSE solutions)

\* _run_one_sample after a well-formed marker: the count of an enumeration
\* that met an undefined model bit is discarded, any other count is kept.
SampleResult(terminal, solutions) ==
  Sample("ran", terminal, TRUE, IF terminal = "ERROR" THEN NoCount ELSE solutions)

SampleExits ==
  /\ pc = "enumerating"
  /\ \E d \in 0 .. SampleTimeLimit + Slack : elapsed' = elapsed + d
  /\ \E terminal \in {"UNSAT", "UNKNOWN", "ERROR"} : \E solutions \in ProgramCounts(terminal) :
       RecordSample(SampleResult(terminal, solutions))

\* A nonzero exit code, or a marker that is missing, repeated, malformed or of
\* another sample, key, trail or number of fixed bits.
SampleProcessError ==
  /\ pc = "enumerating"
  /\ \E d \in 0 .. SampleTimeLimit + Slack : elapsed' = elapsed + d
  /\ RecordSample(Sample("ran", "ERROR", FALSE, NoCount))

\* The executable cannot be started or its output is not UTF-8.
SampleRaises ==
  /\ pc = "enumerating"
  /\ \E d \in 0 .. SampleTimeLimit + Slack : elapsed' = elapsed + d
  /\ Raise

SamplesDone ==
  /\ pc = "samples"
  /\ sample_index = RepeatCount
  /\ pc' = "observe"
  /\ UNCHANGED <<elapsed, samples, sample_index, held, build_root,
                 observation, environment>>

BuildObservation_ExpectedDigest ==
  /\ pc = "observe"
  /\ upstream.trail # "missing"
  /\ ValidObservation(Estimate)
  /\ source_sha256' = Sha256(source)
  /\ trail_source_sha256' = Sha256("pinned")
  /\ key_corpus_sha256' = Sha256(key_fixture)
  /\ estimate' = Estimate
  /\ pc' = "done"
  /\ UNCHANGED <<elapsed, samples, sample_index, held, build_root, environment>>

BuildObservation ==
  /\ pc = "observe"
  /\ upstream.trail # "missing"
  /\ ValidObservation(Estimate)
  /\ source_sha256' = Sha256(source)
  /\ trail_source_sha256' = Sha256(upstream.trail)
  /\ key_corpus_sha256' = Sha256(key_fixture)
  /\ estimate' = Estimate
  /\ pc' = "done"
  /\ UNCHANGED <<elapsed, samples, sample_index, held, build_root, environment>>

ObservationFails ==
  /\ pc = "observe"
  /\ upstream.trail = "missing" \/ ~ValidObservation(Estimate)
  /\ Raise
  /\ UNCHANGED elapsed

\* The researcher who owns the upstream tree edits, removes or restores a file.
UpstreamEdit ==
  /\ pc \notin {"done", "raised"}
  /\ edits < MaxEdits
  /\ \E file \in DOMAIN upstream, version \in FileVersion :
       /\ version # upstream[file]
       /\ upstream' = [upstream EXCEPT ![file] = version]
  /\ edits' = edits + 1
  /\ UNCHANGED <<pc, elapsed, samples, sample_index, held, build_root, observation, truth>>

\* What the function does by itself: it reads, copies, launches, records and
\* gives up waiting.
OwnStep ==
  \/ ReadSource \/ ParseTrail \/ ReadKeyFixture \/ RejectInput
  \/ ParseKeys \/ RejectKeys
  \/ ProbeTimesOut
  \/ CopyInputs \/ CopyFails
  \/ BudgetGoneBeforeCompile \/ LaunchCompiler \/ CompileTimesOut
  \/ BudgetGoneBeforeSample \/ LaunchSample \/ SampleTimesOut \/ SamplesDone
  \/ BuildObservation \/ ObservationFails

\* What takes a process that exits by itself.
ProcessExits ==
  \/ ProbeTools \/ ProbeFails
  \/ CompileFails \/ CompileSucceeds
  \/ SampleExits \/ SampleProcessError \/ SampleRaises

Next == OwnStep \/ ProcessExits \/ UpstreamEdit

\* The interpreter keeps running, and a timeout that is due fires.  No process
\* is assumed ever to exit, and nobody to edit the upstream tree.
Fairness == WF_vars(OwnStep)

Spec == Init /\ [][Next]_vars /\ Fairness

------------------------------------------------------------------------------
(* Properties *)

SampleType ==
  [execution_state : {"pending", "ran", "not_started_total_budget"},
   terminal_status : SolverStatus \cup {NoStatus},
   fixed : BOOLEAN,
   solution_count : 0 .. SubcubeSize \cup {NoCount}]

\* The variables have their types, and exactly the samples before the cursor
\* carry a result, each one acceptable to Gift64Stage3SampleResult.__post_init__.
TypeOK ==
  /\ pc \in {"read_source", "parse_trail", "read_keys", "parse_keys", "probe_tools",
             "copy_inputs", "compile", "compiling", "samples", "enumerating", "observe",
             "done", "raised"}
  /\ elapsed \in Nat
  /\ samples \in [Samples -> SampleType]
  /\ sample_index \in 0 .. RepeatCount
  /\ {source, key_fixture, built_source, built_trail, built_keys} \subseteq FileVersion
  /\ {source_sha256, trail_source_sha256, key_corpus_sha256} \subseteq
       {NoDigest} \cup {Sha256(v) : v \in FileVersion}
  /\ estimate \in {NoEstimate} \cup [Samples -> 0 .. SubcubeSize]
  /\ upstream \in [{"source", "trail", "keys"} -> FileVersion]
  /\ edits \in 0 .. MaxEdits
  /\ truth \in [Samples -> 0 .. SubcubeSize]
  /\ \A k \in Samples : IF k < sample_index THEN ValidSample(samples[k])
                                            ELSE samples[k] = PendingSample

\* The number that is published is the true one: an estimate is computed from
\* the number of solutions of every requested subcube, never from a partial
\* count, and it is withheld only if some subcube was not enumerated.
EstimateIsOfCompleteCounts ==
  pc = "done" =>
    IF estimate = NoEstimate
    THEN \E k \in Samples : samples[k].terminal_status # "UNSAT"
    ELSE built_trail = "pinned" => estimate = truth

\* After minutes of solving the adapter never throws its own observation away:
\* what the loop recorded always passes Gift64Stage3Observation.__post_init__.
OwnObservationIsAccepted == pc = "observe" => ValidObservation(Estimate)

\* Every sample runs the pinned program on the pinned key fixture, and the
\* digests in the observation are those of the bytes that were used, whatever
\* happens to the two files after they were read.
OnlyPinnedProgramAndKeysRun ==
  /\ (\E k \in Samples : samples[k].execution_state = "ran") =>
       built_source = "pinned" /\ built_keys = "pinned"
  /\ pc = "done" =>
       source_sha256 = Sha256(built_source) /\ key_corpus_sha256 = Sha256(built_keys)

\* A run that used a changed trail can be told by its record.  The trail is
\* checked on one read, compiled against from a second and recorded from a third;
\* still, one edit at whatever moment never leaves the pinned digest beside an
\* estimate about other bytes.  (An edit that is undone in time does.)
SingleEditShows ==
  pc = "done" /\ edits <= 1 /\ built_trail # "pinned" =>
    trail_source_sha256 = Sha256(built_trail)

\* The run never outlives its budget by more than the reaping of one process;
\* when the tool probes outlive it no sample is launched.
SomeSampleRan == \E k \in Samples : samples[k].execution_state = "ran"

WallTimeBounded ==
  elapsed <= (IF SomeSampleRan THEN TotalLimit ELSE Greater(PrepBound, TotalLimit)) + Slack

\* A run that loses its budget before its first process reports every sample
\* as unstarted.  The code raises instead, and the stage counts as failed.
BudgetExhaustedIsUnstarted ==
  [][pc = "compile" /\ ~BudgetLeft => pc' # "raised"]_vars

\* The abstract batch this run implements: the clock becomes one bit.
OutcomeOf(s) ==
  IF s.execution_state = "not_started_total_budget" THEN "unstarted"
  ELSE s.execution_state

Outcome == [k \in Samples |-> OutcomeOf(samples[k])]
BudgetGone == elapsed >= TotalLimit
Verdict == IF pc = "done" THEN "delivered" ELSE IF pc = "raised" THEN "failed" ELSE "open"

Batch == INSTANCE BudgetedBatch WITH
  ItemCount <- RepeatCount, outcome <- Outcome, budget_gone <- BudgetGone, verdict <- Verdict

\* Stage 3 implements the budgeted batch: samples are taken in order and only
\* while the budget lasts, a sample is unstarted only because the budget is
\* gone, nothing is delivered before every sample is accounted for.
BatchSafe == Batch!SafeSpec

\* The run returns or raises although any tool probe, the compiler and the
\* enumeration of any subcube may hang: each of them is under a timeout.
BatchReturns == Batch!Returns
==============================================================================
