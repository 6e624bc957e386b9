------------------------- MODULE Stage3AdapterProofs -------------------------
(***************************************************************************)
(* Proofs about Stage3Adapter for every request and every number of edits: *)
(* the types, the soundness of the published estimate, where the bytes     *)
(* that run come from, the wall time and the refinement of the batch.      *)
(***************************************************************************)
EXTENDS Stage3Adapter, TLAPS

USE DEF Samples

\* Compiler and program are launched only with budget left, and the budget is
\* not read again while they run: the limit they got is the one that was checked.
LaunchInv ==
  /\ pc \in {"compiling", "enumerating"} => BudgetLeft
  /\ pc = "enumerating" => sample_index < RepeatCount

Preparing ==
  {"read_source", "parse_trail", "read_keys", "parse_keys", "probe_tools", "copy_inputs",
   "compile", "compiling"}

\* Where a count comes from: only a parsed marker carries one, and against the
\* pinned trail the count of an ended enumeration is the number of solutions.
CountInv ==
  /\ pc \in Preparing => sample_index = 0
  /\ pc \in {"observe", "done"} => sample_index = RepeatCount
  /\ \A k \in Samples : samples[k].solution_count # NoCount => samples[k].fixed
  /\ built_trail = "pinned" =>
       \A k \in Samples : Complete(samples[k]) => samples[k].solution_count = truth[k]
  /\ pc = "done" => estimate = Estimate

------------------------------------------------------------------------------

LEMMA UnranSamplesAreWellTyped ==
  /\ PendingSample \in SampleType
  /\ NotStartedTotalBudgetResult \in SampleType
  /\ ValidSample(NotStartedTotalBudgetResult)
BY DEF PendingSample, NotStartedTotalBudgetResult, SampleType, ValidSample, Sample,
       SolverStatus, NativeStatus, NoStatus, NoCount

\* What _run_one_sample returns is always accepted by the sample's validators.
LEMMA RanSampleIsWellTyped ==
  ASSUME NEW status \in SolverStatus, NEW fixed \in BOOLEAN,
         NEW count \in 0 .. SubcubeSize \cup {NoCount},
         status = "UNSAT" => count # NoCount
  PROVE  /\ Sample("ran", status, fixed, count) \in SampleType
         /\ ValidSample(Sample("ran", status, fixed, count))
BY DEF SampleType, ValidSample, Sample, SolverStatus, NativeStatus

LEMMA ProgramCountsAreCounts ==
  ASSUME TypeOK, sample_index < RepeatCount, NEW terminal
  PROVE  ProgramCounts(terminal) \subseteq 0 .. SubcubeSize
<1>1. truth[sample_index] \in 0 .. SubcubeSize
  BY Stage3Assumption DEF TypeOK
<1> QED BY <1>1, Stage3Assumption DEF ProgramCounts, TrueCounts

\* The sample every exit of the loop's body stores, and what is known of it.
LEMMA StoredSample ==
  ASSUME TypeOK, LaunchInv, SampleTimesOut \/ SampleExits \/ SampleProcessError
  PROVE  \E s \in SampleType :
           /\ RecordSample(s) /\ ValidSample(s)
           /\ s.solution_count # NoCount => s.fixed
           /\ built_trail = "pinned" /\ Complete(s) => s.solution_count = truth[sample_index]
<1> USE Stage3Assumption
<1>1. CASE SampleTimesOut
  <2> DEFINE s == Sample("ran", "TIMEOUT", FALSE, NoCount)
  <2>1. s \in SampleType /\ ValidSample(s)
    BY RanSampleIsWellTyped DEF SolverStatus, NoCount
  <2>2. ~Complete(s) /\ s.solution_count = NoCount
    BY DEF Complete, Sample
  <2> QED BY <1>1, <2>1, <2>2 DEF SampleTimesOut
<1>2. CASE SampleProcessError
  <2> DEFINE s == Sample("ran", "ERROR", FALSE, NoCount)
  <2>1. s \in SampleType /\ ValidSample(s)
    BY RanSampleIsWellTyped DEF SolverStatus, NoCount
  <2>2. ~Complete(s) /\ s.solution_count = NoCount
    BY DEF Complete, Sample
  <2> QED BY <1>2, <2>1, <2>2 DEF SampleProcessError
<1>3. CASE SampleExits
  <2>0. PICK terminal \in {"UNSAT", "UNKNOWN", "ERROR"} :
          \E solutions \in ProgramCounts(terminal) : RecordSample(SampleResult(terminal, solutions))
    BY <1>3 DEF SampleExits
  <2>1. PICK solutions \in ProgramCounts(terminal) : RecordSample(SampleResult(terminal, solutions))
    BY <2>0
  <2>2. solutions \in 0 .. SubcubeSize
    BY <1>3, <2>1, ProgramCountsAreCounts DEF SampleExits, LaunchInv
  <2> DEFINE count == IF terminal = "ERROR" THEN NoCount ELSE solutions
             s == Sample("ran", terminal, TRUE, count)
  <2>3. s = SampleResult(terminal, solutions)
    BY DEF SampleResult
  <2>4. s \in SampleType /\ ValidSample(s)
    <3>1. count \in 0 .. SubcubeSize \cup {NoCount} /\ (terminal = "UNSAT" => count # NoCount)
      BY <2>2 DEF NoCount
    <3> HIDE DEF count
    <3> QED BY <3>1, RanSampleIsWellTyped DEF SolverStatus, NativeStatus
  <2>5. s.fixed /\ s.solution_count = count /\ (Complete(s) <=> terminal = "UNSAT")
    BY DEF Complete, Sample
  <2>6. built_trail = "pinned" /\ terminal = "UNSAT" => count = truth[sample_index]
    BY <2>1 DEF ProgramCounts, TrueCounts
  <2> HIDE DEF s, count
  <2> QED BY <2>1, <2>3, <2>4, <2>5, <2>6
<1> QED BY <1>1, <1>2, <1>3

\* Recording one sample keeps the samples well formed.
LEMMA RecordKeepsSamples ==
  ASSUME TypeOK, sample_index < RepeatCount, NEW s \in SampleType, ValidSample(s), RecordSample(s)
  PROVE  /\ samples' \in [Samples -> SampleType]
         /\ sample_index' \in 0 .. RepeatCount
         /\ \A k \in Samples : IF k < sample_index' THEN ValidSample(samples'[k])
                                                    ELSE samples'[k] = PendingSample
<1>1. sample_index \in Samples
  BY Stage3Assumption DEF TypeOK
<1>2. samples' = [samples EXCEPT ![sample_index] = s] /\ sample_index' = sample_index + 1
  BY DEF RecordSample
<1>3. samples' \in [Samples -> SampleType] /\ sample_index' \in 0 .. RepeatCount
  BY <1>1, <1>2, Stage3Assumption DEF TypeOK
<1>4. ASSUME NEW k \in Samples
      PROVE  IF k < sample_index' THEN ValidSample(samples'[k])
                                  ELSE samples'[k] = PendingSample
  <2>1. CASE k = sample_index
    BY <1>1, <1>2, <2>1 DEF TypeOK
  <2>2. CASE k # sample_index
    <3>1. samples'[k] = samples[k] /\ (k < sample_index' <=> k < sample_index)
      BY <1>1, <1>2, <2>2, Stage3Assumption DEF TypeOK
    <3> QED BY <3>1 DEF TypeOK
  <2> QED BY <2>1, <2>2
<1> QED BY <1>3, <1>4

\* The limit of a process is a number of whole time units within the budget.
LEMMA LimitsAreNatural ==
  ASSUME TypeOK, BudgetLeft
  PROVE  elapsed \in Nat /\ CompileTimeout \in Nat /\ SampleTimeLimit \in Nat
BY Stage3Assumption
DEF TypeOK, BudgetLeft, Remaining, CompileTimeout, SampleTimeLimit, Lesser

\* A well-formed complete set of samples yields a well-typed estimate.
LEMMA EstimateIsWellTyped ==
  ASSUME TypeOK
  PROVE  Estimate \in {NoEstimate} \cup [Samples -> 0 .. SubcubeSize]
<1>1. CASE CompleteSamples = Samples
  <2>1. \A k \in Samples : samples[k].solution_count \in 0 .. SubcubeSize
    BY <1>1 DEF CompleteSamples, TypeOK, SampleType
  <2> QED BY <1>1, <2>1 DEF Estimate, EstimateSubcubeProbability
<1>2. CASE CompleteSamples # Samples
  BY <1>2 DEF Estimate
<1> QED BY <1>1, <1>2

------------------------------------------------------------------------------
(* Launching *)

LEMMA LaunchInvIsInvariant == Spec => []LaunchInv
<1>1. Init => LaunchInv
  BY DEF Init, LaunchInv
<1>2. LaunchInv /\ [Next]_vars => LaunchInv'
  <2> SUFFICES ASSUME LaunchInv, [Next]_vars PROVE LaunchInv'
    OBVIOUS
  <2> USE DEF LaunchInv, BudgetLeft, Remaining
  <2>1. CASE LaunchCompiler \/ LaunchSample
    BY <2>1 DEF LaunchCompiler, LaunchSample, SamplesLeft
  <2>2. CASE UpstreamEdit \/ UNCHANGED vars
    BY <2>2 DEF UpstreamEdit, vars
  <2>3. CASE OwnStep /\ ~LaunchCompiler /\ ~LaunchSample
    <3>1. pc' \notin {"compiling", "enumerating"}
      BY <2>3 DEF OwnStep, ReadSource, ParseTrail, ReadKeyFixture, RejectInput, ParseKeys,
                  RejectKeys, ProbeTimesOut, CopyInputs, CopyFails, BudgetGoneBeforeCompile,
                  CompileTimesOut, BudgetGoneBeforeSample, SampleTimesOut, SamplesDone,
                  BuildObservation, ObservationFails, RecordSample, Raise
    <3> QED BY <3>1
  <2>4. CASE ProcessExits
    <3>1. pc' \notin {"compiling", "enumerating"}
      BY <2>4 DEF ProcessExits, ProbeTools, ProbeFails, CompileFails, CompileSucceeds,
                  SampleExits, SampleProcessError, SampleRaises, RecordSample, Raise
    <3> QED BY <3>1
  <2> QED BY <2>1, <2>2, <2>3, <2>4 DEF Next
<1> QED BY <1>1, <1>2, PTL DEF Spec

------------------------------------------------------------------------------
(* Type correctness *)

\* The variables keep their types, exactly the samples before the cursor carry
\* a result, and each passes Gift64Stage3SampleResult's validator.
THEOREM TypeCorrect == Spec => []TypeOK
<1>1. Init => TypeOK
  <2> SUFFICES ASSUME Init PROVE TypeOK
    OBVIOUS
  <2>1. samples \in [Samples -> SampleType]
    BY UnranSamplesAreWellTyped DEF Init
  <2>2. \A k \in Samples : ~(k < sample_index) /\ samples[k] = PendingSample
    BY Stage3Assumption DEF Init
  <2>3. sample_index \in 0 .. RepeatCount /\ edits \in 0 .. MaxEdits
    BY Stage3Assumption DEF Init
  <2> QED BY <2>1, <2>2, <2>3 DEF Init, TypeOK, FileVersion
<1>2. TypeOK /\ LaunchInv /\ [Next]_vars => TypeOK'
  <2> SUFFICES ASSUME TypeOK, LaunchInv, [Next]_vars PROVE TypeOK'
    OBVIOUS
  <2> USE Stage3Assumption DEF held, build_root, observation, environment
  <2>1. CASE ReadSource
    BY <2>1 DEF ReadSource, TypeOK, FileVersion
  <2>2. CASE ReadKeyFixture
    BY <2>2 DEF ReadKeyFixture, TypeOK, FileVersion
  <2>3. CASE ParseTrail \/ ParseKeys \/ LaunchCompiler \/ LaunchSample \/ SamplesDone
    BY <2>3 DEF ParseTrail, ParseKeys, LaunchCompiler, LaunchSample, SamplesDone, TypeOK
  <2>4. CASE RejectInput \/ RejectKeys \/ BudgetGoneBeforeCompile \/ ObservationFails
    BY <2>4 DEF RejectInput, RejectKeys, BudgetGoneBeforeCompile, ObservationFails, Raise, TypeOK
  <2>5. CASE CopyInputs
    <3>1. elapsed' \in Nat
      BY <2>5 DEF CopyInputs, TypeOK
    <3>2. upstream.trail \in FileVersion
      BY DEF TypeOK
    <3> QED BY <2>5, <3>1, <3>2 DEF CopyInputs, TypeOK
  <2>6. CASE ProbeTools \/ ProbeFails \/ ProbeTimesOut \/ CopyFails
    <3>1. elapsed' \in Nat
      BY <2>6 DEF ProbeTools, ProbeFails, ProbeTimesOut, CopyFails, TypeOK
    <3> QED BY <2>6, <3>1 DEF ProbeTools, ProbeFails, ProbeTimesOut, CopyFails, Raise, TypeOK
  <2>7. CASE CompileTimesOut
    <3>1. PICK d \in 0 .. Slack : elapsed' = elapsed + CompileTimeout + d
      BY <2>7 DEF CompileTimesOut
    <3>2. elapsed' \in Nat
      BY <2>7, <3>1, LimitsAreNatural DEF CompileTimesOut, LaunchInv
    <3> QED BY <2>7, <3>2 DEF CompileTimesOut, Raise, TypeOK
  <2>8. CASE CompileFails
    BY <2>8, LimitsAreNatural DEF CompileFails, LaunchInv, Raise, TypeOK
  <2>9. CASE CompileSucceeds
    BY <2>9, LimitsAreNatural DEF CompileSucceeds, LaunchInv, TypeOK
  <2>10. CASE BudgetGoneBeforeSample
    BY <2>10, UnranSamplesAreWellTyped DEF BudgetGoneBeforeSample, TypeOK
  <2>11. CASE SampleTimesOut \/ SampleExits \/ SampleProcessError
    <3>1. sample_index < RepeatCount /\ BudgetLeft
      BY <2>11 DEF SampleTimesOut, SampleExits, SampleProcessError, LaunchInv
    <3>2. elapsed' \in Nat
      <4>1. CASE SampleTimesOut
        BY <3>1, <4>1, LimitsAreNatural DEF SampleTimesOut
      <4>2. CASE SampleExits
        BY <3>1, <4>2, LimitsAreNatural DEF SampleExits
      <4>3. CASE SampleProcessError
        BY <3>1, <4>3, LimitsAreNatural DEF SampleProcessError
      <4> QED BY <2>11, <4>1, <4>2, <4>3
    <3>3. PICK s \in SampleType : RecordSample(s) /\ ValidSample(s)
      BY <2>11, StoredSample
    <3> QED BY <3>1, <3>2, <3>3, RecordKeepsSamples DEF RecordSample, TypeOK
  <2>12. CASE SampleRaises
    BY <2>12, LimitsAreNatural DEF SampleRaises, LaunchInv, Raise, TypeOK
  <2>13. CASE BuildObservation
    <3>1. estimate' \in {NoEstimate} \cup [Samples -> 0 .. SubcubeSize]
      BY <2>13, EstimateIsWellTyped DEF BuildObservation
    <3>2. upstream.trail \in FileVersion /\ {source, key_fixture} \subseteq FileVersion
      BY DEF TypeOK
    <3> QED BY <2>13, <3>1, <3>2 DEF BuildObservation, TypeOK
  <2>14. CASE UpstreamEdit
    BY <2>14 DEF UpstreamEdit, TypeOK
  <2>15. CASE UNCHANGED vars
    BY <2>15 DEF vars, TypeOK
  <2> QED
    BY <2>1, <2>2, <2>3, <2>4, <2>5, <2>6, <2>7, <2>8, <2>9, <2>10, <2>11, <2>12,
       <2>13, <2>14, <2>15 DEF Next, OwnStep, ProcessExits
<1> QED BY <1>1, <1>2, LaunchInvIsInvariant, PTL DEF Spec

------------------------------------------------------------------------------
(* The estimate *)

LEMMA CountsAreInvariant == Spec => []CountInv
<1>1. Init => CountInv
  BY DEF Init, CountInv, PendingSample, Sample, Complete
<1>2. TypeOK /\ LaunchInv /\ CountInv /\ [Next]_vars => CountInv'
  <2> SUFFICES ASSUME TypeOK, LaunchInv, CountInv, [Next]_vars PROVE CountInv'
    OBVIOUS
  <2> USE Stage3Assumption DEF held, build_root, observation, environment, Preparing
  <2>1. CASE \/ ReadSource \/ ReadKeyFixture \/ ParseTrail \/ ParseKeys \/ ProbeTools
             \/ LaunchCompiler \/ CompileSucceeds \/ LaunchSample \/ SamplesDone
    BY <2>1 DEF ReadSource, ReadKeyFixture, ParseTrail, ParseKeys, ProbeTools,
                LaunchCompiler, CompileSucceeds, LaunchSample, SamplesDone, CountInv
  <2>2. CASE \/ RejectInput \/ RejectKeys \/ ProbeFails \/ ProbeTimesOut \/ CopyFails
             \/ BudgetGoneBeforeCompile \/ CompileTimesOut \/ CompileFails
             \/ SampleRaises \/ ObservationFails
    BY <2>2 DEF RejectInput, RejectKeys, ProbeFails, ProbeTimesOut, CopyFails,
                BudgetGoneBeforeCompile, CompileTimesOut, CompileFails, SampleRaises,
                ObservationFails, Raise, CountInv
  <2>3. CASE CopyInputs
    <3>1. \A k \in Samples : ~Complete(samples[k])
      BY <2>3 DEF CopyInputs, CountInv, TypeOK, PendingSample, Sample, Complete
    <3> QED BY <2>3, <3>1 DEF CopyInputs, CountInv
  <2>4. CASE BudgetGoneBeforeSample
    <3>1. ASSUME NEW k \in Samples
          PROVE  samples'[k] = samples[k] \/ samples'[k] = NotStartedTotalBudgetResult
      BY <2>4 DEF BudgetGoneBeforeSample
    <3>2. ~Complete(NotStartedTotalBudgetResult)
          /\ NotStartedTotalBudgetResult.solution_count = NoCount
      BY DEF NotStartedTotalBudgetResult, Sample, Complete
    <3>3. sample_index' = RepeatCount /\ pc' = "observe"
          /\ UNCHANGED <<build_root, environment>>
      BY <2>4 DEF BudgetGoneBeforeSample
    <3> QED BY <3>1, <3>2, <3>3 DEF CountInv
  <2>5. CASE SampleTimesOut \/ SampleExits \/ SampleProcessError
    <3>1. PICK s \in SampleType :
            /\ RecordSample(s)
            /\ s.solution_count # NoCount => s.fixed
            /\ built_trail = "pinned" /\ Complete(s) => s.solution_count = truth[sample_index]
      BY <2>5, StoredSample
    <3>0. pc = "enumerating"
      BY <2>5 DEF SampleTimesOut, SampleExits, SampleProcessError
    <3>2. sample_index \in Samples
      BY <3>0 DEF LaunchInv, TypeOK
    <3>3. samples' = [samples EXCEPT ![sample_index] = s] /\ pc' = "samples"
          /\ UNCHANGED <<build_root, environment>>
      BY <3>1, <3>2 DEF RecordSample
    <3>4. ASSUME NEW k \in Samples
          PROVE  /\ samples'[k].solution_count # NoCount => samples'[k].fixed
                 /\ built_trail' = "pinned" /\ Complete(samples'[k]) =>
                      samples'[k].solution_count = truth'[k]
      <4>1. CASE k = sample_index
        <5>1. samples'[k] = s
          BY <3>2, <3>3, <4>1 DEF TypeOK
        <5> QED BY <3>1, <3>3, <4>1, <5>1
      <4>2. CASE k # sample_index
        <5>1. samples'[k] = samples[k]
          BY <3>2, <3>3, <4>2 DEF TypeOK
        <5> QED BY <3>3, <5>1 DEF CountInv
      <4> QED BY <4>1, <4>2
    <3> QED BY <3>3, <3>4 DEF CountInv
  <2>6. CASE BuildObservation
    <3>1. Estimate' = Estimate /\ estimate' = Estimate
      BY <2>6 DEF BuildObservation, Estimate, EstimateSubcubeProbability, CompleteSamples
    <3> QED BY <2>6, <3>1 DEF BuildObservation, CountInv
  <2>7. CASE UpstreamEdit \/ UNCHANGED vars
    <3>1. UNCHANGED <<pc, samples, sample_index, build_root, observation, truth>>
      BY <2>7 DEF UpstreamEdit, vars
    <3>2. Estimate' = Estimate
      BY <3>1 DEF Estimate, EstimateSubcubeProbability, CompleteSamples
    <3> QED BY <3>1, <3>2 DEF CountInv
  <2> QED BY <2>1, <2>2, <2>3, <2>4, <2>5, <2>6, <2>7 DEF Next, OwnStep, ProcessExits
<1> QED BY <1>1, <1>2, TypeCorrect, LaunchInvIsInvariant, PTL DEF Spec

\* The published number is the true one: an estimate is computed from the
\* number of solutions of every requested subcube, and it is withheld only if
\* some subcube was not enumerated to its end.
THEOREM EstimateIsSound == Spec => []EstimateIsOfCompleteCounts
<1>1. TypeOK /\ CountInv => EstimateIsOfCompleteCounts
  <2> SUFFICES ASSUME TypeOK, CountInv, pc = "done"
               PROVE  IF estimate = NoEstimate
                      THEN \E k \in Samples : samples[k].terminal_status # "UNSAT"
                      ELSE built_trail = "pinned" => estimate = truth
    BY DEF EstimateIsOfCompleteCounts
  <2> USE Stage3Assumption
  <2>1. estimate = Estimate /\ \A k \in Samples : ValidSample(samples[k])
    BY DEF CountInv, TypeOK
  <2>2. CASE CompleteSamples = Samples
    <3>1. estimate = [k \in Samples |-> samples[k].solution_count]
      BY <2>1, <2>2 DEF Estimate, EstimateSubcubeProbability
    <3>2. estimate # NoEstimate
      <4>1. 0 \in DOMAIN estimate
        BY <3>1
      <4> QED BY <4>1 DEF NoEstimate
    <3>3. built_trail = "pinned" => \A k \in Samples : samples[k].solution_count = truth[k]
      BY <2>2 DEF CompleteSamples, CountInv
    <3> QED BY <3>1, <3>2, <3>3 DEF TypeOK
  <2>3. CASE CompleteSamples # Samples
    <3>1. PICK k \in Samples : k \notin CompleteSamples
      BY <2>3 DEF CompleteSamples
    <3>2. samples[k].terminal_status # "UNSAT"
      BY <2>1, <3>1 DEF CompleteSamples, Complete, ValidSample, NoStatus
    <3>3. estimate = NoEstimate
      BY <2>1, <2>3 DEF Estimate
    <3> QED BY <3>2, <3>3
  <2> QED BY <2>2, <2>3
<1> QED BY <1>1, TypeCorrect, CountsAreInvariant, PTL

\* What the loop recorded always passes the observation's own validator: no
\* finished enumeration is lost to an exception in __post_init__.
THEOREM ObservationIsAccepted == Spec => []OwnObservationIsAccepted
<1>1. TypeOK /\ CountInv => OwnObservationIsAccepted
  <2> SUFFICES ASSUME TypeOK, CountInv PROVE ValidObservation(Estimate)
    BY DEF OwnObservationIsAccepted
  <2>1. \A k \in Samples : samples[k].solution_count # NoCount =>
          samples[k].fixed /\ samples[k].solution_count <= SubcubeSize
    BY Stage3Assumption DEF TypeOK, SampleType, CountInv
  <2> QED BY <2>1 DEF ValidObservation, Estimate
<1> QED BY <1>1, TypeCorrect, CountsAreInvariant, PTL

------------------------------------------------------------------------------
(* Provenance *)

\* Program and keys are the pinned bytes from their reads on, and the build
\* root holds those same bytes before any sample can run.
ProvenanceInv ==
  /\ pc \notin {"read_source", "raised"} => source = "pinned"
  /\ pc \notin {"read_source", "parse_trail", "read_keys", "raised"} => key_fixture = "pinned"
  /\ \/ pc \in {"compile", "compiling", "samples", "enumerating", "observe", "done"}
     \/ sample_index > 0
     => built_source = "pinned" /\ built_keys = "pinned"
  /\ pc = "done" =>
       source_sha256 = Sha256("pinned") /\ key_corpus_sha256 = Sha256("pinned")

\* Whatever is edited upstream and when, every sample runs the pinned program
\* on the pinned keys, and their digests are the recorded ones.
THEOREM OnlyThePinnedBytesRun == Spec => []OnlyPinnedProgramAndKeysRun
<1>1. Init => ProvenanceInv
  BY DEF Init, ProvenanceInv
<1>2. TypeOK /\ LaunchInv /\ ProvenanceInv /\ [Next]_vars => ProvenanceInv'
  <2> SUFFICES ASSUME TypeOK, LaunchInv, ProvenanceInv, [Next]_vars PROVE ProvenanceInv'
    OBVIOUS
  <2> USE Stage3Assumption DEF held, build_root, observation, environment, ProvenanceInv
  <2>1. CASE ReadSource \/ ParseTrail \/ ReadKeyFixture \/ ParseKeys
    BY <2>1 DEF ReadSource, ParseTrail, ReadKeyFixture, ParseKeys
  <2>2. CASE \/ RejectInput \/ RejectKeys \/ ProbeFails \/ ProbeTimesOut \/ CopyFails
             \/ BudgetGoneBeforeCompile \/ CompileTimesOut \/ CompileFails
             \/ SampleRaises \/ ObservationFails
    BY <2>2 DEF RejectInput, RejectKeys, ProbeFails, ProbeTimesOut, CopyFails,
                BudgetGoneBeforeCompile, CompileTimesOut, CompileFails, SampleRaises,
                ObservationFails, Raise
  <2>3. CASE CopyInputs
    BY <2>3 DEF CopyInputs
  <2>4. CASE ProbeTools \/ LaunchCompiler \/ CompileSucceeds \/ LaunchSample \/ SamplesDone
    BY <2>4 DEF ProbeTools, LaunchCompiler, CompileSucceeds, LaunchSample, SamplesLeft,
                SamplesDone
  <2>5. CASE BudgetGoneBeforeSample
    BY <2>5 DEF BudgetGoneBeforeSample, SamplesLeft
  <2>6. CASE SampleTimesOut \/ SampleExits \/ SampleProcessError
    <3>1. PICK s \in SampleType : RecordSample(s)
      BY <2>6, StoredSample
    <3>2. pc = "enumerating" /\ pc' = "samples" /\ UNCHANGED <<held, build_root, observation>>
      BY <2>6, <3>1 DEF SampleTimesOut, SampleExits, SampleProcessError, RecordSample
    <3> QED BY <3>2
  <2>7. CASE BuildObservation
    BY <2>7 DEF BuildObservation
  <2>8. CASE UpstreamEdit \/ UNCHANGED vars
    BY <2>8 DEF UpstreamEdit, vars
  <2> QED BY <2>1, <2>2, <2>3, <2>4, <2>5, <2>6, <2>7, <2>8
         DEF Next, OwnStep, ProcessExits
<1>3. TypeOK /\ ProvenanceInv => OnlyPinnedProgramAndKeysRun
  <2> SUFFICES ASSUME TypeOK, ProvenanceInv PROVE OnlyPinnedProgramAndKeysRun
    OBVIOUS
  <2>1. ASSUME NEW k \in Samples, samples[k].execution_state = "ran"
        PROVE  sample_index > 0
    <3>1. PendingSample.execution_state # "ran"
      BY DEF PendingSample, Sample
    <3>2. k < sample_index
      BY <2>1, <3>1 DEF TypeOK
    <3> QED BY <3>2, Stage3Assumption DEF TypeOK
  <2> QED BY <2>1 DEF ProvenanceInv, OnlyPinnedProgramAndKeysRun
<1> QED BY <1>1, <1>2, <1>3, TypeCorrect, LaunchInvIsInvariant, PTL DEF Spec

------------------------------------------------------------------------------
(* The trail, read three times *)

\* Until the first edit the upstream trail is the one that was checked; an only
\* edit that changed what was copied has not been undone since.
TrailInv ==
  /\ pc \notin {"read_source", "parse_trail", "raised"} /\ edits = 0 => upstream.trail = "pinned"
  /\ pc \notin Preparing \ {"compile", "compiling"} /\ pc # "raised"
       /\ edits <= 1 /\ built_trail # "pinned" => edits = 1 /\ upstream.trail = built_trail
  /\ pc = "done" => trail_source_sha256 = Sha256(upstream.trail)

\* At most one edit, at whatever moment: a run that compiled against another
\* trail has recorded that trail's digest.
THEOREM ChangedTrailShows == Spec => []SingleEditShows
<1>1. Init => TrailInv
  BY DEF Init, TrailInv, Preparing
<1>2. TypeOK /\ LaunchInv /\ TrailInv /\ [Next]_vars => TrailInv'
  <2> SUFFICES ASSUME TypeOK, LaunchInv, TrailInv, [Next]_vars PROVE TrailInv'
    OBVIOUS
  <2> USE Stage3Assumption DEF held, build_root, observation, environment, Preparing, TrailInv
  <2>1. CASE ReadSource \/ ParseTrail \/ ReadKeyFixture \/ ParseKeys \/ ProbeTools
    BY <2>1 DEF ReadSource, ParseTrail, ReadKeyFixture, ParseKeys, ProbeTools
  <2>2. CASE \/ RejectInput \/ RejectKeys \/ ProbeFails \/ ProbeTimesOut \/ CopyFails
             \/ BudgetGoneBeforeCompile \/ CompileTimesOut \/ CompileFails
             \/ SampleRaises \/ ObservationFails
    BY <2>2 DEF RejectInput, RejectKeys, ProbeFails, ProbeTimesOut, CopyFails,
                BudgetGoneBeforeCompile, CompileTimesOut, CompileFails, SampleRaises,
                ObservationFails, Raise
  <2>3. CASE CopyInputs
    <3>1. edits \in Nat
      BY DEF TypeOK
    <3> QED BY <2>3, <3>1 DEF CopyInputs
  <2>4. CASE LaunchCompiler \/ CompileSucceeds \/ LaunchSample \/ SamplesDone
    BY <2>4 DEF LaunchCompiler, CompileSucceeds, LaunchSample, SamplesLeft, SamplesDone
  <2>5. CASE BudgetGoneBeforeSample
    BY <2>5 DEF BudgetGoneBeforeSample, SamplesLeft
  <2>6. CASE SampleTimesOut \/ SampleExits \/ SampleProcessError
    <3>1. PICK s \in SampleType : RecordSample(s)
      BY <2>6, StoredSample
    <3>2. /\ pc = "enumerating" /\ pc' = "samples"
          /\ UNCHANGED <<build_root, observation, environment>>
      BY <2>6, <3>1 DEF SampleTimesOut, SampleExits, SampleProcessError, RecordSample
    <3> QED BY <3>2
  <2>7. CASE BuildObservation
    BY <2>7 DEF BuildObservation
  <2>8. CASE UpstreamEdit
    <3>1. edits \in Nat /\ edits' = edits + 1 /\ pc' = pc /\ pc # "done"
          /\ built_trail' = built_trail
      BY <2>8 DEF UpstreamEdit, TypeOK
    <3> QED BY <3>1
  <2>9. CASE UNCHANGED vars
    BY <2>9 DEF vars
  <2> QED BY <2>1, <2>2, <2>3, <2>4, <2>5, <2>6, <2>7, <2>8, <2>9
         DEF Next, OwnStep, ProcessExits
<1>3. TrailInv => SingleEditShows
  BY DEF TrailInv, SingleEditShows, Preparing
<1> QED BY <1>1, <1>2, <1>3, TypeCorrect, LaunchInvIsInvariant, PTL DEF Spec

------------------------------------------------------------------------------
(* The wall-time bound *)

\* Bounded phase by phase: no process has run before the first budget check,
\* and whatever runs later is limited by what is left.
TimeInv ==
  /\ pc \in {"read_source", "parse_trail", "read_keys", "parse_keys", "probe_tools"}
       => elapsed = 0
  /\ pc \in {"copy_inputs", "compile"} => elapsed <= PrepBound
  /\ pc \in Preparing => sample_index = 0
  /\ WallTimeBounded

LEMMA LimitsFitTheBudget ==
  ASSUME TypeOK, BudgetLeft
  PROVE  /\ CompileTimeout \in Nat /\ elapsed + CompileTimeout <= TotalLimit
         /\ SampleTimeLimit \in Nat /\ elapsed + SampleTimeLimit <= TotalLimit
BY Stage3Assumption
DEF TypeOK, BudgetLeft, CompileTimeout, SampleTimeLimit, Remaining, Lesser

LEMMA StartHasNoRun ==
  ASSUME TypeOK, sample_index = 0
  PROVE  ~SomeSampleRan
BY Stage3Assumption DEF TypeOK, SomeSampleRan, PendingSample, Sample

LEMMA SkippingRunsNothing ==
  ASSUME BudgetGoneBeforeSample
  PROVE  SomeSampleRan' => SomeSampleRan
<1>1. ASSUME NEW k \in Samples, samples'[k].execution_state = "ran"
      PROVE  samples[k].execution_state = "ran"
  BY <1>1 DEF BudgetGoneBeforeSample, NotStartedTotalBudgetResult, Sample
<1> QED BY <1>1 DEF SomeSampleRan

\* A step that spends time on a process spends at most its limit and Slack.
LEMMA ProcessTime ==
  ASSUME TypeOK, LaunchInv,
                 \/ CompileTimesOut \/ CompileFails \/ CompileSucceeds
                 \/ SampleTimesOut \/ SampleExits \/ SampleProcessError \/ SampleRaises
  PROVE  elapsed' \in Nat /\ elapsed' >= elapsed /\ elapsed' <= TotalLimit + Slack
<1> USE Stage3Assumption
<1>1. BudgetLeft
  BY DEF CompileTimesOut, CompileFails, CompileSucceeds, SampleTimesOut, SampleExits,
         SampleProcessError, SampleRaises, LaunchInv
<1>2. /\ elapsed \in Nat
      /\ CompileTimeout \in Nat /\ elapsed + CompileTimeout <= TotalLimit
      /\ SampleTimeLimit \in Nat /\ elapsed + SampleTimeLimit <= TotalLimit
  BY <1>1, LimitsFitTheBudget DEF TypeOK
<1>3. CASE CompileTimesOut
  BY <1>2, <1>3 DEF CompileTimesOut
<1>4. CASE CompileFails \/ CompileSucceeds
  <2>1. PICK d \in 0 .. CompileTimeout + Slack : elapsed' = elapsed + d
    BY <1>4 DEF CompileFails, CompileSucceeds
  <2> QED BY <1>2, <2>1
<1>5. CASE SampleTimesOut
  BY <1>2, <1>5 DEF SampleTimesOut
<1>6. CASE SampleExits \/ SampleProcessError \/ SampleRaises
  <2>1. PICK d \in 0 .. SampleTimeLimit + Slack : elapsed' = elapsed + d
    BY <1>6 DEF SampleExits, SampleProcessError, SampleRaises
  <2> QED BY <1>2, <2>1
<1> QED BY <1>3, <1>4, <1>5, <1>6

\* However long tools, compiler and solver take, the run ends within its budget
\* plus the reaping of one process: no process gets more than what is left.
THEOREM WallTimeIsBounded == Spec => []WallTimeBounded
<1>1. Init => TimeInv
  BY Stage3Assumption DEF Init, TimeInv, Preparing, WallTimeBounded, SomeSampleRan, PendingSample,
                          Sample, Greater
<1>2. TypeOK /\ LaunchInv /\ TimeInv /\ [Next]_vars => TimeInv'
  <2> SUFFICES ASSUME TypeOK, LaunchInv, TimeInv, [Next]_vars PROVE TimeInv'
    OBVIOUS
  <2> USE Stage3Assumption DEF TimeInv, Preparing, WallTimeBounded, Greater
  <2>1. CASE ReadSource \/ ParseTrail \/ ReadKeyFixture \/ ParseKeys
    BY <2>1 DEF ReadSource, ParseTrail, ReadKeyFixture, ParseKeys, SomeSampleRan
  <2>2. CASE RejectInput \/ RejectKeys \/ BudgetGoneBeforeCompile \/ ObservationFails
    BY <2>2 DEF RejectInput, RejectKeys, BudgetGoneBeforeCompile, ObservationFails, Raise,
                SomeSampleRan
  <2>3. CASE ProbeTools \/ ProbeFails \/ ProbeTimesOut \/ CopyInputs \/ CopyFails
    <3>1. /\ elapsed' \in Nat /\ elapsed' <= PrepBound /\ sample_index' = sample_index
          /\ samples' = samples /\ pc' \in {"copy_inputs", "compile", "raised"}
          /\ sample_index = 0
      BY <2>3 DEF ProbeTools, ProbeFails, ProbeTimesOut, CopyInputs, CopyFails, Raise, TypeOK
    <3>2. ~SomeSampleRan'
      BY <3>1, StartHasNoRun DEF SomeSampleRan
    <3> QED BY <3>1, <3>2
  <2>4. CASE \/ CompileTimesOut \/ CompileFails \/ CompileSucceeds
             \/ SampleTimesOut \/ SampleExits \/ SampleProcessError \/ SampleRaises
    <3>1. elapsed' \in Nat /\ elapsed' <= TotalLimit + Slack
      BY <2>4, ProcessTime
    <3>2. pc' \in {"raised", "samples"}
      BY <2>4 DEF CompileTimesOut, CompileFails, CompileSucceeds, SampleTimesOut, SampleExits,
                  SampleProcessError, SampleRaises, SamplesLeft, RecordSample, Raise
    <3> QED BY <3>1, <3>2
  <2>5. CASE BudgetGoneBeforeSample
    <3>1. SomeSampleRan' => SomeSampleRan
      BY <2>5, SkippingRunsNothing
    <3>2. elapsed' = elapsed /\ pc' = "observe"
      BY <2>5 DEF BudgetGoneBeforeSample
    <3> QED BY <3>1, <3>2 DEF TypeOK
  <2>6. CASE LaunchCompiler \/ LaunchSample \/ SamplesDone \/ BuildObservation
    <3>1. UNCHANGED <<elapsed, samples, sample_index>>
          /\ pc' \in {"compiling", "enumerating", "observe", "done"}
          /\ (pc' = "compiling" => pc = "compile")
      BY <2>6 DEF LaunchCompiler, LaunchSample, SamplesDone, BuildObservation
    <3> QED BY <3>1 DEF SomeSampleRan
  <2>7. CASE UpstreamEdit \/ UNCHANGED vars
    BY <2>7 DEF UpstreamEdit, vars, SomeSampleRan
  <2> QED BY <2>1, <2>2, <2>3, <2>4, <2>5, <2>6, <2>7 DEF Next, OwnStep, ProcessExits
<1>3. TimeInv => WallTimeBounded
  BY DEF TimeInv
<1> QED BY <1>1, <1>2, <1>3, TypeCorrect, LaunchInvIsInvariant, PTL DEF Spec

------------------------------------------------------------------------------
(* The abstract batch *)

\* While samples are taken, all before the cursor ran; later, none is left.
BatchInv ==
  /\ pc \in Preparing => sample_index = 0
  /\ pc \in {"samples", "enumerating"} =>
       \A k \in Samples : k < sample_index => samples[k].execution_state = "ran"
  /\ pc \in {"observe", "done"} => sample_index = RepeatCount

\* Every exit of the loop's body stores a sample that ran.
LEMMA StoredSampleRan ==
  ASSUME SampleTimesOut \/ SampleExits \/ SampleProcessError
  PROVE  \E s : RecordSample(s) /\ s.execution_state = "ran"
<1>1. ASSUME NEW status, NEW fixed, NEW count
      PROVE  Sample("ran", status, fixed, count).execution_state = "ran"
  BY DEF Sample
<1>2. CASE SampleTimesOut
  BY <1>1, <1>2 DEF SampleTimesOut
<1>3. CASE SampleExits
  BY <1>1, <1>3 DEF SampleExits, SampleResult
<1>4. CASE SampleProcessError
  BY <1>1, <1>4 DEF SampleProcessError
<1> QED BY <1>2, <1>3, <1>4

LEMMA BatchInvIsInvariant == Spec => []BatchInv
<1>1. Init => BatchInv
  BY DEF Init, BatchInv
<1>2. TypeOK /\ LaunchInv /\ BatchInv /\ [Next]_vars => BatchInv'
  <2> SUFFICES ASSUME TypeOK, LaunchInv, BatchInv, [Next]_vars PROVE BatchInv'
    OBVIOUS
  <2> USE Stage3Assumption DEF Preparing
  <2>1. CASE ReadSource \/ ParseTrail \/ ReadKeyFixture \/ ParseKeys
    BY <2>1 DEF ReadSource, ParseTrail, ReadKeyFixture, ParseKeys, BatchInv
  <2>2. CASE \/ RejectInput \/ RejectKeys \/ ProbeFails \/ ProbeTimesOut \/ CopyFails
             \/ BudgetGoneBeforeCompile \/ CompileTimesOut \/ CompileFails
             \/ SampleRaises \/ ObservationFails
    BY <2>2 DEF RejectInput, RejectKeys, ProbeFails, ProbeTimesOut, CopyFails,
                BudgetGoneBeforeCompile, CompileTimesOut, CompileFails, SampleRaises,
                ObservationFails, Raise, BatchInv
  <2>3. CASE \/ ProbeTools \/ CopyInputs \/ LaunchCompiler \/ CompileSucceeds
             \/ LaunchSample \/ SamplesDone \/ BuildObservation
    BY <2>3 DEF ProbeTools, CopyInputs, LaunchCompiler, CompileSucceeds, LaunchSample,
                SamplesLeft, SamplesDone, BuildObservation, BatchInv, TypeOK
  <2>4. CASE BudgetGoneBeforeSample
    BY <2>4 DEF BudgetGoneBeforeSample, BatchInv
  <2>5. CASE SampleTimesOut \/ SampleExits \/ SampleProcessError
    <3>1. PICK s : RecordSample(s) /\ s.execution_state = "ran"
      BY <2>5, StoredSampleRan
    <3>2. pc = "enumerating"
      BY <2>5 DEF SampleTimesOut, SampleExits, SampleProcessError
    <3>3. /\ pc = "enumerating" /\ sample_index \in Samples /\ pc' = "samples"
          /\ samples' = [samples EXCEPT ![sample_index] = s] /\ sample_index' = sample_index + 1
      BY <3>1, <3>2 DEF LaunchInv, TypeOK, RecordSample
    <3>4. ASSUME NEW k \in Samples, k < sample_index'
          PROVE  samples'[k].execution_state = "ran"
      <4>1. CASE k = sample_index
        BY <3>1, <3>3, <4>1 DEF TypeOK
      <4>2. CASE k # sample_index
        BY <3>3, <3>4, <4>2 DEF TypeOK, BatchInv
      <4> QED BY <4>1, <4>2
    <3> QED BY <3>3, <3>4 DEF BatchInv
  <2>6. CASE UpstreamEdit \/ UNCHANGED vars
    BY <2>6 DEF UpstreamEdit, vars, BatchInv
  <2> QED BY <2>1, <2>2, <2>3, <2>4, <2>5, <2>6 DEF Next, OwnStep, ProcessExits
<1> QED BY <1>1, <1>2, TypeCorrect, LaunchInvIsInvariant, PTL DEF Spec

\* Before its item is taken, a sample is pending for the abstract batch as well.
LEMMA OutcomeOfTheLoop ==
  ASSUME TypeOK, BatchInv, pc \in {"samples", "enumerating"}, NEW k \in Samples
  PROVE  Outcome[k] = IF k < sample_index THEN "ran" ELSE "pending"
<1>1. k < sample_index => samples[k].execution_state = "ran"
  BY DEF BatchInv
<1>2. ~(k < sample_index) => samples[k].execution_state = "pending"
  BY DEF TypeOK, PendingSample, Sample
<1> QED BY <1>1, <1>2 DEF Outcome, OutcomeOf

\* A step that records one sample is the abstract batch settling its next item.
LEMMA RecordingASampleSettlesIt ==
  ASSUME TypeOK, LaunchInv, BatchInv, pc = "enumerating", NEW s,
         s.execution_state = "ran", RecordSample(s), elapsed' \in Nat
  PROVE  Batch!Settle(sample_index) /\ sample_index \in Samples
<1> USE Stage3Assumption
<1>1. sample_index \in Samples /\ pc' = "samples" /\ BudgetLeft
      /\ samples' = [samples EXCEPT ![sample_index] = s]
  BY DEF LaunchInv, RecordSample, TypeOK
<1>2. Outcome' = [Outcome EXCEPT ![sample_index] = "ran"]
  <2>1. ASSUME NEW k \in Samples
        PROVE  OutcomeOf(samples'[k]) = IF k = sample_index THEN "ran" ELSE OutcomeOf(samples[k])
    <3>1. CASE k = sample_index
      <4>1. samples'[k] = s
        BY <1>1, <3>1 DEF TypeOK
      <4> QED BY <4>1, <3>1 DEF OutcomeOf
    <3>2. CASE k # sample_index
      <4>1. samples'[k] = samples[k]
        BY <1>1, <3>2 DEF TypeOK
      <4> QED BY <4>1, <3>2
    <3> QED BY <3>1, <3>2
  <2>2. Outcome' = [k \in Samples |-> OutcomeOf(samples'[k])]
    BY DEF Outcome
  <2>3. Outcome' = [k \in Samples |-> IF k = sample_index THEN "ran" ELSE OutcomeOf(samples[k])]
    BY <2>1, <2>2
  <2> QED BY <2>3 DEF Outcome
<1>3. Outcome[sample_index] = "pending" /\ \A j \in Samples : j < sample_index => Outcome[j] = "ran"
  BY <1>1, OutcomeOfTheLoop
<1>4. Verdict = "open" /\ Verdict' = "open" /\ ~BudgetGone /\ BudgetGone' \in BOOLEAN
  BY <1>1 DEF Verdict, BudgetGone, BudgetLeft, Remaining, TypeOK
<1> QED BY <1>1, <1>2, <1>3, <1>4
        DEF Batch!Settle, Batch!TimePasses, Batch!Pending, Batch!Items

\* A step that skips the remaining samples is the abstract batch giving up.
LEMMA SkippingSamplesGivesUp ==
  ASSUME TypeOK, BatchInv, BudgetGoneBeforeSample
  PROVE  Batch!GiveUp
<1> USE Stage3Assumption
<1>1. /\ sample_index \in Samples /\ pc = "samples" /\ pc' = "observe"
      /\ samples' = [k \in Samples |-> IF k >= sample_index THEN NotStartedTotalBudgetResult
                                       ELSE samples[k]]
  BY DEF BudgetGoneBeforeSample, SamplesLeft, TypeOK
<1>2. \A k \in Samples : Outcome'[k] = IF k < sample_index THEN "ran" ELSE "unstarted"
  <2>1. ASSUME NEW k \in Samples
        PROVE  OutcomeOf(samples'[k]) = IF k < sample_index THEN "ran" ELSE "unstarted"
    <3>1. CASE k < sample_index
      <4>1. samples'[k] = samples[k]
        BY <1>1, <3>1
      <4>2. samples[k].execution_state = "ran"
        BY <1>1, <3>1 DEF BatchInv
      <4> QED BY <3>1, <4>1, <4>2 DEF OutcomeOf
    <3>2. CASE ~(k < sample_index)
      <4>1. samples'[k] = NotStartedTotalBudgetResult
        BY <1>1, <3>2
      <4> QED BY <3>2, <4>1 DEF OutcomeOf, NotStartedTotalBudgetResult, Sample
    <3> QED BY <3>1, <3>2
  <2> QED BY <2>1 DEF Outcome
<1>3. Outcome' = [k \in Samples |-> IF Outcome[k] = "pending" THEN "unstarted" ELSE Outcome[k]]
  BY <1>1, <1>2, OutcomeOfTheLoop DEF Outcome
<1>4. Outcome[sample_index] = "pending"
  BY <1>1, OutcomeOfTheLoop
<1>5. Verdict = "open" /\ Verdict' = "open" /\ BudgetGone'
  <2>1. elapsed' = elapsed /\ elapsed \in Nat /\ ~(TotalLimit - elapsed > 0)
    BY DEF BudgetGoneBeforeSample, BudgetLeft, Remaining, TypeOK
  <2> QED BY <1>1, <2>1 DEF Verdict, BudgetGone
<1> QED BY <1>1, <1>3, <1>4, <1>5
        DEF Batch!GiveUp, Batch!NoneLeft, Batch!Pending, Batch!Items

\* Leaving the function early is the abstract failure.
LEMMA RaisingFails ==
  ASSUME TypeOK, pc \notin {"done", "raised"}, Raise, elapsed' \in Nat, elapsed' >= elapsed
  PROVE  Batch!Fail
<1>1. Verdict = "open" /\ Verdict' = "failed" /\ Outcome' = Outcome
  BY DEF Verdict, Raise, Outcome
<1>2. BudgetGone' \in BOOLEAN /\ (BudgetGone => BudgetGone')
  BY Stage3Assumption DEF BudgetGone, TypeOK
<1> QED BY <1>1, <1>2 DEF Batch!Fail, Batch!TimePasses

\* Everything between the items is abstract preparation.
LEMMA OtherStepsPrepare ==
  ASSUME TypeOK, pc \notin {"done", "raised"}, pc' \notin {"done", "raised"},
         UNCHANGED samples, elapsed' \in Nat, elapsed' >= elapsed
  PROVE  Batch!Prepare
<1>1. Verdict = "open" /\ Verdict' = "open" /\ Outcome' = Outcome
  BY DEF Verdict, Outcome
<1>2. BudgetGone' \in BOOLEAN /\ (BudgetGone => BudgetGone')
  BY Stage3Assumption DEF BudgetGone, TypeOK
<1> QED BY <1>1, <1>2 DEF Batch!Prepare, Batch!TimePasses

\* Stage 3 implements the budgeted batch for any number of samples and any
\* budget: samples are taken in order and only while the budget lasts, one is
\* unstarted only because the budget is gone, and nothing is delivered before
\* every sample is accounted for.
THEOREM ImplementsBatch == Spec => BatchSafe
<1>1. Init => Batch!Init
  <2> SUFFICES ASSUME Init PROVE Batch!Init
    OBVIOUS
  <2>1. Outcome = [k \in Samples |-> "pending"]
    BY DEF Init, Outcome, OutcomeOf, PendingSample, Sample
  <2>2. BudgetGone = FALSE /\ Verdict = "open"
    BY Stage3Assumption DEF Init, BudgetGone, Verdict
  <2> QED BY <2>1, <2>2 DEF Batch!Init, Batch!Items
<1>2. TypeOK /\ TypeOK' /\ LaunchInv /\ BatchInv /\ [Next]_vars => [Batch!Next]_(Batch!vars)
  <2> SUFFICES ASSUME TypeOK, TypeOK', LaunchInv, BatchInv, [Next]_vars
               PROVE  Batch!Next \/ UNCHANGED Batch!vars
    OBVIOUS
  <2> USE Stage3Assumption
  <2>1. elapsed \in Nat /\ elapsed' \in Nat
    BY DEF TypeOK
  <2>2. CASE \/ RejectInput \/ RejectKeys \/ ProbeFails \/ ProbeTimesOut \/ CopyFails
             \/ BudgetGoneBeforeCompile \/ ObservationFails
    <3>1. pc \notin {"done", "raised"} /\ Raise
      BY <2>2 DEF RejectInput, RejectKeys, ProbeFails, ProbeTimesOut, CopyFails,
                  BudgetGoneBeforeCompile, ObservationFails, FileAt
    <3>2. elapsed' >= elapsed
      BY <2>1, <2>2 DEF RejectInput, RejectKeys, ProbeFails, ProbeTimesOut, CopyFails,
                        BudgetGoneBeforeCompile, ObservationFails
    <3> QED BY <2>1, <3>1, <3>2, RaisingFails DEF Batch!Next
  <2>3. CASE CompileTimesOut \/ CompileFails \/ SampleRaises
    <3>1. pc \notin {"done", "raised"} /\ Raise
      BY <2>3 DEF CompileTimesOut, CompileFails, SampleRaises
    <3> QED BY <2>1, <2>3, <3>1, ProcessTime, RaisingFails DEF Batch!Next
  <2>4. CASE \/ ReadSource \/ ParseTrail \/ ReadKeyFixture \/ ParseKeys \/ ProbeTools
             \/ CopyInputs \/ LaunchCompiler \/ LaunchSample \/ SamplesDone \/ UpstreamEdit
    <3>1. pc \notin {"done", "raised"} /\ pc' \notin {"done", "raised"} /\ UNCHANGED samples
      BY <2>4 DEF ReadSource, ParseTrail, ReadKeyFixture, ParseKeys, ProbeTools, CopyInputs,
                  LaunchCompiler, LaunchSample, SamplesLeft, SamplesDone, UpstreamEdit
    <3>2. elapsed' >= elapsed
      BY <2>1, <2>4 DEF ReadSource, ParseTrail, ReadKeyFixture, ParseKeys, ProbeTools,
                        CopyInputs, LaunchCompiler, LaunchSample, SamplesDone, UpstreamEdit
    <3> QED BY <2>1, <3>1, <3>2, OtherStepsPrepare DEF Batch!Next
  <2>5. CASE CompileSucceeds
    BY <2>1, <2>5, ProcessTime, OtherStepsPrepare DEF CompileSucceeds, Batch!Next
  <2>6. CASE BudgetGoneBeforeSample
    BY <2>6, SkippingSamplesGivesUp DEF Batch!Next
  <2>7. CASE SampleTimesOut \/ SampleExits \/ SampleProcessError
    <3>1. PICK s : RecordSample(s) /\ s.execution_state = "ran"
      BY <2>7, StoredSampleRan
    <3>2. pc = "enumerating"
      BY <2>7 DEF SampleTimesOut, SampleExits, SampleProcessError
    <3>3. Batch!Settle(sample_index) /\ sample_index \in Samples
      BY <2>1, <3>1, <3>2, RecordingASampleSettlesIt
    <3> QED BY <3>3 DEF Batch!Next, Batch!Items
  <2>8. CASE BuildObservation
    <3>1. Verdict = "open" /\ Verdict' = "delivered" /\ Outcome' = Outcome
          /\ BudgetGone' = BudgetGone
      BY <2>8 DEF BuildObservation, Verdict, Outcome, BudgetGone
    <3>2. ASSUME NEW k \in Samples PROVE Outcome[k] # "pending"
      <4>1. ValidSample(samples[k])
        BY <2>8 DEF BuildObservation, BatchInv, TypeOK
      <4> QED BY <4>1 DEF ValidSample, Outcome, OutcomeOf
    <3> QED BY <3>1, <3>2
            DEF Batch!Next, Batch!Deliver, Batch!NoneLeft, Batch!Pending, Batch!Items
  <2>9. CASE UNCHANGED vars
    BY <2>9 DEF vars, Batch!vars, Outcome, BudgetGone, Verdict
  <2> QED BY <2>1, <2>2, <2>3, <2>4, <2>5, <2>6, <2>7, <2>8, <2>9
         DEF Next, OwnStep, ProcessExits
<1> QED BY <1>1, <1>2, TypeCorrect, LaunchInvIsInvariant, BatchInvIsInvariant, PTL
        DEF Spec, BatchSafe, Batch!SafeSpec
==============================================================================
