------------------------- MODULE PipelineRunnerProofs -------------------------
(***************************************************************************)
(* Proofs about PipelineRunner for any number of keys and samples: what    *)
(* the report and the exit code say is what happened to the five stages    *)
(* and to the items of the two batches, several conversions earlier.       *)
(***************************************************************************)
EXTENDS PipelineRunner, FiniteSetTheorems, TLAPS

Loading == {"load_config", "load_stage2", "load_stage3", "check_plan"}
AtStage == {StageIds[i] : i \in DOMAIN StageIds}
Running == AtStage \cup {"observe"}

Record ==
  [stage_id : AtStage,
   state : {"completed", "failed", "not_run_upstream_failure"},
   result_state : {"complete", "incomplete", "inconclusive", "not_available"}]

\* Every record passes its validator and is the one of its stage.
RecordsOK ==
  /\ stages \in Seq(Record)
  /\ Len(stages) <= 5
  /\ \A i \in 1 .. Len(stages) :
       /\ StageObservationOK(stages[i])
       /\ stages[i].stage_id = StageIds[i]
       /\ (stages[i].state = "completed") = (stages[i].result_state # "not_available")

\* How far the run is: no stage before the plan is accepted, one record for
\* every stage passed, and no exit code or report before the end.
Progress ==
  /\ pc \in Loading \cup Running \cup {"exited"}
  /\ pc \in Loading => stages = <<>> /\ failed_stage = NoStage
  /\ \A i \in 1 .. 5 : pc = StageIds[i] => Len(stages) = i - 1
  /\ pc = "observe" => Len(stages) = 5
  /\ pc \in Running => PlanIsCoherent
  /\ pc # "exited" => exit_code = NoExit /\ observation = NoObservation
  /\ exit_code \in {NoExit, 0, 1, 2}
  /\ exit_code = 2 => stages = <<>>

\* The record of the stage with index f, and of those around it.
CascadeAt(f) ==
  /\ failed_stage = StageIds[f]
  /\ \A i \in 1 .. Len(stages) :
       stages[i].state = (IF i < f THEN "completed"
                          ELSE IF i = f THEN "failed" ELSE "not_run_upstream_failure")

Cascade ==
  /\ failed_stage = NoStage => \A i \in 1 .. Len(stages) : stages[i].state = "completed"
  /\ failed_stage # NoStage => \E f \in 1 .. Len(stages) : CascadeAt(f)

\* The result state a batch deserves, in terms of its items.
Lost(status) == \E k \in DOMAIN status : status[k] \in {"ERROR", "TIMEOUT", NoStatus}
GaveUp(status) == \E k \in DOMAIN status : status[k] = "UNKNOWN"
Worst(status) ==
  IF Lost(status) THEN "incomplete" ELSE IF GaveUp(status) THEN "inconclusive" ELSE "complete"

\* The records of a completed stage and of its items agree.
ResultsOK ==
  /\ a4_status \in [Keys -> SolverStatus \cup {NoStatus}]
  /\ a5_status \in [Samples -> (SolverStatus \ {"SAT"}) \cup {NoStatus}]
  /\ \A i \in 1 .. Len(stages) :
       stages[i].state = "completed" =>
         stages[i].result_state =
           IF i = 4 THEN Worst(a4_status)
            ELSE IF i = 5 THEN Worst(a5_status) ELSE "complete"

\* The report is that of the recorded stages, and 0 stands for a complete one.
ReportOK ==
  /\ observation.state = "completed" =>
       /\ Len(stages) = 5 /\ failed_stage = NoStage
       /\ observation.result_state = AggregateResultState(stages)
  /\ exit_code = 0 =>
       /\ observation.state = "completed" /\ observation.result_state = "complete"
       /\ PlanIsCoherent

\* What the three loaders may find.
FilesOK == {config.file, stage2_request.file, stage3_request.file} \subseteq FileState

Inv == RecordsOK /\ Progress /\ Cascade /\ ResultsOK /\ ReportOK

------------------------------------------------------------------------------

LEMMA Ids ==
  /\ DOMAIN StageIds = 1 .. 5 /\ Len(StageIds) = 5
  /\ StageIds[1] = "a1" /\ StageIds[2] = "a2" /\ StageIds[3] = "a3"
  /\ StageIds[4] = "a4" /\ StageIds[5] = "a5"
  /\ AtStage = {"a1", "a2", "a3", "a4", "a5"}
<1>1. /\ DOMAIN StageIds = 1 .. 5 /\ Len(StageIds) = 5
      /\ StageIds[1] = "a1" /\ StageIds[2] = "a2" /\ StageIds[3] = "a3"
      /\ StageIds[4] = "a4" /\ StageIds[5] = "a5"
  BY DEF StageIds
<1>2. 1 .. 5 = {1, 2, 3, 4, 5}
  OBVIOUS
<1> QED BY <1>1, <1>2 DEF AtStage

\* A stage is known by its label.
LEMMA IdsAreDistinct ==
  ASSUME NEW i \in 1 .. 5, NEW j \in 1 .. 5
  PROVE  /\ StageIds[i] = StageIds[j] => i = j
         /\ StageIds[i] \in AtStage /\ StageIds[i] # NoStage
         /\ StageIds[i] \notin Loading \cup {"observe", "exited"}
<1>1. i \in {1, 2, 3, 4, 5} /\ j \in {1, 2, 3, 4, 5}
  OBVIOUS
<1> QED BY <1>1, Ids DEF NoStage, Loading

LEMMA ItemsAreFinite == IsFiniteSet(Keys) /\ IsFiniteSet(Samples) /\ Keys # {} /\ Samples # {}
<1>1. KeyCount \in Nat \ {0} /\ RepeatCount \in Nat \ {0}
  BY PipelineAssumption
<1>2. 0 \in Keys /\ 0 \in Samples
  BY <1>1 DEF Keys, Samples
<1>3. IsFiniteSet(Keys) /\ IsFiniteSet(Samples)
  BY <1>1, FS_Interval DEF Keys, Samples
<1> QED BY <1>2, <1>3

\* A counter of the summary is positive iff some item has this status.
LEMMA CountIsPositive ==
  ASSUME NEW S, IsFiniteSet(S), NEW status, DOMAIN status = S, NEW s
  PROVE  Cardinality({i \in S : status[i] = s}) > 0 <=> \E i \in S : status[i] = s
<1> DEFINE having == {i \in S : status[i] = s}
<1>1. IsFiniteSet(having)
  BY FS_Subset
<1>2. Cardinality(having) \in Nat /\ (Cardinality(having) = 0 <=> having = {})
  BY <1>1, FS_CardinalityType, FS_EmptySet
<1> QED BY <1>2

\* The counters of a summary lose nothing _stage_result_state asks about.
LEMMA ResultStateOfSummary ==
  ASSUME NEW S, IsFiniteSet(S),
         NEW status \in [S -> SolverStatus \cup {NoStatus}], NEW estimate \in BOOLEAN
  PROVE  /\ StageResultState("a4", Summary(status, estimate)) = Worst(status)
         /\ (\A k \in S : status[k] # "SAT") /\ (estimate <=> \A k \in S : status[k] = "UNSAT")
              => StageResultState("a5", Summary(status, estimate)) = Worst(status)
<1> DEFINE summary == Summary(status, estimate)
<1>1. DOMAIN status = S
  OBVIOUS
<1>2. ASSUME NEW s \in SolverStatus
      PROVE  summary.status_counts[s] > 0 <=> \E i \in S : status[i] = s
  <2>1. summary.status_counts[s] = Cardinality({i \in S : status[i] = s})
    BY <1>1 DEF Summary
  <2>2. Cardinality({i \in S : status[i] = s}) > 0 <=> \E i \in S : status[i] = s
    BY <1>1, CountIsPositive
  <2> QED BY <2>1, <2>2
<1>3. summary.not_started_total_budget_count > 0 <=> \E i \in S : status[i] = NoStatus
  BY <1>1, CountIsPositive DEF Summary
<1>4. summary.estimate = estimate
  BY DEF Summary
<1>5. {"ERROR", "TIMEOUT", "UNKNOWN", "SAT", "UNSAT"} = SolverStatus
  BY DEF SolverStatus, NativeStatus
<1> HIDE DEF summary
<1>6. Lost(status) <=> \/ summary.not_started_total_budget_count > 0
                       \/ summary.status_counts["ERROR"] > 0
                       \/ summary.status_counts["TIMEOUT"] > 0
  BY <1>1, <1>2, <1>3, <1>5 DEF Lost
<1>7. GaveUp(status) <=> summary.status_counts["UNKNOWN"] > 0
  BY <1>1, <1>2, <1>5 DEF GaveUp
<1>8. StageResultState("a4", summary) = Worst(status)
  BY <1>6, <1>7 DEF StageResultState, Worst
<1>9. ASSUME \A k \in S : status[k] # "SAT", estimate <=> \A k \in S : status[k] = "UNSAT"
      PROVE  StageResultState("a5", summary) = Worst(status)
  <2>1. ~Lost(status) /\ ~GaveUp(status) => estimate
    <3> SUFFICES ASSUME ~Lost(status), ~GaveUp(status), NEW k \in S
                 PROVE  status[k] = "UNSAT"
      BY <1>9
    <3>1. status[k] \in SolverStatus \cup {NoStatus}
      OBVIOUS
    <3> QED BY <1>1, <1>5, <1>9, <3>1 DEF Lost, GaveUp
  <2> QED BY <1>4, <1>6, <1>7, <2>1 DEF StageResultState, Worst
<1> USE DEF summary
<1> QED BY <1>8, <1>9

------------------------------------------------------------------------------
(* One more record *)

\* What Finish does to the list, whatever the record says.
LEMMA OneRecordMore ==
  ASSUME RecordsOK, Progress, NEW i \in 1 .. 5, pc = StageIds[i],
         NEW rec \in Record, NEW failure, Finish(i, rec, failure)
  PROVE  /\ Len(stages) = i - 1 /\ Len(stages') = i /\ stages' \in Seq(Record)
         /\ stages'[i] = rec
         /\ \A j \in 1 .. i - 1 : stages'[j] = stages[j]
         /\ 1 .. i = (1 .. i - 1) \cup {i}
         /\ failed_stage' = failure
         /\ pc' = IF i = 5 THEN "observe" ELSE StageIds[i + 1]
         /\ PlanIsCoherent'
         /\ exit_code' = NoExit /\ observation' = NoObservation
<1>1. Len(stages) = i - 1
  BY DEF Progress
<1>2. stages' = Append(stages, rec) /\ stages \in Seq(Record)
  BY DEF Finish, RecordsOK
<1>3. /\ Len(stages') = i /\ stages' \in Seq(Record) /\ stages'[i] = rec
      /\ \A j \in 1 .. i - 1 : stages'[j] = stages[j]
  BY <1>1, <1>2
<1>4. pc' = IF i = 5 THEN "observe" ELSE StageIds[i + 1]
  BY Ids DEF Finish, After
<1>5. pc \in Running /\ pc # "exited"
  BY IdsAreDistinct DEF Running
<1>6. PlanIsCoherent'
  BY <1>5 DEF Progress, Finish, PlanIsCoherent, requests
<1>7. exit_code' = NoExit /\ observation' = NoObservation
  BY <1>5 DEF Progress, Finish
<1>8. 1 .. i = (1 .. i - 1) \cup {i}
  OBVIOUS
<1> QED BY <1>1, <1>3, <1>4, <1>6, <1>7, <1>8 DEF Finish

LEMMA RecordKept ==
  ASSUME RecordsOK, Progress, NEW i \in 1 .. 5, pc = StageIds[i],
         NEW rec \in Record, NEW failure, Finish(i, rec, failure),
         StageObservationOK(rec), rec.stage_id = StageIds[i],
         (rec.state = "completed") = (rec.result_state # "not_available")
  PROVE  RecordsOK' /\ Progress' /\ ReportOK'
<1>1. /\ Len(stages) = i - 1 /\ Len(stages') = i /\ stages' \in Seq(Record)
      /\ stages'[i] = rec
      /\ \A j \in 1 .. i - 1 : stages'[j] = stages[j]
      /\ 1 .. i = (1 .. i - 1) \cup {i}
      /\ pc' = IF i = 5 THEN "observe" ELSE StageIds[i + 1]
      /\ PlanIsCoherent'
      /\ exit_code' = NoExit /\ observation' = NoObservation
  BY OneRecordMore
<1>2. RecordsOK'
  BY <1>1 DEF RecordsOK, StageObservationOK
<1>3. pc' \in Running /\ pc' \notin Loading
  BY <1>1, IdsAreDistinct DEF Running, Loading
<1>4. \A j \in 1 .. 5 : pc' = StageIds[j] => j = i + 1
  <2>1. CASE i = 5
    BY <1>1, <2>1, IdsAreDistinct
  <2>2. CASE i # 5
    BY <1>1, <2>2, IdsAreDistinct
  <2> QED BY <2>1, <2>2
<1>5. pc' = "observe" => i = 5
  BY <1>1, IdsAreDistinct
<1>6. Progress'
  BY <1>1, <1>3, <1>4, <1>5 DEF Progress, NoExit
<1>7. ReportOK'
  BY <1>1 DEF ReportOK, NoExit, NoObservation
<1> QED BY <1>2, <1>6, <1>7

\* A record of the kind the earlier ones call for keeps the cascade.
LEMMA CascadeKept ==
  ASSUME RecordsOK, Progress, Cascade, NEW i \in 1 .. 5, pc = StageIds[i],
         NEW rec \in Record, NEW failure, Finish(i, rec, failure),
         \/ failed_stage = NoStage /\ failure = NoStage /\ rec.state = "completed"
         \/ failed_stage = NoStage /\ failure = StageIds[i] /\ rec.state = "failed"
         \/ failed_stage # NoStage /\ failure = failed_stage
              /\ rec.state = "not_run_upstream_failure"
  PROVE  Cascade'
<1>1. /\ Len(stages) = i - 1 /\ Len(stages') = i
      /\ stages'[i] = rec
      /\ \A j \in 1 .. i - 1 : stages'[j] = stages[j]
      /\ 1 .. i = (1 .. i - 1) \cup {i}
      /\ failed_stage' = failure
  BY OneRecordMore
<1>2. CASE failed_stage = NoStage /\ failure = NoStage /\ rec.state = "completed"
  BY <1>1, <1>2 DEF Cascade
<1>3. CASE failed_stage = NoStage /\ failure = StageIds[i] /\ rec.state = "failed"
  <2>1. \A j \in 1 .. i - 1 : stages[j].state = "completed"
    BY <1>1, <1>3 DEF Cascade
  <2>2. CascadeAt(i)'
    BY <1>1, <1>3, <2>1 DEF CascadeAt
  <2>3. failed_stage' # NoStage
    BY <1>1, <1>3, IdsAreDistinct
  <2> QED BY <1>1, <2>2, <2>3 DEF Cascade
<1>4. CASE failed_stage # NoStage /\ failure = failed_stage
             /\ rec.state = "not_run_upstream_failure"
  <2>1. PICK f \in 1 .. i - 1 : CascadeAt(f)
    BY <1>1, <1>4 DEF Cascade
  <2>2. CascadeAt(f)'
    BY <1>1, <1>4, <2>1 DEF CascadeAt
  <2> QED BY <1>1, <1>4, <2>2 DEF Cascade
<1> QED BY <1>2, <1>3, <1>4

LEMMA EarlierStages ==
  ASSUME NEW i \in 1 .. 5, NEW j \in 1 .. i - 1
  PROVE  j \in 1 .. 3 \/ (j = 4 /\ i = 5)
OBVIOUS

LEMMA ResultsKept ==
  ASSUME RecordsOK, Progress, ResultsOK, NEW i \in 1 .. 5, pc = StageIds[i],
         NEW rec \in Record, NEW failure, Finish(i, rec, failure),
         i # 4 => a4_status' = a4_status,
         i # 5 => a5_status' = a5_status,
         a4_status' \in [Keys -> SolverStatus \cup {NoStatus}],
         a5_status' \in [Samples -> (SolverStatus \ {"SAT"}) \cup {NoStatus}],
         rec.state = "completed" =>
           rec.result_state = IF i = 4 THEN Worst(a4_status')
            ELSE IF i = 5 THEN Worst(a5_status') ELSE "complete"
  PROVE  ResultsOK'
<1>1. /\ Len(stages) = i - 1 /\ Len(stages') = i
      /\ stages'[i] = rec
      /\ \A j \in 1 .. i - 1 : stages'[j] = stages[j]
      /\ 1 .. i = (1 .. i - 1) \cup {i}
  BY OneRecordMore
<1>2. ASSUME NEW j \in 1 .. i - 1, stages'[j].state = "completed"
      PROVE  stages'[j].result_state =
               IF j = 4 THEN Worst(a4_status')
            ELSE IF j = 5 THEN Worst(a5_status') ELSE "complete"
  <2>1. stages[j].result_state =
          IF j = 4 THEN Worst(a4_status)
            ELSE IF j = 5 THEN Worst(a5_status) ELSE "complete"
    BY <1>1, <1>2 DEF ResultsOK
  <2>2. j \in 1 .. 3 \/ (j = 4 /\ i = 5)
    BY EarlierStages
  <2>3. CASE j \in 1 .. 3
    BY <1>1, <2>1, <2>3
  <2>4. CASE j = 4 /\ i = 5
    BY <1>1, <2>1, <2>4
  <2> QED BY <2>2, <2>3, <2>4
<1> QED BY <1>1, <1>2 DEF ResultsOK, Worst, Lost, GaveUp

------------------------------------------------------------------------------
(* The steps *)

\* A file or the plan is accepted, or the process ends.
LEMMA LoadMoves ==
  FilesOK /\ (LoadConfig \/ LoadStage2 \/ LoadStage3 \/ CheckPlan) =>
    \/ Goto("load_stage2") \/ Goto("load_stage3") \/ Goto("check_plan")
    \/ Goto("a1") /\ PlanIsCoherent
    \/ Exit(1) \/ Exit(2)
<1> DEFINE Loaded(file, next) ==
      CASE file = "valid" -> Goto(next)
        [] file \in {"invalid", "missing"} -> Exit(2)
        [] file = "unexpected" -> Exit(1)
<1> SUFFICES ASSUME FilesOK, LoadConfig \/ LoadStage2 \/ LoadStage3 \/ CheckPlan
             PROVE  \/ Goto("load_stage2") \/ Goto("load_stage3") \/ Goto("check_plan")
                    \/ Goto("a1") /\ PlanIsCoherent
                    \/ Exit(1) \/ Exit(2)
  OBVIOUS
<1>1. CASE CheckPlan
  BY <1>1 DEF CheckPlan
<1>2. CASE LoadConfig \/ LoadStage2 \/ LoadStage3
  <2>1. \/ Loaded(config.file, "load_stage2")
        \/ Loaded(stage2_request.file, "load_stage3")
        \/ Loaded(stage3_request.file, "check_plan")
    BY <1>2 DEF LoadConfig, LoadStage2, LoadStage3, LoadFile, Crash
  <2>2. ASSUME NEW file \in FileState, NEW next, Loaded(file, next)
        PROVE  Goto(next) \/ Exit(1) \/ Exit(2)
    BY <2>2 DEF FileState
  <2> QED BY <2>1, <2>2 DEF FilesOK
<1> QED BY <1>1, <1>2

LEMMA LoadStep ==
  FilesOK /\ Inv /\ (LoadConfig \/ LoadStage2 \/ LoadStage3 \/ CheckPlan) => Inv'
<1> SUFFICES ASSUME FilesOK, Inv, LoadConfig \/ LoadStage2 \/ LoadStage3 \/ CheckPlan PROVE Inv'
  OBVIOUS
<1>1. /\ pc \in Loading /\ stages = <<>> /\ failed_stage = NoStage
      /\ UNCHANGED <<requests, stages, failed_stage, a4_status, a5_status, observation>>
      /\ \/ exit_code' = exit_code /\ pc' \in Loading
         \/ exit_code' = exit_code /\ pc' = "a1" /\ PlanIsCoherent
         \/ exit_code' \in {1, 2} /\ pc' = "exited"
  <2>1. pc \in Loading
    BY DEF LoadConfig, LoadStage2, LoadStage3, CheckPlan, LoadFile, Loading
  <2>2. stages = <<>> /\ failed_stage = NoStage
    BY <2>1 DEF Inv, Progress
  <2> QED BY <2>1, <2>2, LoadMoves DEF Goto, Exit, calls, statuses, Loading
<1>2. RecordsOK' /\ Cascade'
  BY <1>1 DEF Inv, RecordsOK, Cascade, CascadeAt
<1>3. ResultsOK'
  BY <1>1 DEF Inv, ResultsOK, Worst, Lost, GaveUp
<1>4. pc # "exited" /\ exit_code = NoExit /\ observation = NoObservation
  BY <1>1 DEF Inv, Progress, Loading
<1>5. Len(stages) = 0
  BY <1>1
<1>6. Progress'
  <2>1. CASE pc' \in Loading /\ exit_code' = exit_code
    <3>1. \A i \in 1 .. 5 : pc' # StageIds[i]
      BY <2>1, IdsAreDistinct
    <3>2. pc' \notin Running /\ pc' # "exited"
      BY <2>1, Ids DEF Loading, Running
    <3> QED BY <1>1, <1>4, <2>1, <3>1, <3>2 DEF Progress, Running, NoExit
  <2>2. CASE pc' = "a1" /\ exit_code' = exit_code /\ PlanIsCoherent
    <3>1. \A i \in 1 .. 5 : pc' = StageIds[i] => i = 1
      BY <2>2, Ids, IdsAreDistinct
    <3>2. pc' \in Running /\ pc' \notin Loading /\ pc' # "observe"
      BY <2>2, Ids DEF Loading, Running
    <3>3. PlanIsCoherent'
      BY <1>1, <2>2 DEF PlanIsCoherent, requests
    <3> QED BY <1>1, <1>4, <1>5, <2>2, <3>1, <3>2, <3>3 DEF Progress, NoExit
  <2>3. CASE pc' = "exited" /\ exit_code' \in {1, 2}
    <3>1. pc' \notin Loading \cup Running /\ \A i \in 1 .. 5 : pc' # StageIds[i]
      BY <2>3, Ids, IdsAreDistinct DEF Loading, Running
    <3> QED BY <1>1, <2>3, <3>1 DEF Progress, Running
  <2> QED BY <1>1, <2>1, <2>2, <2>3
<1>7. ReportOK'
  BY <1>1, <1>4 DEF ReportOK, NoExit, NoObservation
<1> QED BY <1>2, <1>3, <1>6, <1>7 DEF Inv

LEMMA RecordsOfAStage ==
  ASSUME NEW i \in 1 .. 5,
         NEW rec, rec = FailedStage(StageIds[i]) \/ rec = SkippedStage(StageIds[i])
  PROVE  /\ rec \in Record /\ StageObservationOK(rec) /\ rec.stage_id = StageIds[i]
         /\ rec.state # "completed" /\ rec.result_state = "not_available"
<1>1. StageIds[i] \in AtStage
  BY IdsAreDistinct
<1> QED BY <1>1 DEF AtStage, FailedStage, SkippedStage, StageObservation, Record, StageObservationOK

LEMMA CompletedRecord ==
  ASSUME NEW i \in 1 .. 5, NEW summary, NEW result \in {"complete", "incomplete", "inconclusive"},
         StageResultState(StageIds[i], summary) = result
  PROVE  LET rec == CompletedStage(StageIds[i], summary)
         IN  /\ rec \in Record /\ StageObservationOK(rec) /\ rec.stage_id = StageIds[i]
             /\ rec.state = "completed" /\ rec.result_state = result
             /\ result # "not_available"
<1>1. StageIds[i] \in AtStage
  BY IdsAreDistinct
<1> QED BY <1>1 DEF AtStage, CompletedStage, StageObservation, Record, StageObservationOK

\* A stage fails or is skipped: what its items are is not asked.
LEMMA StageWithoutResult ==
  ASSUME Inv, NEW i \in 1 .. 5, pc = StageIds[i], NEW rec, NEW failure,
         Finish(i, rec, failure), UNCHANGED <<a4_status, a5_status>>,
         \/ rec = FailedStage(StageIds[i]) /\ failed_stage = NoStage /\ failure = StageIds[i]
         \/ rec = SkippedStage(StageIds[i]) /\ failed_stage # NoStage /\ failure = failed_stage
  PROVE  Inv'
<1>1. /\ rec \in Record /\ StageObservationOK(rec) /\ rec.stage_id = StageIds[i]
      /\ rec.state # "completed" /\ rec.result_state = "not_available"
  BY RecordsOfAStage
<1>2. RecordsOK' /\ Progress' /\ ReportOK'
  BY <1>1, RecordKept DEF Inv
<1>3. \/ rec.state = "failed" /\ failed_stage = NoStage /\ failure = StageIds[i]
      \/ /\ rec.state = "not_run_upstream_failure"
         /\ failed_stage # NoStage /\ failure = failed_stage
  BY DEF FailedStage, SkippedStage, StageObservation
<1>4. Cascade'
  BY <1>1, <1>3, CascadeKept DEF Inv
<1>5. ResultsOK'
  BY <1>1, ResultsKept DEF Inv, ResultsOK
<1> QED BY <1>2, <1>4, <1>5 DEF Inv

LEMMA PlainStageStep == Inv /\ (RunA1 \/ RunA2 \/ RunA3) => Inv'
<1> SUFFICES ASSUME Inv, NEW i \in 1 .. 3, RunPlainStage(i) PROVE Inv'
  BY DEF RunA1, RunA2, RunA3
<1>1. /\ i \in 1 .. 5 /\ pc = StageIds[i] /\ failed_stage = NoStage
      /\ UNCHANGED <<a4_status, a5_status>>
  BY DEF RunPlainStage, calls, statuses
<1>2. CASE Finish(i, FailedStage(StageIds[i]), StageIds[i])
  BY <1>1, <1>2, StageWithoutResult
<1>3. CASE Finish(i, CompletedStage(StageIds[i], {}), NoStage)
  <2> DEFINE rec == CompletedStage(StageIds[i], {})
  <2>1. StageResultState(StageIds[i], {}) = "complete"
    <3>1. i \in {1, 2, 3}
      OBVIOUS
    <3> QED BY <3>1, Ids DEF StageResultState
  <2>2. /\ rec \in Record /\ StageObservationOK(rec) /\ rec.stage_id = StageIds[i]
        /\ rec.state = "completed" /\ rec.result_state = "complete"
    BY <1>1, <2>1, CompletedRecord
  <2>3. Finish(i, rec, NoStage)
    BY <1>3
  <2> HIDE DEF rec
  <2>4. RecordsOK' /\ Progress' /\ ReportOK'
    BY <1>1, <2>2, <2>3, RecordKept DEF Inv
  <2>5. Cascade'
    BY <1>1, <2>2, <2>3, CascadeKept DEF Inv
  <2>6. ResultsOK'
    BY <1>1, <2>2, <2>3, ResultsKept DEF Inv, ResultsOK
  <2> QED BY <2>4, <2>5, <2>6 DEF Inv
<1> QED BY <1>2, <1>3 DEF RunPlainStage

\* An adapter at work changes nothing the runner looks at.
LEMMA InvisibleStep ==
  Inv /\ UNCHANGED <<pc, requests, stages, failed_stage, a4_status, a5_status,
                     observation, exit_code>> => Inv'
BY DEF Inv, RecordsOK, Progress, Cascade, CascadeAt, ResultsOK, ReportOK, Worst, Lost, GaveUp,
       PlanIsCoherent, requests

\* Whatever ends the process without a report.
LEMMA CrashStep == Inv /\ pc \in AtStage /\ Crash => Inv'
<1> SUFFICES ASSUME Inv, pc \in AtStage, Crash PROVE Inv'
  OBVIOUS
<1>1. /\ UNCHANGED <<requests, stages, failed_stage, a4_status, a5_status, observation>>
      /\ exit_code' = 1 /\ pc' = "exited"
  BY DEF Crash, Exit, calls, statuses
<1>2. pc' \notin Loading \cup Running /\ \A i \in 1 .. 5 : pc' # StageIds[i]
  BY <1>1, Ids, IdsAreDistinct DEF Loading, Running
<1>3. observation = NoObservation
  BY Ids DEF Inv, Progress
<1>4. RecordsOK' /\ Cascade' /\ ResultsOK'
  BY <1>1 DEF Inv, RecordsOK, Cascade, CascadeAt, ResultsOK, Worst, Lost, GaveUp
<1>5. Progress' /\ ReportOK'
  BY <1>1, <1>2, <1>3 DEF Progress, ReportOK, NoObservation, Running
<1> QED BY <1>4, <1>5 DEF Inv

\* A batch is delivered: its record is the one its items deserve.
LEMMA DeliveredRecord ==
  ASSUME Inv, NEW i \in {4, 5}, pc = StageIds[i], NEW summary, NEW status,
         StageResultState(StageIds[i], summary) = Worst(status),
         Finish(i, CompletedStage(StageIds[i], summary), NoStage),
         failed_stage = NoStage,
         a4_status' = (IF i = 4 THEN status ELSE a4_status),
         a5_status' = (IF i = 5 THEN status ELSE a5_status),
         a4_status' \in [Keys -> SolverStatus \cup {NoStatus}],
         a5_status' \in [Samples -> (SolverStatus \ {"SAT"}) \cup {NoStatus}]
  PROVE  Inv'
<1> DEFINE rec == CompletedStage(StageIds[i], summary)
<1>1. i \in 1 .. 5
  OBVIOUS
<1>2. Worst(status) \in {"complete", "incomplete", "inconclusive"}
  BY DEF Worst
<1>3. /\ rec \in Record /\ StageObservationOK(rec) /\ rec.stage_id = StageIds[i]
      /\ rec.state = "completed" /\ rec.result_state = Worst(status)
      /\ Worst(status) # "not_available"
  BY <1>1, <1>2, CompletedRecord
<1>4. Finish(i, rec, NoStage)
  OBVIOUS
<1> HIDE DEF rec
<1>5. RecordsOK' /\ Progress' /\ ReportOK'
  BY <1>1, <1>3, <1>4, RecordKept DEF Inv
<1>6. Cascade'
  BY <1>1, <1>3, <1>4, CascadeKept DEF Inv
<1>7. rec.result_state = IF i = 4 THEN Worst(a4_status')
                         ELSE IF i = 5 THEN Worst(a5_status') ELSE "complete"
  BY <1>3
<1>8. ResultsOK'
  BY <1>1, <1>3, <1>4, <1>7, ResultsKept DEF Inv
<1> QED BY <1>5, <1>6, <1>8 DEF Inv

\* A batch has a verdict only after its stage was reached with nothing failed.
VerdictsOK ==
  /\ pc \in Loading \cup {"a1", "a2", "a3"} => a4_verdict = "open" /\ a5_verdict = "open"
  /\ pc = "a4" => a5_verdict = "open" /\ (a4_verdict # "open" => failed_stage = NoStage)
  /\ pc = "a5" /\ a5_verdict # "open" => failed_stage = NoStage

LEMMA FinishMovesOn ==
  ASSUME NEW i \in 1 .. 5, NEW rec, NEW failure, Finish(i, rec, failure)
  PROVE  /\ i = 1 => pc' = "a2"
         /\ i = 2 => pc' = "a3"
         /\ i = 3 => pc' = "a4"
         /\ i = 4 => pc' = "a5"
         /\ i = 5 => pc' = "observe"
BY Ids DEF Finish, After

LEMMA FinishOfABatch ==
  ASSUME NEW rec, NEW failure
  PROVE  /\ Finish(4, rec, failure) => pc' = "a5"
         /\ Finish(5, rec, failure) => pc' = "observe"
BY Ids DEF Finish, After

LEMMA VerdictsKept == FilesOK /\ VerdictsOK /\ Next => VerdictsOK'
<1> SUFFICES ASSUME FilesOK, VerdictsOK, Next PROVE VerdictsOK'
  OBVIOUS
<1> USE DEF VerdictsOK, Loading
<1>1. CASE LoadConfig \/ LoadStage2 \/ LoadStage3 \/ CheckPlan
  <2>1. pc \in Loading
    BY <1>1 DEF LoadConfig, LoadStage2, LoadStage3, CheckPlan, LoadFile
  <2>2. \/ Goto("load_stage2") \/ Goto("load_stage3") \/ Goto("check_plan") \/ Goto("a1")
        \/ Exit(1) \/ Exit(2)
    BY <1>1, LoadMoves
  <2> QED BY <2>1, <2>2 DEF Goto, Exit, calls, a4_call, a5_call
<1>2. CASE RunA1 \/ RunA2 \/ RunA3
  <2>1. PICK i \in 1 .. 3 : RunPlainStage(i)
    BY <1>2 DEF RunA1, RunA2, RunA3
  <2>2. /\ pc \in {"a1", "a2", "a3"} /\ failed_stage = NoStage
        /\ UNCHANGED <<a4_verdict, a5_verdict>>
    BY <2>1, Ids DEF RunPlainStage, calls, a4_call, a5_call
  <2>3. pc' \in {"a2", "a3", "a4"}
    BY <2>1, FinishMovesOn DEF RunPlainStage
  <2> QED BY <2>2, <2>3
<1>3. CASE A4Works \/ A5Works
  BY <1>3 DEF A4Works, A5Works, a4_call, a5_call
<1>4. CASE A4Delivers \/ A4Fails
  <2>1. pc = "a4" /\ UNCHANGED <<a4_verdict, a5_verdict>>
    BY <1>4 DEF A4Delivers, A4Fails, calls, a4_call, a5_call, Crash, Exit
  <2>2. pc' \in {"a5", "exited"}
    BY <1>4, FinishOfABatch DEF A4Delivers, A4Fails, Crash, Exit
  <2> QED BY <2>1, <2>2
<1>5. CASE A5Delivers \/ A5Fails
  <2>1. pc' \in {"observe", "exited"}
    BY <1>5, FinishOfABatch DEF A5Delivers, A5Fails, Crash, Exit
  <2> QED BY <2>1
<1>6. CASE SkipStage
  <2>1. PICK i \in 1 .. 5 : /\ pc = StageIds[i] /\ failed_stage # NoStage
                            /\ Finish(i, SkippedStage(StageIds[i]), failed_stage)
                            /\ UNCHANGED calls
    BY <1>6, Ids, Zenon DEF SkipStage
  <2>2. UNCHANGED <<a4_verdict, a5_verdict, failed_stage>>
    BY <2>1 DEF calls, a4_call, a5_call, Finish
  <2>3. \/ pc = "a1" /\ pc' = "a2"
        \/ pc = "a2" /\ pc' = "a3"
        \/ pc = "a3" /\ pc' = "a4"
        \/ pc = "a4" /\ pc' = "a5"
        \/ pc = "a5" /\ pc' = "observe"
    <3>1. i = 1 \/ i = 2 \/ i = 3 \/ i = 4 \/ i = 5
      OBVIOUS
    <3>2. /\ i = 1 => pc' = "a2"
          /\ i = 2 => pc' = "a3"
          /\ i = 3 => pc' = "a4"
          /\ i = 4 => pc' = "a5"
          /\ i = 5 => pc' = "observe"
      BY <2>1, FinishMovesOn
    <3> QED BY <2>1, <3>1, <3>2, Ids
  <2> QED BY <2>1, <2>2, <2>3
<1>7. CASE Observe
  BY <1>7 DEF Observe
<1> QED BY <1>1, <1>2, <1>3, <1>4, <1>5, <1>6, <1>7 DEF Next

LEMMA A4Step == VerdictsOK /\ Inv /\ (A4Delivers \/ A4Fails) => Inv'
<1> SUFFICES ASSUME VerdictsOK, Inv, A4Delivers \/ A4Fails PROVE Inv'
  OBVIOUS
<1>1. 4 \in 1 .. 5 /\ pc = StageIds[4] /\ pc \in AtStage
  <2>1. pc = "a4"
    BY DEF A4Delivers, A4Fails
  <2> QED BY <2>1, Ids
<1>2. failed_stage = NoStage
  BY DEF A4Delivers, A4Fails, VerdictsOK
<1>3. CASE A4Delivers
  <2>1. PICK status \in [{k \in Keys : a4_outcome[k] = "ran"} -> SolverStatus] :
          /\ a4_status' = [k \in Keys |-> IF k \in DOMAIN status THEN status[k] ELSE NoStatus]
          /\ Finish(4, CompletedStage("a4", Summary(a4_status', FALSE)), NoStage)
    BY <1>3 DEF A4Delivers
  <2>2. a4_status' \in [Keys -> SolverStatus \cup {NoStatus}]
    BY <2>1
  <2>3. StageResultState("a4", Summary(a4_status', FALSE)) = Worst(a4_status')
    BY <2>2, ItemsAreFinite, ResultStateOfSummary
  <2>4. a5_status' = a5_status /\ StageIds[4] = "a4"
    BY <1>3, Ids DEF A4Delivers
  <2>5. a5_status' \in [Samples -> (SolverStatus \ {"SAT"}) \cup {NoStatus}]
    BY <2>4 DEF Inv, ResultsOK
  <2>6. Finish(4, CompletedStage(StageIds[4], Summary(a4_status', FALSE)), NoStage)
    BY <2>1, <2>4
  <2>7. StageResultState(StageIds[4], Summary(a4_status', FALSE)) = Worst(a4_status')
    BY <2>3, <2>4
  <2>8. /\ a4_status' = (IF 4 = 4 THEN a4_status' ELSE a4_status)
        /\ a5_status' = (IF 4 = 5 THEN a4_status' ELSE a5_status)
    BY <2>4
  <2> QED BY <1>1, <1>2, <2>2, <2>5, <2>6, <2>7, <2>8, DeliveredRecord
<1>4. CASE A4Fails
  <2>1. CASE Crash
    BY <1>1, <2>1, CrashStep
  <2>2. CASE Finish(4, FailedStage("a4"), "a4") /\ UNCHANGED calls
    BY <1>1, <1>2, <2>2, Ids, StageWithoutResult DEF calls, statuses
  <2> QED BY <1>4, <2>1, <2>2 DEF A4Fails
<1> QED BY <1>3, <1>4

LEMMA A5Step == VerdictsOK /\ Inv /\ (A5Delivers \/ A5Fails) => Inv'
<1> SUFFICES ASSUME VerdictsOK, Inv, A5Delivers \/ A5Fails PROVE Inv'
  OBVIOUS
<1>1. 5 \in 1 .. 5 /\ pc = StageIds[5] /\ pc \in AtStage
  <2>1. pc = "a5"
    BY DEF A5Delivers, A5Fails
  <2> QED BY <2>1, Ids
<1>2. failed_stage = NoStage
  BY DEF A5Delivers, A5Fails, VerdictsOK
<1>3. CASE A5Delivers
  <2> DEFINE all_unsat == \A k \in Samples : a5_status'[k] = "UNSAT"
  <2>1. PICK status \in [{k \in Samples : a5_outcome[k] = "ran"} -> SolverStatus \ {"SAT"}] :
          /\ a5_status' = [k \in Samples |-> IF k \in DOMAIN status THEN status[k] ELSE NoStatus]
          /\ Finish(5, CompletedStage("a5", Summary(a5_status', all_unsat)), NoStage)
    BY <1>3 DEF A5Delivers
  <2>2. a5_status' \in [Samples -> (SolverStatus \ {"SAT"}) \cup {NoStatus}]
    BY <2>1
  <2>3. /\ a5_status' \in [Samples -> SolverStatus \cup {NoStatus}]
        /\ \A k \in Samples : a5_status'[k] # "SAT"
    BY <2>2 DEF NoStatus
  <2>4. all_unsat \in BOOLEAN /\ (all_unsat <=> \A k \in Samples : a5_status'[k] = "UNSAT")
    OBVIOUS
  <2> HIDE DEF all_unsat
  <2>5. StageResultState("a5", Summary(a5_status', all_unsat)) = Worst(a5_status')
    BY <2>3, <2>4, ItemsAreFinite, ResultStateOfSummary
  <2>6. a4_status' = a4_status /\ StageIds[5] = "a5"
    BY <1>3, Ids DEF A5Delivers
  <2> QED BY <1>1, <1>2, <2>1, <2>2, <2>5, <2>6, DeliveredRecord DEF Inv, ResultsOK
<1>4. CASE A5Fails
  <2>1. CASE Crash
    BY <1>1, <2>1, CrashStep
  <2>2. CASE Finish(5, FailedStage("a5"), "a5") /\ UNCHANGED calls
    BY <1>1, <1>2, <2>2, Ids, StageWithoutResult DEF calls, statuses
  <2> QED BY <1>4, <2>1, <2>2 DEF A5Fails
<1> QED BY <1>3, <1>4

LEMMA SkipStep == Inv /\ SkipStage => Inv'
<1> SUFFICES ASSUME Inv, SkipStage PROVE Inv'
  OBVIOUS
<1>1. PICK i \in 1 .. 5 : /\ pc = StageIds[i] /\ failed_stage # NoStage
                          /\ Finish(i, SkippedStage(StageIds[i]), failed_stage)
                          /\ UNCHANGED calls
  BY Ids, Zenon DEF SkipStage
<1>2. UNCHANGED <<a4_status, a5_status>>
  BY <1>1 DEF calls, statuses
<1> QED BY <1>1, <1>2, StageWithoutResult

\* The runner accepts its own report.
LEMMA OwnReportIsValid ==
  ASSUME Inv, pc = "observe" PROVE ValidObservation(PipelineObservation, stages)
<1>1. Len(stages) = 5 /\ stages \in Seq(Record)
  BY DEF Inv, Progress, RecordsOK
<1>2. DOMAIN stages = 1 .. 5
  BY <1>1
<1>3. \A i \in DOMAIN StageIds : stages[i].stage_id = StageIds[i]
  BY <1>1, Ids DEF Inv, RecordsOK
<1>4. CASE failed_stage = NoStage
  <2>1. \A i \in DOMAIN stages : stages[i].state = "completed"
    BY <1>1, <1>2, <1>4 DEF Inv, Cascade
  <2> QED BY <1>1, <1>3, <1>4, <2>1, Ids DEF ValidObservation, PipelineObservation
<1>5. CASE failed_stage # NoStage
  <2>1. PICK f \in 1 .. 5 : CascadeAt(f)
    BY <1>1, <1>5 DEF Inv, Cascade
  <2>2. {i \in DOMAIN stages : stages[i].state = "failed"} = {f}
    BY <1>1, <1>2, <2>1 DEF CascadeAt
  <2>3. failed_stage = stages[f].stage_id
    BY <1>3, <2>1, Ids DEF CascadeAt
  <2> QED BY <1>1, <1>3, <1>5, <2>2, <2>3, Ids DEF ValidObservation, PipelineObservation
<1> QED BY <1>4, <1>5

LEMMA ObserveStep == Inv /\ Observe => Inv'
<1> SUFFICES ASSUME Inv, Observe PROVE Inv'
  OBVIOUS
<1>1. /\ pc = "observe" /\ pc' = "exited"
      /\ observation' = PipelineObservation
      /\ exit_code' = ExitCode(PipelineObservation)
      /\ UNCHANGED <<requests, stages, failed_stage, a4_status, a5_status>>
  BY OwnReportIsValid DEF Observe, calls, statuses
<1>2. Len(stages) = 5 /\ PlanIsCoherent
  BY <1>1 DEF Inv, Progress, Running
<1>3. RecordsOK' /\ Cascade' /\ ResultsOK'
  BY <1>1 DEF Inv, RecordsOK, Cascade, CascadeAt, ResultsOK, Worst, Lost, GaveUp
<1>4. pc' \notin Loading \cup Running /\ \A i \in 1 .. 5 : pc' # StageIds[i]
  BY <1>1, Ids, IdsAreDistinct DEF Loading, Running
<1>5. exit_code' \in {0, 1}
  BY <1>1 DEF ExitCode
<1>6. Progress'
  BY <1>1, <1>2, <1>4, <1>5 DEF Progress, Running
<1>7. PlanIsCoherent'
  BY <1>1, <1>2 DEF PlanIsCoherent, requests
<1>8. AggregateResultState(stages)' = AggregateResultState(stages)
  BY <1>1 DEF AggregateResultState
<1>9. ReportOK'
  BY <1>1, <1>2, <1>7, <1>8 DEF ReportOK, PipelineObservation, ExitCode
<1> QED BY <1>3, <1>6, <1>9 DEF Inv

\* The conjunction is inductive.
LEMMA RunnerInvariant == Spec => [](FilesOK /\ VerdictsOK /\ Inv)
<1>1. Init => FilesOK /\ VerdictsOK /\ Inv
  <2> SUFFICES ASSUME Init PROVE FilesOK /\ VerdictsOK /\ Inv
    OBVIOUS
  <2>1. FilesOK
    BY DEF Init, FilesOK, FileState, StageRequest, BadRequest
  <2>2. VerdictsOK
    BY DEF Init, A4!Init, A5!Init, VerdictsOK
  <2>3. pc = "load_config" /\ \A i \in 1 .. 5 : pc # StageIds[i]
    BY IdsAreDistinct DEF Init, Loading
  <2>4. pc \in Loading /\ pc \notin Running
    BY <2>3, Ids DEF Loading, Running
  <2>5. stages = <<>> /\ Len(stages) = 0 /\ stages \in Seq(Record)
    BY DEF Init
  <2>6. RecordsOK /\ Cascade /\ ReportOK
    BY <2>5 DEF Init, RecordsOK, Cascade, ReportOK, NoExit, NoObservation
  <2>7. Progress
    BY <2>3, <2>4, <2>5 DEF Init, Progress, Running, NoExit
  <2>8. ResultsOK
    BY <2>5 DEF Init, ResultsOK
  <2> QED BY <2>1, <2>2, <2>6, <2>7, <2>8 DEF Inv
<1>2. FilesOK /\ VerdictsOK /\ Inv /\ [Next]_vars => (FilesOK /\ VerdictsOK /\ Inv)'
  <2> SUFFICES ASSUME FilesOK, VerdictsOK, Inv, [Next]_vars
               PROVE  FilesOK' /\ VerdictsOK' /\ Inv'
    OBVIOUS
  <2>1. CASE UNCHANGED vars
    <3>1. Inv'
      BY <2>1, InvisibleStep DEF vars, statuses
    <3> QED BY <2>1, <3>1 DEF vars, requests, a4_call, a5_call, FilesOK, VerdictsOK
  <2>2. CASE Next
    <3>1. FilesOK'
      <4>1. UNCHANGED requests
        BY <2>2, LoadMoves
           DEF Next, RunA1, RunA2, RunA3, RunPlainStage, A4Works, A4Delivers, A4Fails,
               A5Works, A5Delivers, A5Fails, SkipStage, Observe, Goto, Exit, Crash, Finish
      <4> QED BY <4>1 DEF FilesOK, requests
    <3>2. VerdictsOK'
      BY <2>2, VerdictsKept
    <3>3. A4Works \/ A5Works => Inv'
      <4> SUFFICES ASSUME A4Works \/ A5Works PROVE Inv'
        OBVIOUS
      <4>1. UNCHANGED <<pc, requests, stages, failed_stage, a4_status, a5_status,
                        observation, exit_code>>
        BY DEF A4Works, A5Works, statuses
      <4> QED BY <4>1, InvisibleStep
    <3>4. Inv'
      BY <2>2, <3>3, LoadStep, PlainStageStep, A4Step, A5Step, SkipStep, ObserveStep DEF Next
    <3> QED BY <3>1, <3>2, <3>4
  <2> QED BY <2>1, <2>2
<1> QED BY <1>1, <1>2, PTL DEF Spec

------------------------------------------------------------------------------
(* Theorems *)

\* Types, the order of the records, and the validator each of them passes.
THEOREM TypeCorrect == Spec => []TypeOK
<1>1. Inv => TypeOK
  <2> SUFFICES ASSUME Inv PROVE TypeOK
    OBVIOUS
  <2>1. DOMAIN stages = 1 .. Len(stages) /\ Len(stages) <= Len(StageIds)
    BY Ids DEF Inv, RecordsOK
  <2>2. pc \in {"load_config", "load_stage2", "load_stage3", "check_plan",
                "observe", "exited"} \cup {StageIds[i] : i \in DOMAIN StageIds}
    BY DEF Inv, Progress, Loading, Running, AtStage
  <2>3. failed_stage \in {NoStage} \cup {StageIds[i] : i \in DOMAIN StageIds}
    <3>1. ASSUME failed_stage # NoStage PROVE failed_stage \in AtStage
      <4>1. PICK f \in 1 .. Len(stages) : CascadeAt(f)
        BY <3>1 DEF Inv, Cascade
      <4>2. f \in 1 .. 5
        BY <4>1 DEF Inv, RecordsOK
      <4> QED BY <4>1, <4>2, IdsAreDistinct DEF CascadeAt
    <3> QED BY <3>1 DEF AtStage
  <2> QED BY <2>1, <2>2, <2>3 DEF Inv, RecordsOK, Progress, ResultsOK, TypeOK
<1> QED BY <1>1, RunnerInvariant, PTL

\* One stage fails at most; those before it completed and those after it never ran.
THEOREM FailuresCascade == Spec => []FailureCascade
<1>1. Inv => FailureCascade
  <2> SUFFICES ASSUME Inv, failed_stage # NoStage
               PROVE  \E f \in DOMAIN stages :
                        /\ failed_stage = StageIds[f] /\ stages[f].state = "failed"
                        /\ \A i \in DOMAIN stages :
                             stages[i].state = (IF i < f THEN "completed"
                                                ELSE IF i = f THEN "failed"
                                                ELSE "not_run_upstream_failure")
    BY DEF FailureCascade
  <2>1. DOMAIN stages = 1 .. Len(stages)
    BY DEF Inv, RecordsOK
  <2>2. PICK f \in 1 .. Len(stages) : CascadeAt(f)
    BY DEF Inv, Cascade
  <2> QED BY <2>1, <2>2 DEF CascadeAt
<1> QED BY <1>1, RunnerInvariant, PTL

\* Exit code 2 means that no stage has run.
THEOREM TwoMeansRefused == Spec => []ExitTwoMeansRefused
<1>1. Inv => ExitTwoMeansRefused
  BY DEF Inv, Progress, ExitTwoMeansRefused
<1> QED BY <1>1, RunnerInvariant, PTL

\* The worst of five result states, when three of them are complete.
LEMMA AggregateOfStages ==
  ASSUME Inv, Len(stages) = 5, failed_stage = NoStage
  PROVE  AggregateResultState(stages) =
           IF Lost(a4_status) \/ Lost(a5_status) THEN "incomplete"
           ELSE IF GaveUp(a4_status) \/ GaveUp(a5_status) THEN "inconclusive"
           ELSE "complete"
<1> DEFINE states == {stages[i].result_state : i \in DOMAIN stages}
           ranking == <<"not_available", "incomplete", "inconclusive">>
           present == {r \in DOMAIN ranking : ranking[r] \in states}
<1>1. DOMAIN stages = 1 .. 5 /\ 1 .. 5 = {1, 2, 3, 4, 5}
  BY DEF Inv, RecordsOK
<1>2. \A i \in 1 .. 5 : stages[i].result_state =
                          IF i = 4 THEN Worst(a4_status)
                          ELSE IF i = 5 THEN Worst(a5_status) ELSE "complete"
  BY <1>1 DEF Inv, Cascade, ResultsOK
<1>3. states = {"complete", Worst(a4_status), Worst(a5_status)}
  BY <1>1, <1>2
<1>4. "not_available" \notin states
  BY <1>3 DEF Worst
<1>5. "incomplete" \in states <=> Lost(a4_status) \/ Lost(a5_status)
  BY <1>3 DEF Worst
<1>6. "incomplete" \notin states =>
        ("inconclusive" \in states <=> GaveUp(a4_status) \/ GaveUp(a5_status))
  BY <1>3 DEF Worst
<1> HIDE DEF states
<1>7. present = {r \in {2, 3} : ranking[r] \in states}
  BY <1>4
<1>8. AggregateResultState(stages) =
        IF present = {} THEN "complete"
        ELSE ranking[CHOOSE r \in present : \A q \in present : r <= q]
  BY DEF AggregateResultState, states
<1>9. CASE "incomplete" \in states
  <2>1. 2 \in present /\ \A q \in present : 2 <= q
    BY <1>7, <1>9
  <2>2. (CHOOSE r \in present : \A q \in present : r <= q) = 2
    BY <2>1, <1>7
  <2> QED BY <1>5, <1>8, <1>9, <2>1, <2>2
<1>10. CASE "incomplete" \notin states /\ "inconclusive" \in states
  <2>1. present = {3}
    BY <1>7, <1>10
  <2>2. (CHOOSE r \in present : \A q \in present : r <= q) = 3
    BY <2>1
  <2> QED BY <1>5, <1>6, <1>8, <1>10, <2>1, <2>2
<1>11. CASE "incomplete" \notin states /\ "inconclusive" \notin states
  <2>1. present = {}
    BY <1>7, <1>11
  <2> QED BY <1>5, <1>6, <1>8, <1>11, <2>1
<1> QED BY <1>9, <1>10, <1>11

\* What all the items together say, in the words of ResultStateExact.
LEMMA ItemsTogether ==
  ASSUME Inv
  PROVE  LET all == {a4_status[k] : k \in Keys} \cup {a5_status[k] : k \in Samples}
         IN  /\ all \cap {"ERROR", "TIMEOUT", NoStatus} # {}
                  <=> Lost(a4_status) \/ Lost(a5_status)
             /\ "UNKNOWN" \in all <=> GaveUp(a4_status) \/ GaveUp(a5_status)
<1>1. DOMAIN a4_status = Keys /\ DOMAIN a5_status = Samples
  BY DEF Inv, ResultsOK
<1> QED BY <1>1 DEF Lost, GaveUp

\* The printed result state is the one the raw statuses of all items deserve.
THEOREM ReportIsExact == Spec => []ResultStateExact
<1>1. Inv => ResultStateExact
  <2> SUFFICES ASSUME Inv, observation.state = "completed"
               PROVE  LET all == {a4_status[k] : k \in Keys} \cup {a5_status[k] : k \in Samples}
                      IN  observation.result_state =
                            IF all \cap {"ERROR", "TIMEOUT", NoStatus} # {} THEN "incomplete"
                            ELSE IF "UNKNOWN" \in all THEN "inconclusive"
                            ELSE "complete"
    BY DEF ResultStateExact
  <2>1. /\ Len(stages) = 5 /\ failed_stage = NoStage
        /\ observation.result_state = AggregateResultState(stages)
    BY DEF Inv, ReportOK
  <2> QED BY <2>1, AggregateOfStages, ItemsTogether
<1> QED BY <1>1, RunnerInvariant, PTL

\* Exit code 0 is given only when every key was decided and every subcube
\* enumerated, for as many of each as the profile of the plan demands.
THEOREM ZeroMeansAnswered == Spec => []ExitZeroMeansAnswered
<1>1. Inv => ExitZeroMeansAnswered
  <2> SUFFICES ASSUME Inv, exit_code = 0
               PROVE  /\ Len(stages) = 5
                      /\ \A i \in DOMAIN stages : stages[i].state = "completed"
                      /\ Answered
                      /\ stage2_request.count = KeyCount
                      /\ stage3_request.count = RepeatCount
    BY DEF ExitZeroMeansAnswered
  <2>1. /\ Len(stages) = 5 /\ failed_stage = NoStage /\ PlanIsCoherent
        /\ AggregateResultState(stages) = "complete"
    BY DEF Inv, ReportOK
  <2>2. \A i \in DOMAIN stages : stages[i].state = "completed"
    BY <2>1 DEF Inv, RecordsOK, Cascade
  <2>3. /\ ~Lost(a4_status) /\ ~GaveUp(a4_status)
        /\ ~Lost(a5_status) /\ ~GaveUp(a5_status)
    BY <2>1, AggregateOfStages
  <2>4. \A k \in Keys : a4_status[k] \in {"SAT", "UNSAT"}
    BY <2>3 DEF Inv, ResultsOK, Lost, GaveUp, SolverStatus, NativeStatus
  <2>5. \A k \in Samples : a5_status[k] = "UNSAT"
    BY <2>3 DEF Inv, ResultsOK, Lost, GaveUp, SolverStatus, NativeStatus
  <2> QED BY <2>1, <2>2, <2>4, <2>5 DEF Answered, PlanIsCoherent
<1> QED BY <1>1, RunnerInvariant, PTL
==============================================================================
