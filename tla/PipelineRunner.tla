---------------------------- MODULE PipelineRunner ----------------------------
(***************************************************************************)
(* The unified A1-A5 run: scripts/run_gift64_pipeline_demo.py loads and    *)
(* checks a plan, pipeline_runner.py calls the five stages in order and    *)
(* classifies what they return, and the exit code sums it up.  A1-A3 are   *)
(* single calls; A4 and A5 are budgeted batches (module BudgetedBatch,     *)
(* which Stage2Adapter and Stage3Adapter implement).                       *)
(***************************************************************************)
EXTENDS StageCommon, FiniteSets, Sequences

CONSTANTS
  KeyCount,       \* keys the plan's profile asks of A4 (8 or 1000)
  RepeatCount     \* samples the plan's profile asks of A5 (8 or 100)

ASSUME PipelineAssumption == KeyCount \in Nat \ {0} /\ RepeatCount \in Nat \ {0}

StageIds == <<"a1", "a2", "a3", "a4", "a5">>
NoStage == "null"
NoExit == -1

\* A request file as its loader finds it: well formed, rejected by the JSON
\* parser or a validator, absent, or raising something no loader expects
\* (bytes that are not UTF-8, an integer float() cannot hold).
FileState == {"valid", "invalid", "missing", "unexpected"}

\* The two fields of the solver and resource sections that matter later:
\* whether solver.version is the adapter's, and whether a process limit
\* is beyond what the platform's timers accept (subprocess: OverflowError).
StageRequest(counts) ==
  [file : {"valid"}, trail_position : 0 .. 1, count : counts,
   solver_version : {"pinned", "other"}, limit : {"finite", "beyond_timer"}]
BadRequest(count) ==
  [file : FileState \ {"valid"}, trail_position : {0}, count : {count},
   solver_version : {"pinned"}, limit : {"finite"}]

VARIABLES
  pc,
  config, stage2_request, stage3_request,   \* the three request files
  stages,          \* Gift64PipelineStageObservation records, in order
  failed_stage,
  a4_outcome, a4_gone, a4_verdict,          \* the A4 call in progress
  a5_outcome, a5_gone, a5_verdict,          \* the A5 call in progress
  a4_status, a5_status,                     \* statuses of what ran, by item
  observation,     \* the observation that was printed
  exit_code

requests == <<config, stage2_request, stage3_request>>
a4_call == <<a4_outcome, a4_gone, a4_verdict>>
a5_call == <<a5_outcome, a5_gone, a5_verdict>>
statuses == <<a4_status, a5_status>>
vars == <<pc, requests, stages, failed_stage, a4_call, a5_call, statuses,
          observation, exit_code>>

A4 == INSTANCE BudgetedBatch WITH
  ItemCount <- KeyCount, outcome <- a4_outcome, budget_gone <- a4_gone, verdict <- a4_verdict
A5 == INSTANCE BudgetedBatch WITH
  ItemCount <- RepeatCount, outcome <- a5_outcome, budget_gone <- a5_gone, verdict <- a5_verdict

Keys == 0 .. KeyCount - 1
Samples == 0 .. RepeatCount - 1

NoObservation == [state |-> "null", result_state |-> "null", failed_stage |-> NoStage]

\* summary_dict() of a stage, as far as _stage_result_state reads it.
Summary(status, estimate) ==
  [status_counts |->
     [s \in SolverStatus |-> Cardinality({i \in DOMAIN status : status[i] = s})],
   not_started_total_budget_count |->
     Cardinality({i \in DOMAIN status : status[i] = NoStatus}),
   estimate |-> estimate]

StageObservation(id, state, result) ==
  [stage_id |-> id, state |-> state, result_state |-> result]

StageResultState_UnstartedUnseen(id, summary) ==
  IF id \notin {"a4", "a5"} THEN "complete"
  ELSE IF summary.status_counts["ERROR"] > 0 \/ summary.status_counts["TIMEOUT"] > 0
    THEN "incomplete"
  ELSE IF summary.status_counts["UNKNOWN"] > 0 THEN "inconclusive"
  ELSE IF id = "a5" /\ ~summary.estimate THEN "incomplete"
  ELSE "complete"

\* _stage_result_state
StageResultState(id, summary) ==
  IF id \notin {"a4", "a5"} THEN "complete"
  ELSE IF \/ summary.not_started_total_budget_count > 0
          \/ summary.status_counts["ERROR"] > 0
          \/ summary.status_counts["TIMEOUT"] > 0
    THEN "incomplete"
  ELSE IF summary.status_counts["UNKNOWN"] > 0 THEN "inconclusive"
  ELSE IF id = "a5" /\ ~summary.estimate THEN "incomplete"
  ELSE "complete"

AggregateResultState_InconclusiveFirst(observed) ==
  LET states == {observed[i].result_state : i \in DOMAIN observed}
  IN  CASE "not_available" \in states -> "not_available"
        [] "not_available" \notin states /\ "inconclusive" \in states -> "inconclusive"
        [] states \cap {"not_available", "inconclusive"} = {} /\ "incomplete" \in states
             -> "incomplete"
        [] OTHER -> "complete"

\* _aggregate_result_state: the worst of the stages' result states.
AggregateResultState(observed) ==
  LET states == {observed[i].result_state : i \in DOMAIN observed}
      ranking == <<"not_available", "incomplete", "inconclusive">>
      present == {r \in DOMAIN ranking : ranking[r] \in states}
  IN  IF present = {} THEN "complete"
      ELSE ranking[CHOOSE r \in present : \A q \in present : r <= q]

\* _completed_stage, _failed_stage and _skipped_stage.
CompletedStage(id, summary) ==
  StageObservation(id, "completed", StageResultState(id, summary))
FailedStage_Incomplete(id) == StageObservation(id, "failed", "incomplete")

FailedStage(id) == StageObservation(id, "failed", "not_available")
SkippedStage(id) == StageObservation(id, "not_run_upstream_failure", "not_available")

\* Gift64PipelineObservation.__post_init__
ValidObservation(obs, observed) ==
  /\ Len(observed) = Len(StageIds)
  /\ \A i \in DOMAIN StageIds : observed[i].stage_id = StageIds[i]
  /\ LET failed == {i \in DOMAIN observed : observed[i].state = "failed"}
     IN  IF obs.state = "completed"
         THEN /\ obs.failed_stage = NoStage
              /\ \A i \in DOMAIN observed : observed[i].state = "completed"
              /\ obs.result_state = AggregateResultState(observed)
         ELSE /\ \E i \in failed : failed = {i} /\ obs.failed_stage = observed[i].stage_id
              /\ obs.result_state = "not_available"

PipelineObservation_CauseDropped ==
  IF failed_stage = NoStage
  THEN [state |-> "completed", result_state |-> AggregateResultState(stages),
        failed_stage |-> NoStage]
  ELSE [state |-> "failed", result_state |-> "not_available", failed_stage |-> NoStage]

\* What run_gift64_pipeline_demo builds once every stage has an entry.
PipelineObservation ==
  IF failed_stage = NoStage
  THEN [state |-> "completed", result_state |-> AggregateResultState(stages),
        failed_stage |-> NoStage]
  ELSE [state |-> "failed", result_state |-> "not_available",
        failed_stage |-> failed_stage]

Init ==
  /\ pc = "load_config"
  /\ config \in [file : {"valid"}, trail_position : 0 .. 1]
                \cup [file : FileState \ {"valid"}, trail_position : {0}]
  /\ stage2_request \in StageRequest({KeyCount, KeyCount + 1}) \cup BadRequest(KeyCount)
  /\ stage3_request \in StageRequest({RepeatCount, RepeatCount + 1}) \cup BadRequest(RepeatCount)
  /\ stages = <<>>
  /\ failed_stage = NoStage
  /\ A4!Init /\ A5!Init
  /\ a4_status = [k \in Keys |-> NoStatus]
  /\ a5_status = [k \in Samples |-> NoStatus]
  /\ observation = NoObservation
  /\ exit_code = NoExit

calls == <<a4_call, a5_call, statuses>>

Exit(code) ==
  /\ exit_code' = code
  /\ pc' = "exited"
  /\ UNCHANGED <<requests, stages, failed_stage, calls, observation>>

\* An exception that no handler names: Python prints a traceback and exits 1.
Crash == Exit(1)

------------------------------------------------------------------------------
(* load_gift64_pipeline_demo_plan, then the runner's own preconditions *)

Goto(label) ==
  /\ pc' = label
  /\ UNCHANGED <<requests, stages, failed_stage, calls, observation, exit_code>>

\* One request file is read and validated; the errors main() expects end
\* the process with 2.
LoadFile(here, file, next) ==
  /\ pc = here
  /\ CASE file = "valid" -> Goto(next)
       [] file \in {"invalid", "missing"} -> Exit(2)
       [] file = "unexpected" -> Crash

LoadConfig == LoadFile("load_config", config.file, "load_stage2")
LoadStage2 == LoadFile("load_stage2", stage2_request.file, "load_stage3")
LoadStage3 == LoadFile("load_stage3", stage3_request.file, "check_plan")

\* Gift64PipelineDemoPlan.__post_init__ and the solver versions the runner checks.
PlanIsCoherent ==
  /\ stage2_request.trail_position = config.trail_position
  /\ stage3_request.trail_position = config.trail_position
  /\ stage2_request.count = KeyCount
  /\ stage3_request.count = RepeatCount
  /\ stage2_request.solver_version = "pinned"
  /\ stage3_request.solver_version = "pinned"

CheckPlan ==
  /\ pc = "check_plan"
  /\ IF PlanIsCoherent THEN Goto("a1") ELSE Exit(2)

------------------------------------------------------------------------------
(* run_gift64_pipeline_demo *)

\* The label after stage i.
After(i) == IF i = Len(StageIds) THEN "observe" ELSE StageIds[i + 1]

Finish(i, stage, failure) ==
  /\ stages' = Append(stages, stage)
  /\ failed_stage' = failure
  /\ pc' = After(i)
  /\ UNCHANGED <<requests, observation, exit_code>>

\* A1-A3 return or raise one of the exceptions _run_stage catches.
RunPlainStage(i) ==
  /\ pc = StageIds[i]
  /\ failed_stage = NoStage
  /\ \/ Finish(i, CompletedStage(StageIds[i], {}), NoStage)
     \/ Finish(i, FailedStage(StageIds[i]), StageIds[i])
  /\ UNCHANGED calls

RunA1 == RunPlainStage(1)
RunA2 == RunPlainStage(2)
RunA3 == RunPlainStage(3)

\* The A4 adapter is at work.  No process can be launched with a limit the
\* platform's timers do not accept.
A4Works ==
  /\ pc = "a4"
  /\ failed_stage = NoStage
  /\ A4!Next
  /\ stage2_request.limit = "beyond_timer" => \A k \in Keys : a4_outcome'[k] # "ran"
  /\ UNCHANGED <<pc, requests, stages, failed_stage, a5_call, statuses,
                 observation, exit_code>>

\* The keys that ran have a status each, the others have none.
A4Delivers ==
  /\ pc = "a4"
  /\ a4_verdict = "delivered"
  /\ \E status \in [{k \in Keys : a4_outcome[k] = "ran"} -> SolverStatus] :
       /\ a4_status' = [k \in Keys |-> IF k \in DOMAIN status THEN status[k] ELSE NoStatus]
       /\ Finish(4, CompletedStage("a4", Summary(a4_status', FALSE)), NoStage)
  /\ UNCHANGED <<a4_call, a5_call, a5_status>>

\* The exceptions _run_stage names become a failed stage; OverflowError, which
\* a limit beyond the timers raises at the first launch, is not one of them.
A4Fails ==
  /\ pc = "a4"
  /\ a4_verdict = "failed"
  /\ \/ Finish(4, FailedStage("a4"), "a4") /\ UNCHANGED calls
     \/ stage2_request.limit = "beyond_timer" /\ Crash

A5Works ==
  /\ pc = "a5"
  /\ failed_stage = NoStage
  /\ A5!Next
  /\ stage3_request.limit = "beyond_timer" => \A k \in Samples : a5_outcome'[k] # "ran"
  /\ UNCHANGED <<pc, requests, stages, failed_stage, a4_call, statuses,
                 observation, exit_code>>

\* An enumeration ends with UNSAT; the estimate exists iff all of them did.
A5Delivers ==
  /\ pc = "a5"
  /\ a5_verdict = "delivered"
  /\ \E status \in [{k \in Samples : a5_outcome[k] = "ran"} -> SolverStatus \ {"SAT"}] :
       /\ a5_status' = [k \in Samples |-> IF k \in DOMAIN status THEN status[k] ELSE NoStatus]
       /\ Finish(5, CompletedStage("a5",
                      Summary(a5_status', \A k \in Samples : a5_status'[k] = "UNSAT")), NoStage)
  /\ UNCHANGED <<a4_call, a5_call, a4_status>>

A5Fails ==
  /\ pc = "a5"
  /\ a5_verdict = "failed"
  /\ \/ Finish(5, FailedStage("a5"), "a5") /\ UNCHANGED calls
     \/ stage3_request.limit = "beyond_timer" /\ Crash

SkipStage_ForgetsCause ==
  \E i \in DOMAIN StageIds :
    /\ pc = StageIds[i]
    /\ failed_stage # NoStage
    /\ Finish(i, SkippedStage(StageIds[i]), StageIds[i])
    /\ UNCHANGED calls

\* Every stage after the failed one gets an entry and no call.
SkipStage ==
  \E i \in DOMAIN StageIds :
    /\ pc = StageIds[i]
    /\ failed_stage # NoStage
    /\ Finish(i, SkippedStage(StageIds[i]), failed_stage)
    /\ UNCHANGED calls

ExitCode(obs) ==
  IF obs.state = "completed" /\ obs.result_state = "complete" THEN 0 ELSE 1

\* The observation is built, printed and turned into an exit code; rejecting
\* its own observation would raise Gift64PipelineRunnerError, which exits 2.
Observe ==
  /\ pc = "observe"
  /\ IF ValidObservation(PipelineObservation, stages)
     THEN /\ observation' = PipelineObservation
          /\ exit_code' = ExitCode(PipelineObservation)
     ELSE /\ exit_code' = 2
          /\ UNCHANGED observation
  /\ pc' = "exited"
  /\ UNCHANGED <<requests, stages, failed_stage, calls>>

Next ==
  \/ LoadConfig \/ LoadStage2 \/ LoadStage3 \/ CheckPlan
  \/ RunA1 \/ RunA2 \/ RunA3
  \/ A4Works \/ A4Delivers \/ A4Fails
  \/ A5Works \/ A5Delivers \/ A5Fails
  \/ SkipStage
  \/ Observe

\* Safety only: that an adapter at work returns whatever its processes do is
\* BatchReturns of Stage2Adapter and Stage3Adapter, where they may hang.
Spec == Init /\ [][Next]_vars

------------------------------------------------------------------------------
(* Properties *)

StageObservationOK(s) ==
  /\ s.stage_id \in {StageIds[i] : i \in DOMAIN StageIds}
  /\ s.state \in {"completed", "failed", "not_run_upstream_failure"}
  /\ s.result_state \in {"complete", "incomplete", "inconclusive", "not_available"}

\* The variables have their types, the stages are recorded in order, and each
\* record passes Gift64PipelineStageObservation.__post_init__.
TypeOK ==
  /\ pc \in {"load_config", "load_stage2", "load_stage3", "check_plan",
             "observe", "exited"} \cup {StageIds[i] : i \in DOMAIN StageIds}
  /\ Len(stages) <= Len(StageIds)
  /\ \A i \in DOMAIN stages :
       /\ StageObservationOK(stages[i])
       /\ stages[i].stage_id = StageIds[i]
       /\ (stages[i].state = "completed") = (stages[i].result_state # "not_available")
  /\ failed_stage \in {NoStage} \cup {StageIds[i] : i \in DOMAIN StageIds}
  /\ a4_status \in [Keys -> SolverStatus \cup {NoStatus}]
  /\ a5_status \in [Samples -> SolverStatus \cup {NoStatus}]
  /\ exit_code \in {NoExit, 0, 1, 2}

Answered ==
  /\ \A k \in Keys : a4_status[k] \in {"SAT", "UNSAT"}
  /\ \A k \in Samples : a5_status[k] = "UNSAT"

\* Exit code 0 is a promise about the raw outcomes, five conversions away:
\* every stage ran, every requested key was decided, every requested subcube
\* was enumerated, and the plan asked for as many as its profile demands.
ExitZeroMeansAnswered ==
  exit_code = 0 =>
    /\ Len(stages) = 5
    /\ \A i \in DOMAIN stages : stages[i].state = "completed"
    /\ Answered
    /\ stage2_request.count = KeyCount /\ stage3_request.count = RepeatCount

\* The printed result_state says exactly how far the run got: incomplete iff an
\* item failed, was cut off or never started, inconclusive iff the worst that
\* happened is that the solver gave up.
ResultStateExact ==
  observation.state = "completed" =>
    LET all == {a4_status[k] : k \in Keys} \cup {a5_status[k] : k \in Samples}
    IN  observation.result_state =
          IF all \cap {"ERROR", "TIMEOUT", NoStatus} # {} THEN "incomplete"
          ELSE IF "UNKNOWN" \in all THEN "inconclusive"
          ELSE "complete"

\* One failure, then nothing: all stages before the failed one completed, all
\* after it are marked as not run, and the report names the one that failed.
FailureCascade ==
  failed_stage # NoStage =>
    \E f \in DOMAIN stages :
      /\ failed_stage = StageIds[f] /\ stages[f].state = "failed"
      /\ \A i \in DOMAIN stages :
           stages[i].state = (IF i < f THEN "completed"
                              ELSE IF i = f THEN "failed" ELSE "not_run_upstream_failure")

\* Exit code 2 says that the invocation was refused: no stage has run, and in
\* particular no finished run is lost because the report rejects itself.
ExitTwoMeansRefused == exit_code = 2 => stages = <<>>

\* A run that exits 1 has printed a structured observation, and an invalid
\* plan exits 2.  The code lets exceptions it does not name exit 1 unreported.
ExitOneIsReported == exit_code = 1 => observation # NoObservation
==============================================================================
