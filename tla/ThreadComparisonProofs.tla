------------------------ MODULE ThreadComparisonProofs ------------------------
(***************************************************************************)
(* Proofs about the controlled run under its B7 caller, for every set of   *)
(* requests, every bound and every number of repetitions: exact labels are *)
(* earned, the adapter never rejects its own result, and a comparison that *)
(* is printed rests on verified runs alone.                                *)
(***************************************************************************)
EXTENDS ThreadComparison, TLAPS

\* A model is only kept when the request has the program's number of rounds.
PersistInv ==
  pc = "persist" => trail \in Trail /\ request.cipher # "GIFT-64 other rounds"

IInv == request \in Request /\ PersistInv /\ LabelIsEarned

------------------------------------------------------------------------------
(* One call *)

\* Results other than SAT claim nothing.
LEMMA PlainResultsClaimNothing ==
  \A status : ~PlainResult(status).exact_label_eligible
BY DEF PlainResult

\* A weight without issues against a request is what the request wants.
LEMMA NoContractIssuesMeetsIt ==
  ASSUME NEW weight, NEW req \in Request, ContractIssues(weight, req) = {}
  PROVE  MeetsContract(weight, req)
<1> DEFINE known == req.objective # "other"
           found == [request_layout_mismatch |-> req.layout # "reference",
                     unsupported_objective |-> ~known,
                     unsupported_bound_component |->
                       known /\ ~(req.components \subseteq WeightComponent),
                     objective_bound |-> known /\ ~ComparisonHolds(weight, req)]
<1>1. ContractIssues(weight, req) = {code \in DOMAIN found : found[code]}
  BY DEF ContractIssues
<1>2. \A code \in DOMAIN found : ~found[code]
  BY <1>1
<1>3. DOMAIN found = {"request_layout_mismatch", "unsupported_objective",
                      "unsupported_bound_component", "objective_bound"}
  OBVIOUS
<1>4. ~found.unsupported_objective /\ ~found.request_layout_mismatch
      /\ ~found.unsupported_bound_component /\ ~found.objective_bound
  BY <1>2, <1>3
<1>5. req.layout = "reference" /\ known
  BY <1>4
<1>6. req.components \subseteq WeightComponent /\ ComparisonHolds(weight, req)
  BY <1>4, <1>5
<1> QED BY <1>5, <1>6 DEF MeetsContract, Request

\* An answer without issues is an answer in the sense of the specification.
LEMMA NoIssuesMeansAnswers ==
  ASSUME request \in Request, PersistInv, pc = "persist", Issues = {}
  PROVE  Answers(trail, request)
<1>1. trail \in Trail /\ request.cipher # "GIFT-64 other rounds"
  BY DEF PersistInv
<1>2. TrailIssues = {} /\ RequestIssues = {}
  BY DEF Issues
<1>3. request.cipher # "other" /\ trail.sound
  BY <1>2 DEF TrailIssues
<1>4. MeetsContract(trail.weight, request)
  BY <1>2, NoContractIssuesMeetsIt DEF RequestIssues
<1>5. request.cipher = "GIFT-64 R4"
  BY <1>1, <1>3 DEF Request
<1> QED BY <1>1, <1>3, <1>4, <1>5 DEF Answers

\* The contract accepts what the adapter builds from any verdict.
LEMMA SatResultIsValid ==
  ASSUME trail \in Trail
  PROVE  ValidResult(SatResult)
<1>1. trail.weight \in Weight
  BY ContractAssumption DEF Trail
<1>2. trail.weight # NoWeight
  <2>1. trail.weight.integral_weight # NoWeight.integral_weight
    BY <1>1 DEF Weight, NoWeight
  <2> QED BY <2>1
<1>3. Sha256(trail) # NoModel
  BY <1>2 DEF NoModel, NoTrail, Sha256
<1> QED BY <1>2, <1>3 DEF ValidResult, SatResult

\* Returning a plain result, or raising, leaves no label behind.
LEMMA PlainReturn ==
  ASSUME NEW status, request \in Request,
         Return(PlainResult(status), NoTrail) \/ Raise
  PROVE  IInv'
<1>1. ~returned'.result.exact_label_eligible
  BY PlainResultsClaimNothing DEF Return, Raise, ControlledRun, Raised
<1>2. pc' = "caller" /\ UNCHANGED request
  BY DEF Return, Raise
<1> QED BY <1>1, <1>2 DEF IInv, PersistInv, LabelIsEarned

LEMMA RunStepKeepsInv ==
  ASSUME IInv, RunStep
  PROVE  IInv'
<1>1. CASE PreparationSucceeds \/ CompileSucceeds
  BY <1>1 DEF PreparationSucceeds, CompileSucceeds, Goto, IInv, PersistInv, LabelIsEarned
<1>2. CASE \/ RequestRejected \/ PreparationFails \/ ProbeTimesOut
           \/ CompileFails \/ CompileTimesOut \/ CompileRaises
           \/ LimitRefused \/ SolveTimesOut \/ SolveExitsNonzero \/ SolveRaises
           \/ MarkerRejected \/ ModelRejected \/ PersistFails
  BY <1>2, PlainReturn
     DEF RequestRejected, PreparationFails, ProbeTimesOut, CompileFails, CompileTimesOut,
         CompileRaises, LimitRefused, SolveTimesOut, SolveExitsNonzero, SolveRaises,
         MarkerRejected, ModelRejected, PersistFails, IInv
<1>3. CASE NoModelPrinted
  <2>1. PICK status \in {"UNSAT", "UNKNOWN"}, stdout \in {"empty", "printed"} :
          Return(PlainResult(IF stdout = "empty" THEN status ELSE "ERROR"), NoTrail)
    BY <1>3 DEF NoModelPrinted
  <2> QED BY <2>1, PlainReturn DEF IInv
<1>4. CASE ModelDecoded
  BY <1>4 DEF ModelDecoded, IInv, PersistInv, LabelIsEarned
<1>5. CASE ModelPersisted
  <2>1. /\ pc = "persist" /\ pc' = "caller" /\ request' = request /\ trail \in Trail
        /\ returned' = ControlledRun(SatResult, trail)
    BY <1>5, SatResultIsValid DEF ModelPersisted, Return, IInv, PersistInv
  <2>2. SatResult.exact_label_eligible => Answers(trail, request)
    BY <2>1, NoIssuesMeansAnswers DEF SatResult, IInv
  <2>3. /\ SatResult.status = "SAT" /\ SatResult.definitive = TRUE
        /\ SatResult.model = Sha256(trail)
    BY DEF SatResult
  <2>4. LabelIsEarned'
    BY <2>1, <2>2, <2>3 DEF LabelIsEarned, ControlledRun
  <2> QED BY <2>1, <2>4 DEF IInv, PersistInv
<1> QED BY <1>1, <1>2, <1>3, <1>4, <1>5 DEF RunStep, RunOwnStep, RunProcessExits

------------------------------------------------------------------------------
(* The script *)

LEMMA InvIsInvariant == Spec => []IInv
<1>1. Init => IInv
  BY ComparisonAssumption, PlainResultsClaimNothing
     DEF Init, IInv, PersistInv, LabelIsEarned, NotRun
<1>2. IInv /\ [Next]_vars => IInv'
  <2> SUFFICES ASSUME IInv, [Next]_vars PROVE IInv'
    OBVIOUS
  <2>1. CASE Call /\ UNCHANGED request
    BY <2>1, PlainResultsClaimNothing DEF Call, IInv, PersistInv, LabelIsEarned, NotRun
  <2>2. CASE UNCHANGED run
    BY <2>2 DEF run, IInv, PersistInv, LabelIsEarned
  <2>3. CASE OwnWork \/ ProcessExits
    BY <2>3, RunStepKeepsInv DEF OwnWork, ProcessExits, RunStep
  <2>4. CASE FirstCall
    BY <2>1, <2>4 DEF FirstCall
  <2>5. CASE Collect
    BY <2>1, <2>2, <2>5 DEF Collect, run
  <2>6. CASE RunRaised \/ Report \/ UNCHANGED vars
    BY <2>2, <2>6 DEF RunRaised, Report, vars
  <2> QED BY <2>3, <2>4, <2>5, <2>6 DEF Next, OwnStep
<1> QED BY <1>1, <1>2, PTL DEF Spec

\* An exact label is given only to a definitive SAT whose trail answers the
\* request, and the model it refers to is that trail.
THEOREM LabelsAreEarned == Spec => []LabelIsEarned
<1>1. IInv => LabelIsEarned
  BY DEF IInv
<1> QED BY <1>1, InvIsInvariant, PTL

\* A decoded model always becomes a result: the contract accepts it.
THEOREM ResultIsAccepted == Spec => []OwnResultIsAccepted
<1>1. IInv => OwnResultIsAccepted
  BY SatResultIsValid DEF IInv, PersistInv, OwnResultIsAccepted
<1> QED BY <1>1, InvIsInvariant, PTL

------------------------------------------------------------------------------
(* Types *)

ControlledRuns ==
  [outcome : {"none", "returned", "raised"}, result : SolverResult, trail : Trail \cup {NoTrail}]

LEMMA PlainResultIsWellTyped ==
  ASSUME NEW status \in SolverStatus PROVE PlainResult(status) \in SolverResult
BY DEF PlainResult, SolverResult

LEMMA SatResultIsWellTyped ==
  ASSUME trail \in Trail PROVE SatResult \in SolverResult
<1>1. trail.weight \in Weights
  BY DEF Trail
<1>2. Sha256(trail) \in {Sha256(t) : t \in Trail}
  OBVIOUS
<1> QED BY <1>1, <1>2 DEF SatResult, SolverResult, SolverStatus, NativeStatus

LEMMA PlainReturnIsWellTyped ==
  ASSUME RunTypeOK, NEW status \in SolverStatus,
         Return(PlainResult(status), NoTrail) \/ Raise
  PROVE  RunTypeOK'
<1>1. PlainResult(status) \in SolverResult /\ PlainResult("ERROR") \in SolverResult
  BY PlainResultIsWellTyped DEF SolverStatus
<1>2. returned' \in ControlledRuns
  BY <1>1 DEF Return, Raise, ControlledRun, Raised, ControlledRuns
<1>3. pc' = "caller" /\ UNCHANGED <<request, source, trail>>
  BY DEF Return, Raise
<1> QED BY <1>2, <1>3 DEF RunTypeOK, ControlledRuns

LEMMA RunStepIsWellTyped ==
  ASSUME RunTypeOK, IInv, RunStep PROVE RunTypeOK'
<1> USE DEF SolverStatus, NativeStatus
<1>1. CASE PreparationSucceeds \/ CompileSucceeds
  BY <1>1 DEF PreparationSucceeds, CompileSucceeds, Goto, RunTypeOK
<1>2. CASE \/ RequestRejected \/ PreparationFails \/ ProbeTimesOut
           \/ CompileFails \/ CompileTimesOut \/ CompileRaises
           \/ LimitRefused \/ SolveTimesOut \/ SolveExitsNonzero \/ SolveRaises
           \/ MarkerRejected \/ ModelRejected \/ PersistFails
  BY <1>2, PlainReturnIsWellTyped
     DEF RequestRejected, PreparationFails, ProbeTimesOut, CompileFails, CompileTimesOut,
         CompileRaises, LimitRefused, SolveTimesOut, SolveExitsNonzero, SolveRaises,
         MarkerRejected, ModelRejected, PersistFails
<1>3. CASE NoModelPrinted
  <2>1. PICK status \in {"UNSAT", "UNKNOWN"}, stdout \in {"empty", "printed"} :
          Return(PlainResult(IF stdout = "empty" THEN status ELSE "ERROR"), NoTrail)
    BY <1>3 DEF NoModelPrinted
  <2> QED BY <2>1, PlainReturnIsWellTyped
<1>4. CASE ModelDecoded
  BY <1>4 DEF ModelDecoded, RunTypeOK
<1>5. CASE ModelPersisted
  <2>1. /\ pc = "persist" /\ pc' = "caller" /\ UNCHANGED <<request, source, trail>>
        /\ trail \in Trail /\ returned' = ControlledRun(SatResult, trail)
    BY <1>5, SatResultIsValid DEF ModelPersisted, Return, IInv, PersistInv
  <2>2. SatResult \in SolverResult
    BY <2>1, SatResultIsWellTyped
  <2>3. returned' \in ControlledRuns
    BY <2>1, <2>2 DEF ControlledRun, ControlledRuns
  <2> QED BY <2>1, <2>3 DEF RunTypeOK, ControlledRuns
<1> QED BY <1>1, <1>2, <1>3, <1>4, <1>5 DEF RunStep, RunOwnStep, RunProcessExits

------------------------------------------------------------------------------
(* The loop *)

\* Each configuration has one run for every repetition that is behind, and the
\* first of the current order one more between the two calls; every label in
\* either list was earned.
LoopInv ==
  /\ repetition \in 0 .. Repetitions
  /\ position \in 1 .. 2
  /\ repetition = Repetitions => position = 1
  /\ results_by_threads \in [Configuration -> Seq(ControlledRuns)]
  /\ position = 1 => \A c \in Configuration : Len(results_by_threads[c]) = repetition
  /\ position = 2 => /\ Len(results_by_threads[ThreadOrder[1]]) = repetition + 1
                     /\ Len(results_by_threads[ThreadOrder[2]]) = repetition
  /\ \A c \in Configuration : \A i \in 1 .. Len(results_by_threads[c]) :
       results_by_threads[c][i].result.exact_label_eligible =>
         Answers(results_by_threads[c][i].trail, request)

ReportInv ==
  /\ exit_code \in {NoExit, 0, 1}
  /\ report \in BOOLEAN
  /\ report => /\ repetition = Repetitions
               /\ \A c \in Configuration : CheckedSummary(results_by_threads[c])

LEMMA Orders ==
  /\ {ThreadOrder[1], ThreadOrder[2]} = Configuration
  /\ ThreadOrder[1] # ThreadOrder[2]
BY DEF ThreadOrder, Configuration

LEMMA CollectKeepsLoop ==
  ASSUME RunTypeOK, IInv, LoopInv, Collect PROVE LoopInv'
<1> USE ComparisonAssumption
<1> DEFINE here == ThreadOrder[position]
<1>1. /\ repetition \in 0 .. Repetitions - 1 /\ position \in {1, 2}
      /\ results_by_threads \in [Configuration -> Seq(ControlledRuns)]
      /\ results_by_threads' = [results_by_threads EXCEPT ![here] = Append(@, returned)]
      /\ request' = request
  BY DEF Collect, LoopLeft, LoopInv
<1>2. here \in Configuration
  BY <1>1, Orders
<1>3. returned \in ControlledRuns
  BY DEF RunTypeOK, ControlledRuns
<1> HIDE DEF here
<1>4. /\ results_by_threads' \in [Configuration -> Seq(ControlledRuns)]
      /\ Len(results_by_threads'[here]) = Len(results_by_threads[here]) + 1
      /\ results_by_threads'[here][Len(results_by_threads[here]) + 1] = returned
      /\ \A i \in 1 .. Len(results_by_threads[here]) :
           results_by_threads'[here][i] = results_by_threads[here][i]
      /\ \A c \in Configuration \ {here} : results_by_threads'[c] = results_by_threads[c]
  BY <1>1, <1>2, <1>3
<1>5. returned.result.exact_label_eligible => Answers(returned.trail, request)
  BY DEF IInv, LabelIsEarned
<1>6. ASSUME NEW c \in Configuration, NEW i \in 1 .. Len(results_by_threads'[c]),
             results_by_threads'[c][i].result.exact_label_eligible
      PROVE  Answers(results_by_threads'[c][i].trail, request')
  <2>1. CASE c = here /\ i = Len(results_by_threads[here]) + 1
    BY <1>1, <1>4, <1>5, <1>6, <2>1
  <2>2. CASE c = here /\ i # Len(results_by_threads[here]) + 1
    <3>1. Len(results_by_threads[here]) \in Nat
      BY <1>1, <1>2
    <3>2. i \in 1 .. Len(results_by_threads[here])
      BY <1>4, <2>2, <3>1
    <3> QED BY <1>1, <1>4, <1>6, <2>2, <3>2 DEF LoopInv
  <2>3. CASE c # here
    BY <1>1, <1>4, <1>6, <2>3 DEF LoopInv
  <2> QED BY <2>1, <2>2, <2>3
<1>7. CASE position = 1
  <2>1. position' = 2 /\ repetition' = repetition /\ ThreadOrder' = ThreadOrder
    BY <1>7 DEF Collect, Advance, ThreadOrder
  <2>2. here = ThreadOrder[1] /\ ThreadOrder[2] \in Configuration \ {here}
    BY <1>7, Orders DEF here
  <2>3. \A c \in Configuration : Len(results_by_threads[c]) = repetition
    BY <1>7 DEF LoopInv
  <2>4. /\ Len(results_by_threads'[ThreadOrder'[1]]) = repetition' + 1
        /\ Len(results_by_threads'[ThreadOrder'[2]]) = repetition'
    BY <1>2, <1>4, <2>1, <2>2, <2>3
  <2> QED BY <1>1, <1>4, <1>6, <2>1, <2>4 DEF LoopInv
<1>8. CASE position = 2
  <2>1. position' = 1 /\ repetition' = repetition + 1
    BY <1>8 DEF Collect, Advance
  <2>2. here = ThreadOrder[2] /\ Configuration \ {here} = {ThreadOrder[1]}
    BY <1>8, Orders DEF here
  <2>3. /\ Len(results_by_threads[ThreadOrder[1]]) = repetition + 1
        /\ Len(results_by_threads[here]) = repetition
    BY <1>8, <2>2 DEF LoopInv
  <2>4. \A c \in Configuration : Len(results_by_threads'[c]) = repetition'
    BY <1>4, <2>1, <2>2, <2>3
  <2> QED BY <1>1, <1>4, <1>6, <2>1, <2>4 DEF LoopInv
<1> QED BY <1>1, <1>7, <1>8

LEMMA LoopUntouched ==
  ASSUME LoopInv, ReportInv, UNCHANGED <<loop, request>>
  PROVE  LoopInv' /\ (UNCHANGED <<exit_code, report>> => ReportInv')
<1>1. LoopInv'
  BY DEF LoopInv, loop, ThreadOrder, Answers
<1>2. ASSUME UNCHANGED <<exit_code, report>> PROVE ReportInv'
  BY <1>2 DEF ReportInv, loop, CheckedSummary, Semantics
<1> QED BY <1>1, <1>2

\* A run keeps its request.
LEMMA RunKeepsRequest == RunStep => UNCHANGED request
BY DEF RunStep, RunOwnStep, RunProcessExits, RequestRejected, PreparationSucceeds,
       PreparationFails, ProbeTimesOut, CompileSucceeds, CompileFails, CompileTimesOut,
       CompileRaises, LimitRefused, SolveTimesOut, SolveExitsNonzero, SolveRaises, MarkerRejected, NoModelPrinted,
       ModelDecoded, ModelRejected, ModelPersisted, PersistFails, Goto, Return, Raise

LEMMA LoopInvariant == Spec => [](RunTypeOK /\ LoopInv /\ ReportInv)
<1>1. Init => RunTypeOK /\ LoopInv /\ ReportInv
  <2> SUFFICES ASSUME Init PROVE RunTypeOK /\ LoopInv /\ ReportInv
    OBVIOUS
  <2>1. PlainResult("ERROR") \in SolverResult
    BY PlainResultIsWellTyped DEF SolverStatus
  <2>2. RunTypeOK
    BY <2>1, ComparisonAssumption DEF Init, RunTypeOK, NotRun, FileVersion
  <2>3. LoopInv /\ ReportInv
    <3>1. /\ results_by_threads \in [Configuration -> Seq(ControlledRuns)]
          /\ \A c \in Configuration : Len(results_by_threads[c]) = 0
      BY DEF Init
    <3>2. repetition = 0 /\ position = 1 /\ 0 \in 0 .. Repetitions /\ Repetitions # 0
      BY ComparisonAssumption DEF Init
    <3>3. LoopInv
      BY <3>1, <3>2 DEF LoopInv
    <3> QED BY <3>3 DEF Init, ReportInv, NoExit
  <2> QED BY <2>2, <2>3
<1>2. IInv /\ RunTypeOK /\ LoopInv /\ ReportInv /\ [Next]_vars
        => RunTypeOK' /\ LoopInv' /\ ReportInv'
  <2> SUFFICES ASSUME IInv, RunTypeOK, LoopInv, ReportInv, [Next]_vars
               PROVE  RunTypeOK' /\ LoopInv' /\ ReportInv'
    OBVIOUS
  <2>1. ASSUME Call, UNCHANGED request PROVE RunTypeOK'
    <3>1. PlainResult("ERROR") \in SolverResult
      BY PlainResultIsWellTyped DEF SolverStatus
    <3> QED BY <2>1, <3>1 DEF Call, RunTypeOK, NotRun
  <2>2. ASSUME UNCHANGED run PROVE RunTypeOK'
    BY <2>2 DEF run, RunTypeOK
  <2>3. CASE FirstCall
    BY <2>1, <2>3, LoopUntouched DEF FirstCall
  <2>4. CASE OwnWork \/ ProcessExits
    <3>0. RunStep /\ UNCHANGED <<loop, exit_code, report>>
      BY <2>4 DEF OwnWork, ProcessExits, RunStep
    <3>1. UNCHANGED request
      BY <3>0, RunKeepsRequest
    <3> QED BY <3>0, <3>1, RunStepIsWellTyped, LoopUntouched
  <2>5. CASE Collect
    <3>1. RunTypeOK'
      BY <2>1, <2>2, <2>5 DEF Collect, run
    <3>2. repetition # Repetitions /\ UNCHANGED <<exit_code, report>>
      BY <2>5, ComparisonAssumption DEF Collect, LoopLeft
    <3>3. report = FALSE
      BY <3>2 DEF ReportInv
    <3>4. ReportInv'
      BY <3>2, <3>3 DEF ReportInv
    <3> QED BY <2>5, <3>1, <3>4, CollectKeepsLoop
  <2>6. CASE RunRaised
    BY <2>2, <2>6, LoopUntouched DEF RunRaised, run, ReportInv, loop, CheckedSummary, Semantics
  <2>7. CASE Report
    <3>1. LoopInv' /\ RunTypeOK'
      BY <2>2, <2>7, LoopUntouched DEF Report, run
    <3>2. ReportInv'
      <4>1. /\ report' = \A c \in Configuration : CheckedSummary(results_by_threads[c])
            /\ exit_code' = (IF report' THEN 0 ELSE 1)
            /\ repetition = Repetitions /\ UNCHANGED <<results_by_threads, repetition>>
        BY <2>7 DEF Report, loop
      <4>2. report' \in BOOLEAN
        BY <4>1
      <4>3. exit_code' \in {0, 1}
        BY <4>1
      <4>4. (\A c \in Configuration : CheckedSummary(results_by_threads[c]))'
              <=> \A c \in Configuration : CheckedSummary(results_by_threads[c])
        <5>1. ASSUME NEW c \in Configuration
              PROVE  CheckedSummary(results_by_threads[c])' <=> CheckedSummary(results_by_threads[c])
          <6>1. results_by_threads' = results_by_threads
            BY <4>1
          <6> QED BY <6>1 DEF CheckedSummary, Semantics
        <5> QED BY <5>1
      <4> QED BY <4>1, <4>2, <4>3, <4>4 DEF ReportInv
    <3> QED BY <3>1, <3>2
  <2>8. CASE UNCHANGED vars
    BY <2>2, <2>8, LoopUntouched DEF vars, run
  <2> QED BY <2>3, <2>4, <2>5, <2>6, <2>7, <2>8 DEF Next, OwnStep
<1> QED BY <1>1, <1>2, InvIsInvariant, PTL DEF Spec

\* The types of the script and of the run it is in.
THEOREM TypeCorrect == Spec => []TypeOK
<1>1. RunTypeOK /\ LoopInv /\ ReportInv => TypeOK
  <2> SUFFICES ASSUME RunTypeOK, LoopInv, ReportInv PROVE TypeOK
    OBVIOUS
  <2>1. ASSUME NEW c \in Configuration, NEW i \in DOMAIN results_by_threads[c]
        PROVE  results_by_threads[c][i].result \in SolverResult
    <3>1. results_by_threads[c] \in Seq(ControlledRuns)
      BY DEF LoopInv
    <3>2. results_by_threads[c][i] \in ControlledRuns
      BY <3>1
    <3> QED BY <3>2 DEF ControlledRuns
  <2> QED BY <2>1 DEF TypeOK, LoopInv, ReportInv
<1> QED BY <1>1, LoopInvariant, PTL

\* A printed comparison rests on equally many runs of both configurations, each
\* of which found a trail that answers the request.
THEOREM ComparisonsAreVerified == Spec => []ReportIsVerified
<1>1. LoopInv /\ ReportInv => ReportIsVerified
  <2> SUFFICES ASSUME LoopInv, ReportInv, report, NEW c \in Configuration
               PROVE  /\ Len(results_by_threads[c]) = Repetitions
                      /\ \A i \in 1 .. Repetitions :
                           Answers(results_by_threads[c][i].trail, request)
    BY DEF ReportIsVerified
  <2>1. repetition = Repetitions /\ CheckedSummary(results_by_threads[c])
    BY DEF ReportInv
  <2>2. /\ results_by_threads[c] \in Seq(ControlledRuns)
        /\ Len(results_by_threads[c]) = Repetitions
    BY <2>1 DEF LoopInv
  <2>3. DOMAIN results_by_threads[c] = 1 .. Repetitions /\ 1 \in 1 .. Repetitions
    BY <2>2, ComparisonAssumption
  <2>4. ASSUME NEW i \in 1 .. Repetitions
        PROVE  Answers(results_by_threads[c][i].trail, request)
    <3>1. Semantics(results_by_threads[c][i].result) = Semantics(results_by_threads[c][1].result)
      BY <2>1, <2>3 DEF CheckedSummary
    <3>2. results_by_threads[c][1].result.exact_label_eligible
      BY <2>1 DEF CheckedSummary
    <3>3. results_by_threads[c][i].result.exact_label_eligible
      BY <3>1, <3>2 DEF Semantics
    <3> QED BY <2>2, <3>3 DEF LoopInv
  <2> QED BY <2>2, <2>4
<1> QED BY <1>1, LoopInvariant, PTL
==============================================================================
