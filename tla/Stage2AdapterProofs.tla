------------------------- MODULE Stage2AdapterProofs -------------------------
(***************************************************************************)
(* Proofs about Stage2Adapter for every corpus size, every pair of limits, *)
(* every compile guard and every number of upstream edits.  The inductive  *)
(* invariant is the conjunction of the type invariant, LaunchInv, TimeInv, *)
(* FlagInv and ProvenanceInv below.                                        *)
(***************************************************************************)
EXTENDS Stage2Adapter, TLAPS

USE DEF Keys

\* Compiler and program are launched only with budget left, and the budget is
\* not read again while they run: the limit they got is the one that was checked.
LaunchInv ==
  /\ pc \in {"compiling", "querying"} => BudgetLeft
  /\ pc = "querying" => key_index < KeyCount

Preparing ==
  {"read_source", "parse_trail", "probe_tools", "copy_inputs", "compile", "compiling"}

\* The clock is bounded phase by phase: nothing has happened before the tool
\* probes, and whatever ran later was limited by what was left of the budget.
TimeInv ==
  /\ pc \in {"read_source", "parse_trail", "probe_tools"} => elapsed = 0
  /\ pc \in {"copy_inputs", "compile"} => elapsed <= PrepBound
  /\ pc \in Preparing => key_index = 0
  /\ WallTimeBounded

\* The flag is set only once the budget is gone; while it is not, every key
\* recorded so far was launched, and was cut off only after a full allotment.
FlagInv ==
  /\ total_time_budget_exhausted => elapsed >= TotalLimit
  /\ ~total_time_budget_exhausted =>
       \A k \in Keys : k < key_index =>
         /\ results[k].execution_state = "ran"
         /\ results[k].status = "TIMEOUT" => results[k].wall_time_s >= PerKeyLimit
  /\ pc \in Preparing => key_index = 0 /\ ~total_time_budget_exhausted
  /\ pc \in {"observe", "done"} => key_index = KeyCount

\* The bytes held in memory are the pinned program from the first read on, and the
\* build root holds those same bytes before any key can run.
ProvenanceInv ==
  /\ pc \notin {"read_source", "raised"} => source = "pinned"
  /\ pc \in {"compile", "compiling", "keys", "querying", "observe", "done"} =>
       built_source = "pinned"
  /\ key_index > 0 => built_source = "pinned"
  /\ pc = "done" => source_sha256 = Sha256("pinned")

------------------------------------------------------------------------------

\* What the adapter stores is always a result its own validators accept.
LEMMA ResultsAreWellTyped ==
  /\ PendingResult \in ResultType
  /\ NotStartedTotalBudgetResult \in ResultType
  /\ ValidResult(NotStartedTotalBudgetResult)
BY DEF PendingResult, NotStartedTotalBudgetResult, ResultType, ValidResult, Result,
       SolverStatus, NativeStatus, NoStatus

LEMMA RanResultIsWellTyped ==
  ASSUME NEW s \in SolverStatus, NEW w \in Nat,
         NEW d \in {"exhausted_during_key", "per_key_timeout", "process_error", "native"}
  PROVE  Result("ran", s, w, d) \in ResultType /\ ValidResult(Result("ran", s, w, d))
BY DEF ResultType, ValidResult, Result, SolverStatus, NativeStatus, NoStatus

\* Recording every remaining key as unstarted keeps the results well formed.
LEMMA SkipKeepsResults ==
  ASSUME TypeOK, SkipRemainingKeys
  PROVE  /\ results' \in [Keys -> ResultType]
         /\ key_index' \in 0 .. KeyCount
         /\ \A k \in Keys : ValidResult(results'[k])
BY ResultsAreWellTyped, Stage2Assumption DEF TypeOK, SkipRemainingKeys

\* Recording one key keeps the results well formed.
LEMMA RecordKeepsResults ==
  ASSUME TypeOK, key_index < KeyCount, NEW r \in ResultType, ValidResult(r), RecordKey(r)
  PROVE  /\ results' \in [Keys -> ResultType]
         /\ key_index' \in 0 .. KeyCount
         /\ \A k \in Keys : IF k < key_index' THEN ValidResult(results'[k])
                                              ELSE results'[k] = PendingResult
<1>1. key_index \in Keys
  BY Stage2Assumption DEF TypeOK
<1>2. results' = [results EXCEPT ![key_index] = r] /\ key_index' = key_index + 1
  BY DEF RecordKey
<1>3. results' \in [Keys -> ResultType] /\ key_index' \in 0 .. KeyCount
  BY <1>1, <1>2, Stage2Assumption DEF TypeOK
<1>4. ASSUME NEW k \in Keys
      PROVE  IF k < key_index' THEN ValidResult(results'[k])
                               ELSE results'[k] = PendingResult
  <2>1. CASE k = key_index
    BY <1>1, <1>2, <2>1 DEF TypeOK
  <2>2. CASE k # key_index
    <3>1. results'[k] = results[k] /\ (k < key_index' <=> k < key_index)
      BY <1>1, <1>2, <2>2, Stage2Assumption DEF TypeOK
    <3> QED BY <3>1 DEF TypeOK
  <2> QED BY <2>1, <2>2
<1> QED BY <1>3, <1>4

------------------------------------------------------------------------------
(* Launching *)

LEMMA LaunchInvIsInvariant == Spec => []LaunchInv
<1>1. Init => LaunchInv
  BY DEF Init, LaunchInv
<1>2. LaunchInv /\ [Next]_vars => LaunchInv'
  <2> SUFFICES ASSUME LaunchInv, [Next]_vars PROVE LaunchInv'
    OBVIOUS
  <2> USE DEF LaunchInv, BudgetLeft, Remaining
  <2>1. CASE LaunchCompiler \/ LaunchKey
    BY <2>1 DEF LaunchCompiler, LaunchKey, KeysLeft
  <2>2. CASE UpstreamEdit \/ UNCHANGED vars
    BY <2>2 DEF UpstreamEdit, vars
  <2>3. CASE OwnStep /\ ~LaunchCompiler /\ ~LaunchKey
    <3>1. pc' \notin {"compiling", "querying"}
      BY <2>3 DEF OwnStep, ReadSource, RejectSource, ParseTrail, RejectTrail, ProbeTimesOut,
                  CopyInputs, CopyFails, CompileSkipped, CompileTimesOut, BudgetGoneBeforeKey,
                  KeyTimesOut, KeysDone, BuildObservation, ObservationFails,
                  SkipRemainingKeys, RecordKey, Raise
    <3> QED BY <3>1
  <2>4. CASE ProcessExits
    <3>1. pc' \notin {"compiling", "querying"}
      BY <2>4 DEF ProcessExits, ProbeTools, ProbeFails, CompileFails, CompileSucceeds,
                  KeyExits, KeyRaises, RecordKey, Raise
    <3> QED BY <3>1
  <2> QED BY <2>1, <2>2, <2>3, <2>4 DEF Next
<1> QED BY <1>1, <1>2, PTL DEF Spec

------------------------------------------------------------------------------
(* Type correctness *)

\* The variables keep their types, exactly the keys before the cursor carry a
\* result, and every stored result passes Gift64Stage2KeyResult's validator.
THEOREM TypeCorrect == Spec => []TypeOK
<1>1. Init => TypeOK
  <2> SUFFICES ASSUME Init PROVE TypeOK
    OBVIOUS
  <2>1. results \in [Keys -> ResultType]
    BY ResultsAreWellTyped DEF Init
  <2>2. \A k \in Keys : ~(k < key_index) /\ results[k] = PendingResult
    BY Stage2Assumption DEF Init
  <2>3. key_index \in 0 .. KeyCount /\ edits \in 0 .. MaxEdits
    BY Stage2Assumption DEF Init
  <2> QED BY <2>1, <2>2, <2>3 DEF Init, TypeOK, FileVersion
<1>2. TypeOK /\ LaunchInv /\ [Next]_vars => TypeOK'
  <2> SUFFICES ASSUME TypeOK, LaunchInv, [Next]_vars PROVE TypeOK'
    OBVIOUS
  <2> USE Stage2Assumption
  <2>1. CASE ReadSource
    BY <2>1 DEF ReadSource, TypeOK, FileVersion, digests, environment
  <2>2. CASE RejectSource \/ RejectTrail \/ ObservationFails
    BY <2>2 DEF RejectSource, RejectTrail, ObservationFails, Raise, TypeOK,
                inputs, digests, environment
  <2>3. CASE ParseTrail
    BY <2>3 DEF ParseTrail, TypeOK, inputs, digests, environment
  <2>4. CASE CopyInputs
    <3>1. elapsed' \in Nat /\ built_trail' \in FileVersion
      BY <2>4 DEF CopyInputs, TypeOK, environment, FileVersion
    <3>2. built_source' \in FileVersion
      BY <2>4 DEF CopyInputs, TypeOK, environment, FileVersion
    <3> QED BY <2>4, <3>1, <3>2 DEF CopyInputs, TypeOK, digests, environment
  <2>5. CASE ProbeFails \/ ProbeTimesOut \/ CopyFails
    <3>1. Raise /\ elapsed' \in Nat
      BY <2>5 DEF ProbeFails, ProbeTimesOut, CopyFails, TypeOK
    <3> QED BY <3>1 DEF Raise, TypeOK, inputs, digests, environment
  <2>6. CASE CompileSkipped
    <3>1. SkipRemainingKeys BY <2>6 DEF CompileSkipped
    <3> QED BY <2>6, <3>1, SkipKeepsResults
            DEF CompileSkipped, SkipRemainingKeys, TypeOK, inputs, digests, environment
  <2>7. CASE CompileTimesOut
    <3>1. elapsed' \in Nat
      BY <2>7 DEF CompileTimesOut, CompileTimeout, Remaining, Lesser, BudgetLeft,
                  LaunchInv, TypeOK
    <3>2. CASE SkipRemainingKeys
      BY <2>7, <3>1, <3>2, SkipKeepsResults
      DEF SkipRemainingKeys, TypeOK, inputs, digests, environment
    <3>3. CASE Raise
      BY <2>7, <3>1, <3>3 DEF Raise, TypeOK, inputs, digests, environment
    <3> QED BY <2>7, <3>2, <3>3 DEF CompileTimesOut
  <2>8. CASE CompileFails
    BY <2>8 DEF CompileFails, CompileTimeout, Remaining, Lesser, BudgetLeft, LaunchInv,
                Raise, TypeOK,
                inputs, digests, environment
  <2>9. CASE CompileSucceeds
    BY <2>9 DEF CompileSucceeds, CompileTimeout, Remaining, Lesser, BudgetLeft, LaunchInv, TypeOK,
                inputs, digests, environment
  <2>10. CASE BudgetGoneBeforeKey
    <3>1. SkipRemainingKeys BY <2>10 DEF BudgetGoneBeforeKey
    <3> QED BY <2>10, <3>1, SkipKeepsResults
            DEF BudgetGoneBeforeKey, SkipRemainingKeys, TypeOK, inputs, digests, environment
  <2>11. CASE KeyTimesOut
    <3>1. PICK d \in 0 .. Slack :
            /\ elapsed' = elapsed + KeyTimeLimit + d
            /\ RecordKey(Result("ran", "TIMEOUT", KeyTimeLimit + d, TimeoutReason))
      BY <2>11 DEF KeyTimesOut
    <3>2. KeyTimeLimit \in Nat
      BY <2>11 DEF KeyTimesOut, KeyTimeLimit, Remaining, Lesser, BudgetLeft, LaunchInv, TypeOK
    <3> DEFINE r == Result("ran", "TIMEOUT", KeyTimeLimit + d, TimeoutReason)
    <3>3. r \in ResultType /\ ValidResult(r)
      <4>1. KeyTimeLimit + d \in Nat BY <3>2
      <4>2. TimeoutReason \in {"exhausted_during_key", "per_key_timeout"}
        BY DEF TimeoutReason
      <4> QED BY <4>1, <4>2, RanResultIsWellTyped DEF SolverStatus
    <3>4. key_index < KeyCount /\ RecordKey(r)
      BY <2>11, <3>1 DEF KeyTimesOut, LaunchInv
    <3>5. elapsed' \in Nat
      BY <3>1, <3>2 DEF TypeOK
    <3> HIDE DEF r
    <3> QED BY <2>11, <3>3, <3>4, <3>5, RecordKeepsResults
            DEF KeyTimesOut, RecordKey, TypeOK, inputs, digests, environment
  <2>12. CASE KeyExits
    <3>1. PICK d \in 0 .. KeyTimeLimit + Slack, status \in NativeStatus \cup {"ERROR"} :
            /\ elapsed' = elapsed + d
            /\ RecordKey(Result("ran", status, d,
                               IF status = "ERROR" THEN "process_error" ELSE "native"))
      BY <2>12 DEF KeyExits
    <3>2. KeyTimeLimit \in Nat
      BY <2>12 DEF KeyExits, KeyTimeLimit, Remaining, Lesser, BudgetLeft, LaunchInv, TypeOK
    <3> DEFINE r == Result("ran", status, d,
                           IF status = "ERROR" THEN "process_error" ELSE "native")
    <3>3. r \in ResultType /\ ValidResult(r)
      <4>1. d \in Nat BY <3>2
      <4>2. status \in SolverStatus BY DEF SolverStatus
      <4>3. (IF status = "ERROR" THEN "process_error" ELSE "native")
              \in {"process_error", "native"}
        OBVIOUS
      <4> QED BY <4>1, <4>2, <4>3, RanResultIsWellTyped
    <3>4. key_index < KeyCount /\ RecordKey(r)
      BY <2>12, <3>1 DEF KeyExits, LaunchInv
    <3>5. elapsed' \in Nat
      BY <3>1, <3>2 DEF TypeOK
    <3> HIDE DEF r
    <3> QED BY <2>12, <3>3, <3>4, <3>5, RecordKeepsResults
            DEF KeyExits, RecordKey, TypeOK, inputs, digests, environment
  <2>13. CASE KeyRaises
    BY <2>13 DEF KeyRaises, KeyTimeLimit, Remaining, Lesser, BudgetLeft, LaunchInv, Raise, TypeOK,
                 inputs, digests, environment
  <2>14. CASE KeysDone
    BY <2>14 DEF KeysDone, TypeOK, inputs, digests, environment
  <2>15. CASE BuildObservation
    BY <2>15 DEF BuildObservation, TypeOK, inputs, environment, FileVersion
  <2>16. CASE UpstreamEdit
    BY <2>16 DEF UpstreamEdit, TypeOK, inputs, digests
  <2>17. CASE UNCHANGED vars
    BY <2>17 DEF vars, TypeOK, inputs, digests, environment
  <2>18. CASE ProbeTools \/ LaunchCompiler \/ LaunchKey
    <3>1. elapsed' \in Nat /\ pc' \in {"copy_inputs", "compiling", "querying"}
      BY <2>18 DEF ProbeTools, LaunchCompiler, LaunchKey, TypeOK
    <3>2. UNCHANGED <<results, key_index, total_time_budget_exhausted,
                      inputs, digests, environment>>
      BY <2>18 DEF ProbeTools, LaunchCompiler, LaunchKey
    <3> QED BY <3>1, <3>2 DEF TypeOK, inputs, digests, environment
  <2> QED
    BY <2>1, <2>2, <2>3, <2>4, <2>5, <2>6, <2>7, <2>8, <2>9, <2>10, <2>11, <2>12,
       <2>13, <2>14, <2>15, <2>16, <2>17, <2>18 DEF Next, OwnStep, ProcessExits
<1> QED BY <1>1, <1>2, LaunchInvIsInvariant, PTL DEF Spec

------------------------------------------------------------------------------
(* The wall-time bound *)

\* Facts about the limits every timed action uses.
LEMMA LimitsFitTheBudget ==
  ASSUME TypeOK, BudgetLeft
  PROVE  /\ CompileTimeout \in Nat /\ elapsed + CompileTimeout <= TotalLimit
         /\ KeyTimeLimit \in Nat /\ elapsed + KeyTimeLimit <= TotalLimit
         /\ CompileTimeoutExhaustedTotalBudget => elapsed + CompileTimeout = TotalLimit
         /\ Remaining < PerKeyLimit => elapsed + KeyTimeLimit = TotalLimit
         /\ ~(Remaining < PerKeyLimit) => KeyTimeLimit = PerKeyLimit
BY Stage2Assumption
DEF TypeOK, BudgetLeft, CompileTimeout, KeyTimeLimit, Remaining, Lesser,
    CompileTimeoutExhaustedTotalBudget

\* Nothing has run while the cursor is at the first key, and skipping the keys
\* that are left launches none of them.
LEMMA StartHasNoRun ==
  ASSUME TypeOK, key_index = 0
  PROVE  \A k \in Keys : results[k].execution_state # "ran"
BY Stage2Assumption DEF TypeOK, Keys, PendingResult, Result

LEMMA SkippingRunsNothing ==
  ASSUME SkipRemainingKeys
  PROVE  SomeKeyRan' => SomeKeyRan
<1>1. ASSUME NEW k \in Keys, results'[k].execution_state = "ran"
      PROVE  results[k].execution_state = "ran"
  BY <1>1 DEF SkipRemainingKeys, NotStartedTotalBudgetResult, Result
<1> QED BY <1>1 DEF SomeKeyRan

\* However long tools, compiler and solver take, the run ends within its budget
\* plus the reaping of one process: no process gets more than what is left.
THEOREM WallTimeIsBounded == Spec => []WallTimeBounded
<1>1. Init => TimeInv
  BY Stage2Assumption DEF Init, TimeInv, Preparing, WallTimeBounded, SomeKeyRan,
                          PendingResult, Result, Greater
<1>2. TypeOK /\ LaunchInv /\ TimeInv /\ [Next]_vars => TimeInv'
  <2> SUFFICES ASSUME TypeOK, LaunchInv, TimeInv, [Next]_vars PROVE TimeInv'
    OBVIOUS
  <2> USE Stage2Assumption DEF TimeInv, Preparing, WallTimeBounded, Greater
  <2>1. CASE ReadSource \/ ParseTrail \/ RejectSource \/ RejectTrail \/ ObservationFails
    BY <2>1 DEF ReadSource, ParseTrail, RejectSource, RejectTrail, ObservationFails, Raise,
                SomeKeyRan
  <2>2. CASE ProbeTools \/ ProbeFails \/ ProbeTimesOut \/ CopyInputs \/ CopyFails
    <3>1. /\ elapsed' \in Nat /\ elapsed' <= PrepBound /\ key_index' = key_index
          /\ results' = results /\ pc' \in {"copy_inputs", "compile", "raised"}
      BY <2>2 DEF ProbeTools, ProbeFails, ProbeTimesOut, CopyInputs, CopyFails, Raise, TypeOK
    <3>2. key_index = 0
      BY <2>2 DEF ProbeTools, ProbeFails, ProbeTimesOut, CopyInputs, CopyFails
    <3>3. ~SomeKeyRan'
      BY <3>1, <3>2, StartHasNoRun DEF SomeKeyRan
    <3> QED BY <3>1, <3>2, <3>3
  <2>8. CASE LaunchCompiler \/ LaunchKey
    <3>1. UNCHANGED <<elapsed, results, key_index>> /\ pc' \in {"compiling", "querying"}
      BY <2>8 DEF LaunchCompiler, LaunchKey
    <3>2. pc' = "compiling" => pc = "compile"
      BY <2>8 DEF LaunchCompiler, LaunchKey
    <3> QED BY <3>1, <3>2 DEF SomeKeyRan
  <2>3. CASE CompileSkipped \/ BudgetGoneBeforeKey
    <3>1. elapsed' = elapsed /\ pc' = "observe"
      BY <2>3 DEF CompileSkipped, BudgetGoneBeforeKey, SkipRemainingKeys
    <3>2. SomeKeyRan' => SomeKeyRan
      BY <2>3, SkippingRunsNothing DEF CompileSkipped, BudgetGoneBeforeKey
    <3> QED BY <3>1, <3>2 DEF TypeOK
  <2>4. CASE CompileTimesOut \/ CompileFails \/ CompileSucceeds
    <3>1. BudgetLeft
      BY <2>4 DEF CompileTimesOut, CompileFails, CompileSucceeds, LaunchInv
    <3>2. elapsed \in Nat /\ CompileTimeout \in Nat /\ elapsed + CompileTimeout <= TotalLimit
      BY <3>1, LimitsFitTheBudget DEF TypeOK
    <3>4. elapsed' \in Nat /\ elapsed' <= TotalLimit + Slack
      <4>1. CASE CompileTimesOut
        BY <3>2, <4>1 DEF CompileTimesOut
      <4>2. CASE CompileFails
        BY <3>2, <4>2 DEF CompileFails
      <4>3. CASE CompileSucceeds
        BY <3>2, <4>3 DEF CompileSucceeds
      <4> QED BY <2>4, <4>1, <4>2, <4>3
    <3>3. pc' \in {"observe", "raised", "keys"}
      BY <2>4 DEF CompileTimesOut, CompileFails, CompileSucceeds, SkipRemainingKeys, Raise
    <3>5. pc' = "keys" => key_index' = key_index
      BY <2>4 DEF CompileTimesOut, CompileFails, CompileSucceeds, SkipRemainingKeys, Raise
    <3> QED BY <3>3, <3>4, <3>5
  <2>5. CASE KeyTimesOut \/ KeyExits \/ KeyRaises
    <3>1. BudgetLeft
      BY <2>5 DEF KeyTimesOut, KeyExits, KeyRaises, LaunchInv
    <3>2. PICK d \in Nat : d <= KeyTimeLimit + Slack /\ elapsed' = elapsed + d
      <4>1. CASE KeyTimesOut
        <5>1. PICK e \in 0 .. Slack : elapsed' = elapsed + KeyTimeLimit + e
          BY <4>1 DEF KeyTimesOut
        <5>2. KeyTimeLimit \in Nat /\ elapsed \in Nat
          BY <3>1, LimitsFitTheBudget DEF TypeOK
        <5>3. KeyTimeLimit + e \in Nat /\ KeyTimeLimit + e <= KeyTimeLimit + Slack
              /\ elapsed' = elapsed + (KeyTimeLimit + e)
          BY <5>1, <5>2
        <5> QED BY <5>3
      <4>2. CASE KeyExits
        BY <3>1, <4>2, LimitsFitTheBudget DEF KeyExits
      <4>3. CASE KeyRaises
        BY <3>1, <4>3, LimitsFitTheBudget DEF KeyRaises
      <4> QED BY <2>5, <4>1, <4>2, <4>3
    <3>4. elapsed' \in Nat /\ elapsed' <= TotalLimit + Slack
      BY <3>1, <3>2, LimitsFitTheBudget DEF TypeOK
    <3>3. pc' \in {"keys", "raised"}
      BY <2>5, <3>1 DEF KeyTimesOut, KeyExits, KeyRaises, RecordKey, Raise
    <3> QED BY <3>3, <3>4
  <2>6. CASE KeysDone \/ BuildObservation
    BY <2>6 DEF KeysDone, BuildObservation, SomeKeyRan
  <2>7. CASE UpstreamEdit \/ UNCHANGED vars
    BY <2>7 DEF UpstreamEdit, vars, SomeKeyRan
  <2> QED BY <2>1, <2>2, <2>3, <2>4, <2>5, <2>6, <2>7, <2>8
         DEF Next, OwnStep, ProcessExits
<1>3. TimeInv => WallTimeBounded
  BY DEF TimeInv
<1> QED BY <1>1, <1>2, <1>3, TypeCorrect, LaunchInvIsInvariant, PTL DEF Spec

------------------------------------------------------------------------------
(* The budget flag *)

\* total_time_budget_exhausted is exact: set only when the budget had run out,
\* and clear only when no key was skipped or denied part of its allotment.
THEOREM BudgetFlagIsExact == Spec => []BudgetFlagExact
<1>1. Init => FlagInv
  BY DEF Init, FlagInv
<1>2. TypeOK /\ LaunchInv /\ FlagInv /\ [Next]_vars => FlagInv'
  <2> SUFFICES ASSUME TypeOK, LaunchInv, FlagInv, [Next]_vars PROVE FlagInv'
    OBVIOUS
  <2> USE Stage2Assumption DEF Preparing
  <2>1. CASE ReadSource \/ ParseTrail \/ RejectSource \/ RejectTrail \/ ObservationFails
             \/ CopyInputs \/ CopyFails
    BY <2>1 DEF ReadSource, ParseTrail, RejectSource, RejectTrail, ObservationFails,
                CopyInputs, CopyFails, Raise, FlagInv, TypeOK
  <2>10. CASE ProbeTools \/ ProbeFails \/ ProbeTimesOut
    <3>1. elapsed' \in Nat /\ elapsed' >= elapsed
      BY <2>10 DEF ProbeTools, ProbeFails, ProbeTimesOut, TypeOK
    <3> QED BY <2>10, <3>1 DEF ProbeTools, ProbeFails, ProbeTimesOut, Raise, FlagInv, TypeOK
  <2>11. CASE LaunchCompiler \/ LaunchKey
    BY <2>11 DEF LaunchCompiler, LaunchKey, FlagInv
  <2>2. CASE CompileSkipped \/ BudgetGoneBeforeKey
    BY <2>2 DEF CompileSkipped, BudgetGoneBeforeKey, SkipRemainingKeys, BudgetLeft,
                Remaining, FlagInv, TypeOK
  <2>3. CASE CompileTimesOut
    <3>1. elapsed' \in Nat /\ (CompileTimeoutExhaustedTotalBudget => elapsed' >= TotalLimit)
      BY <2>3, LimitsFitTheBudget DEF CompileTimesOut, LaunchInv, TypeOK
    <3>2. CASE CompileTimeoutExhaustedTotalBudget
      BY <2>3, <3>1, <3>2 DEF CompileTimesOut, SkipRemainingKeys, FlagInv
    <3>3. CASE ~CompileTimeoutExhaustedTotalBudget
      BY <2>3, <3>1, <3>3 DEF CompileTimesOut, Raise, FlagInv
    <3> QED BY <3>2, <3>3
  <2>4. CASE CompileFails \/ CompileSucceeds
    <3>1. elapsed' \in Nat /\ elapsed' >= elapsed
      BY <2>4, LimitsFitTheBudget DEF CompileFails, CompileSucceeds, LaunchInv, TypeOK
    <3> QED BY <2>4, <3>1 DEF CompileFails, CompileSucceeds, Raise, FlagInv, TypeOK
  <2>5. CASE KeyTimesOut
    <3>1. PICK d \in 0 .. Slack :
            /\ elapsed' = elapsed + KeyTimeLimit + d
            /\ RecordKey(Result("ran", "TIMEOUT", KeyTimeLimit + d, TimeoutReason))
      BY <2>5 DEF KeyTimesOut
    <3> DEFINE r == Result("ran", "TIMEOUT", KeyTimeLimit + d, TimeoutReason)
    <3>2. /\ KeyTimeLimit \in Nat
          /\ Remaining < PerKeyLimit => elapsed' >= TotalLimit
          /\ ~(Remaining < PerKeyLimit) => r.wall_time_s >= PerKeyLimit
          /\ elapsed' >= elapsed
      <4>1. /\ KeyTimeLimit \in Nat /\ elapsed \in Nat
            /\ Remaining < PerKeyLimit => elapsed + KeyTimeLimit = TotalLimit
            /\ ~(Remaining < PerKeyLimit) => KeyTimeLimit = PerKeyLimit
        BY <2>5, LimitsFitTheBudget DEF KeyTimesOut, LaunchInv, TypeOK
      <4>2. r.wall_time_s = KeyTimeLimit + d
        BY DEF Result
      <4> HIDE DEF r
      <4> QED BY <3>1, <4>1, <4>2
    <3>3. r.execution_state = "ran"
      BY DEF Result
    <3>4. pc' = "keys" /\ key_index \in Keys /\ key_index' = key_index + 1
          /\ results' = [results EXCEPT ![key_index] = r]
      <4>1. key_index \in Keys
        BY <2>5 DEF KeyTimesOut, LaunchInv, TypeOK
      <4>2. RecordKey(r)
        BY <3>1
      <4> HIDE DEF r
      <4> QED BY <4>1, <4>2 DEF RecordKey
    <3>5. total_time_budget_exhausted' =
            (total_time_budget_exhausted \/ Remaining < PerKeyLimit)
      BY <2>5 DEF KeyTimesOut
    <3> HIDE DEF r
    <3>6. total_time_budget_exhausted' => elapsed' >= TotalLimit
      BY <3>1, <3>2, <3>5 DEF FlagInv, TypeOK
    <3>7. ASSUME ~total_time_budget_exhausted', NEW k \in Keys, k < key_index'
          PROVE  /\ results'[k].execution_state = "ran"
                 /\ results'[k].status = "TIMEOUT" => results'[k].wall_time_s >= PerKeyLimit
      <4>1. CASE k = key_index
        BY <3>2, <3>3, <3>4, <3>5, <3>7, <4>1 DEF TypeOK
      <4>2. CASE k # key_index
        BY <3>4, <3>5, <3>7, <4>2 DEF TypeOK, FlagInv
      <4> QED BY <4>1, <4>2
    <3> QED BY <3>4, <3>6, <3>7 DEF FlagInv
  <2>6. CASE KeyExits
    <3>1. PICK d \in 0 .. KeyTimeLimit + Slack, status \in NativeStatus \cup {"ERROR"} :
            /\ elapsed' = elapsed + d
            /\ RecordKey(Result("ran", status, d,
                               IF status = "ERROR" THEN "process_error" ELSE "native"))
      BY <2>6 DEF KeyExits
    <3> DEFINE r == Result("ran", status, d,
                           IF status = "ERROR" THEN "process_error" ELSE "native")
    <3>2. r.execution_state = "ran" /\ r.status # "TIMEOUT"
      BY DEF Result, NativeStatus
    <3>3. pc' = "keys" /\ key_index \in Keys /\ key_index' = key_index + 1
          /\ results' = [results EXCEPT ![key_index] = r]
      <4>1. key_index \in Keys
        BY <2>6 DEF KeyExits, LaunchInv, TypeOK
      <4>2. RecordKey(r)
        BY <3>1
      <4> HIDE DEF r
      <4> QED BY <4>1, <4>2 DEF RecordKey
    <3>4. elapsed' >= elapsed /\ elapsed' \in Nat
      BY <2>6, <3>1, LimitsFitTheBudget DEF KeyExits, LaunchInv, TypeOK
    <3>5. total_time_budget_exhausted' = total_time_budget_exhausted
      BY <2>6 DEF KeyExits
    <3> HIDE DEF r
    <3>6. ASSUME ~total_time_budget_exhausted', NEW k \in Keys, k < key_index'
          PROVE  /\ results'[k].execution_state = "ran"
                 /\ results'[k].status = "TIMEOUT" => results'[k].wall_time_s >= PerKeyLimit
      <4>1. CASE k = key_index
        BY <3>2, <3>3, <4>1 DEF TypeOK
      <4>2. CASE k # key_index
        BY <3>3, <3>5, <3>6, <4>2 DEF TypeOK, FlagInv
      <4> QED BY <4>1, <4>2
    <3> QED BY <3>3, <3>4, <3>5, <3>6 DEF FlagInv, TypeOK
  <2>7. CASE KeyRaises
    <3>1. elapsed' >= elapsed /\ elapsed' \in Nat
      BY <2>7, LimitsFitTheBudget DEF KeyRaises, LaunchInv, TypeOK
    <3> QED BY <2>7, <3>1 DEF KeyRaises, Raise, FlagInv, TypeOK
  <2>8. CASE KeysDone \/ BuildObservation
    BY <2>8 DEF KeysDone, BuildObservation, FlagInv
  <2>9. CASE UpstreamEdit \/ UNCHANGED vars
    BY <2>9 DEF UpstreamEdit, vars, FlagInv
  <2> QED BY <2>1, <2>2, <2>3, <2>4, <2>5, <2>6, <2>7, <2>8, <2>9,
         <2>10, <2>11 DEF Next, OwnStep, ProcessExits
<1>3. TypeOK /\ FlagInv => BudgetFlagExact
  BY DEF FlagInv, BudgetFlagExact, TypeOK
<1> QED BY <1>1, <1>2, <1>3, TypeCorrect, LaunchInvIsInvariant, PTL DEF Spec

------------------------------------------------------------------------------
(* Provenance of the program *)

\* No edit of main.cpp after the run has started can put another program in
\* front of a key, or another digest in the observation.
THEOREM OnlyThePinnedProgramRuns == Spec => []OnlyPinnedProgramRuns
<1>1. Init => ProvenanceInv
  BY DEF Init, ProvenanceInv
<1>2. TypeOK /\ ProvenanceInv /\ [Next]_vars => ProvenanceInv'
  <2> SUFFICES ASSUME TypeOK, ProvenanceInv, [Next]_vars PROVE ProvenanceInv'
    OBVIOUS
  <2> USE Stage2Assumption DEF ProvenanceInv, inputs, digests
  <2>1. CASE ReadSource \/ ParseTrail \/ CopyInputs
    BY <2>1 DEF ReadSource, ParseTrail, CopyInputs
  <2>2. CASE \/ RejectSource \/ RejectTrail \/ ProbeFails \/ ProbeTimesOut \/ CopyFails
             \/ ObservationFails \/ CompileFails \/ KeyRaises
    BY <2>2 DEF RejectSource, RejectTrail, ProbeFails, ProbeTimesOut, CopyFails,
                ObservationFails, CompileFails, KeyRaises, Raise
  <2>3. CASE CompileSkipped \/ CompileTimesOut \/ BudgetGoneBeforeKey
    BY <2>3 DEF CompileSkipped, CompileTimesOut, BudgetGoneBeforeKey, KeysLeft,
                SkipRemainingKeys, Raise
  <2>4. CASE ProbeTools \/ LaunchCompiler \/ CompileSucceeds \/ LaunchKey \/ KeysDone
    BY <2>4 DEF ProbeTools, LaunchCompiler, CompileSucceeds, LaunchKey, KeysLeft, KeysDone
  <2>5. CASE KeyTimesOut \/ KeyExits
    <3>1. pc = "querying" /\ pc' = "keys" /\ UNCHANGED <<inputs, digests>>
      BY <2>5 DEF KeyTimesOut, KeyExits, RecordKey
    <3> QED BY <3>1
  <2>6. CASE BuildObservation
    BY <2>6 DEF BuildObservation
  <2>7. CASE UpstreamEdit \/ UNCHANGED vars
    BY <2>7 DEF UpstreamEdit, vars
  <2> QED BY <2>1, <2>2, <2>3, <2>4, <2>5, <2>6, <2>7 DEF Next, OwnStep, ProcessExits
<1>3. TypeOK /\ ProvenanceInv => OnlyPinnedProgramRuns
  <2> SUFFICES ASSUME TypeOK, ProvenanceInv PROVE OnlyPinnedProgramRuns
    OBVIOUS
  <2>1. ASSUME NEW k \in Keys, results[k].execution_state = "ran"
        PROVE  built_source = "pinned"
    <3>1. k < key_index
      BY <2>1 DEF TypeOK, PendingResult, Result
    <3> QED BY <3>1, Stage2Assumption DEF TypeOK, ProvenanceInv
  <2> QED BY <2>1 DEF ProvenanceInv, OnlyPinnedProgramRuns
<1> QED BY <1>1, <1>2, <1>3, TypeCorrect, PTL DEF Spec

------------------------------------------------------------------------------
(* Refinement *)

\* While keys are being queried all those behind the cursor were launched, and
\* unstarted keys appear only together with the step that leaves the loop.
BatchInv ==
  /\ pc \in Preparing => key_index = 0
  /\ pc \in {"keys", "querying"} =>
       \A k \in Keys : k < key_index => results[k].execution_state = "ran"
  /\ pc \in {"observe", "done"} => key_index = KeyCount

LEMMA BatchInvIsInvariant == Spec => []BatchInv
<1>1. Init => BatchInv
  BY DEF Init, BatchInv
<1>2. TypeOK /\ LaunchInv /\ BatchInv /\ [Next]_vars => BatchInv'
  <2> SUFFICES ASSUME TypeOK, LaunchInv, BatchInv, [Next]_vars PROVE BatchInv'
    OBVIOUS
  <2> USE Stage2Assumption DEF Preparing
  <2>1. CASE KeyTimesOut \/ KeyExits
    <3>1. PICK s, w, g : RecordKey(Result("ran", s, w, g)) /\ pc = "querying"
      BY <2>1 DEF KeyTimesOut, KeyExits, SolverStatus
    <3> DEFINE r == Result("ran", s, w, g)
    <3>2. RecordKey(r) /\ r.execution_state = "ran"
      BY <3>1 DEF Result
    <3>3. pc = "querying" /\ key_index \in Keys
      BY <3>1 DEF LaunchInv, TypeOK
    <3> HIDE DEF r
    <3>4. results' = [results EXCEPT ![key_index] = r] /\ key_index' = key_index + 1
          /\ pc' = "keys"
      BY <3>2 DEF RecordKey
    <3>5. ASSUME NEW k \in Keys, k < key_index' PROVE results'[k].execution_state = "ran"
      <4>1. CASE k = key_index
        BY <3>2, <3>3, <3>4, <4>1 DEF TypeOK
      <4>2. CASE k # key_index
        BY <3>3, <3>4, <3>5, <4>2 DEF TypeOK, BatchInv
      <4> QED BY <4>1, <4>2
    <3> QED BY <3>3, <3>4, <3>5 DEF BatchInv
  <2>2. CASE CompileSkipped \/ BudgetGoneBeforeKey \/ CompileTimesOut
    BY <2>2 DEF CompileSkipped, BudgetGoneBeforeKey, CompileTimesOut, SkipRemainingKeys,
                Raise, BatchInv
  <2>3. CASE \/ RejectSource \/ RejectTrail \/ ProbeFails \/ ProbeTimesOut \/ CopyFails
             \/ CompileFails \/ KeyRaises \/ ObservationFails
    BY <2>3 DEF RejectSource, RejectTrail, ProbeFails, ProbeTimesOut, CopyFails,
                CompileFails, KeyRaises, ObservationFails, Raise, BatchInv
  <2>4. CASE \/ ReadSource \/ ParseTrail \/ ProbeTools \/ CopyInputs \/ LaunchCompiler
             \/ CompileSucceeds \/ LaunchKey \/ KeysDone \/ BuildObservation
    BY <2>4 DEF ReadSource, ParseTrail, ProbeTools, CopyInputs, LaunchCompiler,
                CompileSucceeds, LaunchKey, KeysLeft, KeysDone, BuildObservation,
                BatchInv, TypeOK
  <2>5. CASE UpstreamEdit \/ UNCHANGED vars
    BY <2>5 DEF UpstreamEdit, vars, BatchInv
  <2> QED BY <2>1, <2>2, <2>3, <2>4, <2>5 DEF Next, OwnStep, ProcessExits
<1> QED BY <1>1, <1>2, TypeCorrect, LaunchInvIsInvariant, PTL DEF Spec

\* A step that records one key is the abstract batch settling its next item.
LEMMA RecordingAKeySettlesIt ==
  ASSUME TypeOK, LaunchInv, BatchInv, pc = "querying", NEW r,
         r.execution_state = "ran", RecordKey(r), elapsed' \in Nat, elapsed' >= elapsed
  PROVE  Batch!Settle(key_index) /\ key_index \in Keys
<1> USE Stage2Assumption
<1>1. key_index \in Keys /\ pc' = "keys" /\ BudgetLeft
      /\ results' = [results EXCEPT ![key_index] = r]
  BY DEF LaunchInv, RecordKey, TypeOK
<1>2. Outcome' = [Outcome EXCEPT ![key_index] = "ran"]
  <2>1. ASSUME NEW k \in Keys
        PROVE  OutcomeOf(results'[k]) = IF k = key_index THEN "ran" ELSE OutcomeOf(results[k])
    <3>1. CASE k = key_index
      <4>1. results'[k] = r
        BY <1>1, <3>1 DEF TypeOK
      <4> QED BY <4>1, <3>1 DEF OutcomeOf
    <3>2. CASE k # key_index
      <4>1. results'[k] = results[k]
        BY <1>1, <3>2 DEF TypeOK
      <4> QED BY <4>1, <3>2
    <3> QED BY <3>1, <3>2
  <2>2. Outcome' = [k \in Keys |-> OutcomeOf(results'[k])]
    BY DEF Outcome
  <2>3. Outcome' = [k \in Keys |-> IF k = key_index THEN "ran" ELSE OutcomeOf(results[k])]
    BY <2>1, <2>2
  <2> QED BY <2>3 DEF Outcome
<1>3. Outcome[key_index] = "pending"
  <2>1. results[key_index].execution_state = "pending"
    BY <1>1 DEF TypeOK, PendingResult, Result
  <2> QED BY <1>1, <2>1 DEF Outcome, OutcomeOf
<1>4. \A j \in Keys : j < key_index => Outcome[j] = "ran"
  BY <1>1 DEF Outcome, OutcomeOf, BatchInv
<1>5. Verdict = "open" /\ Verdict' = "open" /\ ~BudgetGone
  BY <1>1 DEF Verdict, BudgetGone, BudgetLeft, Remaining, TypeOK
<1>6. BudgetGone' \in BOOLEAN
  BY DEF BudgetGone
<1> QED BY <1>1, <1>2, <1>3, <1>4, <1>5, <1>6
        DEF Batch!Settle, Batch!TimePasses, Batch!Pending, Batch!Items

\* A step that skips the remaining keys is the abstract batch giving up.
LEMMA SkippingKeysGivesUp ==
  ASSUME TypeOK, BatchInv, pc \in {"compile", "compiling", "keys"},
         key_index < KeyCount,
         SkipRemainingKeys, elapsed' \in Nat, elapsed' >= TotalLimit
  PROVE  Batch!GiveUp
<1> USE Stage2Assumption
<1>1. key_index \in Keys
  BY DEF TypeOK
<1>2. \A k \in Keys : Outcome[k] = IF k < key_index THEN "ran" ELSE "pending"
  <2>1. ASSUME NEW k \in Keys
        PROVE  OutcomeOf(results[k]) = IF k < key_index THEN "ran" ELSE "pending"
    <3>1. k < key_index => results[k].execution_state = "ran"
      BY DEF BatchInv, Preparing, TypeOK
    <3>2. ~(k < key_index) => results[k].execution_state = "pending"
      BY DEF TypeOK, PendingResult, Result
    <3> QED BY <3>1, <3>2 DEF OutcomeOf
  <2> QED BY <2>1 DEF Outcome
<1>3. \A k \in Keys : Outcome'[k] = IF k < key_index THEN "ran" ELSE "unstarted"
  <2>1. ASSUME NEW k \in Keys
        PROVE  OutcomeOf(results'[k]) = IF k < key_index THEN "ran" ELSE "unstarted"
    <3>1. CASE k < key_index
      <4>1. results'[k] = results[k]
        BY <3>1, <1>1 DEF SkipRemainingKeys, TypeOK
      <4>2. results[k].execution_state = "ran"
        BY <3>1, <1>1 DEF BatchInv, Preparing, TypeOK
      <4> QED BY <3>1, <4>1, <4>2 DEF OutcomeOf
    <3>2. CASE ~(k < key_index)
      <4>1. results'[k] = NotStartedTotalBudgetResult
        BY <3>2, <1>1 DEF SkipRemainingKeys, TypeOK
      <4> QED BY <3>2, <4>1 DEF OutcomeOf, NotStartedTotalBudgetResult, Result
    <3> QED BY <3>1, <3>2
  <2> QED BY <2>1 DEF Outcome
<1>4. Outcome' = [k \in Keys |-> IF Outcome[k] = "pending" THEN "unstarted" ELSE Outcome[k]]
  BY <1>2, <1>3 DEF Outcome
<1>5. Outcome[key_index] = "pending"
  BY <1>1, <1>2
<1>6. Verdict = "open" /\ Verdict' = "open" /\ BudgetGone'
  BY DEF Verdict, BudgetGone, SkipRemainingKeys
<1> QED BY <1>1, <1>4, <1>5, <1>6
        DEF Batch!GiveUp, Batch!NoneLeft, Batch!Pending, Batch!Items

\* Leaving the function early is the abstract failure.
LEMMA RaisingFails ==
  ASSUME TypeOK, pc \notin {"done", "raised"}, Raise, elapsed' \in Nat, elapsed' >= elapsed
  PROVE  Batch!Fail
<1>1. Verdict = "open" /\ Verdict' = "failed" /\ Outcome' = Outcome
  BY DEF Verdict, Raise, Outcome
<1>2. BudgetGone' \in BOOLEAN /\ (BudgetGone => BudgetGone')
  BY Stage2Assumption DEF BudgetGone, TypeOK
<1> QED BY <1>1, <1>2 DEF Batch!Fail, Batch!TimePasses

\* Everything between the items is abstract preparation.
LEMMA OtherStepsPrepare ==
  ASSUME TypeOK, pc \notin {"done", "raised"}, pc' \notin {"done", "raised"},
         UNCHANGED results, elapsed' \in Nat, elapsed' >= elapsed
  PROVE  Batch!Prepare
<1>1. Verdict = "open" /\ Verdict' = "open" /\ Outcome' = Outcome
  BY DEF Verdict, Outcome
<1>2. BudgetGone' \in BOOLEAN /\ (BudgetGone => BudgetGone')
  BY Stage2Assumption DEF BudgetGone, TypeOK
<1> QED BY <1>1, <1>2 DEF Batch!Prepare, Batch!TimePasses

\* Stage 2 implements the budgeted batch for every corpus and every budget:
\* keys are taken in order and only while the budget lasts, a key is unstarted
\* only because the budget is gone, and nothing is delivered before every key
\* is accounted for.
THEOREM ImplementsBatch == Spec => BatchSafe
<1>1. Init => Batch!Init
  <2> SUFFICES ASSUME Init PROVE Batch!Init
    OBVIOUS
  <2>1. Outcome = [k \in Keys |-> "pending"]
    BY DEF Init, Outcome, OutcomeOf, PendingResult, Result
  <2>2. BudgetGone = FALSE /\ Verdict = "open"
    BY Stage2Assumption DEF Init, BudgetGone, Verdict
  <2> QED BY <2>1, <2>2 DEF Batch!Init, Batch!Items
<1>2. TypeOK /\ TypeOK' /\ LaunchInv /\ BatchInv /\ [Next]_vars => [Batch!Next]_(Batch!vars)
  <2> SUFFICES ASSUME TypeOK, TypeOK', LaunchInv, BatchInv, [Next]_vars
               PROVE  Batch!Next \/ UNCHANGED Batch!vars
    OBVIOUS
  <2> USE Stage2Assumption
  <2>1. elapsed \in Nat /\ elapsed' \in Nat
    BY DEF TypeOK
  <2>2. CASE RejectSource \/ RejectTrail \/ ObservationFails
    BY <2>1, <2>2, RaisingFails DEF RejectSource, RejectTrail, ObservationFails, Batch!Next
  <2>3. CASE ProbeFails \/ ProbeTimesOut \/ CopyFails
    BY <2>1, <2>3, RaisingFails DEF ProbeFails, ProbeTimesOut, CopyFails, Batch!Next
  <2>4. CASE CompileFails \/ KeyRaises
    <3>1. elapsed' >= elapsed
      BY <2>1, <2>4, LimitsFitTheBudget DEF CompileFails, KeyRaises, LaunchInv
    <3> QED BY <2>1, <2>4, <3>1, RaisingFails DEF CompileFails, KeyRaises, Batch!Next
  <2>5. CASE ReadSource \/ ParseTrail \/ LaunchCompiler \/ LaunchKey \/ KeysDone
    BY <2>1, <2>5, OtherStepsPrepare
    DEF ReadSource, ParseTrail, LaunchCompiler, LaunchKey, KeysLeft, KeysDone, Batch!Next
  <2>6. CASE ProbeTools \/ CopyInputs
    BY <2>1, <2>6, OtherStepsPrepare DEF ProbeTools, CopyInputs, Batch!Next
  <2>7. CASE CompileSucceeds
    <3>1. elapsed' >= elapsed
      BY <2>1, <2>7, LimitsFitTheBudget DEF CompileSucceeds, LaunchInv
    <3> QED BY <2>1, <2>7, <3>1, OtherStepsPrepare DEF CompileSucceeds, Batch!Next
  <2>8. CASE UpstreamEdit
    BY <2>1, <2>8, OtherStepsPrepare DEF UpstreamEdit, Batch!Next
  <2>9. CASE CompileSkipped \/ BudgetGoneBeforeKey
    <3>1. elapsed' >= TotalLimit /\ key_index < KeyCount /\ pc \in {"compile", "keys"}
      BY <2>1, <2>9 DEF CompileSkipped, BudgetGoneBeforeKey, BudgetLeft, Remaining, KeysLeft,
                        BatchInv, Preparing
    <3>2. SkipRemainingKeys
      BY <2>9 DEF CompileSkipped, BudgetGoneBeforeKey
    <3> QED BY <2>1, <3>1, <3>2, SkippingKeysGivesUp DEF Batch!Next
  <2>10. CASE CompileTimesOut
    <3>1. PICK d \in 0 .. Slack : elapsed' = elapsed + CompileTimeout + d
      BY <2>10 DEF CompileTimesOut
    <3>2. elapsed' >= elapsed /\ (CompileTimeoutExhaustedTotalBudget => elapsed' >= TotalLimit)
      BY <2>1, <2>10, <3>1, LimitsFitTheBudget DEF CompileTimesOut, LaunchInv
    <3>3. CASE CompileTimeoutExhaustedTotalBudget
      BY <2>1, <2>10, <3>2, <3>3, SkippingKeysGivesUp
      DEF CompileTimesOut, BatchInv, Preparing, Batch!Next
    <3>4. CASE ~CompileTimeoutExhaustedTotalBudget
      BY <2>1, <2>10, <3>2, <3>4, RaisingFails DEF CompileTimesOut, Batch!Next
    <3> QED BY <3>3, <3>4
  <2>11. CASE KeyTimesOut \/ KeyExits
    <3>1. PICK r : r.execution_state = "ran" /\ RecordKey(r)
      BY <2>11 DEF KeyTimesOut, KeyExits, Result
    <3>2. pc = "querying" /\ BudgetLeft
      BY <2>11 DEF KeyTimesOut, KeyExits, LaunchInv
    <3>3. elapsed' >= elapsed
      <4>1. KeyTimeLimit \in Nat
        BY <3>2, LimitsFitTheBudget
      <4>2. CASE KeyTimesOut
        BY <2>1, <4>1, <4>2 DEF KeyTimesOut
      <4>3. CASE KeyExits
        BY <2>1, <4>1, <4>3 DEF KeyExits
      <4> QED BY <2>11, <4>2, <4>3
    <3>4. Batch!Settle(key_index) /\ key_index \in Keys
      BY <2>1, <3>1, <3>2, <3>3, RecordingAKeySettlesIt
    <3> QED BY <3>4 DEF Batch!Next, Batch!Items
  <2>12. CASE BuildObservation
    <3>1. Verdict = "open" /\ Verdict' = "delivered" /\ Outcome' = Outcome
          /\ BudgetGone' = BudgetGone
      BY <2>12 DEF BuildObservation, Verdict, Outcome, BudgetGone
    <3>2. ASSUME NEW k \in Keys PROVE Outcome[k] # "pending"
      <4>1. ValidResult(results[k])
        BY <2>12 DEF BuildObservation, BatchInv, TypeOK
      <4> QED BY <4>1 DEF ValidResult, Outcome, OutcomeOf
    <3> QED BY <3>1, <3>2
            DEF Batch!Next, Batch!Deliver, Batch!NoneLeft, Batch!Pending, Batch!Items
  <2>13. CASE UNCHANGED vars
    BY <2>13 DEF vars, Batch!vars, Outcome, BudgetGone, Verdict
  <2> QED
    BY <2>2, <2>3, <2>4, <2>5, <2>6, <2>7, <2>8, <2>9, <2>10, <2>11, <2>12, <2>13
    DEF Next, OwnStep, ProcessExits
<1> QED BY <1>1, <1>2, TypeCorrect, LaunchInvIsInvariant, BatchInvIsInvariant, PTL
        DEF Spec, BatchSafe, Batch!SafeSpec
==============================================================================
