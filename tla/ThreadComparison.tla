--------------------------- MODULE ThreadComparison ---------------------------
(***************************************************************************)
(* scripts/run_gift64_b7.py: run the controlled program several times with *)
(* each of two thread counts, in alternating order, and print a comparison *)
(* if the repetitions stand up to _checked_summary.  Every call gets an    *)
(* artifact root of its own.                                               *)
(***************************************************************************)
EXTENDS ControlledGift64, Sequences

CONSTANTS
  Requests,      \* the requests the checked-in file may hold
  Repetitions    \* --repetitions

ASSUME ComparisonAssumption == Requests \subseteq Request /\ Repetitions \in Nat \ {0, 1}

VARIABLES
  results_by_threads,  \* the ControlledRuns of each configuration, in order
  repetition,          \* the outer loop's counter
  position,            \* 1 or 2: the inner loop's place in thread_order
  exit_code,
  report               \* whether the comparison was printed

loop == <<results_by_threads, repetition, position>>
vars == <<run, loop, exit_code, report>>

Configuration == {"baseline", "alternative"}
NoExit == -1

\* thread_order: even repetitions start with the baseline.
ThreadOrder == IF repetition % 2 = 0 THEN <<"baseline", "alternative">>
                                     ELSE <<"alternative", "baseline">>

Init ==
  /\ pc = "caller"
  /\ request \in Requests
  /\ source = "missing"
  /\ trail = NoTrail
  /\ returned = NotRun
  /\ results_by_threads = [c \in Configuration |-> <<>>]
  /\ repetition = 0
  /\ position = 1
  /\ exit_code = NoExit
  /\ report = FALSE

LoopLeft == exit_code = NoExit /\ repetition < Repetitions

\* The first call, and after each run that returned, the next one.
FirstCall ==
  /\ pc = "caller"
  /\ LoopLeft
  /\ returned.outcome = "none"
  /\ Call
  /\ UNCHANGED <<request, loop, exit_code, report>>

OwnWork == RunOwnStep /\ UNCHANGED <<loop, exit_code, report>>
ProcessExits == RunProcessExits /\ UNCHANGED <<loop, exit_code, report>>

Advance_NoReset ==
  IF position = 1 THEN position' = 2 /\ UNCHANGED repetition
                  ELSE position' = 3 /\ repetition' = repetition + 1

Advance ==
  IF position = 1 THEN position' = 2 /\ UNCHANGED repetition
                  ELSE position' = 1 /\ repetition' = repetition + 1

Finished == repetition' = Repetitions

\* results_by_threads[threads].append(controlled.result), then the next call.
Collect ==
  /\ pc = "caller"
  /\ LoopLeft
  /\ returned.outcome = "returned"
  /\ results_by_threads' =
       [results_by_threads EXCEPT ![ThreadOrder[position]] = Append(@, returned)]
  /\ Advance
  /\ IF Finished THEN UNCHANGED <<pc, source, trail, returned>> ELSE Call
  /\ UNCHANGED <<request, exit_code, report>>

\* An exception of a run ends the script with a traceback.
RunRaised ==
  /\ pc = "caller"
  /\ LoopLeft
  /\ returned.outcome = "raised"
  /\ exit_code' = 1
  /\ UNCHANGED <<run, loop, report>>

\* The semantics that repetitions are compared by.
Semantics(result) ==
  <<result.status, result.definitive, result.objective_components,
    result.satisfied_bound, result.verification, result.exact_label_eligible>>

CheckedSummary_FirstOnly(runs) ==
  LET r == runs[1].result
  IN  /\ r.status = "SAT" /\ r.definitive
      /\ r.satisfied_bound = "true" /\ r.verification = "passed" /\ r.exact_label_eligible

\* _checked_summary: raises ValueError where this is false.
CheckedSummary(runs) ==
  LET r == runs[1].result
  IN  /\ \A i, j \in DOMAIN runs : Semantics(runs[i].result) = Semantics(runs[j].result)
      /\ r.status = "SAT" /\ r.definitive
      /\ r.satisfied_bound = "true" /\ r.verification = "passed" /\ r.exact_label_eligible

Report ==
  /\ exit_code = NoExit
  /\ repetition = Repetitions
  /\ report' = \A c \in Configuration : CheckedSummary(results_by_threads[c])
  /\ exit_code' = IF report' THEN 0 ELSE 1
  /\ UNCHANGED <<run, loop>>

OwnStep == FirstCall \/ OwnWork \/ Collect \/ RunRaised \/ Report

Next == OwnStep \/ ProcessExits

\* The interpreter keeps running, and a timeout that is due fires.  No tool
\* probe, compiler or solver is assumed ever to exit.
Fairness == WF_vars(OwnStep)

Spec == Init /\ [][Next]_vars /\ Fairness

------------------------------------------------------------------------------
(* Properties *)

\* The variables have their types.
TypeOK ==
  /\ RunTypeOK
  /\ \A c \in Configuration : \A i \in DOMAIN results_by_threads[c] :
       results_by_threads[c][i].result \in SolverResult
  /\ repetition \in 0 .. Repetitions
  /\ position \in 1 .. 2
  /\ exit_code \in {NoExit, 0, 1}
  /\ report \in BOOLEAN

\* A printed comparison rests on verified runs alone: both configurations ran
\* equally often, and every run of both, not only the first, found a trail that
\* is a characteristic of the cipher and meets the bound of the request.
ReportIsVerified ==
  report => \A c \in Configuration :
    /\ Len(results_by_threads[c]) = Repetitions
    /\ \A i \in 1 .. Repetitions : Answers(results_by_threads[c][i].trail, request)

\* The script ends although tool probes, compiler and solver may hang in any of
\* its runs, whatever request is checked in: a run has a limit or is refused.
Ends == <>(exit_code # NoExit)

\* All repetitions behind a printed comparison have the same objective
\* components.  The code compares them within a configuration only.
RepetitionsAgree ==
  report => \A c, d \in Configuration : \A i, j \in 1 .. Repetitions :
    results_by_threads[c][i].result.objective_components
      = results_by_threads[d][j].result.objective_components
==============================================================================
