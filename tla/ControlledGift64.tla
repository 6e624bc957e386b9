--------------------------- MODULE ControlledGift64 ---------------------------
(***************************************************************************)
(* run_controlled_gift64: compile the hash-pinned four-round program, run  *)
(* it once under a time limit, and turn marker, stdout and exit code into  *)
(* a SolverResult; a model is decoded, verified independently of the SAT   *)
(* encoding, and written to the artifact root.  At "prepare", "compile"    *)
(* and "solve" the function waits for a process that may never exit.  The  *)
(* steps of one call are given here; who calls it, and what for, is up to  *)
(* the module that uses them.                                              *)
(***************************************************************************)
EXTENDS SolverContract

VARIABLES
  pc,        \* the statement run_controlled_gift64 has reached, or "caller"
  request,   \* its argument
  source,    \* what source_path holds when it is read
  trail,     \* the decoded TrailRecord
  returned   \* what the last call did: the ControlledRun it returned, or that it raised

run == <<pc, request, source, trail, returned>>

\* ControlledRun, as a call that returned.
ControlledRun(result, decoded) == [outcome |-> "returned", result |-> result, trail |-> decoded]

NotRun == [outcome |-> "none", result |-> PlainResult("ERROR"), trail |-> NoTrail]
Raised == [outcome |-> "raised", result |-> PlainResult("ERROR"), trail |-> NoTrail]

Goto(label) ==
  /\ pc' = label
  /\ UNCHANGED <<request, source, trail, returned>>

\* The result's own validator has the last word: what it rejects is raised.
Return(result, decoded) ==
  /\ returned' = IF ValidResult(result) THEN ControlledRun(result, decoded) ELSE Raised
  /\ pc' = "caller"
  /\ UNCHANGED <<request, source, trail>>

Raise ==
  /\ returned' = Raised
  /\ pc' = "caller"
  /\ UNCHANGED <<request, source, trail>>

\* The caller's call.
Call ==
  /\ pc' = "prepare"
  /\ source' \in FileVersion
  /\ trail' = NoTrail
  /\ returned' = NotRun

PreparationSucceeds_AnyLimit ==
  /\ pc = "prepare"
  /\ source = "pinned"
  /\ Goto("compile")

\* Artifact root, time limit, source hash, thread count, tools, solver version.
PreparationSucceeds ==
  /\ pc = "prepare"
  /\ request.limit # "none"
  /\ source = "pinned"
  /\ Goto("compile")

\* No limit, or not the pinned program: rejected before any tool is asked.
RequestRejected ==
  /\ pc = "prepare"
  /\ request.limit = "none" \/ source # "pinned"
  /\ Return(PlainResult("ERROR"), NoTrail)

\* An unsuitable artifact root or request, no tools, or another solver version.
PreparationFails ==
  /\ pc = "prepare"
  /\ Return(PlainResult("ERROR"), NoTrail)

\* brew and the solver's --version get 30 seconds each.
ProbeTimesOut ==
  /\ pc = "prepare"
  /\ request.limit # "none"
  /\ source = "pinned"
  /\ Return(PlainResult("ERROR"), NoTrail)

CompileSucceeds == pc = "compile" /\ Goto("solve")

\* A nonzero exit code of the compiler.
CompileFails == pc = "compile" /\ Return(PlainResult("ERROR"), NoTrail)

\* The compiler gets 60 seconds.
CompileTimesOut == pc = "compile" /\ Return(PlainResult("ERROR"), NoTrail)

\* The build directory cannot be written, the compiler has gone, or what it
\* prints is not text: no handler names these exceptions.
CompileRaises == pc = "compile" /\ Raise

\* subprocess refuses a limit beyond its timers: nothing is waited for, and no
\* handler names the OverflowError.
LimitRefused == pc = "solve" /\ request.limit = "beyond_timer" /\ Raise

Launched == pc = "solve" /\ request.limit # "beyond_timer"

\* Only a process with a limit is ever cut off.
SolveTimesOut == Launched /\ request.limit = "finite" /\ Return(PlainResult("TIMEOUT"), NoTrail)
SolveExitsNonzero == Launched /\ Return(PlainResult("ERROR"), NoTrail)

\* The executable cannot be started, or the bytes it prints are not text: no
\* handler names these exceptions either.
SolveRaises == Launched /\ Raise

\* Exit code 0 without exactly one well-formed marker.
MarkerRejected == Launched /\ Return(PlainResult("ERROR"), NoTrail)

\* UNSAT or UNKNOWN: the program must have printed nothing else.
NoModelPrinted ==
  /\ Launched
  /\ \E status \in {"UNSAT", "UNKNOWN"}, stdout \in {"empty", "printed"} :
       Return(PlainResult(IF stdout = "empty" THEN status ELSE "ERROR"), NoTrail)

\* decode_legacy_stdout: as many blocks as the request has rounds.
ModelDecoded ==
  /\ Launched
  /\ request.cipher # "GIFT-64 other rounds"
  /\ trail' \in Trail
  /\ pc' = "persist"
  /\ UNCHANGED <<request, source, returned>>

ModelRejected == Launched /\ Return(PlainResult("ERROR"), NoTrail)

\* verify_gift64_four_round_trail, the trail on its own: the issues it finds.
TrailIssues ==
  (IF request.cipher = "other" THEN {"wrong_cipher"} ELSE {})
    \cup (IF trail.sound THEN {} ELSE {"invalid_sbox_transition"})

RequestIssues_BoundUnchecked == ContractIssues(trail.weight, request) \ {"objective_bound"}

\* verify_gift64_four_round_trail, the trail against the request.
RequestIssues == ContractIssues(trail.weight, request)

Issues == TrailIssues \cup RequestIssues

SatResult_EligibleByBound ==
  [status |-> "SAT", definitive |-> TRUE,
   model |-> Sha256(trail), objective_components |-> trail.weight,
   satisfied_bound |-> IF "objective_bound" \in Issues THEN "false" ELSE "true",
   verification |-> IF Issues = {} THEN "passed" ELSE "failed",
   exact_label_eligible |-> "objective_bound" \notin Issues]

\* _result for a decoded model.
SatResult ==
  [status |-> "SAT", definitive |-> TRUE,
   model |-> Sha256(trail), objective_components |-> trail.weight,
   satisfied_bound |-> IF "objective_bound" \in Issues THEN "false" ELSE "true",
   verification |-> IF Issues = {} THEN "passed" ELSE "failed",
   exact_label_eligible |-> Issues = {}]

ModelPersisted == pc = "persist" /\ Return(SatResult, trail)

\* A verified model that cannot be written to the artifact root is an ERROR.
PersistFails == pc = "persist" /\ Return(PlainResult("ERROR"), NoTrail)

\* What the function does by itself, and what a timeout makes it do.
RunOwnStep ==
  \/ RequestRejected \/ ProbeTimesOut \/ CompileTimesOut
  \/ LimitRefused \/ SolveTimesOut
  \/ ModelPersisted \/ PersistFails

\* What takes a process that exits by itself.
RunProcessExits ==
  \/ PreparationSucceeds \/ PreparationFails
  \/ CompileSucceeds \/ CompileFails \/ CompileRaises
  \/ SolveExitsNonzero \/ SolveRaises
  \/ MarkerRejected \/ NoModelPrinted \/ ModelDecoded \/ ModelRejected

RunStep == RunOwnStep \/ RunProcessExits

------------------------------------------------------------------------------
(* Properties *)

RunTypeOK ==
  /\ pc \in {"caller", "prepare", "compile", "solve", "persist"}
  /\ request \in Request
  /\ source \in FileVersion
  /\ trail \in Trail \cup {NoTrail}
  /\ returned \in [outcome : {"none", "returned", "raised"},
                   result : SolverResult, trail : Trail \cup {NoTrail}]

\* What makes a trail an answer to a request, with no mention of issues.
Answers(decoded, req) ==
  /\ decoded \in Trail
  /\ decoded.sound
  /\ req.cipher = "GIFT-64 R4"
  /\ MeetsContract(decoded.weight, req)

\* An exact label is earned: it is given only to a definitive SAT whose trail
\* is a characteristic of the cipher and meets every bound of the request, and
\* the model the result refers to is that trail.  A bound that was never
\* compared (satisfied_bound is true then), of an unknown objective or an
\* unknown component, earns nothing.
LabelIsEarned ==
  returned.result.exact_label_eligible =>
    /\ returned.result.status = "SAT" /\ returned.result.definitive
    /\ Answers(returned.trail, request)
    /\ returned.result.model = Sha256(returned.trail)

\* A solved and decoded model is never lost to the adapter's own contract: what
\* it builds from the verifier's verdict passes SolverResult.__post_init__, also
\* when the verdict is bad.
OwnResultIsAccepted == pc = "persist" => ValidResult(SatResult)
==============================================================================
