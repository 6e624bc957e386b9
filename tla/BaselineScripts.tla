--------------------------- MODULE BaselineScripts ---------------------------
(***************************************************************************)
(* scripts/run_gift64_b5.py and scripts/check_gift64_b6.py, started side   *)
(* by side: every process makes one controlled run.  B5 runs are given the *)
(* same artifact root, where each leaves its decoded model in a file named *)
(* after the states of the trail; a B6 check has a root of its own and     *)
(* compares the result with the recorded expectation.  The run itself is   *)
(* coarser than in ControlledGift64 up to the model, and finer from there: *)
(* the trail is a real one, and writing a file takes two steps.  A process *)
(* that is killed is one that takes no further step.                       *)
(***************************************************************************)
EXTENDS GiftVerifier

CONSTANTS
  Process,
  Scripts,        \* the scripts a process may be: sets of "b5" and "b6"
  Requests,       \* model bound: what a request file may hold
  Printed,        \* model bound: the rounds the program of a process may print
  Expectations    \* model bound: what sat_baseline_b6.regression.json may hold

ASSUME ScriptsAssumption ==
  /\ Scripts \in [Process -> SUBSET {"b5", "b6"}]
  /\ Printed \in [Process -> SUBSET Seq(TrailRound)]
  /\ Requests # {} /\ Expectations # {}
  /\ \A r \in Requests : r.contract \in Request
  \* Its loader accepts no expectation without a version, or of another policy.
  /\ \A e \in Expectations :
       /\ e.verifier_version # "null"
       /\ e.model_hash_policy \in {"exact", "record_only"}

VARIABLES
  pc, script, request, expectation, source, trail, returned,   \* of each process
  verification,     \* what the verifier says of the decoded trail
  adapter_version,  \* result.solver_statistics.get("adapter_version")
  exit_code,
  models            \* the files under models/ of the shared artifact root

local == <<script, request, expectation, source, trail, verification, returned, adapter_version>>
vars == <<pc, local, exit_code, models>>

NoExit == -1
NoRecord == [cipher |-> "none", rounds |-> <<>>]
Current == "current"
NotVerified == [issues |-> {}, objective_components |-> NoWeight]
Null == "null"

\* trail_id is a fingerprint of the states alone; a file that was opened for
\* writing has no content yet.
ModelName_OneForAll(record) == "models"
ModelName(record) == record.rounds
PrintedRounds == UNION {Printed[p] : p \in Process}

\* Weights bounds the components of what the programs may print, and no more.
ASSUME WeightsAssumption == \A rounds \in PrintedRounds : ObjectiveComponents(rounds) \in Weights

Truncated == Sha256(NoRecord)

\* The issues that say nothing about the trail as a characteristic of the cipher.
OfTheRequest ==
  {"wrong_cipher", "request_layout_mismatch", "unsupported_objective",
   "unsupported_bound_component", "objective_bound"}

\* The abstract view of a process: ControlledGift64 with its trail replaced by
\* what the verifier makes of it; VerdictExact says that this is right.
Abstracted(record, verdict) ==
  IF record = NoRecord THEN NoTrail
  ELSE [sound |-> verdict.issues \subseteq OfTheRequest,
        weight |-> verdict.objective_components]
AbstractReturned(p) ==
  LET decoded == Abstracted(returned[p].trail, verification[p])
  IN  [returned[p] EXCEPT !.trail = decoded, !.result.model = Sha256(decoded)]

Run(p) == INSTANCE ControlledGift64 WITH
  pc <- IF pc[p] = "write" THEN "persist" ELSE pc[p],
  request <- request[p].contract, source <- source[p],
  trail <- Abstracted(trail[p], verification[p]), returned <- AbstractReturned(p)

Outcome(outcome, result, record) == [outcome |-> outcome, result |-> result, trail |-> record]
NotRun == Outcome("none", PlainResult("ERROR"), NoRecord)
Raised == Outcome("raised", PlainResult("ERROR"), NoRecord)

------------------------------------------------------------------------------
(* check_solver_regression *)

\* RequiredResultSummary.__post_init__
ValidSummary(required) ==
  /\ IF required.status = "SAT"
     THEN required.objective_components # NoWeight /\ required.satisfied_bound # Null
     ELSE required.objective_components = NoWeight /\ required.satisfied_bound = Null
  /\ required.exact_label_eligible => required.definitive /\ required.verification = "passed"

\* What is compared: the request by its digest, which its id, source and solver
\* are part of, the result, and the versions of adapter and verifier.  A
\* verification that did not run has no version.
Observed(p) ==
  LET r == returned[p].result
  IN  [request_sha256 |-> Sha256(request[p]), status |-> r.status, definitive |-> r.definitive,
       objective_components |-> r.objective_components, satisfied_bound |-> r.satisfied_bound,
       verification |-> r.verification,
       verifier_version |-> IF r.verification = "not_run" THEN Null ELSE Current,
       exact_label_eligible |-> r.exact_label_eligible, adapter_version |-> adapter_version[p]]

Required(p) ==
  LET e == expectation[p]
  IN  [request_sha256 |-> e.request_sha256, status |-> e.required.status,
       definitive |-> e.required.definitive,
       objective_components |-> e.required.objective_components,
       satisfied_bound |-> e.required.satisfied_bound,
       verification |-> e.required.verification, verifier_version |-> e.verifier_version,
       exact_label_eligible |-> e.required.exact_label_eligible,
       adapter_version |-> e.adapter_version]

Failures_VersionsUnchecked(p) ==
  {name \in DOMAIN Required(p) \ {"verifier_version", "adapter_version"} :
     Required(p)[name] # Observed(p)[name]}

\* The model's digest fails the check under the policy `exact` only; under
\* `record_only` a difference is an advisory.
Failures(p) ==
  {name \in DOMAIN Required(p) : Required(p)[name] # Observed(p)[name]}
    \cup (IF /\ expectation[p].model_hash_policy = "exact"
             /\ returned[p].result.model # expectation[p].observed_model_sha256
          THEN {"model"} ELSE {})

------------------------------------------------------------------------------
(* The processes *)

Init ==
  /\ pc = [p \in Process |-> "caller"]
  /\ script = [p \in Process |-> "none"]
  /\ request = [p \in Process |-> CHOOSE r \in Requests : TRUE]
  /\ expectation = [p \in Process |-> CHOOSE e \in Expectations : TRUE]
  /\ source = [p \in Process |-> "missing"]
  /\ trail = [p \in Process |-> NoRecord]
  /\ verification = [p \in Process |-> NotVerified]
  /\ returned = [p \in Process |-> NotRun]
  /\ adapter_version = [p \in Process |-> Null]
  /\ exit_code = [p \in Process |-> NoExit]
  /\ models = <<>>

At(p, label) == pc[p] = label
NotStarted(p) == At(p, "caller") /\ exit_code[p] = NoExit /\ returned[p].outcome = "none"
Goto(p, label) == pc' = [pc EXCEPT ![p] = label]

\* Both files are read and validated, then the run is called.
Start(p) ==
  /\ NotStarted(p)
  /\ \E s \in Scripts[p], r \in Requests, e \in Expectations :
       /\ IF s = "b6" THEN ValidSummary(e.required) ELSE e = expectation[p]
       /\ script' = [script EXCEPT ![p] = s]
       /\ request' = [request EXCEPT ![p] = r]
       /\ expectation' = [expectation EXCEPT ![p] = e]
  /\ \E bytes \in FileVersion : source' = [source EXCEPT ![p] = bytes]
  /\ Goto(p, "prepare")
  /\ UNCHANGED <<trail, verification, returned, adapter_version, exit_code, models>>

Exit(p, code) ==
  /\ exit_code' = [exit_code EXCEPT ![p] = code]
  /\ UNCHANGED <<pc, local, models>>

\* A file its loader rejects, or (B5 only) an artifact root inside the repository.
StartFails(p) == NotStarted(p) /\ \E code \in {1, 2} : Exit(p, code)

\* The call returns, or raises; a result its validator rejects is raised.  The
\* statistics name the adapter in every result but those of a failed preparation.
Return(p, result, record) ==
  /\ returned' = [returned EXCEPT ![p] =
                    IF ValidResult(result) THEN Outcome("returned", result, record) ELSE Raised]
  /\ adapter_version' = [adapter_version EXCEPT ![p] = IF pc[p] = "prepare" THEN Null ELSE Current]
  /\ Goto(p, "caller")
  /\ UNCHANGED <<script, request, expectation, source, trail, verification, exit_code>>

Raise(p) ==
  /\ returned' = [returned EXCEPT ![p] = Raised]
  /\ Goto(p, "caller")
  /\ UNCHANGED <<script, request, expectation, source, trail, verification, adapter_version, exit_code, models>>

Fail(p, status) == Return(p, PlainResult(status), NoRecord) /\ UNCHANGED models

Prepare(p) ==
  /\ At(p, "prepare")
  /\ \/ /\ request[p].contract.limit # "none" /\ source[p] = "pinned"
        /\ Goto(p, "compile") /\ UNCHANGED <<local, exit_code, models>>
     \/ Fail(p, "ERROR")

Compile(p) ==
  /\ At(p, "compile")
  /\ \/ Goto(p, "solve") /\ UNCHANGED <<local, exit_code, models>>
     \/ Fail(p, "ERROR")
     \/ Raise(p)

\* Everything but a model the adapter can decode.
SolveWithoutModel(p) ==
  /\ At(p, "solve")
  /\ \/ /\ request[p].contract.limit = "finite"
        /\ \E status \in {"UNSAT", "UNKNOWN", "TIMEOUT", "ERROR"} : Fail(p, status)
     \/ Raise(p)

Decoded(p, rounds) ==
  [cipher |-> IF request[p].contract.cipher = "other" THEN "other" ELSE "GIFT-64",
   rounds |-> rounds]

Decode_LinesUncounted(p) ==
  /\ At(p, "solve")
  /\ request[p].contract.limit = "finite"
  /\ \E rounds \in Printed[p] :
       /\ trail' = [trail EXCEPT ![p] = Decoded(p, rounds)]
       /\ verification' = [verification EXCEPT ![p] = Verify(Decoded(p, rounds), request[p])]
  /\ Goto(p, "persist")
  /\ UNCHANGED <<script, request, expectation, source, returned, adapter_version, exit_code, models>>

\* SAT and a model, decoded into a trail record for the cipher of the request,
\* with as many rounds as the request has; the verifier then looks at it.
Decode(p) ==
  /\ At(p, "solve")
  /\ request[p].contract.limit = "finite"
  /\ request[p].contract.cipher # "GIFT-64 other rounds"
  /\ \E rounds \in Printed[p] :
       /\ trail' = [trail EXCEPT ![p] = Decoded(p, rounds)]
       /\ verification' = [verification EXCEPT ![p] = Verify(Decoded(p, rounds), request[p])]
  /\ Goto(p, "persist")
  /\ UNCHANGED <<script, request, expectation, source, returned, adapter_version, exit_code, models>>

SatResult(p) ==
  LET issues == verification[p].issues
  IN  [status |-> "SAT", definitive |-> TRUE, model |-> Sha256(trail[p]),
       objective_components |-> verification[p].objective_components,
       satisfied_bound |-> IF "objective_bound" \in issues THEN "false" ELSE "true",
       verification |-> IF issues = {} THEN "passed" ELSE "failed",
       exact_label_eligible |-> issues = {}]

SharedFile(p, content) ==
  LET name == ModelName(trail[p])
  IN  models' = IF script[p] = "b6" THEN models
                ELSE [n \in DOMAIN models \cup {name} |-> IF n = name THEN content ELSE models[n]]

\* _write_model_artifact: write_bytes empties the file, then fills it.
OpenModel(p) ==
  /\ At(p, "persist")
  /\ SharedFile(p, Truncated)
  /\ Goto(p, "write")
  /\ UNCHANGED <<local, exit_code>>

WriteModel(p) ==
  /\ At(p, "write")
  /\ SharedFile(p, Sha256(trail[p]))
  /\ Return(p, SatResult(p), trail[p])

PersistFails(p) == (At(p, "persist") \/ At(p, "write")) /\ Fail(p, "ERROR")

Ended(p, outcome) ==
  At(p, "caller") /\ exit_code[p] = NoExit /\ returned[p].outcome = outcome

\* B5 succeeds with any definitive answer, B6 if the check passes.
Finish(p) ==
  /\ Ended(p, "returned")
  /\ Exit(p, IF script[p] = "b5"
             THEN IF returned[p].result.status \in {"SAT", "UNSAT"} THEN 0 ELSE 2
             ELSE IF Failures(p) = {} THEN 0 ELSE 1)

\* An exception of the run ends the script with a traceback.
RunRaised(p) == Ended(p, "raised") /\ Exit(p, 1)

Step(p) ==
  \/ Start(p) \/ StartFails(p)
  \/ Prepare(p) \/ Compile(p) \/ SolveWithoutModel(p) \/ Decode(p)
  \/ OpenModel(p) \/ WriteModel(p) \/ PersistFails(p)
  \/ Finish(p) \/ RunRaised(p)

Next == \E p \in Process : Step(p)

Spec == Init /\ [][Next]_vars

------------------------------------------------------------------------------
(* Properties *)

\* The variables have their types; in particular a model is only ever decoded
\* for a request with the rounds that the pinned program has.
TypeOK ==
  /\ pc \in [Process -> {"caller", "prepare", "compile", "solve", "persist", "write"}]
  /\ script \in [Process -> {"none", "b5", "b6"}]
  /\ request \in [Process -> Requests] /\ expectation \in [Process -> Expectations]
  /\ source \in [Process -> FileVersion]
  /\ \A p \in Process :
       trail[p] # NoRecord => request[p].contract.cipher # "GIFT-64 other rounds"
  /\ exit_code \in [Process -> {NoExit, 0, 1, 2}]
  /\ DOMAIN models \subseteq {ModelName(trail[p]) : p \in Process}

Characteristics == {rounds \in PrintedRounds : IsCharacteristic(rounds)}
WithExactWeight ==
  {rounds \in Characteristics : IsWeightOf(ObjectiveComponents(rounds), rounds)}

MeetsFixed(rounds, fixed) ==
  /\ \A d \in fixed.input : rounds[1].input = d
  /\ \A d \in fixed.output : rounds[Len(rounds)].output = d

\* The verdict on a trail is exact: it passes iff it is a characteristic of the
\* cipher that has the differences and meets the bounds of the request, and
\* then the components recomputed from the S-box table make up its probability.
VerdictExact ==
  \A p \in Process : pc[p] \in {"persist", "write"} =>
    LET rounds == trail[p].rounds
        weight == verification[p].objective_components
    IN  /\ verification[p].issues = {} <=>
             /\ trail[p].cipher = "GIFT-64"
             /\ rounds \in Characteristics /\ MeetsFixed(rounds, request[p].fixed)
             /\ MeetsContract(weight, request[p].contract)
        /\ rounds \in Characteristics => rounds \in WithExactWeight

\* What a step may do to the abstract run of a process: nothing, or one of its steps.
ControlledStep(p) ==
  \/ UNCHANGED Run(p)!run
  \/ Run(p)!Call \/ Run(p)!RunStep

\* Every process makes one controlled run: whatever it does to the files, what
\* it decides and returns is a step of ControlledGift64 on the abstract trail.
RunsAreControlled == [][\A p \in Process : ControlledStep(p)]_vars

\* A reference that a B5 run printed leads to the model it was printed for,
\* whatever other models are left in the same root.  It is lost only to another
\* run that found the same states: while that one writes, if it ended in its
\* write, or if its record says another cipher.
ReferencesResolve ==
  \A p \in Process :
    script[p] = "b5" /\ exit_code[p] = 0 /\ returned[p].result.status = "SAT" =>
      LET mine == returned[p].trail
      IN  \/ models[ModelName(mine)] = returned[p].result.model
          \/ \E q \in Process \ {p} :
               /\ script[q] = "b5" /\ trail[q].rounds = mine.rounds
               /\ \/ pc[q] = "write"
                  \/ returned[q].outcome = "returned" /\ returned[q].result.status = "ERROR"
                  \/ trail[q].cipher # mine.cipher

\* A passing regression check is earned by a model, whatever summary is checked
\* in: a run without one never passes, one with an exact label has found a trail
\* that answers the recorded request with the recorded components, and only
\* `record_only` lets it be another trail than the recorded one.
RegressionPassIsEarned ==
  \A p \in Process : script[p] = "b6" /\ exit_code[p] = 0 =>
    LET e == expectation[p]
        found == returned[p].trail
    IN  /\ returned[p].result.status = "SAT" /\ found # NoRecord
        /\ e.request_sha256 = Sha256(request[p])
        /\ e.required.exact_label_eligible =>
             /\ found.rounds \in WithExactWeight /\ MeetsFixed(found.rounds, request[p].fixed)
             /\ returned[p].result.objective_components = e.required.objective_components
             /\ MeetsContract(e.required.objective_components, request[p].contract)
        /\ Sha256(found) = e.observed_model_sha256 \/ e.model_hash_policy = "record_only"
==============================================================================
