---------------------------- MODULE SolverContract ----------------------------
(***************************************************************************)
(* solver-request/v1 and solver-result/v1 of shared/sat/contracts.py, as   *)
(* far as the controlled four-round GIFT-64 baseline tells them apart.     *)
(***************************************************************************)
EXTENDS StageCommon

CONSTANTS
  Weights,        \* model bound: the objective components a trail can have
  Bound           \* objective.components[].bound

\* The components of a split_probability_weight.
WeightComponent == {"integral_weight", "decimal_weight_count"}
Weight == [integral_weight : Nat, decimal_weight_count : Nat]

ASSUME ContractAssumption == Weights \subseteq Weight /\ Bound \in Weight

Comparison == {"<", "<=", "=", ">="}

\* SolverRequest: which cipher and number of rounds it asks for, in which layout
\* of the state; its objective (a comparison with Bound, or a kind the verifier
\* does not know) and the components it bounds, whose names are free; and
\* whether its process limit is a number that subprocess accepts.
Request ==
  [cipher : {"GIFT-64 R4", "GIFT-64 other rounds", "other"},
   layout : {"reference", "other"},
   objective : Comparison \cup {"other"},
   components : (SUBSET (WeightComponent \cup {"unknown"})) \ {{}},
   limit : {"finite", "none", "beyond_timer"}]

\* A TrailRecord: whether it is a differential characteristic of GIFT-64 with the
\* differences the request fixes (state
\* continuity, nonzero input, every S-box transition possible), and its weight.
Trail == [sound : BOOLEAN, weight : Weights]
NoWeight == [integral_weight |-> -1, decimal_weight_count |-> -1]
NoTrail == [sound |-> FALSE, weight |-> NoWeight]

NoModel == Sha256(NoTrail)

SolverResult ==
  [status : SolverStatus, definitive : BOOLEAN,
   model : {NoModel} \cup {Sha256(t) : t \in Trail},
   objective_components : Weights \cup {NoWeight},
   satisfied_bound : {"true", "false", "null"},
   verification : {"not_run", "passed", "failed"},
   exact_label_eligible : BOOLEAN]

\* SolverResult.__post_init__
ValidResult(r) ==
  /\ r.definitive => r.status \in {"SAT", "UNSAT"}
  /\ r.status = "SAT" <=> r.model # NoModel
  /\ IF r.status = "SAT" THEN r.objective_components # NoWeight /\ r.satisfied_bound # "null"
     ELSE r.objective_components = NoWeight /\ r.satisfied_bound = "null"
  /\ r.exact_label_eligible => r.definitive /\ r.verification = "passed"

\* _result for everything but a SAT answer.
PlainResult(status) ==
  [status |-> status, definitive |-> status \in {"SAT", "UNSAT"},
   model |-> NoModel, objective_components |-> NoWeight, satisfied_bound |-> "null",
   verification |-> "not_run", exact_label_eligible |-> FALSE]

\* _comparison_holds, of every component of the objective that can be computed.
ComparisonHolds(weight, request) ==
  \A name \in request.components \cap WeightComponent :
    CASE request.objective = "<" -> weight[name] < Bound[name]
      [] request.objective = "<=" -> weight[name] <= Bound[name]
      [] request.objective = "=" -> weight[name] = Bound[name]
      [] request.objective = ">=" -> weight[name] >= Bound[name]

\* verify_gift64_four_round_trail, a trail of this weight against the layout and
\* the objective of a request.  A decoded trail has the reference layout; nothing
\* is compared when the kind of the objective is unknown.
ContractIssues(weight, request) ==
  LET known == request.objective # "other"
      found == [request_layout_mismatch |-> request.layout # "reference",
                unsupported_objective |-> ~known,
                unsupported_bound_component |->
                  known /\ ~(request.components \subseteq WeightComponent),
                objective_bound |-> known /\ ~ComparisonHolds(weight, request)]
  IN  {code \in DOMAIN found : found[code]}

\* What a request wants of a trail, with no mention of issues: its differences
\* are meant in the reference layout, and every component it names is one of the
\* weight and meets its bound.
MeetsContract(weight, request) ==
  /\ request.layout = "reference"
  /\ request.objective \in Comparison
  /\ request.components \subseteq WeightComponent
  /\ ComparisonHolds(weight, request)
==============================================================================
