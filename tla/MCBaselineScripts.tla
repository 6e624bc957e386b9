-------------------------- MODULE MCBaselineScripts --------------------------
(***************************************************************************)
(* Two processes over a two-nibble, two-round cipher with the S-box of     *)
(* GIFT and a permutation that is not its own inverse.  One program may    *)
(* print transitions of every probability, impossible ones included;       *)
(* the other a few trails, some of which the first prints as well.         *)
(***************************************************************************)
EXTENDS BaselineScripts

MCWeights == {Components(i, d) : i \in 0 .. 12, d \in 0 .. 4}
\* Some trails weigh (4, 0), one weighs (4, 1), which breaks the second bound only.
MCBound == Components(4, 0)

\* 0 -> 1 -> 6 -> 3 -> 0 and 2 -> 4 -> 7 -> 2.
MCPermutation == [i \in 0 .. 7 |-> <<1, 6, 4, 0, 7, 5, 3, 2>>[i + 1]]

S(high, low) == [k \in 0 .. 1 |-> IF k = 0 THEN high ELSE low]

\* The difference after a round whose S-boxes map to `logical`.
After(logical) ==
  LET bits == StateBits(logical)
  IN  StateNibbles([j \in 0 .. 7 |-> bits[CHOOSE i \in 0 .. 7 : MCPermutation[i] = j]])

\* A second round that is possible from any difference.
PossibleFrom(d) == CHOOSE out \in 1 .. 15 : GIFT64_DDT[d][out] # 0
NextRound(input) ==
  [input |-> input,
   output |-> After([k \in 0 .. 1 |-> IF input[k] = 0 THEN 0 ELSE PossibleFrom(input[k])])]

Chain(input, logical) == <<[input |-> input, output |-> After(logical)], NextRound(After(logical))>>

\* An input difference for every count in the table: 16, 6, 4, 2 and 0.
Transitions == {<<0, 0>>, <<6, 3>>, <<6, 2>>, <<4, 7>>, <<1, 5>>, <<1, 1>>, <<0, 1>>}
EveryTransition ==
  {Chain(S(0, t[1]), S(0, t[2])) : t \in Transitions}
    \cup {Chain(S(6, t[1]), S(2, t[2])) : t \in {<<0, 0>>, <<4, 7>>}}

\* Two trails with the same components, and one that does not continue.
Other == Chain(S(6, 0), S(2, 0))
Equal == Chain(S(2, 0), S(6, 0))
Broken == <<Equal[1], Other[2]>>

MCScripts == [p \in {"p1", "p2"} |-> IF p = "p1" THEN {"b5"} ELSE {"b5", "b6"}]

MCPrinted == [p \in {"p1", "p2"} |->
                IF p = "p1" THEN EveryTransition \cup {Broken} ELSE {Equal, Other, Broken}]

Baseline == [contract |-> [cipher |-> "GIFT-64 R4", layout |-> "reference", objective |-> "<=",
                           components |-> WeightComponent, limit |-> "finite"],
             fixed |-> [input |-> {}, output |-> {}]]
\* Some is refused, some leads to an issue of each kind, and one states its bound
\* of a component the verifier does not know.
MCRequests ==
  {Baseline, [Baseline EXCEPT !.contract.cipher = "other"],
   [Baseline EXCEPT !.contract.cipher = "GIFT-64 other rounds"],
   [Baseline EXCEPT !.contract.layout = "other"],
   [Baseline EXCEPT !.contract.limit = "none"],
   [Baseline EXCEPT !.contract.objective = ">=",
                    !.contract.components = {"integral_weight", "unknown"}],
   [Baseline EXCEPT !.contract.objective = "=",
                    !.contract.components = {"integral_weight"},
                    !.fixed = [input |-> {S(6, 0)}, output |-> {}]]}

Recorded == [trail |-> [cipher |-> "GIFT-64", rounds |-> Other]]
Summary(status, definitive, weight, bound, verdict, exact) ==
  [status |-> status, definitive |-> definitive, objective_components |-> weight,
   satisfied_bound |-> bound, verification |-> verdict, exact_label_eligible |-> exact]
Expectation(summary, policy) ==
  [request_sha256 |-> Sha256(Baseline), required |-> summary,
   observed_model_sha256 |-> Sha256(Recorded.trail), model_hash_policy |-> policy,
   adapter_version |-> Current, verifier_version |-> Current]

Found == Summary("SAT", TRUE, ObjectiveComponents(Other), "true", "passed", TRUE)
MCExpectations ==
  {Expectation(Found, "record_only"), Expectation(Found, "exact"),
   Expectation(Summary("UNSAT", TRUE, NoWeight, Null, "not_run", FALSE), "record_only"),
   Expectation(Summary("SAT", TRUE, ObjectiveComponents(Other), "true", "failed", TRUE), "exact")}

==============================================================================
