-------------------------- MODULE MCThreadComparison --------------------------
(***************************************************************************)
(* ThreadComparison for the request the baseline uses and for those that   *)
(* differ from it in one respect.                                          *)
(***************************************************************************)
EXTENDS ThreadComparison

Components(integral, decimal) ==
  [integral_weight |-> integral, decimal_weight_count |-> decimal]

\* Below the bound, at it, and below it in one component only.
MCBound == Components(1, 1)
MCWeights == {Components(0, 0), Components(1, 1), Components(0, 2)}

Baseline == [cipher |-> "GIFT-64 R4", layout |-> "reference", objective |-> "<=",
             components |-> WeightComponent, limit |-> "finite"]

MCRequests ==
  {[Baseline EXCEPT !.objective = o] : o \in Comparison \cup {"other"}}
    \cup {[Baseline EXCEPT !.cipher = c] : c \in {"GIFT-64 other rounds", "other"}}
    \cup {[Baseline EXCEPT !.layout = "other"]}
    \cup {[Baseline EXCEPT !.components = c] :
             c \in {{"integral_weight"}, {"integral_weight", "unknown"}}}
    \cup {[Baseline EXCEPT !.limit = l] : l \in {"none", "beyond_timer"}}
==============================================================================
