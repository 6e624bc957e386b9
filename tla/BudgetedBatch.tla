---------------------------- MODULE BudgetedBatch ----------------------------
(***************************************************************************)
(* What a budgeted stage (Stage 2 over keys, Stage 3 over samples) promises *)
(* its caller, with no clock, no process and no compiler: items are taken  *)
(* in order, one at a time, while the total budget lasts; an item is left  *)
(* unstarted only because the budget is gone, and then so are all later    *)
(* ones; the stage either delivers a verdict on every item or fails and    *)
(* delivers nothing.                                                       *)
(***************************************************************************)
EXTENDS Integers

CONSTANT ItemCount       \* keys of the corpus, or samples of the request

VARIABLES
  outcome,       \* what is known of each item
  budget_gone,   \* the total wall-time budget has run out
  verdict        \* whether the stage is still working, delivered or failed

vars == <<outcome, budget_gone, verdict>>

Items == 0 .. ItemCount - 1

Pending(i) == outcome[i] = "pending"
NoneLeft == \A i \in Items : ~Pending(i)

\* The budget may run out during any step and never comes back.
TimePasses == budget_gone' \in BOOLEAN /\ (budget_gone => budget_gone')

Init ==
  /\ outcome = [i \in Items |-> "pending"]
  /\ budget_gone = FALSE
  /\ verdict = "open"

\* The next item runs: only in order, and only if it starts within the budget.
Settle(i) ==
  /\ verdict = "open"
  /\ ~budget_gone
  /\ Pending(i)
  /\ \A j \in Items : j < i => outcome[j] = "ran"
  /\ outcome' = [outcome EXCEPT ![i] = "ran"]
  /\ TimePasses
  /\ UNCHANGED verdict

\* Everything still pending is reported unstarted, because the budget is gone.
GiveUp ==
  /\ verdict = "open"
  /\ ~NoneLeft
  /\ outcome' = [i \in Items |-> IF Pending(i) THEN "unstarted" ELSE outcome[i]]
  /\ budget_gone' = TRUE
  /\ UNCHANGED verdict

\* Time spent outside items: reading inputs, probing tools, compiling.
Prepare ==
  /\ verdict = "open"
  /\ TimePasses
  /\ UNCHANGED <<outcome, verdict>>

\* A verdict is delivered only when every item is accounted for.
Deliver ==
  /\ verdict = "open"
  /\ NoneLeft
  /\ verdict' = "delivered"
  /\ UNCHANGED <<outcome, budget_gone>>

Fail ==
  /\ verdict = "open"
  /\ verdict' = "failed"
  /\ TimePasses
  /\ UNCHANGED outcome

Next ==
  \/ \E i \in Items : Settle(i)
  \/ GiveUp
  \/ Prepare
  \/ Deliver
  \/ Fail

\* The stage is left sooner or later, with a verdict or without one.
Returns == <>(verdict # "open")

SafeSpec == Init /\ [][Next]_vars
Spec == SafeSpec /\ Returns
==============================================================================
