--------------------------- MODULE MCStage2Adapter ---------------------------
(***************************************************************************)
(* Stage2Adapter on small instances.  The limits in the cfg make every     *)
(* comparison of the code come out both ways: the budget can be gone       *)
(* before the compiler starts, during it (with less and with more than the *)
(* guard left), and before, during and after each key.                     *)
(***************************************************************************)
EXTENDS Stage2Adapter
==============================================================================
