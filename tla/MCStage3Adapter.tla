--------------------------- MODULE MCStage3Adapter ---------------------------
(***************************************************************************)
(* Stage3Adapter on small instances: subcubes of two assignments, so that  *)
(* a partial count differs from the complete one and both can be zero.     *)
(***************************************************************************)
EXTENDS Stage3Adapter
==============================================================================
