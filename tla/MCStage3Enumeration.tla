------------------------- MODULE MCStage3Enumeration -------------------------
(***************************************************************************)
(* Inputs of three bits, of which one or two are fixed: every subcube,     *)
(* every set of satisfying inputs, every order in which models are found.  *)
(***************************************************************************)
EXTENDS Stage3Enumeration
==============================================================================
