-------------------------- MODULE MCGF2Elimination --------------------------
(***************************************************************************)
(* Every system of three equations in three unknowns, with and without a   *)
(* fixed term: all ranks, redundant and contradictory systems included.    *)
(***************************************************************************)
EXTENDS GF2Elimination
==============================================================================
