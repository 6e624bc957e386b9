-------------------------- MODULE MCPipelineRunner --------------------------
(***************************************************************************)
(* PipelineRunner with two keys and two samples: enough for a stage to mix *)
(* statuses, and for a batch to lose its budget between two items.         *)
(***************************************************************************)
EXTENDS PipelineRunner
==============================================================================
