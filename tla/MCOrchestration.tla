-------------------------- MODULE MCOrchestration --------------------------
(* Orchestration on every workflow of at most MaxNodes nodes.              *)
EXTENDS Orchestration, TLC
============================================================================
