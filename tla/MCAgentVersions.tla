-------------------------- MODULE MCAgentVersions --------------------------
(* AgentVersions on small instances.                                       *)
EXTENDS AgentVersions, TLC

(* No action and no safety property names a version, a configuration or a  *)
(* request.                                                                *)
Symmetry ==
  Permutations(Versions) \cup Permutations(Configs) \cup Permutations(Requests)
============================================================================
