-------------------------- MODULE MCTaskLifecycle --------------------------
(* TaskLifecycle on small instances.                                       *)
EXTENDS TaskLifecycle, TLC

(* Tasks, processes and consumers are interchangeable: no action and no    *)
(* safety property names one of them.                                      *)
Symmetry == Permutations(Tasks) \cup Permutations(Slots)
============================================================================
