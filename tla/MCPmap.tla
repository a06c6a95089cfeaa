------------------------------- MODULE MCPmap -------------------------------
(* Instances of Pmap: pages and env slots are interchangeable. *)
EXTENDS Pmap, TLC

MCSymmetry == Permutations(Pages) \cup Permutations(Envs)
=============================================================================
