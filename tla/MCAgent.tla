------------------------------ MODULE MCAgent ------------------------------
(* CheckpointAgent on small instances; pages are interchangeable. *)
EXTENDS CheckpointAgent, TLC

PageSymmetry == Permutations(Pages)
=============================================================================
