------------------------------ MODULE MCRestore ------------------------------
(* RestoreAgent on small instances. *)
EXTENDS RestoreAgent
=============================================================================
