----------------------------- MODULE MCTransfer -----------------------------
(* CheckpointTransfer on a small instance. *)
EXTENDS CheckpointTransfer
=============================================================================
