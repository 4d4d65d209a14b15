------------------------------- MODULE MCSpot -------------------------------
(* SpotMonitor on a small instance. *)
EXTENDS SpotMonitor
=============================================================================
