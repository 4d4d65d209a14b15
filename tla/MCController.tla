---------------------------- MODULE MCController ----------------------------
(* MigrationController on small instances. *)
EXTENDS MigrationController
=============================================================================
