----------------------------- MODULE MCLifetime -----------------------------
(* AppLifetime on a small instance. *)
EXTENDS AppLifetime
=============================================================================
