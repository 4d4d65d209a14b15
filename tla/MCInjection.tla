---------------------------- MODULE MCInjection ----------------------------
(* SyscallInjection on a small instance. *)
EXTENDS SyscallInjection
=============================================================================
