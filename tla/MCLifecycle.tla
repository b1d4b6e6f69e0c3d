---------------------------- MODULE MCLifecycle -----------------------------
(* Lifecycle with a few connections, see README.md. *)
EXTENDS Lifecycle
=============================================================================
