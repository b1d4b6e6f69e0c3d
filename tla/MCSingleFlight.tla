--------------------------- MODULE MCSingleFlight ---------------------------
(* SingleFlight with a few callers, see README.md. *)
EXTENDS SingleFlight
=============================================================================
