---------------------------- MODULE MCRoundRobin ----------------------------
(* RoundRobin on a fleet that does not divide 2^w, see README.md. *)
EXTENDS RoundRobin
=============================================================================
