------------------------------ MODULE MCStats ------------------------------
(* Stats with two calls and two snapshots, see README.md. *)
EXTENDS Stats
=============================================================================
