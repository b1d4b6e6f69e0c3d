----------------------------- MODULE MCDispatch -----------------------------
(***************************************************************************)
(* Model checking of Dispatch: chains of up to MaxAttempt slots, every     *)
(* handler and every chain length from the initial states.                 *)
(***************************************************************************)
EXTENDS Dispatch
=============================================================================
