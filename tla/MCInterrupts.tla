---------------------------- MODULE MCInterrupts ----------------------------
(* TLC instance of Interrupts. *)
EXTENDS Interrupts
=============================================================================
