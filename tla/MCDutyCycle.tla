---------------------------- MODULE MCDutyCycle -----------------------------
(***************************************************************************)
(* Instances of DutyCycle for TLC.                                         *)
(***************************************************************************)
EXTENDS DutyCycle

=============================================================================
