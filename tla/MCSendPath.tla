----------------------------- MODULE MCSendPath -----------------------------
(* An instance of SendPath for TLC: the console as the only task that gives *)
(* commands, MC for the bridge included.  Profiles with the bridge have the *)
(* CHIP task besides; for two tasks at the radio see MCCc1101.              *)
EXTENDS SendPath

=============================================================================
