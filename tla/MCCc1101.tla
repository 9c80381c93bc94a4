------------------------------ MODULE MCCc1101 ------------------------------
(***************************************************************************)
(* Instances of Cc1101 for TLC: two tasks are the Wi-Fi profile (parser    *)
(* and httpd) or the Matter one, one task is the serial profile, where     *)
(* only culfw_parser_task issues commands.                                 *)
(***************************************************************************)
EXTENDS Cc1101, TLC

Symmetry == Permutations(Tasks)

=============================================================================
