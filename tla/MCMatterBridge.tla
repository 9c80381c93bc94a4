--------------------------- MODULE MCMatterBridge ---------------------------
(***************************************************************************)
(* Instances of MatterBridge for TLC.                                      *)
(***************************************************************************)
EXTENDS MatterBridge, TLC

\* Switches are interchangeable.
Symmetry == Permutations(Switches)

=============================================================================
