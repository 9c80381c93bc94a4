-------------------------- MODULE Cc1101Refinement --------------------------
(***************************************************************************)
(* The driver implements the half-duplex radio of module HalfDuplex when   *)
(* one task commands it.                                                   *)
(***************************************************************************)
EXTENDS Cc1101

\* The chip transmits what the pin says.
OnAir == marc = "TX" /\ dir = "out"

\* What the chip, the pin and the interrupt amount to.  A task that makes
\* pulses which are not on the air is in none of the phases.
Phase ==
    CASE \E t \in Tasks : At(t, "burst") -> IF OnAir /\ ~intr THEN "send" ELSE "none"
      [] Receiving /\ ~\E t \in Tasks : At(t, "burst") -> "listen"
      [] Carrier /\ \A t \in Tasks : ~Unsettled(t) -> "carrier"
      [] OTHER -> "turn"

Radio == INSTANCE HalfDuplex WITH
            Channels <- Frequencies,
            Bands    <- {Nominal(b) : b \in BOOLEAN},
            phase    <- Phase,
            channel  <- freq

\* The driver is a half-duplex radio: pulses are made only on the air, the
\* registers of the frequency change only while the radio is turned round,
\* the receiver is never armed on Somfy's frequency, and no command, restart
\* or power failure leaves the radio between two modes (cc1101.c 123-209).
ImplementsHalfDuplex == Radio!RadioSpec

=============================================================================
