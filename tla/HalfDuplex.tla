----------------------------- MODULE HalfDuplex -----------------------------
(***************************************************************************)
(* What the radio driver promises to the one task that commands it: a      *)
(* half-duplex radio that listens, turns round to send a frame or to keep  *)
(* a carrier on, and turns back.  It is retuned only while it is turning,  *)
(* listens on a band, never on the frequency of a single frame, and does   *)
(* not stay between the modes.                                             *)
(***************************************************************************)
EXTENDS Naturals

CONSTANTS
    Channels,   \* the frequencies it can be tuned to
    Bands       \* those of them it may listen on

VARIABLES phase, channel

radio == <<phase, channel>>

Phases == {"listen", "turn", "send", "carrier"}

RadioInit == phase = "listen" /\ channel \in Bands

\* It leaves a mode, and may be retuned at that.
Turn ==
    /\ phase \in {"listen", "carrier"}
    /\ phase' = "turn"
    /\ channel' \in Channels

Retune == phase = "turn" /\ channel' \in Channels /\ UNCHANGED phase

Send == phase = "turn" /\ phase' = "send" /\ UNCHANGED channel
Sent == phase = "send" /\ phase' = "turn" /\ UNCHANGED channel

Listen == phase = "turn" /\ phase' = "listen" /\ channel \in Bands /\ UNCHANGED channel

KeepCarrier == phase = "turn" /\ phase' = "carrier" /\ channel \in Bands /\ UNCHANGED channel

\* The stick starts again.
Reset == phase' = "listen" /\ channel' \in Bands

RadioNext == Turn \/ Retune \/ Send \/ Sent \/ Listen \/ KeepCarrier \/ Reset

\* A frame ends, and the radio arrives in a mode.
RadioFairness ==
    /\ WF_radio(Sent)
    /\ WF_radio(Send \/ Listen \/ KeepCarrier)

\* What it may do, and that it goes on.
RadioSafe == RadioInit /\ [][RadioNext]_radio

RadioSpec == RadioSafe /\ RadioFairness

=============================================================================
