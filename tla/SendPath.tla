------------------------------ MODULE SendPath ------------------------------
(***************************************************************************)
(* The way of a Somfy frame through the stick: the Somfy branch of         *)
(* matter_bridge_command_cb takes a rolling code (module RollingCode) and  *)
(* calls cc1101_send_somfy (module Cc1101), which sends it on a frequency  *)
(* of its own.  The tasks give the other commands of Cc1101 too.  Both     *)
(* parts keep their state in the same NVS, lose power at the same moment   *)
(* and are erased by the same command.                                     *)
(***************************************************************************)
EXTENDS RollingCode

CONSTANTS
    NoTask, Commands, Marker433, PollLimit    \* see Cc1101

VARIABLES
    at,                                       \* pc of Cc1101
    op, polls, owner, waiting, marc, dir, intr, freq, is433, nvsFreq, usbFull

driver == <<at, op, polls, owner, waiting, marc, dir, intr, freq, is433, nvsFreq,
            usbFull>>
codes  == <<stored, pc, code, last, skips, obeyed, raced>>
all    == <<driver, codes, ready>>

C == INSTANCE Cc1101Refinement WITH pc <- at, nvsReady <- ready

ASSUME DriverAssumption ==
    /\ NoTask \notin Tasks /\ Commands \subseteq C!AllCommands
    /\ Marker433 \in BOOLEAN /\ PollLimit \in Nat

-----------------------------------------------------------------------------
(* matter_bridge_command_cb for a Somfy device.                             *)

TakeCode(t) == C!At(t, "ready") /\ get_code(t) /\ UNCHANGED driver

StoreCode(t) == inc_code(t) /\ UNCHANGED driver

\* duty_cycle_add_tx refuses the frame.
Refuse(t) == C!At(t, "ready") /\ miss(t) /\ UNCHANGED driver

StartFrame(t) == pc[t] = "send" /\ C!cc1101_send_somfy(t) /\ UNCHANGED codes

\* One of the repetitions reaches the blind.
Heard(t) ==
    /\ C!At(t, "burst") /\ op[t] = "somfy"
    /\ C!OnAir /\ freq = "433.42"
    /\ hear(t)
    /\ UNCHANGED driver

-----------------------------------------------------------------------------
(* The driver, for every command.  A Somfy frame that command Ys sends is   *)
(* for another blind.                                                       *)

Issue(t) == pc[t] = "idle" /\ C!Issue(t) /\ UNCHANGED codes

\* What a step of the driver means to the codes.
Follow(t) ==
    CASE C!At(t, "burst") /\ pc[t] = "send" -> miss(t)
      [] C!At(t, "erase") -> erase(t)
      [] C!At(t, "restart") -> restart(t)
      [] OTHER -> UNCHANGED codes

FreeStep(t)   == C!FreeStep(t) /\ Follow(t)
TakingStep(t) == C!TakingStep(t) /\ UNCHANGED codes
Answer(t)     == C!Answer(t) /\ UNCHANGED codes

Settle == C!Settle /\ UNCHANGED codes
Usb    == (C!ReportsFill \/ C!HostReads) /\ UNCHANGED codes

PowerCycle ==
    \E button \in BOOLEAN :
        C!Boot(IF button THEN 0 ELSE nvsFreq) /\ PowerLoss(button)

-----------------------------------------------------------------------------

PathInit == Init /\ C!Init

Callback(t) == StoreCode(t) \/ Refuse(t) \/ StartFrame(t)

PathNext ==
    \/ \E t \in Tasks : \/ TakeCode(t) \/ Callback(t) \/ Heard(t)
                        \/ Issue(t) \/ FreeStep(t) \/ TakingStep(t) \/ Answer(t)
    \/ Settle
    \/ Usb
    \/ PowerCycle

\* As in Cc1101, and a callback that has begun goes on.  Nothing is asked of
\* the host: no frame waits for the USB.
PathSpec ==
    /\ PathInit /\ [][PathNext]_all
    /\ WF_all(Settle)
    /\ \A t \in Tasks : /\ WF_all(FreeStep(t)) /\ SF_all(TakingStep(t))
                        /\ WF_all(Callback(t))

-----------------------------------------------------------------------------
(* Properties.  ObeyedInTurn is that of RollingCode: no frame on the air on *)
(* Somfy's frequency carries a code the blind has seen or passed.           *)

\* A frame is on the air while its pulses are made, alone and on its
\* frequency, when one task gives the commands (cc1101.c 142-163, 446-523).
FrameOnAir == C!FrameOnAir

\* Between commands the flag, the registers and NVS agree on the band, also
\* after a Somfy frame or a power failure in the middle of one.
ConfigConsistent == C!ConfigConsistent

\* After every frame the receiver is armed again.
BackToReceive == C!BackToReceive

\* The driver is a half-duplex radio, whatever is sent (module HalfDuplex).
ImplementsHalfDuplex == C!ImplementsHalfDuplex

=============================================================================
