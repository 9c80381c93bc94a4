------------------------------ MODULE Loopback ------------------------------
(***************************************************************************)
(* One stick sends, another one listens: the send functions of             *)
(* src/main/cc1101.c on one side, gpio_isr_handler and the fixed decoders  *)
(* of src/main/slowrf.c on the other.  The sender was given the frame, or  *)
(* its Matter bridge has made it of a command to a switch that it has      *)
(* heard before.                                                           *)
(*                                                                         *)
(* The sender repeats its frame; two of the 2 to 10 repetitions are        *)
(* modelled.  The receiver may hear noise before the train, may lose       *)
(* pulses of the first repetition to a full queue, and stretches every     *)
(* mark by `offset' microseconds at the expense of the space after it      *)
(* (a negative offset shortens the marks).                                 *)
(***************************************************************************)
EXTENDS Decoders, Encoders, BridgeFrames, FiniteSets

CONSTANTS
    Frames,      \* what may be sent: records of a kind and its data
    Offsets,     \* stretching of the marks
    Noise,       \* pulses heard before the train
    MaxFaults    \* bound on noise pulses and lost pulses together

\* A word of n symbols.
Word(n, S) == {w \in Seq(S) : Len(w) = n}

\* What the commands F, T, is, H and the Oregon command pass on: hexadecimal
\* digits, or symbols of which 32 are a frame of Intertechno V3.
FrameTypes ==
    [kind : {"FS20", "FHT"}, data : Seq(Word(8, Bit))]
      \cup [kind : {"HMS", "Oregon"}, data : Seq(Word(4, Bit))]
      \cup [kind : {"IT_V1"}, data : Seq({"0", "1", "F"})]
      \cup [kind : {"IT_V3"}, data : Word(32, {"0", "1"})]

ASSUME FramesAssumption == Frames \subseteq FrameTypes
\* More would join the halves of FS20 bits of different value.
ASSUME OffsetsAssumption == \A o \in Offsets : o \in Int /\ -49 <= o /\ o <= 49
ASSUME NoiseAssumption == Noise \subseteq Int \X {0, 1}

VARIABLES
    frame,       \* what is being sent
    command,     \* history: device and value of the last command, <<>> if the frame was given
    offset,      \* and how its marks are stretched
    pos,         \* number of pulses of the train that are past
    faults,      \* noise heard and pulses lost so far
    gapHeard     \* the gap at the end of the first repetition was queued

airVars == <<frame, command, offset, pos, faults, gapHeard>>
loopVars == <<decVars, airVars>>

Idle == [kind |-> "none", data |-> <<>>]

-----------------------------------------------------------------------------
(* The sender.                                                              *)

\* One repetition of a frame.
Train(f) ==
    CASE f.kind = "FS20"   -> cc1101_send_raw_slowrf(f.data)
      [] f.kind = "IT_V1"  -> cc1101_send_it_v1(f.data)
      [] f.kind = "IT_V3"  -> cc1101_send_it_v3(f.data)
      [] f.kind = "HMS"    -> cc1101_send_hms(f.data)
      [] f.kind = "FHT"    -> cc1101_send_fht(f.data)
      [] f.kind = "Oregon" -> cc1101_send_oregon(f.data)

\* Marks longer, spaces shorter by o.
Stretch(w, o) == [i \in DOMAIN w |-> <<w[i][1] + (IF w[i][2] = 0 THEN o ELSE -o), w[i][2]>>]

\* What the receiver reports of a frame: 16 bytes fit its array for FS20, of
\* which 31 digits are printed, and 24 nibbles of HMS.  The last nibble of HMS is
\* never complete, since its last space is part of the gap.
Reported(f) ==
    LET Start(n) == IF Len(f.data) > n THEN SubSeq(f.data, 1, n) ELSE f.data IN
    CASE f.kind = "FS20" -> <<"F", Printed(Start(FsCap))>>
      [] f.kind \in {"IT_V1", "IT_V3"} -> <<"is", f.data>>
      [] f.kind = "HMS" -> <<"H", IF Len(f.data) > NibCap THEN Start(NibCap) ELSE Front(f.data)>>

\* The frames that the receiver reports: long enough, and of HMS those whose
\* first bit is a 1, since zeros in front are taken for the preamble.  The gap
\* of 100 ms behind FHT and Oregon (cc1101.c 425, 518) is dropped by
\* gpio_isr_handler (slowrf.c:137), so neither is ever reported.
Reportable(f) ==
    \/ f.kind = "FS20" /\ Len(f.data) >= 4
    \/ f.kind = "IT_V1" /\ Len(f.data) = It1Len
    \/ f.kind = "IT_V3"
    \/ f.kind = "HMS" /\ Len(f.data) >= 9 /\ f.data[1][1] = 1

\* The switches that the frames given may come from, the commands to them and
\* the frames that these become.
Switches == {e \in {Event(Reported(f)) : f \in {g \in Frames : Reportable(g)}} : e.switch}
CommandsTo == [device : Switches, value : {0, 1}]
FramesOf(c) == Translate(c.device, c.value)
AllFrames == Frames \cup UNION {FramesOf(c) : c \in CommandsTo}

\* The repetition as it is heard, of every frame and offset.
Repetition == [f \in AllFrames |-> [o \in Offsets |-> Stretch(Train(f), o)]]

RepLen == IF frame = Idle THEN 0 ELSE Len(Repetition[frame][offset])

\* The pulse to come, of two repetitions.
Sending == frame # Idle /\ pos < 2 * RepLen
Pulse == Repetition[frame][offset][1 + (pos % RepLen)]

Transmit ==
    /\ frame = Idle
    /\ frame' \in Frames
    /\ command' = <<>>
    /\ offset' \in Offsets
    /\ UNCHANGED <<decVars, pos, faults, gapHeard>>

\* matter_bridge_command_cb: a frame is sent, or nothing.
Bridge ==
    /\ frame = Idle
    /\ \E c \in CommandsTo :
          /\ command' = <<c>>
          /\ \/ frame' \in FramesOf(c) /\ offset' \in Offsets
             \/ FramesOf(c) = {} /\ UNCHANGED <<frame, offset>>
    /\ UNCHANGED <<decVars, pos, faults, gapHeard>>

-----------------------------------------------------------------------------
(* The receiver.                                                            *)

\* The filter of gpio_isr_handler.
Longest == 20000
Queued(d) == d > 100 /\ d < Longest

\* The decoders know the durations that it lets through.
ASSUME FilterAssumption == \A d \in 0..Longest : Queued(d) => d \in Durations

\* slowrf_task takes a pulse.
Decode(p) ==
    IF Queued(p[1]) THEN sync_gap(p[1]) \/ data_pulse(p[1], p[2])
    ELSE UNCHANGED decVars

\* A pulse of the train.
Hear ==
    /\ Sending
    /\ Decode(Pulse)
    /\ pos' = pos + 1
    /\ gapHeard' = (gapHeard \/ (pos + 1 = RepLen /\ Queued(Pulse[1])))
    /\ UNCHANGED <<frame, command, offset, faults>>

\* The queue is full and the pulse is lost, in the first repetition.
Lose ==
    /\ Sending
    /\ pos < RepLen
    /\ faults < MaxFaults
    /\ faults' = faults + 1
    /\ pos' = pos + 1
    /\ UNCHANGED <<decVars, frame, command, offset, gapHeard>>

\* Noise before the train.
HearNoise ==
    /\ frame = Idle
    /\ faults < MaxFaults
    /\ faults' = faults + 1
    /\ \E p \in Noise : Decode(p)
    /\ UNCHANGED <<frame, command, offset, pos, gapHeard>>

\* The sender has nothing more to say.
Silence == frame # Idle /\ ~Sending /\ UNCHANGED loopVars

LoopInit ==
    /\ DecInit
    /\ frame = Idle
    /\ command = <<>>
    /\ offset = 0
    /\ pos = 0
    /\ faults = 0
    /\ gapHeard = FALSE

LoopNext == Transmit \/ Bridge \/ Hear \/ Lose \/ HearNoise \/ Silence

LoopSpec == LoopInit /\ [][LoopNext]_loopVars

-----------------------------------------------------------------------------
(* Properties.                                                              *)

\* Just before the last gap, which brings the report of the second repetition.
SecondGap == frame # Idle /\ pos + 1 = 2 * RepLen

\* Whatever noise came before and whichever pulse of the first repetition was
\* lost (unless it is the gap itself), and with marks stretched by any of the
\* offsets, the receiver is in step for the second repetition (slowrf.c
\* 307-405 against cc1101.c 273-391): of FS20 it reports the first 31 digits,
\* Intertechno as it was sent, HMS without its last nibble.  It says nothing of
\* an HMS frame that begins with a 0 bit, as the example of COMMANDS.md:30,
\* `H1234010101', does, nor of FHT and Oregon: see Reportable.
RoundTrip == Reportable(frame) /\ SecondGap /\ gapHeard => Reported(frame) \in Reports

\* Some report is an event of the device with one of these values.
Told(device, values) ==
    \E r \in Reports :
        /\ Event(r).proto = device.proto
        /\ Event(r).id = device.id
        /\ Event(r).value \in values

\* The frame that the bridge makes of the id of a switch, whatever the switch
\* was first heard with, is heard as an event of that very switch; for FS20
\* with the value commanded (matter_bridge.c 47-65 against slowrf.c 312-345).
\* Of the value for Intertechno V1 it says nothing, and a command to
\* Intertechno V3 sends no frame; see CommandHeard.
SwitchAddressed ==
    command # <<>> /\ SecondGap /\ gapHeard
    => LET c == command[1] IN
       Told(c.device, IF c.device.proto = "FS20" THEN {c.value} ELSE {0, 1})

\* MEMORY.md has it that the commands for FS20, IT_V1 and IT_V3 are rebuilt
\* from the id and validated: what the bridge was told to do another stick is
\* told, device and value.  Not so for Intertechno V1: matter_bridge.c:61 sends
\* a "0" for on, slowrf.c:344 takes a "0" for off.  Nor for Intertechno V3:
\* matter_bridge.c:68 wants a `_' in the id, slowrf.c:350 stores one without,
\* and nothing is sent.
CommandHeard ==
    command # <<>> /\ faults = 0 =>
        /\ frame # Idle
        /\ SecondGap => Told(command[1].device, {command[1].value})

=============================================================================
