# A TLA+ model of culfw-NG

culfw-NG is firmware for a USB stick with an ESP32-C6 and a CC1101 radio. It
receives and sends on-off-keyed home-automation signals in the 433 and 868 MHz
bands ("SlowRF": FS20, FHT, HMS, Intertechno, Oregon, Somfy), speaks the CUL
and SIGNALduino line protocols over USB, serves a web page, and bridges the
devices it hears to Matter. This directory models the parts of the firmware
that keep state, checks them with TLC and proves theorems about them with
TLAPS. All paths below are relative to the repository.

## 1. Inventory

The chip has one core. FreeRTOS schedules these tasks on it:

| task | priority | runs |
|---|---|---|
| GPIO interrupt | - | `gpio_isr_handler`: measures pulses, fills `pulse_queue` |
| `slowrf_task` | 10 | generic and fixed decoders, MU buffer, reporting, Matter events |
| `culfw_parser_task` | 5 | reads USB lines, `handle_command` |
| httpd (Wi-Fi profile) | 5 | web page; `/cmd` calls `handle_command` |
| CHIP task (Matter profiles) | 5 | Matter stack; `app_attribute_update_cb` |
| `matter_bridge_task` | 5 | uptime counter |
| `led_task` | 2 | blinks |
| `app_main` | 1 | start-up, in the end `matter_bridge_init` |

In the serial profile only the parser issues commands. In the other profiles
the parser, httpd and the CHIP task call into the same driver and share its
state; several of these calls sleep or block, so the calls interleave.

| component | state | operations | what makes it correct |
|---|---|---|---|
| radio driver, `main/cc1101.c` | `spi_mutex`, mode of the chip, direction and interrupt of GDO0, frequency registers, `cc1101_is_433_flag`, NVS `freq` | `cc1101_init`, `set_rx_mode`, `set_tx_mode`, `set_frequency`, nine send functions, register access and dump | a frame is sent in transmit mode and on its frequency; the stick listens again afterwards and never to itself; flag, registers and NVS agree; every command ends |
| duty-cycle monitor, `main/culfw_duty_cycle.c` | `airtime_ms_1h`, `last_reset_time` | `init`, `add_tx`, `get_remaining` | the airtime it admits per hour is bounded; the remaining time it announces is granted |
| rolling codes, `main/rolling_code.c` | one NVS counter per device | `get_and_inc` | no code is sent twice, also across power failures |
| Matter bridge, `main/matter_bridge.c`, `matter_interface.cpp` | `device_table`, `device_count`, command callback; in the SDK the endpoints and their numbering | `report_event`, `command_cb`, `init`, `create_endpoint`, `update_attribute` | one row and one endpoint per device; commands reach the device of their endpoint |
| receiver, `main/slowrf.c` | pulse queue, seven decoders, MU buffer, `protocol_matched`, mode, reporting, ring of web events | interrupt handler, `process_pulse`, task loop, setters | a whole frame is reported once; indices stay in range |
| generic decoder, `main/generic_decoder.c` | protocol table, one state per protocol | `load_from_json`, `process_pulse` | a frame sent by the definition is decoded to its bits; a reload does no harm |
| parser, `main/culfw_parser.c` | line buffer, `reporting_enabled`, NVS `reporting` and `mode` | line assembly, `handle_command` | one command per line; settings survive a restart |
| database loader, `main/config_loader.c` | none | reads, decrypts and hands over JSON | |
| web server, Wi-Fi, Thread managers | handles of the SDKs | set-up, page, `/cmd` | |
| start-up, `main/main.c` | order of initialisation | `app_main`, reset button | |

The repository vendors ESP-IDF components and the Matter SDK; the firmware
itself is some 3400 lines in `main/` and `include/`, which are what is modelled.

What is hard here: calls of several tasks into a driver whose mutex covers less
than a transmission; check-then-act on shared counters without a lock; state
that is partly persistent (NVS, the SDK's own NVS) and partly not, with power
failures in between; a start-up that goes on while tasks are running; pulses,
queues and buffers at their limits. `PROJECT.json` lists these hazards at their
lines.

## 2. Modules

| module | models | with |
|---|---|---|
| `Cc1101` | the radio driver and the tasks that call it | |
| `HalfDuplex` | what the driver promises to one task, abstractly | |
| `Cc1101Refinement` | the driver as an implementation of it | `Cc1101`, `HalfDuplex` |
| `RollingCode` | the rolling-code manager and the blind | |
| `SendPath` | a Somfy command from the bridge through both to the air | `RollingCode`, `Cc1101Refinement` |
| `DutyCycle` | the duty-cycle monitor and its callers | |
| `MatterBridge` | the device table, the SDK's endpoints, events and commands | |
| `Decoders` | the seven fixed decoders of `slowrf_task` | |
| `Encoders` | the pulses of the send functions | |
| `BridgeFrames` | from reports to Matter events, from Matter commands to frames | |
| `Loopback` | one stick sends, another one hears | `Decoders`, `Encoders`, `BridgeFrames` |
| `GenericDecoder` | the table-driven decoder and the loader of its table | |
| `SlowRf` | interrupt, queue, `slowrf_task`, command `X` and `GR`, USB, start-up | `GenericDecoder` |

`MC*` modules instantiate them for TLC; `*Proofs` modules hold the theorems.
Definitions named `X_Something` before a definition `X` are faulty variants of
it, used to confirm that the properties can fail.

**Cc1101.** One step of a task is the code between two places where another
task can see or change something: taking `spi_mutex`, a delay, or a write to
shared state outside the mutex. `pc` names the place, `op` the command. The
recursive mutex is its owner; nested takes by the owner are invisible. The
chip (`AfterSTX`, `SIDLE`, `Settle`) is external: leaving IDLE it calibrates,
STX in RX obeys clear-channel assessment, STX during a calibration may be
ignored. Delays in the code are 1 to 10 ms, a calibration takes at most 0.8 ms:
`waiting` holds the tasks whose delay outlasts the calibration under way. The
poll delay after the first poll is the exception: it is one tick of 1 ms and
may be shorter than that, so only the second one in a row outlasts it. A
frame is the label `burst`: all pulses of all repetitions. Commands with the
same control flow share `frame`. A command ends when its answer is written
(`Answer`), which waits for room in the buffer of the USB driver (`usbFull`):
reports and answers fill it, the host empties it. The callback of the bridge
writes no answer. Left out: the LED, raw register access by the
diagnostic commands `W` and `R`, `cc1101_set_idle_mode`, which nobody calls, and
a chip that does not answer at start-up.

**HalfDuplex, Cc1101Refinement.** The abstract radio listens, turns, sends or
keeps a carrier, and turns back; it changes its frequency only while turning
and never listens on Somfy's. `Cc1101Refinement` maps chip mode, pin, interrupt
and the tasks' labels to its phase.

**RollingCode, SendPath.** Taking a code and storing its successor are two
steps; the power may fail after either, and command `e` may erase NVS under a
task. The blind is external and obeys codes ahead of the last one it received
by up to half the code space. `raced` records that a code was taken out of turn:
while that of another task was between NVS and the end of its frame, or between
the erase and the restart. A write to NVS that fails for another reason
(`rolling_code.c:18-19` ignores the result) is left out. `SendPath` follows the code on: the duty-cycle
monitor refuses the frame, or `cc1101_send_somfy` retunes, sends and restores;
the blind hears a frame only when the chip transmits it on 433.42 MHz. Both
parts share NVS, the restart and the other commands.

**DutyCycle.** `duty_cycle_add_tx` is split at its accesses to shared memory.
The hour is `Window` units of time, the limits are a few units of airtime. The
addition in line 33 may reuse the value read for the check or read it anew.
`cc1101_send_it_v1`, `_hms`, `_fht`, `_oregon` and the commands `m` and `TX1`
transmit without asking the monitor; nothing of its state is involved, so the
model has no action for them, and its properties speak of the airtime that was
asked for. Torn reads of the 64-bit `last_reset_time` are left out.

**MatterBridge.** Registration is lookup, row, endpoint, counting; the
increment of `device_count` is a load and a store. `boot` follows
`matter_bridge_init` through `app_main`. The SDK (vendored) numbers
endpoints upwards, keeps the next number in NVS once it has been started and
calls back before it updates an on/off attribute; with
`CONFIG_ESP_MATTER_MAX_DYNAMIC_ENDPOINT_COUNT=16` it grants 14 endpoints to
devices, fewer than the 20 rows of `device_table`; a device of a type that
`matter_interface_create_endpoint` does not know (`Untyped`, by command `MA`) is
given none. `transmit` stands for the
whole translation of a command, which is in `BridgeFrames`. History variables
record for which device an endpoint was created, where the last command went,
and (`raced`) that a registration began while another one was under way or
before the SDK was started.

**Decoders, Encoders, BridgeFrames, Loopback.** A pulse is its duration in
microseconds and the level after it, a byte a sequence of bits, an Intertechno
packet its symbols. Each fixed decoder is a record, as in the code, and a
function of record and pulse; arrays are sequences, `last_pulse` of the HMS
decoder starts with whatever the stack holds (`Garbage`). `sync_gap` is what
happens at a pulse over 4000 microseconds, after the packets in `Reports` have
gone out. An encoder is the sequence of waits of its send function; waits at
the same level join to one pulse on the air: the pause after a frame makes its
last space longer (`Longer`), and in Oregon's Manchester code halves of
neighbouring bits join (`Wave`). `Loopback` puts the two together
through the filter of the interrupt handler: the frame is one of `Frames`, any
well-formed ones (`FrameTypes`: hexadecimal digits, or symbols), or
what `matter_bridge_command_cb` makes of a command to a switch that such a frame
has made known. `Reported` is what the receiver makes of a frame at best, for the
frames in `Reportable`. Checksums are in the frames the bridge makes, and no decoder
looks at them.

**GenericDecoder, SlowRf.** `slowrf_task` has the highest priority, so others
run only while it waits: for a pulse, for the driver's mutex (to read the RSSI)
or for room in the USB buffer. `pc` names these places. The generic decoder
takes one pulse through one protocol per step; a report is the wait for the
mutex, the wait for USB and the rest. The loader writes the table field by field
while the decoder uses it. What a fixed decoder makes of a signal is any outcome
here. The command task is the list of steps it has still to take; at start-up it
is `app_main`. NVS holds reporting and mode. `gen`, `fixed` and `raw` record who
has reported the signal, `acked` the settings that were acknowledged.

## 3. Runs

| run | instance | shows |
|---|---|---|
| `send_path` | one task, all commands and Somfy commands of the bridge, fair | `TypeOK`, `ObeyedInTurn`, `FrameOnAir`, `ConfigConsistent`, `BackToReceive`, `ImplementsHalfDuplex` |
| `cc1101_shared` | two tasks, all commands but `TX1`, fair, a host that reads | `TypeOK`, `NoSelfReception`, `QuiescentConsistent`, `FactoryResetSticks`, `CommandsEnd` |
| `cc1101_frame_race` | two tasks sending frames | `FrameOnAir` fails |
| `cc1101_somfy` | parser only | `SomfyKeepsBand` fails |
| `duty_single` | one sender, two resets of the account | `TypeOK`, `HourWithinTwiceLimit`, `RemainingHonest`, `AccountBounded`, `AccountComplete` |
| `matter_shared` | two reporters, one commander, events during start-up, restarts, a type without endpoint | `TypeOK`, `CountBounded`, `ConsistentUnlessRaced`, `ReachedUnlessRaced` |
| `matter_race` | two reporters | `TableConsistent` fails |
| `matter_restart` | one reporter, restarts | `SameEndpoint` fails |
| `loopback` | twelve frames of six protocols, the commands to their switches, marks stretched by -49 and 49, one noise pulse or lost pulse | `DecTypeOK`, `ArraysInRange`, `RoundTrip`, `SwitchAddressed` |
| `loopback_it1` | Intertechno V1 frames and the commands to their switches, undisturbed | `CommandHeard` fails |
| `slowrf` | two databases, a pulse and a gap, queue, buffers of one, commands `X00`, `X25`, `GR`, `e`, power failures, fair | `RfTypeOK`, `IndicesInRange`, `GenericNotRaw`, `WithheldForReason`, `SettingsDurable`, `ReceiverReturns` |
| `slowrf_twice` | the same | `ReportedOnce` fails |

The runs that fail each refute a sentence of the repository's documentation
or a comment; `PROJECT.json` quotes it under "findings":

* MEMORY.md says the driver's mutex prevents races. It prevents self-reception
  and a radio left half switched (`cc1101_shared`, and proved for any number of
  tasks), but a frame is sent after the mutex has been released, and a second
  task ends it (`cc1101_frame_race`).
* The comment at `cc1101.c:493` says the band is set back to what was
  configured. It is set, and stored, as 433 MHz (`cc1101_somfy`).
* MEMORY.md calls the bridge thread-safe through `chip_stack_lock`. The lock
  does not cover `device_table`: two tasks that register at once share a row
  (`matter_race`). Until a registration begins out of turn the table is consistent
  and commands reach their device (`matter_shared`, and proved).
* MEMORY.md says a device always keeps its Matter endpoint. After a restart it
  is given a new number (`matter_restart`). Commands sent to the old number
  reach nobody rather than the wrong device (`ReachedUnlessRaced`, proved).
* MEMORY.md says that no MU line is printed for a signal that a decoder, fixed
  or generic, has handled. For the generic ones that holds (`GenericNotRaw`,
  proved). The fixed ones report after the flush: the signal is printed twice
  (`slowrf_twice`), and the MU line of the signal after it is withheld instead,
  but never that of a later one (`WithheldForReason`, proved).
* MEMORY.md says that the bridge rebuilds the commands of FS20, IT_V1 and IT_V3
  from the id. For FS20 it does (`SwitchAddressed`, proved). For Intertechno V1
  the bridge sends "0" for on (`matter_bridge.c:61`) and the receiver takes "0"
  for off (`slowrf.c:344`, `loopback_it1`); as the SDK calls back for every update,
  the bridge even answers a switch that it has just heard with the opposite
  symbol.

Further disagreements met while modelling, each visible in a model but without a
run of its own:

* MEMORY.md:48 calls the monitor's hour sliding. It is a fixed window
  (`culfw_duty_cycle.c:23`), and an hour across its end may hold up to twice the
  limit; never more is `HourWithinTwiceLimit`.
* MEMORY.md:25 calls the serial interface non-blocking. Commands write their
  answers with `portMAX_DELAY` (`culfw_parser.c` 146-148, 177, 303): with a full
  buffer and no host that reads, the parser and httpd wait for ever, and `e` does
  not restart. `CommandsEnd` holds because `Fairness` has a host that reads.
* MEMORY.md:43 says the rolling codes are stored so that stick and blind do not
  drift apart. The CHIP task and the console may take the same code
  (`rolling_code.c:13`). Nothing but such an overlap, or a code taken between an
  erase and the restart, does it (`ObeyedInTurn`, proved for any number of tasks).
* `matter_bridge_init` clears the row of a registration that began before it
  (`matter_bridge.c:172`; `slowrf_task` is started at `main.c:111`, the bridge
  initialised at `main.c:133`): with `EarlyEvents` a single reporter breaks
  `TableConsistent`, against MEMORY.md:146.
* MEMORY.md:14-17, 70 and 77 list FHT, Oregon and HMS as sent and received and all
  protocols as validated end to end. The gaps after FHT and Oregon frames are
  100 ms, the interrupt drops pulses of 20 ms and more (`slowrf.c:137`), and without
  a gap nothing is reported. The HMS decoder has no sync: zeros in front, as in
  `H1234010101` of COMMANDS.md:30, are taken for the preamble, and the last bit is
  lost to the gap. `Reportable` and `Reported` say so.
* A command to an Intertechno V3 device that a fixed decoder has found sends
  nothing, as its id has no underscore (`matter_bridge.c:68`, the second disjunct
  of `Bridge`), against MEMORY.md:99.

What the passing run `loopback` says, and where its properties stop:

* `RoundTrip`: FS20, Intertechno V1 and V3 and HMS frames are reported, with marks
  stretched by up to 49 microseconds and after any faults that the gap between
  the repetitions survives, in the repetition after them. It is about the frames
  in `Reportable`: long enough to be reported and, with HMS, beginning with a 1
  bit; and it expects `Reported`: of FS20 frames of 16 bytes the last digit is
  cut off, of HMS frames the last nibble is missing. TLC checks a single fault,
  the theorem `TrainsReported` is about any number.
* In the repetition that a pulse is missing from, an FS20 frame may be reported
  with another command, since its checksum is not compared. Nothing is said of
  that repetition, nor of what other decoders make of a frame: the HMS decoder
  reports FS20 and Intertechno V3 frames as HMS packets besides, and the FHT
  decoder an FS20 frame of nine bytes that begins with `FF60`, the sync pattern of
  FHT. (The FHT decoder measures the mark, where the comment at `slowrf.c:537`
  speaks of the space.)
* `SwitchAddressed` is about the frames that the bridge does send, and about the
  value of FS20 only.

The runs `send_path` and `duty_single` have one task. The driver's callers, the
monitor, the codes and the table have no common lock, and no profile with the
bridge has only one of these tasks: two tasks do break `AccountBounded` (both pass
the check before either adds), `TableConsistent` and `CommandReachesDevice`, the
order of the codes and, in `Cc1101`, `ConfigConsistent` (two bands written in turn)
and `FrameOnAir`. What holds with several tasks is in `cc1101_shared`,
`matter_shared` and the theorems of section 4, `ObeyedInTurn` among them; with one
task, as in `send_path`, no code is ever taken out of turn, so that there the blind
obeys every frame.

**Bounds.** `PollLimit = 2` instead of 100: the loop has a first poll, a further
one and a last one. Two tasks: every race above needs two. `Window = 2` with the clock up
to 6 admits two resets of the account; durations 1 and 2 against limits 3 and
2 make exact fits, refusals and an account above the limit of the other band.
Codes modulo 8 wrap around several times; at most 4 codes (half the space, as
in the receiver) are taken between two frames received. Two rows and two
devices with endpoints fill the table, the third device is of a type without one;
`SdkEndpoints` equals the number of rows, the case in which `device_count` can just
reach the end of the table. `MaxEp` bounds the endpoint numbers: creation stops there.
In `loopback` the frames have all symbols, both parities, runs of equal symbols
and lengths beyond the arrays of the decoders; two repetitions show what a
spoiled first one leaves behind for the second; `MaxFaults` is 1, and 0 in
`loopback_it1`, whose marks are not stretched either. In `slowrf` the
two databases differ in the length of sync and bits, and one has a bit that does
not fit the array; one slot, one place in the queue, in the raw buffer and in
the USB buffer are full as soon as they are used, and the theorems below are for
any sizes. Tasks are symmetric in `cc1101_frame_race`, devices of the same kind
in the Matter runs; no run with a liveness property uses symmetry.

**Fairness.** `Cc1101!Fairness`, and `PathSpec` with it: the chip ends its
calibrations; a task that can run does so (tasks of equal priority share the
core in time slices, and the only one of higher priority blocks on its queue);
a task that waits for the mutex gets it when it is released again and again
(FreeRTOS hands it to the longest waiting task of the highest priority), and so
does one that waits for room in the USB buffer; a callback that has taken a code
goes on. That the host reads (`HostReads`) is an assumption about the outside,
made for `CommandsEnd` alone: `PathSpec` does without it. `RfSpec`: `slowrf_task`, of the highest
priority, runs when it can, which includes that the driver's mutex is released
again and again; and the host reads USB, an assumption as above: with a host that does not read, the write with `portMAX_DELAY` at
`generic_decoder.c:98` keeps `slowrf_task` for ever. Nothing is assumed about
commands being issued, pulses arriving or the power failing.

## 4. Proofs

`Cc1101Proofs` proves for every set of tasks and commands, either board and
any poll limit:

* `TypeCorrect`: `Spec => []TypeOK`;
* `SelfReceptionExcluded`: `Spec => []NoSelfReception`;
* `QuiescentConsistency`: `Spec => []QuiescentConsistent`;
* `FactoryReset`: `Spec => []FactoryResetSticks`.

The assumptions are those of `Cc1101` (`NoTask` is not a task, `Commands` are
commands, `PollLimit` is a natural number). The inductive invariant is `Inv`:

* `MutexInv`: the mutex is held exactly at the labels in `Critical`; without it
  two tasks could be in `cc1101_set_tx_mode` and `cc1101_set_rx_mode` at once;
* `TxDelayInv`: while `cc1101_set_tx_mode` sleeps with the mutex held, the chip
  stays idle and the interrupt off, so the pin may be turned round;
* `NoSelfReception` itself;
* `SettledInv`: a task that has taken the radio out of a settled mode still has
  the call that settles it before it (`Unsettled`); if there is no such task
  the radio is receiving or carries the carrier. `QuiescentConsistent` is the
  case where all tasks are between commands;
* `ErasedInv`: from the erase of command `e` to the restart NVS is empty and not
  initialised, so a task that stores its band meanwhile stores nothing.
  `FactoryResetSticks` alone is not inductive: it does not exclude the write.

`InvPreserved` has one step per action.

`DutyCycleProofs` proves for every window, every pair of limits with that of
868 MHz the smaller, and every set of durations:

* `TypeCorrect`: `Spec => []TypeOK`, for any number of tasks;
* `AccountStaysBounded`: with one task, `Spec => []AccountBounded`. The
  addition of line 33 does not look at the limit, and the band may have changed
  since it was read, so the bound alone is not inductive. `CheckedFits` says
  that what has passed the check still fits when it is added; it holds because
  nobody else adds in between, and fails with two tasks;
* `HourBounded`: with one task, `Spec => []HourWithinTwiceLimit`, and
  `AccountHoldsAll`: with one task, `Spec => []AccountComplete`. Both rest on
  `HourInv`. The account was last cleared at some time `e` (`Cleared`): the time
  of the stamp, or 0 as long as it never was, since `duty_cycle_init` stamps
  without clearing. Since `e` each band got at most its limit, the account holds
  what both got, and in the hour before `e` each band got at most its limit: two
  clearings are more than an hour apart, because nothing is sent later than an
  hour after a stamp (`Quiet`). An hour therefore straddles at most one clearing.
  The property alone says nothing about the account and is not inductive;
* `RemainingGranted`: `Spec => RemainingHonest`, for any number of tasks. It needs
  that a call has a positive duration (`Asked`): with a duration of 0 an account
  above the limit would refuse what `V` announces.

The sums of the history are those of the recursive function `Before`. That it
exists, grows, and changes with one entry as expected (`BeforeSums`,
`BeforeGrows`, `BeforeAdds`, `BeforeRests`) is proved by induction over sets of
numbers (`Induction`), which follows from the well-foundedness of `<`.

`DecodersProofs` proves `DecodersTyped` and `DecodersSafe`: whatever pulses of any
durations arrive, and whatever the uninitialised `last_pulse` holds, the decoders
keep their types and stay inside their arrays (`ArraysInRange`). There is a lemma for each decoder:
a pulse keeps its type and its part of `ArraysInRange`, which bounds what is
pending (bits of a byte, pulses of a symbol) as well as what is complete, since
a full array is only noticed when the next byte or symbol is complete.

`LoopbackProofs` is about sender and receiver together, for every set of
well-formed frames of any length, every stretching of the marks by less than 50
microseconds, any noise and any number of pulses lost before the gap
(`FramesAssumption`, `OffsetsAssumption`, `NoiseAssumption`; and
`FilterAssumption`: the decoders know the durations that the interrupt handler
lets through):

* `LoopImplementsDecoders`: `LoopSpec => DecSpec`, and with it `LoopTyped` and
  `LoopSafe`: `DecTypeOK` and `ArraysInRange` for whatever is sent. The invariant
  is `OnAir`: what is sent is one of the frames that have a repetition;
* `TrainsReported`: `LoopSpec => []RoundTrip`;
* `CommandsHeard`: `LoopSpec => []SwitchAddressed`.

`RoundTrip` speaks of one moment, the end of the second repetition. The inductive
invariant `InStep` says of every moment from the gap between the repetitions on
that the decoder of the frame's protocol has followed the train as far as it has
been sent. The argument has three parts:

* what the send functions send. `FlattenSeq` is a recursive function over a
  sequence of unknown length; `FlattenWords` shows by induction (`Induction`, over
  sets of numbers, from the well-foundedness of `<`) where the symbols of
  its words end up. `FsTrain`, `HmsTrain`, `It1Train` and `It3Train` then give each
  pulse of a repetition by its position, `FhtTrain` and `OregonTrain` that those
  are trains of pulses at all; `RepetitionHeard` that a receiver hears each one
  within 49 microseconds;
* what the decoders make of it. `FsAt`, `HmsAt`, `It1At` and `It3At` describe a
  decoder after `k` pulses: which bytes, nibbles or symbols are complete, as many
  as the array holds (`First`), and which bits or pulses of the next one are
  pending. The lemmas `FsStep`, `HmsStep`, `It1Step`, `It3Step` take each one
  pulse further, `FsReport` and the others read the packet off at the end. The
  margin is that of FS20 (`FsHalf`): stretched by 50, the shorter half of a 1 has
  550 microseconds, which the code takes for the half of a 0;
* what brings them there. The pulses inside a train are data and its last one is
  a gap (`FsGapped`, `HmsGapped`, `It1Gapped`; `It3Gapped`, where the second one is
  a gap as well, and the sync). The gap resets the decoders whatever state noise
  and lost pulses have left them in (`FollowsStart`), every pulse after it is
  followed (`FollowsStep`), and at the gap that ends the second repetition the
  frame is reported (`FollowsReport`).

`SwitchAddressed` follows with `Commanded`: the frame on the air, if any, is the
one made of the command on record. `CommandFrames` shows of each such frame that it is
reported and that the event of the report has the device's id, whatever packet
the device became known by.

`SlowRfProofs` proves for any databases, pulses and sizes of queue, buffers and
table:

* `RfTyped`: `RfSpec => []RfTypeOK`;
* `IndicesSafe`: `RfSpec => []IndicesInRange`, the loader writes and the decoder
  reads inside the arrays, whenever a reload replaces what the decoder is
  using. The invariant has to bound the lengths the loader leaves behind at
  each step, and the decoder's indices independently of the protocol they were
  advanced for;
* `GenericOnce`: `RfSpec => []GenericNotRaw`;
* `WithheldExplained`: `RfSpec => []WithheldForReason`. Both rest on `SignalInv`:
  the flag is down at the labels where raw data is printed and fixed decoders
  report;
* `SettingsSurvive`: `RfSpec => []SettingsDurable`. What is stored in the middle
  of a command depends on the steps the command task has still to take, so
  `DurableInv` describes the rest of its list for each of the three things it
  may be doing: `Obeying` a command (a setting that is not left to be made, or
  to be stored, has the value asked for, and the answer comes last), `Erasing`
  (nothing is left that stores a setting, and the restart is still to come),
  `Booting` (a setting that is not left to be loaded is the stored one). When
  the power fails the rest of the list is dropped; what is stored is then, for
  each setting, the value last answered or the one asked for.

`RollingCodeProofs` proves for every modulus greater than 1 and every bound of
lost codes up to half of it:

* `TypeCorrect`: `Spec => []TypeOK`, for any number of tasks;
* `BlindObeys`: for any number of tasks, `Spec => []ObeyedInTurn`. `obeyed` only says
  what has happened; `SyncInv` says of every state until a code is taken out of
  turn that at most one task has a code under way, that the counter in NVS and
  that code are ahead of the blind by at least one and at most the codes taken
  since, that after the store the counter is just ahead of the code, and that an
  erased stick has no counter. `raced` rules out the two overlaps that really
  break it, and nothing else.

`SendPathProofs` carries this over to the composition, for any number of tasks
and all commands: `PathImplementsCodes` (`PathSpec => Spec`) and
`PathImplementsDriver` (`PathSpec => C!Spec`) show that each step is, to the
codes and to the driver, a step of theirs or none; `PathTyped` and `PathObeyed`
(`PathSpec => []ObeyedInTurn`) follow. With one task, for any commands, either board and any
poll limit of at least 2 (the code has 100), it also proves:

* `FramesGoOut`: `PathSpec => []FrameOnAir`;
* `BandAgreed`: `PathSpec => []ConfigConsistent`;
* `PathImplementsRadio`: `PathSpec => C!Radio!RadioSafe`, the safety part of
  `ImplementsHalfDuplex`.

The invariant is `OneTaskInv`. `ModeInv` follows the chip through
`cc1101_set_tx_mode`: it is on its way to TX from the strobe on, and has arrived
once the task has slept through the calibration, in the second delay of the
poll loop at the latest. That is why two polls are needed, why giving up on the
loop does no harm, and why the second try of `cc1101_send_it_v1` is never taken
by a single task (its labels are unreachable). `TuneInv` says which of the three
places that hold the band (flag, NVS, registers) have been set so far. For the
refinement there is one case per action: most leave the phase alone, a strobe
that leaves a mode is a `Turn` or `Retune`, the first pulse `Send`, the last one
`Sent`, the strobes that arrive `Listen` and `KeepCarrier`, a boot `Reset`.

`MatterBridgeProofs` proves:

* `CountStaysBounded` and `BridgeTyped`: for any finite set of tasks, if the SDK
  grants no more endpoints than `device_table` has rows, `Spec => []CountBounded`
  and `Spec => []TypeOK`. `CountInv` counts the tasks that have an endpoint and
  have not counted it (`Uncounted`): together with `device_count`, or with the
  old value of it that a task is about to store plus one, they are not more than
  the endpoints created. The types depend on it: the loops find rows of the
  table only while the count is within it (`LocalsFit`);
* `TableStaysConsistent` and `CommandsReachDevices`: for any reporting and commanding
  tasks, devices, rows, endpoints and restarts, and events from the start on,
  `Spec => []ConsistentUnlessRaced` and `Spec => []ReachedUnlessRaced`. `BridgeInv`,
  which holds until a registration begins out of turn, adds that one task at
  most is registering (`OneAtATime`); what a task knows at its label (`TaskOK`):
  the one that registers works on the first row that does not count, and its
  device and endpoint are in no row that counts; and that the SDK's next number
  is beyond all it ever gave away, which it reads back from NVS after a restart
  (`BootInv`). The condition cannot be dropped: `matter_race` shows what
  happens then.

Only model-checked:

* the liveness properties and the fairness of `HalfDuplex`, which the prover does
  not treat.

## 5. Not modelled

* Vendored code: ESP-IDF components, the Matter SDK. Of the SDK `MatterBridge` has
  the numbering of endpoints; what else the firmware uses is external to the
  models.
* Writes to NVS that fail although NVS is initialised.
* The assembly of lines in `culfw_parser_task`: a line of more than 2047
  characters is dropped up to there and its rest taken for a command; no
  document says what should happen.
* The ring of web events: its index is always stored reduced, a reader that
  meets the writer shows a torn or repeated text.
* Two tasks that give commands to the receiver (parser and httpd): `SlowRf` has
  one, as in the serial profile.
* The texts and values of generic reports, debug output, `rtl_dec`, which
  nothing reads, the bits of a Somfy frame, the translation of commands to
  sensors, which controllers cannot command.
* File access and decryption in `config_loader.c`: they produce the text that
  `GenericDecoder` loads.
* The web page, Wi-Fi, Thread and the LED: calls into the SDKs and formatting.
* The airtime account is lost in a restart; no document says otherwise.

## 6. Plan

1. The driver's `FrameOnAir` for several tasks of which one sends, proved.
2. Line assembly of the parser at the limit of its buffer.
3. A second command task for `SlowRf`: what two reloads at once leave behind.
