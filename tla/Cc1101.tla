------------------------------- MODULE Cc1101 -------------------------------
(***************************************************************************)
(* The CC1101 radio driver (src/main/cc1101.c) and the FreeRTOS tasks that *)
(* call it.  The state of the radio is the chip's MARCSTATE, the direction *)
(* and the edge interrupt of the data pin GDO0, and the frequency          *)
(* registers; the configuration is cc1101_is_433_flag and the NVS entry    *)
(* "freq".  The driver guards single register sequences with the recursive *)
(* mutex spi_mutex, but not a whole transmission: a command is a sequence  *)
(* of critical sections, and tasks interleave between them.                *)
(*                                                                         *)
(* One step of a task is the stretch of code between two places where      *)
(* another task can see or change something of the above: taking the       *)
(* mutex, a delay, a wait for room in the USB buffer, or a write to shared *)
(* state outside the mutex.  Nested takes of the recursive mutex by its    *)
(* owner are not visible to others and need no state: `owner' is enough.   *)
(* The LED is left out.                                                    *)
(***************************************************************************)
EXTENDS Naturals, FiniteSets

CONSTANTS
    Tasks,       \* the tasks that execute commands (parser, httpd, Matter...)
    NoTask,      \* owner of the free mutex
    Commands,    \* the commands they issue, a subset of AllCommands
    Marker433,   \* level of the 433 MHz marker pin of the board (cc1101.c:72)
    PollLimit    \* `timeout' of cc1101_set_tx_mode: 100 in the code

\* "frame" stands for every send function with the plain shape tx mode,
\* delay, pulses, rx mode; the others differ in their control flow.
AllCommands ==
    {"frame", "m", "it_v1", "somfy", "f433", "f868", "TX1", "TX0", "MREG", "e"}

ASSUME TasksAssumption == NoTask \notin Tasks
ASSUME CommandsAssumption == Commands \subseteq AllCommands
ASSUME MarkerAssumption == Marker433 \in BOOLEAN
ASSUME PollAssumption == PollLimit \in Nat

VARIABLES
    pc,        \* where each task is
    op,        \* the command each task executes, "none" between commands
    polls,     \* `timeout' of the poll loop of cc1101_set_tx_mode
    owner,     \* holder of spi_mutex
    waiting,   \* tasks in a delay that outlasts the present calibration
    marc,      \* MARCSTATE of the chip; CAL_x is the way from IDLE to x
    dir,       \* direction of GDO0
    intr,      \* edge interrupt of GDO0 enabled
    freq,      \* frequency registers 0x0D..0x0F
    is433,     \* cc1101_is_433_flag
    nvsFreq,   \* NVS entry "freq": 43, 86, or 0 when there is none
    nvsReady,  \* NVS initialised; nvs_flash_erase() ends that until restart
    usbFull    \* no room in the buffer of the USB driver for an answer

control == <<pc, op, polls, owner, waiting>>
mode    == <<marc, dir, intr>>
config  == <<is433, nvsFreq, nvsReady, usbFull>>
vars    == <<pc, op, polls, owner, waiting, marc, dir, intr, freq,
             is433, nvsFreq, nvsReady, usbFull>>

\* Labels at which the task holds spi_mutex.
Critical == {"tx_delay", "poll", "rx_idle", "dumping"}

Labels == Critical \cup
    {"ready", "tx", "poll_delay", "settle", "check", "re_idle", "re_stx",
     "re_delay", "burst", "flag", "nvs", "raw", "raw_somfy", "rx", "dump",
     "erase", "erased", "restart", "answer"}

MarcStates  == {"IDLE", "CAL_RX", "RX", "CAL_TX", "TX"}
Calibrating == {"CAL_RX", "CAL_TX"}
Frequencies == {"433.92", "433.42", "868.3"}

TypeOK ==
    /\ pc \in [Tasks -> Labels]
    /\ op \in [Tasks -> Commands \cup {"none", "rearm"}]
    /\ polls \in [Tasks -> 0..PollLimit]
    /\ owner \in Tasks \cup {NoTask}
    /\ waiting \subseteq Tasks
    /\ marc \in MarcStates
    /\ dir \in {"in", "out"}
    /\ intr \in BOOLEAN
    /\ freq \in Frequencies
    /\ is433 \in BOOLEAN
    /\ nvsFreq \in {0, 43, 86}
    /\ nvsReady \in BOOLEAN
    /\ usbFull \in BOOLEAN

\* The frequency that cc1101_set_frequency and cc1101_init program for a band.
Nominal(band433) == IF band433 THEN "433.92" ELSE "868.3"

\* The band cc1101_init selects: the stored one, else the board's marker.
BandAtBoot(stored) == \/ stored = 43
                      \/ stored # 86 /\ Marker433

-----------------------------------------------------------------------------
(* Control helpers.                                                         *)

At(t, l)   == pc[t] = l
Goto(t, l) == pc' = [pc EXCEPT ![t] = l]

\* What matter_bridge_command_cb sends too, as it is called by the SDK or by
\* matter_interface_simulate_command.  "rearm" is the end of a Somfy frame.
FromBridge == {"frame", "it_v1", "rearm"}

\* t is done with the radio.  handle_command goes on to its answer; the
\* callback of the bridge has none that it would wait for.
Finish(t) ==
    /\ \/ Goto(t, "answer")
       \/ op[t] \in FromBridge /\ Goto(t, "ready")
    /\ op' = [op EXCEPT ![t] = "none"]

cc1101_lock(t)   == owner = NoTask /\ owner' = t
cc1101_unlock(t) == owner' = NoTask
\* A critical section without a delay in it: taken and given in one step.
Locked(t) == owner = NoTask /\ owner' = NoTask

\* vTaskDelay of 2 ms or more, or a second consecutive 1 ms delay: it
\* outlasts a calibration of the chip (0.8 ms) that is running as it begins.
BeginDelay(t) ==
    waiting' = IF marc \in Calibrating THEN waiting \cup {t} ELSE waiting

DelayOver(t) == t \notin waiting

-----------------------------------------------------------------------------
(* The chip.  Leaving IDLE for RX or TX it calibrates first (MCSM0 = 0x18). *)

\* MARCSTATE after an STX strobe.  In RX the strobe is obeyed when the
\* channel is clear (MCSM1 = 0x30); during a calibration it may be ignored.
AfterSTX(m) ==
    {n \in MarcStates :
        \/ m = "IDLE" /\ n = "CAL_TX"
        \/ m = "RX" /\ n \in {"RX", "TX"}
        \/ m = "CAL_RX" /\ n \in Calibrating
        \/ m \in {"CAL_TX", "TX"} /\ n = m}

\* The strobe SIDLE ends a calibration, so no delay waits for it any more.
SIDLE == marc' = "IDLE" /\ waiting' = {}

Settle ==
    /\ marc \in Calibrating
    /\ marc' = IF marc = "CAL_RX" THEN "RX" ELSE "TX"
    /\ waiting' = {}
    /\ UNCHANGED <<pc, op, polls, owner, dir, intr, freq, config>>

-----------------------------------------------------------------------------
(* The commands, as handle_command and matter_bridge_command_cb call them.  *)

Enter(t, cmd, label) ==
    /\ At(t, "ready")
    /\ cmd \in Commands
    /\ Goto(t, label)
    /\ op' = [op EXCEPT ![t] = cmd]
    /\ UNCHANGED <<polls, owner, waiting, mode, freq, config>>

cc1101_send_raw_slowrf(t) == Enter(t, "frame", "tx")
cc1101_send_it_v3(t)      == Enter(t, "frame", "tx")
cc1101_send_hms(t)        == Enter(t, "frame", "tx")
cc1101_send_fht(t)        == Enter(t, "frame", "tx")
cc1101_send_oregon(t)     == Enter(t, "frame", "tx")
send_raw_durations(t)     == Enter(t, "m", "tx")
cc1101_send_it_v1(t)      == Enter(t, "it_v1", "tx")
cc1101_send_somfy(t)      == Enter(t, "somfy", "raw_somfy")
set_frequency_command(t)  == \E c \in {"f433", "f868"} : Enter(t, c, "flag")
carrier_command(t)        == \/ Enter(t, "TX1", "tx")
                             \/ Enter(t, "TX0", "rx")
register_dump_command(t)  == Enter(t, "MREG", "dump")
factory_reset_command(t)  == Enter(t, "e", "erase")

\* A command that leaves the radio alone, or whose send function returns at
\* once because duty_cycle_add_tx refuses the frame, has only its answer left.
other_command(t) ==
    /\ At(t, "ready")
    /\ Goto(t, "answer")
    /\ UNCHANGED <<op, polls, owner, waiting, mode, freq, config>>

\* Where the code goes after cc1101_set_tx_mode returns.
AfterTxMode(t) ==
    \/ /\ op[t] = "TX1"
       /\ Finish(t)
       /\ UNCHANGED waiting
    \/ /\ op[t] = "m"
       /\ Goto(t, "burst")
       /\ UNCHANGED <<op, waiting>>
    \/ /\ op[t] \notin {"TX1", "m"}
       /\ Goto(t, "settle")
       /\ BeginDelay(t)
       /\ UNCHANGED op

-----------------------------------------------------------------------------
(* cc1101_set_tx_mode: under the mutex, but for the delays of the poll loop *)

\* Mutant of TxIdle: gpio_intr_disable forgotten.
TxIdle_Armed(t) ==
    /\ At(t, "tx")
    /\ cc1101_lock(t)
    /\ SIDLE
    /\ Goto(t, "tx_delay")
    /\ UNCHANGED <<op, polls, dir, intr, freq, config>>

TxIdle(t) ==
    /\ At(t, "tx")
    /\ cc1101_lock(t)
    /\ intr' = FALSE
    /\ SIDLE
    /\ Goto(t, "tx_delay")
    /\ UNCHANGED <<op, polls, dir, freq, config>>

TxStrobe(t) ==
    /\ At(t, "tx_delay")
    /\ dir' = "out"
    /\ marc' \in AfterSTX(marc)
    /\ polls' = [polls EXCEPT ![t] = PollLimit]
    /\ Goto(t, "poll")
    /\ UNCHANGED <<op, owner, waiting, intr, freq, config>>

\* Mutant of PollDone: the mode is taken as set without looking at MARCSTATE.
PollDone_Blind(t) ==
    /\ At(t, "poll")
    /\ cc1101_unlock(t)
    /\ polls' = [polls EXCEPT ![t] = 0]
    /\ AfterTxMode(t)
    /\ UNCHANGED <<mode, freq, config>>

\* MARCSTATE is TX, or the polls are used up: the mode is taken as set.
PollDone(t) ==
    /\ At(t, "poll")
    /\ marc = "TX" \/ polls[t] = 0
    /\ cc1101_unlock(t)
    /\ polls' = [polls EXCEPT ![t] = 0]
    /\ AfterTxMode(t)
    /\ UNCHANGED <<mode, freq, config>>

\* Mutants of PollAgain: `timeout' is not tested, or not counted down.
PollAgain_NoLimit(t) ==
    /\ At(t, "poll")
    /\ marc # "TX"
    /\ cc1101_unlock(t)
    /\ polls' = [polls EXCEPT ![t] = @ - 1]
    /\ IF polls[t] < PollLimit THEN BeginDelay(t) ELSE UNCHANGED waiting
    /\ Goto(t, "poll_delay")
    /\ UNCHANGED <<op, mode, freq, config>>

PollAgain_NoCount(t) ==
    /\ At(t, "poll")
    /\ marc # "TX" /\ polls[t] > 0
    /\ cc1101_unlock(t)
    /\ IF polls[t] < PollLimit THEN BeginDelay(t) ELSE UNCHANGED waiting
    /\ Goto(t, "poll_delay")
    /\ UNCHANGED <<op, polls, mode, freq, config>>

PollAgain(t) ==
    /\ At(t, "poll")
    /\ marc # "TX" /\ polls[t] > 0
    /\ cc1101_unlock(t)
    /\ polls' = [polls EXCEPT ![t] = @ - 1]
    /\ IF polls[t] < PollLimit THEN BeginDelay(t) ELSE UNCHANGED waiting
    /\ Goto(t, "poll_delay")
    /\ UNCHANGED <<op, mode, freq, config>>

PollRelock(t) ==
    /\ At(t, "poll_delay")
    /\ DelayOver(t)
    /\ cc1101_lock(t)
    /\ Goto(t, "poll")
    /\ UNCHANGED <<op, polls, waiting, mode, freq, config>>

-----------------------------------------------------------------------------
(* Between the modes: the delay, the second try of cc1101_send_it_v1, which *)
(* strobes without holding the mutex across the strobes, and the pulses.    *)

SettleDelay(t) ==
    /\ At(t, "settle")
    /\ DelayOver(t)
    /\ Goto(t, IF op[t] = "it_v1" THEN "check" ELSE "burst")
    /\ UNCHANGED <<op, polls, owner, waiting, mode, freq, config>>

CheckMarc(t) ==
    /\ At(t, "check")
    /\ Locked(t)
    /\ Goto(t, IF marc = "TX" THEN "burst" ELSE "re_idle")
    /\ UNCHANGED <<op, polls, waiting, mode, freq, config>>

RetryIdle(t) ==
    /\ At(t, "re_idle")
    /\ Locked(t)
    /\ SIDLE
    /\ Goto(t, "re_stx")
    /\ UNCHANGED <<op, polls, dir, intr, freq, config>>

RetryStrobe(t) ==
    /\ At(t, "re_stx")
    /\ Locked(t)
    /\ \E m \in AfterSTX(marc) :
          /\ marc' = m
          /\ waiting' = IF m \in Calibrating THEN waiting \cup {t} ELSE waiting
    /\ Goto(t, "re_delay")
    /\ UNCHANGED <<op, polls, dir, intr, freq, config>>

RetryDelay(t) ==
    /\ At(t, "re_delay")
    /\ DelayOver(t)
    /\ Goto(t, "burst")
    /\ UNCHANGED <<op, polls, owner, waiting, mode, freq, config>>

\* Mutant of BurstEnd: the band is not restored after Somfy.
BurstEnd_NoRestore(t) ==
    /\ At(t, "burst")
    /\ Goto(t, "rx")
    /\ UNCHANGED <<op, polls, owner, waiting, mode, freq, config>>

\* All repetitions of the frame are pulses on GDO0, made while at "burst".
BurstEnd(t) ==
    /\ At(t, "burst")
    /\ Goto(t, IF op[t] = "somfy" THEN "flag" ELSE "rx")
    /\ UNCHANGED <<op, polls, owner, waiting, mode, freq, config>>

-----------------------------------------------------------------------------
(* cc1101_set_frequency: flag, NVS entry, registers, receive mode.          *)
(* cc1101_send_somfy calls it with true after the frame (cc1101.c:493).     *)

SetFlag(t) ==
    /\ At(t, "flag")
    /\ is433' = (op[t] # "f868")
    /\ Goto(t, "nvs")
    /\ UNCHANGED <<op, polls, owner, waiting, mode, freq, nvsFreq, nvsReady, usbFull>>

\* Mutant of StoreFreq: the result of nvs_open is not looked at, and the
\* write reaches the erased flash.
StoreFreq_Unchecked(t) ==
    /\ At(t, "nvs")
    /\ nvsFreq' = IF op[t] = "f868" THEN 86 ELSE 43
    /\ Goto(t, "raw")
    /\ UNCHANGED <<op, polls, owner, waiting, mode, freq, is433, nvsReady, usbFull>>

StoreFreq(t) ==
    /\ At(t, "nvs")
    /\ nvsFreq' = IF ~nvsReady THEN nvsFreq
                  ELSE IF op[t] = "f868" THEN 86 ELSE 43
    /\ Goto(t, "raw")
    /\ UNCHANGED <<op, polls, owner, waiting, mode, freq, is433, nvsReady, usbFull>>

\* Mutant of SetFrequencyRaw: cc1101_set_frequency ends without
\* cc1101_set_rx_mode and leaves the chip in IDLE.
SetFrequencyRaw_NoRx(t) ==
    /\ At(t, "raw")
    /\ Locked(t)
    /\ SIDLE
    /\ freq' = Nominal(op[t] # "f868")
    /\ Finish(t)
    /\ UNCHANGED <<polls, dir, intr, config>>

\* cc1101_set_frequency_raw, called by cc1101_set_frequency...
SetFrequencyRaw(t) ==
    /\ At(t, "raw")
    /\ Locked(t)
    /\ SIDLE
    /\ freq' = Nominal(op[t] # "f868")
    /\ Goto(t, "rx")
    /\ UNCHANGED <<op, polls, dir, intr, config>>

\* ... and by cc1101_send_somfy before the frame.
SetSomfyFrequency(t) ==
    /\ At(t, "raw_somfy")
    /\ Locked(t)
    /\ SIDLE
    /\ freq' = "433.42"
    /\ Goto(t, "tx")
    /\ UNCHANGED <<op, polls, dir, intr, config>>

-----------------------------------------------------------------------------
(* cc1101_set_rx_mode, one critical section.                                *)

RxIdle(t) ==
    /\ At(t, "rx")
    /\ cc1101_lock(t)
    /\ SIDLE
    /\ Goto(t, "rx_idle")
    /\ UNCHANGED <<op, polls, dir, intr, freq, config>>

\* Mutant of RxStrobe: gpio_intr_enable forgotten.
RxStrobe_Disarmed(t) ==
    /\ At(t, "rx_idle")
    /\ dir' = "in"
    /\ marc' = "CAL_RX"
    /\ cc1101_unlock(t)
    /\ IF op[t] = "somfy"
          THEN Goto(t, "rx") /\ op' = [op EXCEPT ![t] = "rearm"]
          ELSE Finish(t)
    /\ UNCHANGED <<polls, waiting, intr, freq, config>>

\* Every command that comes here is done here, but for Somfy: the call inside
\* cc1101_set_frequency is followed by one more (cc1101.c:494).
RxStrobe(t) ==
    /\ At(t, "rx_idle")
    /\ dir' = "in"
    /\ marc' = "CAL_RX"
    /\ intr' = TRUE
    /\ cc1101_unlock(t)
    /\ IF op[t] = "somfy"
          THEN Goto(t, "rx") /\ op' = [op EXCEPT ![t] = "rearm"]
          ELSE Finish(t)
    /\ UNCHANGED <<polls, waiting, freq, config>>

-----------------------------------------------------------------------------
(* MREG reads all registers under the mutex; `e' erases NVS, answers, waits *)
(* 500 ms while the other tasks run on, and restarts.                       *)

DumpLock(t) ==
    /\ At(t, "dump")
    /\ cc1101_lock(t)
    /\ Goto(t, "dumping")
    /\ UNCHANGED <<op, polls, waiting, mode, freq, config>>

DumpUnlock(t) ==
    /\ At(t, "dumping")
    /\ cc1101_unlock(t)
    /\ Finish(t)
    /\ UNCHANGED <<polls, waiting, mode, freq, config>>

EraseNvs(t) ==
    /\ At(t, "erase")
    /\ nvsFreq' = 0
    /\ nvsReady' = FALSE
    /\ Goto(t, "erased")
    /\ UNCHANGED <<op, polls, owner, waiting, mode, freq, is433, usbFull>>

\* app_main up to the start of the tasks, with the NVS entry `stored': NVS is
\* initialised and cc1101_init brings the radio up.
Boot(stored) ==
    /\ nvsReady' = TRUE
    /\ nvsFreq' = stored
    /\ is433' = BandAtBoot(stored)
    /\ freq' = Nominal(BandAtBoot(stored))
    /\ marc' = "CAL_RX"
    /\ dir' = "in"
    /\ intr' = TRUE
    /\ owner' = NoTask
    /\ waiting' = {}
    /\ pc' = [t \in Tasks |-> "ready"]
    /\ op' = [t \in Tasks |-> "none"]
    /\ polls' = [t \in Tasks |-> 0]
    /\ usbFull' = FALSE

Restart(t) == At(t, "restart") /\ Boot(nvsFreq)

\* Power loss at any moment; the button held at boot erases NVS.
PowerCycle == \E button \in BOOLEAN : Boot(IF button THEN 0 ELSE nvsFreq)

-----------------------------------------------------------------------------
(* The answers: usb_serial_jtag_write_bytes with portMAX_DELAY waits for    *)
(* room in the buffer, for one write or the three of MREG.                  *)

Answer(t) ==
    /\ \/ At(t, "answer") /\ Goto(t, "ready")
       \/ At(t, "erased") /\ Goto(t, "restart")
    /\ ~usbFull /\ usbFull' \in BOOLEAN
    /\ UNCHANGED <<op, polls, owner, waiting, mode, freq, is433, nvsFreq, nvsReady>>

\* Other writers take the room: the reports of slowrf_task, the log of the
\* bridge.
ReportsFill ==
    /\ ~usbFull /\ usbFull' = TRUE
    /\ UNCHANGED <<control, mode, freq, is433, nvsFreq, nvsReady>>

\* The host reads what is in the buffer.
HostReads ==
    /\ usbFull /\ usbFull' = FALSE
    /\ UNCHANGED <<control, mode, freq, is433, nvsFreq, nvsReady>>

-----------------------------------------------------------------------------

Init ==
    /\ nvsFreq \in {0, 43, 86}
    /\ nvsReady = TRUE
    /\ is433 = BandAtBoot(nvsFreq)
    /\ freq = Nominal(is433)
    /\ marc = "CAL_RX"
    /\ dir = "in"
    /\ intr = TRUE
    /\ owner = NoTask
    /\ waiting = {}
    /\ pc = [t \in Tasks |-> "ready"]
    /\ op = [t \in Tasks |-> "none"]
    /\ polls = [t \in Tasks |-> 0]
    /\ usbFull = FALSE

Issue(t) ==
    \/ cc1101_send_raw_slowrf(t)
    \/ cc1101_send_it_v3(t)
    \/ cc1101_send_hms(t)
    \/ cc1101_send_fht(t)
    \/ cc1101_send_oregon(t)
    \/ send_raw_durations(t)
    \/ cc1101_send_it_v1(t)
    \/ cc1101_send_somfy(t)
    \/ set_frequency_command(t)
    \/ carrier_command(t)
    \/ register_dump_command(t)
    \/ factory_reset_command(t)
    \/ other_command(t)

\* Steps that may have to wait for the mutex, and those that do not.
TakingStep(t) ==
    \/ TxIdle(t)
    \/ PollRelock(t)
    \/ CheckMarc(t)
    \/ RetryIdle(t)
    \/ RetryStrobe(t)
    \/ SetFrequencyRaw(t)
    \/ SetSomfyFrequency(t)
    \/ RxIdle(t)
    \/ DumpLock(t)

FreeStep(t) ==
    \/ TxStrobe(t)
    \/ PollDone(t)
    \/ PollAgain(t)
    \/ SettleDelay(t)
    \/ RetryDelay(t)
    \/ BurstEnd(t)
    \/ SetFlag(t)
    \/ StoreFreq(t)
    \/ RxStrobe(t)
    \/ DumpUnlock(t)
    \/ EraseNvs(t)
    \/ Restart(t)

Next ==
    \/ \E t \in Tasks : Issue(t) \/ TakingStep(t) \/ FreeStep(t) \/ Answer(t)
    \/ Settle
    \/ ReportsFill
    \/ HostReads
    \/ PowerCycle

Spec == Init /\ [][Next]_vars

\* The scheduler runs every ready task (equal priorities share the core, and
\* the only task of higher priority, slowrf_task, blocks on its queue), the
\* mutex and room in the USB buffer are given to waiters in turn, and the chip
\* ends its calibrations.  Nothing in the code makes the host read: that is an
\* assumption.
Fairness ==
    /\ WF_vars(Settle)
    /\ WF_vars(HostReads)
    /\ \A t \in Tasks :
          WF_vars(FreeStep(t)) /\ SF_vars(TakingStep(t)) /\ SF_vars(Answer(t))

FairSpec == Spec /\ Fairness

-----------------------------------------------------------------------------
(* Properties.                                                              *)

Receiving == marc \in {"CAL_RX", "RX"} /\ dir = "in" /\ intr
Carrier   == marc \in {"CAL_TX", "TX"} /\ dir = "out" /\ ~intr

\* The receiver's edge interrupt is armed only while GDO0 is an input, so the
\* pulses the stick sends itself never reach the decoders, whichever tasks
\* interleave: cc1101_set_tx_mode disarms before it turns the pin round,
\* cc1101_set_rx_mode turns it back before it arms.
NoSelfReception == intr => dir = "in"

\* Whenever no command is at the radio, the radio is not left half switched:
\* chip, pin and interrupt agree on receiving, or on the carrier of TX1 if
\* that command exists.  In particular two tasks whose commands interleaved
\* never leave the stick deaf, e.g. idle or with the interrupt off.
QuiescentConsistent ==
    (\A t \in Tasks : pc[t] \in {"ready", "answer"}) =>
        Receiving \/ ("TX1" \in Commands /\ Carrier)

\* While a task makes the pulses of a frame the chip transmits, the pin
\* drives it, no other task does the same, and the frequency is the one the
\* frame is for.  (MEMORY.md says the mutex of the driver rules out races.)
FrameOnAir ==
    \A t \in Tasks : At(t, "burst") =>
        /\ marc = "TX" /\ dir = "out"
        /\ freq = IF op[t] = "somfy" THEN "433.42" ELSE Nominal(is433)
        /\ \A u \in Tasks \ {t} : ~At(u, "burst")

\* Between commands, and while an answer waits, the flag, the registers and NVS
\* agree on the band, also after a power cycle in the middle of cc1101_set_frequency or of a frame.
ConfigConsistent ==
    (\A t \in Tasks : pc[t] \in {"ready", "answer"}) =>
        freq = Nominal(is433) /\ is433 = BandAtBoot(nvsFreq)

\* From the erase of command `e' to the restart no task brings a stored band
\* back, so the restart finds factory settings.
FactoryResetSticks == \A t \in Tasks : pc[t] \in {"erased", "restart"} => nvsFreq = 0

\* A transmission of a Somfy frame leaves the configured band alone, as the
\* comment at cc1101.c:493 has it ("or whatever was configured").
SomfyKeepsBand ==
    [][\A t \in Tasks : op[t] = "somfy" /\ is433' # is433 => pc'[t] = "ready"]_vars

\* If the host reads, every command ends with its answer written, `e' with
\* the restart, however the tasks compete for the mutex, whatever MARCSTATE
\* the poll loop of cc1101_set_tx_mode reads, and however often reports have
\* taken the room in the USB buffer (culfw_parser.c 146-148, 177, 303).  With
\* a host that does not read, the writes with portMAX_DELAY wait for ever.
CommandsEnd == \A t \in Tasks : ~At(t, "ready") ~> At(t, "ready")

\* After every frame the receiver is armed again.
BackToReceive == \A t \in Tasks : At(t, "burst") ~> intr /\ dir = "in"

-----------------------------------------------------------------------------
(* The inductive invariant behind the first two properties and              *)
(* FactoryResetSticks.                                                      *)

\* The mutex is held exactly by the task in a critical section.
MutexInv == \A t \in Tasks : pc[t] \in Critical <=> owner = t

\* Nobody touches the radio while cc1101_set_tx_mode sleeps with the mutex.
TxDelayInv == \A t \in Tasks : At(t, "tx_delay") => marc = "IDLE" /\ ~intr

\* The task has switched the radio away, or is about to, and has the call
\* that completes the next mode still before it.
Unsettled(t) ==
    \/ pc[t] \notin {"ready", "answer", "poll", "poll_delay", "flag", "nvs",
                     "dump", "dumping", "erase", "erased", "restart"}
    \/ pc[t] \in {"poll", "poll_delay"} /\ op[t] # "TX1"
    \/ pc[t] \in {"flag", "nvs"} /\ op[t] = "somfy"

SettledInv ==
    (\A t \in Tasks : ~Unsettled(t)) =>
        Receiving \/ ("TX1" \in Commands /\ Carrier)

\* From the erase to the restart NVS stays empty, and closed to the others.
ErasedInv ==
    \A t \in Tasks : pc[t] \in {"erased", "restart"} => nvsFreq = 0 /\ ~nvsReady

Inv ==
    /\ TypeOK
    /\ MutexInv
    /\ TxDelayInv
    /\ NoSelfReception
    /\ SettledInv
    /\ ErasedInv

=============================================================================
