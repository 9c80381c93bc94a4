------------------------------- MODULE SlowRf -------------------------------
(***************************************************************************)
(* The receive path of the stick: the interrupt handler and the pulse      *)
(* queue, slowrf_task with the generic decoder, the raw buffer of the      *)
(* SIGNALduino mode and the fixed decoders (src/main/slowrf.c), the        *)
(* command task that switches modes and reloads the protocols              *)
(* (src/main/culfw_parser.c, src/main/config_loader.c), the USB driver     *)
(* with a host that reads it, and power failures.                          *)
(*                                                                         *)
(* slowrf_task has the highest priority on the only core: the other tasks  *)
(* move while it waits for a pulse, for the mutex of the radio (to read    *)
(* the RSSI) or for room in the USB buffer.  What a fixed decoder makes of *)
(* a signal is any outcome here; module Decoders says which.               *)
(***************************************************************************)
EXTENDS GenericDecoder

CONSTANTS
    SyncMin,      \* SLOWRF_SYNC_MIN
    QueueLen,     \* capacity of pulse_queue
    MuSize,       \* MU_BUFFER_SIZE
    UsbLen,       \* lines that the transmit buffer of the USB driver holds
    Commands      \* commands that the host may give

ASSUME SlowRfAssumption ==
    /\ SyncMin \in Nat /\ QueueLen \in Nat \ {0} /\ MuSize \in Nat \ {0}
    /\ UsbLen \in Nat \ {0}
    /\ Commands \subseteq {"X00", "X99", "X21", "X25", "X", "GR", "e"}

VARIABLES
    pc,           \* where slowrf_task is
    queue,        \* pulse_queue
    mu_idx, protocol_matched,
    mode, reporting,          \* slowrf_mode, slowrf_reporting
    enabled,                  \* reporting_enabled of the parser
    nvs,                      \* what is stored: reporting and mode
    todo,                     \* steps the command task has still to take
    usb,                      \* lines in the transmit buffer
    gen,          \* history: a generic packet since the last gap
    fixed,        \* history: a fixed decoder recognised the signal before the last gap
    raw,          \* history: that signal was printed as raw data, until the next pulse
    acked         \* history: the settings last acknowledged, and those asked for since

taskVars == <<pc, queue, mu_idx, protocol_matched>>
setVars  == <<mode, reporting, enabled, nvs, todo, acked>>
histVars == <<gen, fixed, raw>>
rfVars   == <<genVars, taskVars, setVars, usb, histVars>>

Modes == {"CUL", "SD"}

-----------------------------------------------------------------------------
(* The USB driver.                                                          *)

UsbRoom == usb < UsbLen

\* A write that waits.
UsbWrite == UsbRoom /\ usb' = usb + 1

\* A write with timeout 0: the line is lost if there is no room.
UsbTry == usb' = IF UsbRoom THEN usb + 1 ELSE usb

\* A few of them.
UsbTries == IF UsbRoom THEN usb' \in usb + 1 .. UsbLen ELSE UNCHANGED usb

HostReads ==
    /\ usb > 0
    /\ usb' = usb - 1
    /\ UNCHANGED <<genVars, taskVars, setVars, histVars>>

-----------------------------------------------------------------------------
(* gpio_isr_handler and slowrf_process_pulse.                               *)

\* Mutant of PulseArrives: the queue takes one more than its length.
PulseArrives_OneMore ==
    /\ pc # "boot"
    /\ \E p \in Pulses : queue' = IF Len(queue) <= QueueLen THEN Append(queue, p) ELSE queue
    /\ UNCHANGED <<genVars, pc, mu_idx, protocol_matched, setVars, usb, histVars>>

\* A pulse is queued, or lost if the queue is full.
PulseArrives ==
    /\ pc # "boot"
    /\ \E p \in Pulses : queue' = IF Len(queue) < QueueLen THEN Append(queue, p) ELSE queue
    /\ UNCHANGED <<genVars, pc, mu_idx, protocol_matched, setVars, usb, histVars>>

-----------------------------------------------------------------------------
(* slowrf_task.                                                             *)

Receive ==
    /\ pc = "receive" /\ queue # <<>>
    /\ GenTake(Head(queue))
    /\ queue' = Tail(queue)
    /\ pc' = "generic"
    /\ raw' = FALSE
    /\ UNCHANGED <<mu_idx, protocol_matched, setVars, usb, gen, fixed>>

\* The generic decoder; a packet waits for the mutex of the radio first.
GenericStep ==
    /\ pc = "generic"
    /\ GenProtocol
    /\ pc' = IF packet' # <<>> THEN "rssi" ELSE pc
    /\ UNCHANGED <<queue, mu_idx, protocol_matched, setVars, usb, histVars>>

\* Mutant of Matched: the buffer is cleared, the flag not set.
Matched_NoFlag == mu_idx' = 0 /\ UNCHANGED protocol_matched

\* slowrf_mark_matched
Matched == protocol_matched' = TRUE /\ mu_idx' = 0

\* generic_decoder_output_packet up to the write.
GenericPacket ==
    /\ pc = "rssi"
    /\ Matched
    /\ gen' = TRUE
    /\ pc' = "usb"
    /\ UNCHANGED <<genVars, queue, setVars, usb, fixed, raw>>

\* The write, with portMAX_DELAY, and the rest.
GenericWritten ==
    /\ pc = "usb"
    /\ UsbWrite
    /\ GenOutput
    /\ pc' = "generic"
    /\ UNCHANGED <<queue, mu_idx, protocol_matched, setVars, histVars>>

\* The conditions of flush_mu_buffer for printing nothing.
Withheld == mode # "SD" \/ ~reporting \/ protocol_matched

\* Mutant of Flushed: the flag survives.
Flushed_KeepsFlag == mu_idx' = 0 /\ UNCHANGED protocol_matched

\* mu_idx = 0 and protocol_matched = false at the end of flush_mu_buffer.
Flushed == mu_idx' = 0 /\ protocol_matched' = FALSE

\* After the loop the pulse enters the raw buffer.  A gap flushes it, and the
\* reports of the fixed decoders follow if reporting is on.
AfterGeneric ==
    /\ pc = "generic"
    /\ LET p   == cur[1]
           idx == IF mu_idx < MuSize THEN mu_idx + 1 ELSE mu_idx
           gap == p[1] > SyncMin
       IN  /\ GenEnd
           /\ \/ /\ ~gap
                 /\ mu_idx' = idx
                 /\ pc' = "receive"
                 /\ UNCHANGED <<protocol_matched, histVars>>
              \/ /\ gap /\ Withheld
                 /\ Flushed
                 /\ pc' = IF reporting THEN "report" ELSE "receive"
                 /\ gen' = FALSE
                 /\ fixed' = IF reporting THEN fixed ELSE FALSE
                 /\ UNCHANGED raw
              \/ /\ gap /\ ~Withheld
                 /\ mu_idx' = idx
                 /\ pc' = "raw"
                 /\ UNCHANGED <<protocol_matched, histVars>>
    /\ UNCHANGED <<queue, setVars, usb>>

\* The RSSI is read, the MU line written if there is room.
FlushRaw ==
    /\ pc = "raw"
    /\ UsbTry
    /\ Flushed
    /\ pc' = IF reporting THEN "report" ELSE "receive"
    /\ gen' = FALSE
    /\ fixed' = IF reporting THEN fixed ELSE FALSE
    /\ raw' = UsbRoom
    /\ UNCHANGED <<genVars, queue, setVars>>

\* The RSSI is read; some fixed decoders report a packet, or none does, and
\* all are reset.
Report ==
    /\ pc = "report"
    /\ \/ Matched /\ UsbTries /\ fixed' = TRUE
       \/ UNCHANGED <<mu_idx, protocol_matched, usb>> /\ fixed' = FALSE
    /\ pc' = "receive"
    /\ UNCHANGED <<genVars, queue, setVars, gen, raw>>

Task == Receive \/ GenericStep \/ GenericPacket \/ GenericWritten
          \/ AfterGeneric \/ FlushRaw \/ Report

-----------------------------------------------------------------------------
(* The command task: culfw_parser_task, and app_main before it.             *)

\* slowrf_task waits, so that others run.
Yielded ==
    \/ pc \in {"boot", "rssi", "raw", "report"}
    \/ pc = "usb" /\ ~UsbRoom
    \/ pc = "receive" /\ queue = <<>>

On(what)  == <<what, TRUE>>
Off(what) == <<what, FALSE>>
Do(what)  == <<what, TRUE>>

\* The assignments of a command in their order.
StepsOf(c) ==
    CASE c = "X00" -> <<Off("enabled"), Off("reporting"), Do("save_reporting"),
                        Do("answer")>>
      [] c = "X99" -> <<On("enabled"), On("reporting"), Do("save_reporting"),
                        Do("answer")>>
      [] c = "X21" -> <<<<"mode", "CUL">>, On("enabled"), On("reporting"), <<"save_mode", "CUL">>,
                        Do("save_reporting"), Do("answer")>>
      [] c = "X25" -> <<<<"mode", "SD">>, On("enabled"), On("reporting"), <<"save_mode", "SD">>,
                        Do("save_reporting"), Do("answer")>>
      [] c = "X"   -> <<Do("save_reporting"), Do("answer")>>
      [] c = "GR"  -> <<Do("load"), Do("answer")>>
      [] c = "e"   -> <<Do("erase"), Do("answer"), Do("restart")>>

Unset == [reporting |-> FALSE, mode |-> "CUL"]

\* What a command asks for: the settings after it.
Wanted(c) ==
    CASE c = "X00" -> [reporting |-> FALSE, mode |-> mode]
      [] c = "X99" -> [reporting |-> TRUE, mode |-> mode]
      [] c = "X21" -> [reporting |-> TRUE, mode |-> "CUL"]
      [] c = "X25" -> [reporting |-> TRUE, mode |-> "SD"]
      [] c = "e"   -> Unset
      [] OTHER -> [reporting |-> enabled, mode |-> mode]

\* app_main, then the head of culfw_parser_task.
BootSteps == <<Do("button"), Do("load"), Do("ready"), Do("start"),
               Do("load_reporting"), Do("set_reporting"), Do("load_mode")>>

Command ==
    /\ todo = <<>> /\ Yielded
    /\ \E c \in Commands :
         /\ todo' = StepsOf(c)
         /\ acked' = [acked EXCEPT !.asked = Wanted(c)]
    /\ UNCHANGED <<genVars, taskVars, mode, reporting, enabled, nvs, usb, histVars>>

\* The next step is s.
At(s) == todo # <<>> /\ Yielded /\ Head(todo)[1] = s
Step(s) == At(s) /\ todo' = Tail(todo)

Value == Head(todo)[2]

SetMode ==
    /\ Step("mode") /\ mode' = Value
    /\ UNCHANGED <<reporting, enabled, nvs, acked>>

\* Mutant of SetEnabled: reporting_enabled is forgotten.
SetEnabled_Forgotten ==
    /\ Step("enabled")
    /\ UNCHANGED <<mode, reporting, enabled, nvs, acked>>

SetEnabled ==
    /\ Step("enabled") /\ enabled' = Value
    /\ UNCHANGED <<mode, reporting, nvs, acked>>

SetReporting ==
    /\ Step("reporting") /\ reporting' = Value
    /\ UNCHANGED <<mode, enabled, nvs, acked>>

SaveMode ==
    /\ Step("save_mode") /\ nvs' = [nvs EXCEPT !.mode = Value]
    /\ UNCHANGED <<mode, reporting, enabled, acked>>

SaveReporting ==
    /\ Step("save_reporting") /\ nvs' = [nvs EXCEPT !.reporting = enabled]
    /\ UNCHANGED <<mode, reporting, enabled, acked>>

Erase ==
    /\ Step("erase") /\ nvs' = Unset
    /\ UNCHANGED <<mode, reporting, enabled, acked>>

LoadReporting ==
    /\ Step("load_reporting") /\ enabled' = nvs.reporting
    /\ UNCHANGED <<mode, reporting, nvs, acked>>

ApplyReporting ==
    /\ Step("set_reporting") /\ reporting' = enabled
    /\ UNCHANGED <<mode, enabled, nvs, acked>>

\* The settings found are those in force from now on.
LoadMode ==
    /\ Step("load_mode") /\ mode' = nvs.mode
    /\ acked' = [last |-> nvs, asked |-> nvs]
    /\ UNCHANGED <<reporting, enabled, nvs>>

Setting ==
    /\ \/ SetMode \/ SetEnabled \/ SetReporting
       \/ SaveMode \/ SaveReporting \/ Erase
       \/ LoadReporting \/ ApplyReporting \/ LoadMode
    /\ UNCHANGED <<genVars, taskVars, usb, histVars>>

\* The answer to a command, and the greeting, with portMAX_DELAY.
Answer ==
    /\ \/ Step("answer") /\ acked' = [acked EXCEPT !.last = acked.asked]
       \/ Step("ready") /\ UNCHANGED acked
    /\ UsbWrite
    /\ UNCHANGED <<genVars, taskVars, mode, reporting, enabled, nvs, histVars>>

\* config_loader_load_protocols, step by step; a file that cannot be read or
\* parsed leaves everything as it is.
Load ==
    /\ At("load")
    /\ \/ GenLoad /\ todo' = IF loader.on /\ ~loader'.on THEN Tail(todo) ELSE todo
       \/ ~loader.on /\ todo' = Tail(todo) /\ UNCHANGED genVars
    /\ UNCHANGED <<taskVars, mode, reporting, enabled, nvs, acked, usb, histVars>>

\* slowrf_init, and generic_decoder_init in the new task.
Start ==
    /\ Step("start") /\ pc = "boot"
    /\ pc' = "receive"
    /\ states' = NoStates
    /\ UNCHANGED <<protocols, protocol_count, loader, cur, index, packet, queue, mu_idx,
                   protocol_matched, mode, reporting, enabled, nvs, acked, usb,
                   histVars>>

-----------------------------------------------------------------------------
(* Starting again.                                                          *)

\* Everything but the NVS as the program finds it when it starts.
Fresh ==
    /\ protocols' = [i \in Slots |-> Cleared] /\ protocol_count' = 0
    /\ states' = NoStates
    /\ loader' = NoLoad
    /\ cur' = <<>> /\ index' = 1 /\ packet' = <<>>
    /\ pc' = "boot" /\ queue' = <<>> /\ mu_idx' = 0 /\ protocol_matched' = FALSE
    /\ mode' = "CUL" /\ reporting' = TRUE /\ enabled' = FALSE
    /\ todo' = BootSteps
    /\ usb' = 0
    /\ gen' = FALSE /\ fixed' = FALSE /\ raw' = FALSE

\* esp_restart after a factory reset.
Restart == At("restart") /\ Fresh /\ UNCHANGED <<nvs, acked>>

\* The button is held at the start, and the settings are erased, or it is not.
Button ==
    \/ /\ At("button")
       /\ nvs' = Unset /\ acked' = [last |-> Unset, asked |-> Unset]
       /\ Fresh
    \/ /\ Step("button")
       /\ UNCHANGED <<genVars, taskVars, mode, reporting, enabled, nvs, acked, usb,
                      histVars>>

PowerFails == Fresh /\ UNCHANGED <<nvs, acked>>

Commander == Command \/ Setting \/ Answer \/ Load \/ Start \/ Restart \/ Button

RfInit ==
    /\ GenInit
    /\ pc = "boot" /\ queue = <<>> /\ mu_idx = 0 /\ protocol_matched = FALSE
    /\ mode = "CUL" /\ reporting = TRUE /\ enabled = FALSE
    /\ nvs = Unset
    /\ todo = BootSteps
    /\ usb = 0
    /\ gen = FALSE /\ fixed = FALSE /\ raw = FALSE
    /\ acked = [last |-> Unset, asked |-> Unset]

RfNext == PulseArrives \/ Task \/ Commander \/ HostReads \/ PowerFails

\* The scheduler runs slowrf_task whenever it can run, and the mutex of the
\* radio that it may wait for is released; the host reads.
RfSpec == RfInit /\ [][RfNext]_rfVars /\ WF_rfVars(Task) /\ WF_rfVars(HostReads)

-----------------------------------------------------------------------------
(* Properties.                                                              *)

\* The types of the receive path and of the command task.
RfTypeOK ==
    /\ GenTypeOK
    /\ pc \in {"boot", "receive", "generic", "rssi", "usb", "raw", "report"}
    /\ queue \in Seq(Pulses) /\ Len(queue) <= QueueLen
    /\ mu_idx \in 0..MuSize
    /\ usb \in 0..UsbLen
    /\ mode \in Modes /\ nvs.mode \in Modes
    /\ {protocol_matched, reporting, enabled, nvs.reporting, gen, fixed, raw} \subseteq BOOLEAN
    /\ cur # <<>> <=> pc \in {"generic", "rssi", "usb"}

\* A signal that the generic decoder has reported is not printed a second
\* time as raw data (slowrf.c 78, 117), whatever is reloaded or switched
\* while the report waits.
GenericNotRaw == pc = "raw" => ~gen

\* A signal that a decoder has reported is not printed as raw data besides:
\* MEMORY.md:46 has the MU output suppressed when a decoder, fixed or generic,
\* has handled the signal.  The fixed ones report after the flush.
ReportedOnce == pc = "receive" => ~(fixed /\ raw)

\* Raw data is withheld for a reason: in SIGNALduino mode, with reporting on,
\* the flag that suppresses a MU line was set by a generic packet of this
\* signal, or by a fixed decoder for the signal before it, which has been
\* flushed already (slowrf.c 308, 28).  It never outlives that one signal.
WithheldForReason == protocol_matched => gen \/ fixed

\* The settings an acknowledged command has made are the ones in force and the
\* ones a restart will find; a power failure during a command may lose it or
\* cut it in two (mode saved, reporting not), but never invents a setting.
SettingsDurable ==
    /\ nvs.reporting \in {acked.last.reporting, acked.asked.reporting}
    /\ nvs.mode \in {acked.last.mode, acked.asked.mode}
    /\ todo = <<>> => /\ nvs = acked.last
                      /\ nvs = [reporting |-> reporting, mode |-> mode]
                      /\ enabled = reporting

\* As long as the host reads, slowrf_task comes back to the queue after every
\* pulse: neither a full USB buffer nor a reload in the middle of the loop
\* over the protocols keeps it (generic_decoder.c 98, 235).
ReceiverReturns == pc \notin {"receive", "boot"} ~> pc \in {"receive", "boot"}

=============================================================================
