--------------------------- MODULE SendPathProofs ---------------------------
(***************************************************************************)
(* What is proved of the rolling codes holds on the way through the radio: *)
(* to the codes every step of SendPath is a step of RollingCode or none.   *)
(* When one task gives the commands, frames are on the air, the band is    *)
(* agreed upon, and the driver is the half-duplex radio of HalfDuplex.     *)
(***************************************************************************)
EXTENDS SendPath, RollingCodeProofs

\* Giving a command leaves NVS as it is.
LEMMA IssueReady == ASSUME NEW t \in Tasks, C!Issue(t) PROVE UNCHANGED ready
BY DEF C!Issue, C!cc1101_send_raw_slowrf, C!cc1101_send_it_v3, C!cc1101_send_hms,
       C!cc1101_send_fht, C!cc1101_send_oregon, C!send_raw_durations, C!cc1101_send_it_v1,
       C!cc1101_send_somfy, C!set_frequency_command, C!carrier_command,
       C!register_dump_command, C!factory_reset_command, C!other_command, C!Enter, C!config

LEMMA TakingReady == ASSUME NEW t \in Tasks, C!TakingStep(t) PROVE UNCHANGED ready
BY DEF C!TakingStep, C!TxIdle, C!PollRelock, C!CheckMarc, C!RetryIdle, C!RetryStrobe,
       C!SetFrequencyRaw, C!SetSomfyFrequency, C!RxIdle, C!DumpLock, C!config

LEMMA FreeReady ==
  ASSUME NEW t \in Tasks, C!FreeStep(t), ~C!At(t, "erase"), ~C!At(t, "restart")
  PROVE  UNCHANGED ready
BY DEF C!FreeStep, C!TxStrobe, C!PollDone, C!PollAgain, C!SettleDelay, C!RetryDelay,
       C!BurstEnd, C!SetFlag, C!StoreFreq, C!RxStrobe, C!DumpUnlock, C!EraseNvs, C!Restart,
       C!config

\* What the driver does means to the codes what module RollingCode says.
LEMMA PathStep == [PathNext]_all => [Next]_vars
<1> SUFFICES ASSUME [PathNext]_all PROVE [Next]_vars
  OBVIOUS
<1>1. ASSUME UNCHANGED <<codes, ready>> PROVE UNCHANGED vars
  BY <1>1 DEF codes, vars
<1>2. ASSUME NEW t \in Tasks, TakeCode(t) \/ Callback(t) \/ Heard(t) PROVE [Next]_vars
  <2>1. CASE StartFrame(t)
    <3>1. C!Issue(t)
      BY <2>1 DEF StartFrame, C!Issue
    <3> QED
      BY <1>1, <2>1, <3>1, IssueReady DEF StartFrame
  <2>2. CASE TakeCode(t) \/ StoreCode(t) \/ Refuse(t) \/ Heard(t)
    BY <2>2 DEF TakeCode, StoreCode, Refuse, Heard, Next
  <2> QED
    BY <1>2, <2>1, <2>2 DEF Callback
<1>3. ASSUME NEW t \in Tasks, Issue(t) PROVE [Next]_vars
  BY <1>1, <1>3, IssueReady DEF Issue
<1>4. ASSUME NEW t \in Tasks, FreeStep(t) PROVE [Next]_vars
  <2>1. CASE UNCHANGED codes /\ ~C!At(t, "erase") /\ ~C!At(t, "restart")
    BY <1>1, <1>4, <2>1, FreeReady DEF FreeStep
  <2>2. CASE miss(t) \/ erase(t) \/ restart(t)
    BY <2>2 DEF Next
  <2> QED
    BY <1>4, <2>1, <2>2 DEF FreeStep, Follow
<1>5. ASSUME NEW t \in Tasks, TakingStep(t) PROVE [Next]_vars
  BY <1>1, <1>5, TakingReady DEF TakingStep
<1>6. CASE Settle
  BY <1>1, <1>6 DEF Settle, C!Settle, C!config
<1>7. CASE PowerCycle
  BY <1>7 DEF PowerCycle, Next
<1>8. CASE UNCHANGED all
  BY <1>8 DEF all, codes, vars
<1>9. ASSUME NEW t \in Tasks, Answer(t) PROVE [Next]_vars
  BY <1>1, <1>9 DEF Answer, C!Answer
<1>10. CASE Usb
  BY <1>1, <1>10 DEF Usb, C!ReportsFill, C!HostReads
<1> QED
  BY <1>2, <1>3, <1>4, <1>5, <1>6, <1>7, <1>8, <1>9, <1>10 DEF PathNext

\* The way through the radio implements the rolling codes: taking, storing,
\* sending, refusing, erasing and losing power are the steps of RollingCode,
\* for any number of tasks and all commands of the driver.
THEOREM PathImplementsCodes == PathSpec => Spec
<1>1. PathInit => Init
  BY DEF PathInit
<1> QED
  BY <1>1, PathStep, PTL DEF PathSpec, Spec

\* And it implements the driver: the codes add no step to it, so that what is
\* proved of the driver for any number of tasks and commands holds here too.
LEMMA DriverStep == [PathNext]_all => [C!Next]_C!vars
<1> SUFFICES ASSUME [PathNext]_all PROVE [C!Next]_C!vars
  OBVIOUS
<1>1. ASSUME UNCHANGED <<driver, ready>> PROVE UNCHANGED C!vars
  BY <1>1 DEF driver, C!vars
<1>2. ASSUME NEW t \in Tasks, TakeCode(t) \/ Callback(t) \/ Heard(t) PROVE [C!Next]_C!vars
  <2>1. CASE StartFrame(t)
    BY <2>1 DEF StartFrame, C!Issue, C!Next
  <2>2. CASE TakeCode(t) \/ StoreCode(t) \/ Refuse(t) \/ Heard(t)
    BY <1>1, <2>2 DEF TakeCode, StoreCode, Refuse, Heard, get_code, inc_code, miss, hear
  <2> QED
    BY <1>2, <2>1, <2>2 DEF Callback
<1>3. ASSUME NEW t \in Tasks, Issue(t) \/ FreeStep(t) \/ TakingStep(t) \/ Answer(t)
      PROVE  [C!Next]_C!vars
  BY <1>3 DEF Issue, FreeStep, TakingStep, Answer, C!Next
<1>4. CASE Settle \/ Usb
  BY <1>4 DEF Settle, Usb, C!Next
<1>5. CASE PowerCycle
  BY <1>5 DEF PowerCycle, C!PowerCycle, C!Next
<1>6. CASE UNCHANGED all
  BY <1>1, <1>6 DEF all
<1> QED
  BY <1>2, <1>3, <1>4, <1>5, <1>6 DEF PathNext

\* The way of a Somfy frame adds nothing to what the driver does.
THEOREM PathImplementsDriver == PathSpec => C!Spec
<1>1. PathInit => C!Init
  BY DEF PathInit
<1> QED
  BY <1>1, DriverStep, PTL DEF PathSpec, C!Spec

\* A code that is sent through the driver, refused by the duty-cycle monitor,
\* or cut off by a restart never leaves the blind behind, however many tasks
\* send, unless one was taken out of turn (matter_bridge.c 117-153).
THEOREM PathObeyed == PathSpec => []ObeyedInTurn
BY PathImplementsCodes, BlindObeys, PTL

\* The codes keep their types on the way, for any number of tasks.
THEOREM PathTyped == PathSpec => []TypeOK
BY PathImplementsCodes, TypeCorrect, PTL

-----------------------------------------------------------------------------
(* One task that gives the commands: the frames and the band.              *)

DriverTypes ==
    /\ at \in [Tasks -> C!Labels]
    /\ op \in [Tasks -> Commands \cup {"none", "rearm"}]
    /\ polls \in [Tasks -> 0..PollLimit]
    /\ is433 \in BOOLEAN /\ freq \in C!Frequencies

InMode == C!Receiving \/ C!Carrier

\* From the strobe on the chip is on its way to TX.  It has arrived when the
\* task has slept through the calibration: in the second and every later
\* delay of the poll loop, and in the delay before the pulses.  The second
\* try of cc1101_send_it_v1 is therefore never needed.
ModeInv(t) ==
    /\ at[t] \notin {"re_idle", "re_stx", "re_delay"}
    /\ at[t] \in {"ready", "answer", "dump", "dumping", "erase", "erased", "restart"} => InMode
    /\ at[t] \in {"flag", "nvs"} => IF op[t] = "somfy" THEN dir = "out" ELSE InMode
    /\ at[t] = "tx_delay" => marc = "IDLE" /\ ~intr
    /\ at[t] \in {"poll", "poll_delay", "settle", "check", "burst"} =>
          dir = "out" /\ ~intr /\ marc \in {"CAL_TX", "TX"}
    /\ at[t] = "poll" /\ polls[t] < PollLimit - 1 => marc = "TX"
    /\ at[t] = "poll_delay" /\ polls[t] < PollLimit - 1 => marc = "TX" \/ t \in waiting
    /\ at[t] = "settle" => marc = "TX" \/ t \in waiting
    /\ at[t] \in {"check", "burst"} => marc = "TX"

\* The way to the end of a frame.
OnWay == {"tx", "tx_delay", "poll", "poll_delay", "settle", "check", "burst"}

\* The registers are Somfy's from cc1101_set_frequency_raw to the restoring of
\* the band.  The flag, NVS and the registers are set one after the other;
\* nothing but command e, which ends in a restart, closes NVS.
TuneInv(t) ==
    /\ at[t] = "raw_somfy" => op[t] = "somfy"
    /\ op[t] = "somfy" /\ at[t] \in OnWay => freq = "433.42"
    /\ at[t] \in {"nvs", "raw"} => is433 = (op[t] # "f868")
    /\ at[t] \notin {"nvs", "raw"} /\ (op[t] = "somfy" => at[t] \notin OnWay \cup {"flag"})
         => freq = C!Nominal(is433)
    /\ at[t] \notin {"nvs", "erased", "restart"} => is433 = C!BandAtBoot(nvsFreq)
    /\ at[t] \notin {"erased", "restart"} => ready

OneTaskInv == DriverTypes /\ \A t \in Tasks : ModeInv(t) /\ TuneInv(t)

LEMMA BootOneTask ==
  ASSUME NEW n, C!Boot(n)
  PROVE  OneTaskInv'
<1>1. DriverTypes'
  BY DriverAssumption DEF C!Boot, DriverTypes, C!Labels, C!Frequencies, C!Nominal, C!BandAtBoot
<1>2. ASSUME NEW t \in Tasks PROVE ModeInv(t)' /\ TuneInv(t)'
  BY DEF C!Boot, ModeInv, TuneInv, InMode, C!Receiving, OnWay, C!Nominal, C!BandAtBoot
<1> QED
  BY <1>1, <1>2 DEF OneTaskInv

LEMMA EnterOneTask ==
  ASSUME NEW s, Tasks = {s}, OneTaskInv, NEW c,
         NEW l \in {"tx", "raw_somfy", "rx", "flag", "dump", "erase"},
         l \in {"tx", "flag"} => c # "somfy", l = "raw_somfy" => c = "somfy",
         C!Enter(s, c, l)
  PROVE  OneTaskInv'
<1>1. /\ at[s] = "ready" /\ c \in Commands
      /\ at' = [at EXCEPT ![s] = l] /\ op' = [op EXCEPT ![s] = c]
      /\ UNCHANGED <<polls, waiting, marc, dir, intr, freq, is433, nvsFreq, ready>>
  BY DEF C!Enter, C!At, C!Goto, C!mode, C!config
<1>2. /\ at'[s] = l /\ op'[s] = c /\ DriverTypes'
  BY <1>1 DEF OneTaskInv, DriverTypes, C!Labels
<1>3. ModeInv(s)'
  BY <1>1, <1>2 DEF OneTaskInv, ModeInv, InMode, C!Receiving, C!Carrier
<1>4. TuneInv(s)'
  BY <1>1, <1>2 DEF OneTaskInv, TuneInv, OnWay, C!Nominal, C!BandAtBoot
<1> QED
  BY <1>2, <1>3, <1>4 DEF OneTaskInv

\* What waits for its answer has no part in the radio any more.
LEMMA AnswerOneTask ==
  ASSUME NEW s, Tasks = {s}, OneTaskInv,
         \/ at[s] = "ready" /\ at' = [at EXCEPT ![s] = "answer"]
         \/ at[s] = "answer" /\ at' = [at EXCEPT ![s] = "ready"]
         \/ at[s] = "erased" /\ at' = [at EXCEPT ![s] = "restart"],
         UNCHANGED <<op, polls, waiting, marc, dir, intr, freq, is433, nvsFreq, ready>>
  PROVE  OneTaskInv'
<1>1. /\ at'[s] \in {"answer", "ready", "restart"} /\ DriverTypes'
      /\ at'[s] = "restart" <=> at[s] = "erased"
  BY DEF OneTaskInv, DriverTypes, C!Labels
<1>2. ModeInv(s)'
  BY <1>1 DEF OneTaskInv, ModeInv, InMode, C!Receiving, C!Carrier
<1>3. TuneInv(s)'
  BY <1>1 DEF OneTaskInv, TuneInv, OnWay, C!Nominal, C!BandAtBoot
<1> QED
  BY <1>1, <1>2, <1>3 DEF OneTaskInv

LEMMA IssueOneTask ==
  ASSUME NEW s, Tasks = {s}, OneTaskInv, C!Issue(s)
  PROVE  OneTaskInv'
<1>1. CASE C!other_command(s)
  <2>1. /\ at[s] = "ready" /\ at' = [at EXCEPT ![s] = "answer"]
        /\ UNCHANGED <<op, polls, waiting, marc, dir, intr, freq, is433, nvsFreq, ready>>
    BY <1>1 DEF C!other_command, C!mode, C!config, C!At, C!Goto
  <2> QED
    BY <2>1, AnswerOneTask
<1> QED
  BY <1>1, EnterOneTask
  DEF C!Issue, C!cc1101_send_raw_slowrf, C!cc1101_send_it_v3, C!cc1101_send_hms,
      C!cc1101_send_fht, C!cc1101_send_oregon, C!send_raw_durations, C!cc1101_send_it_v1,
      C!cc1101_send_somfy, C!set_frequency_command, C!carrier_command,
      C!register_dump_command, C!factory_reset_command

LEMMA TakingOneTask ==
  ASSUME NEW s, Tasks = {s}, OneTaskInv, C!TakingStep(s)
  PROVE  OneTaskInv'
<1> USE DEF OneTaskInv, DriverTypes, ModeInv, TuneInv, InMode, OnWay, C!Receiving, C!Carrier,
            C!At, C!Goto, C!SIDLE, C!mode, C!config, C!Labels, C!Critical, C!Frequencies,
            C!Nominal, C!BandAtBoot
<1>1. CASE C!TxIdle(s)
  BY <1>1 DEF C!TxIdle
<1>2. CASE C!PollRelock(s)
  BY <1>2 DEF C!PollRelock, C!DelayOver
<1>3. CASE C!CheckMarc(s)
  BY <1>3 DEF C!CheckMarc
<1>4. CASE C!RetryIdle(s)
  BY <1>4 DEF C!RetryIdle
<1>5. CASE C!RetryStrobe(s)
  BY <1>5 DEF C!RetryStrobe
<1>6. CASE C!SetFrequencyRaw(s)
  BY <1>6 DEF C!SetFrequencyRaw
<1>7. CASE C!SetSomfyFrequency(s)
  <2>1. /\ at'[s] = "tx" /\ op'[s] = "somfy" /\ freq' = "433.42"
        /\ UNCHANGED <<op, polls, is433, nvsFreq, ready>>
    BY <1>7 DEF C!SetSomfyFrequency
  <2>2. DriverTypes'
    BY <1>7, <2>1 DEF C!SetSomfyFrequency
  <2>3. ModeInv(s)' /\ TuneInv(s)'
    BY <1>7, <2>1 DEF C!SetSomfyFrequency
  <2> QED
    <3> HIDE DEF DriverTypes, ModeInv, TuneInv
    <3> QED
      BY <2>2, <2>3
<1>8. CASE C!RxIdle(s)
  BY <1>8 DEF C!RxIdle
<1>9. CASE C!DumpLock(s)
  BY <1>9 DEF C!DumpLock
<1> QED
  BY <1>1, <1>2, <1>3, <1>4, <1>5, <1>6, <1>7, <1>8, <1>9 DEF C!TakingStep

LEMMA FreeOneTask ==
  ASSUME NEW s, Tasks = {s}, PollLimit >= 2, OneTaskInv, C!FreeStep(s)
  PROVE  OneTaskInv'
<1> USE DriverAssumption
    DEF OneTaskInv, DriverTypes, ModeInv, TuneInv, InMode, OnWay, C!Receiving, C!Carrier,
        C!At, C!Goto, C!Finish, C!mode, C!config, C!Labels, C!Critical, C!Frequencies,
        C!Nominal, C!BandAtBoot
<1>1. CASE C!TxStrobe(s)
  BY <1>1 DEF C!TxStrobe, C!AfterSTX
<1>2. CASE C!PollDone(s)
  <2>1. /\ at[s] = "poll" /\ (marc = "TX" \/ polls[s] = 0)
        /\ polls' = [polls EXCEPT ![s] = 0] /\ C!AfterTxMode(s)
        /\ UNCHANGED <<marc, dir, intr, freq, is433, nvsFreq, ready>>
    BY <1>2 DEF C!PollDone
  <2>2. /\ marc = "TX" /\ dir = "out" /\ ~intr /\ is433 = C!BandAtBoot(nvsFreq) /\ ready
        /\ freq = IF op[s] = "somfy" THEN "433.42" ELSE C!Nominal(is433)
    BY <2>1
  <2>3. polls' \in [Tasks -> 0..PollLimit] /\ is433' \in BOOLEAN /\ freq' \in C!Frequencies
    BY <2>1
  <2>4. CASE op[s] = "TX1"
    <3>1. /\ at' = [at EXCEPT ![s] = "answer"] /\ op' = [op EXCEPT ![s] = "none"]
      BY <2>1, <2>4 DEF C!AfterTxMode, C!FromBridge
    <3>2. /\ at'[s] = "answer" /\ op'[s] = "none" /\ DriverTypes'
      BY <2>3, <3>1
    <3> QED
      BY <2>1, <2>2, <2>4, <3>2
  <2>5. CASE op[s] # "TX1"
    <3>1. PICK l \in {"burst", "settle"} : at' = [at EXCEPT ![s] = l] /\ op' = op
      BY <2>1, <2>5 DEF C!AfterTxMode
    <3>2. /\ at'[s] = l /\ op'[s] = op[s] /\ DriverTypes'
      BY <2>3, <3>1
    <3>3. ModeInv(s)'
      BY <2>1, <2>2, <3>2
    <3>4. TuneInv(s)'
      BY <2>1, <2>2, <3>2
    <3> QED
      BY <3>2, <3>3, <3>4
  <2> QED
    BY <2>4, <2>5
<1>3. CASE C!PollAgain(s)
  BY <1>3 DEF C!PollAgain, C!BeginDelay, C!Calibrating
<1>4. CASE C!SettleDelay(s)
  BY <1>4 DEF C!SettleDelay, C!DelayOver
<1>5. CASE C!RetryDelay(s)
  BY <1>5 DEF C!RetryDelay
<1>6. CASE C!BurstEnd(s)
  BY <1>6 DEF C!BurstEnd
<1>7. CASE C!SetFlag(s)
  BY <1>7 DEF C!SetFlag
<1>8. CASE C!StoreFreq(s)
  <2>1. /\ at[s] = "nvs" /\ at' = [at EXCEPT ![s] = "raw"]
        /\ UNCHANGED <<op, polls, waiting, marc, dir, intr, freq, is433, ready>>
        /\ nvsFreq' = IF op[s] = "f868" THEN 86 ELSE 43
    BY <1>8 DEF C!StoreFreq
  <2>2. at'[s] = "raw" /\ DriverTypes'
    BY <2>1
  <2>3. ModeInv(s)'
    BY <2>1, <2>2
  <2>4. ready /\ is433 \in BOOLEAN /\ is433 = (op[s] # "f868")
    BY <2>1
  <2>5. is433' = (op'[s] # "f868") /\ is433' = C!BandAtBoot(nvsFreq)' /\ op'[s] = op[s]
    <3>1. CASE op[s] = "f868"
      <4>1. nvsFreq' = 86 /\ is433' = FALSE /\ op'[s] = op[s]
        BY <2>1, <2>4, <3>1
      <4>2. C!BandAtBoot(nvsFreq)' = FALSE
        BY <4>1
      <4> QED
        BY <3>1, <4>1, <4>2
    <3>2. CASE op[s] # "f868"
      BY <2>1, <2>4, <3>2
    <3> QED
      BY <3>1, <3>2
  <2>6. TuneInv(s)'
    <3> HIDE DEF C!BandAtBoot, C!Nominal
    <3> QED
      BY <2>1, <2>2, <2>4, <2>5
  <2> QED
    BY <2>2, <2>3, <2>6
<1>9. CASE C!RxStrobe(s)
  <2>1. /\ at[s] = "rx_idle" /\ dir' = "in" /\ marc' = "CAL_RX" /\ intr' = TRUE
        /\ UNCHANGED <<polls, freq, is433, nvsFreq, ready>>
    BY <1>9 DEF C!RxStrobe
  <2>2. PICK l \in {"rx", "ready", "answer"}, c \in {"rearm", "none"} :
            at' = [at EXCEPT ![s] = l] /\ op' = [op EXCEPT ![s] = c]
    BY <1>9 DEF C!RxStrobe
  <2>3. at'[s] = l /\ op'[s] = c /\ DriverTypes'
    BY <2>1, <2>2
  <2>4. ModeInv(s)'
    BY <2>1, <2>3
  <2>5. freq = C!Nominal(is433) /\ is433 = C!BandAtBoot(nvsFreq) /\ ready
    BY <2>1
  <2>6. TuneInv(s)'
    BY <2>1, <2>3, <2>5
  <2> QED
    BY <2>3, <2>4, <2>6
<1>10. CASE C!DumpUnlock(s)
  <2>1. /\ at[s] = "dumping" /\ op' = [op EXCEPT ![s] = "none"]
        /\ UNCHANGED <<polls, waiting, marc, dir, intr, freq, is433, nvsFreq, ready>>
    BY <1>10 DEF C!DumpUnlock
  <2>2. PICK l \in {"ready", "answer"} : at' = [at EXCEPT ![s] = l]
    BY <1>10 DEF C!DumpUnlock
  <2>3. at'[s] = l /\ op'[s] = "none" /\ DriverTypes'
    BY <2>1, <2>2
  <2>4. ModeInv(s)'
    BY <2>1, <2>3
  <2>5. TuneInv(s)'
    BY <2>1, <2>3
  <2> QED
    BY <2>3, <2>4, <2>5
<1>11. CASE C!EraseNvs(s)
  BY <1>11 DEF C!EraseNvs
<1>12. CASE C!Restart(s)
  BY <1>12, BootOneTask DEF C!Restart
<1> QED
  BY <1>1, <1>2, <1>3, <1>4, <1>5, <1>6, <1>7, <1>8, <1>9, <1>10, <1>11, <1>12 DEF C!FreeStep

\* The end of a calibration.
LEMMA SettleOneTask ==
  ASSUME NEW s, Tasks = {s}, OneTaskInv, C!Settle
  PROVE  OneTaskInv'
<1>1. /\ marc \in {"CAL_RX", "CAL_TX"}
      /\ marc' = IF marc = "CAL_RX" THEN "RX" ELSE "TX"
      /\ UNCHANGED <<at, op, polls, dir, intr, freq, is433, nvsFreq, ready>>
  BY DEF C!Settle, C!Calibrating, C!config
<1>2. DriverTypes'
  BY <1>1 DEF OneTaskInv, DriverTypes
<1>3. ModeInv(s)'
  BY <1>1 DEF OneTaskInv, ModeInv, InMode, C!Receiving, C!Carrier
<1>4. TuneInv(s)'
  BY <1>1 DEF OneTaskInv, TuneInv, OnWay, C!Nominal, C!BandAtBoot
<1> QED
  BY <1>2, <1>3, <1>4 DEF OneTaskInv

LEMMA StepOneTask ==
  ASSUME NEW s, Tasks = {s}, PollLimit >= 2, OneTaskInv, [C!Next]_C!vars
  PROVE  OneTaskInv'
<1>1. CASE C!Issue(s) \/ C!TakingStep(s) \/ C!FreeStep(s)
  BY <1>1, IssueOneTask, TakingOneTask, FreeOneTask
<1>5. CASE C!Answer(s)
  <2>1. /\ \/ at[s] = "answer" /\ at' = [at EXCEPT ![s] = "ready"]
           \/ at[s] = "erased" /\ at' = [at EXCEPT ![s] = "restart"]
        /\ UNCHANGED <<op, polls, waiting, marc, dir, intr, freq, is433, nvsFreq, ready>>
    BY <1>5 DEF C!Answer, C!mode, C!At, C!Goto
  <2> QED
    BY <2>1, AnswerOneTask
<1>2. CASE C!Settle
  BY <1>2, SettleOneTask
<1>3. CASE C!PowerCycle
  BY <1>3, BootOneTask DEF C!PowerCycle
<1>4. CASE C!ReportsFill \/ C!HostReads \/ UNCHANGED C!vars
  <2>1. UNCHANGED <<at, op, polls, waiting, marc, dir, intr, freq, is433, nvsFreq, ready>>
    BY <1>4 DEF C!ReportsFill, C!HostReads, C!control, C!mode, C!vars
  <2>2. DriverTypes'
    BY <2>1 DEF OneTaskInv, DriverTypes
  <2>3. ModeInv(s)'
    BY <2>1 DEF OneTaskInv, ModeInv, InMode, C!Receiving, C!Carrier
  <2>4. TuneInv(s)'
    BY <2>1 DEF OneTaskInv, TuneInv, OnWay, C!Nominal, C!BandAtBoot
  <2> QED
    BY <2>2, <2>3, <2>4 DEF OneTaskInv
<1> QED
  BY <1>1, <1>2, <1>3, <1>4, <1>5 DEF C!Next

LEMMA InitOneTask == C!Init => OneTaskInv
<1> SUFFICES ASSUME C!Init PROVE OneTaskInv
  OBVIOUS
<1>1. DriverTypes
  BY DriverAssumption DEF C!Init, DriverTypes, C!Labels, C!Frequencies, C!Nominal, C!BandAtBoot
<1>2. ASSUME NEW t \in Tasks PROVE ModeInv(t) /\ TuneInv(t)
  BY <1>1 DEF C!Init, DriverTypes, ModeInv, TuneInv, InMode, C!Receiving, OnWay
<1> QED
  BY <1>1, <1>2 DEF OneTaskInv

LEMMA OneTaskInvariant ==
  ASSUME NEW s, Tasks = {s}, PollLimit >= 2
  PROVE  PathSpec => []OneTaskInv
<1>1. PathInit => OneTaskInv
  BY InitOneTask DEF PathInit
<1>2. OneTaskInv /\ [PathNext]_all => OneTaskInv'
  BY DriverStep, StepOneTask
<1> QED
  BY <1>1, <1>2, PTL DEF PathSpec

\* When one task gives the commands, the pulses of every frame go out while the
\* chip transmits and on the frequency of the frame: the poll loop gives up
\* only after the calibration (cc1101.c 142-163), so that the send functions
\* need not look at what it ended with.
THEOREM FramesGoOut ==
  ASSUME NEW s, Tasks = {s}, PollLimit >= 2
  PROVE  PathSpec => []FrameOnAir
<1>1. OneTaskInv => FrameOnAir
  BY DEF OneTaskInv, ModeInv, TuneInv, OnWay, FrameOnAir, C!FrameOnAir, C!At
<1> QED
  BY <1>1, OneTaskInvariant, PTL

\* And the flag, the registers and NVS agree on the band whenever no command is
\* under way, after frames on Somfy's frequency, power failures in the middle
\* of cc1101_set_frequency and erasures (cc1101.c 165-209, 446-494).
THEOREM BandAgreed ==
  ASSUME NEW s, Tasks = {s}, PollLimit >= 2
  PROVE  PathSpec => []ConfigConsistent
<1>1. OneTaskInv => ConfigConsistent
  BY DEF OneTaskInv, TuneInv, OnWay, ConfigConsistent, C!ConfigConsistent
<1> QED
  BY <1>1, OneTaskInvariant, PTL

-----------------------------------------------------------------------------
(* The half-duplex radio.                                                   *)

LEMMA PhaseOneTask ==
  ASSUME NEW s, Tasks = {s}, OneTaskInv, OneTaskInv'
  PROVE  /\ C!Phase = IF at[s] = "burst" THEN "send" ELSE IF C!Receiving THEN "listen"
                      ELSE IF C!Carrier /\ ~C!Unsettled(s) THEN "carrier" ELSE "turn"
         /\ C!Phase' = IF at'[s] = "burst" THEN "send" ELSE IF C!Receiving' THEN "listen"
                      ELSE IF C!Carrier' /\ ~C!Unsettled(s)' THEN "carrier" ELSE "turn"
<1>1. C!Phase = IF at[s] = "burst" THEN "send" ELSE IF C!Receiving THEN "listen"
                      ELSE IF C!Carrier /\ ~C!Unsettled(s) THEN "carrier" ELSE "turn"
  <2>1. at[s] = "burst" => marc = "TX" /\ dir = "out" /\ ~intr /\ C!Unsettled(s)
    BY DEF OneTaskInv, ModeInv, C!Unsettled
  <2>2. ~(C!Receiving /\ C!Carrier)
    BY DEF C!Receiving, C!Carrier
  <2>3. CASE at[s] = "burst"
    BY <2>1, <2>2, <2>3 DEF C!Phase, C!OnAir, C!At
  <2>4. CASE at[s] # "burst"
    BY <2>1, <2>2, <2>4 DEF C!Phase, C!OnAir, C!At
  <2> QED
    BY <2>3, <2>4
<1>2. C!Phase' = IF at'[s] = "burst" THEN "send" ELSE IF C!Receiving' THEN "listen"
                      ELSE IF C!Carrier' /\ ~C!Unsettled(s)' THEN "carrier" ELSE "turn"
  <2>1. at'[s] = "burst" => marc' = "TX" /\ dir' = "out" /\ ~intr' /\ C!Unsettled(s)'
    BY DEF OneTaskInv, ModeInv, C!Unsettled
  <2>2. ~(C!Receiving' /\ C!Carrier')
    BY DEF C!Receiving, C!Carrier
  <2>3. CASE at'[s] = "burst"
    BY <2>1, <2>2, <2>3 DEF C!Phase, C!OnAir, C!At
  <2>4. CASE at'[s] # "burst"
    BY <2>1, <2>2, <2>4 DEF C!Phase, C!OnAir, C!At
  <2> QED
    BY <2>3, <2>4
<1> QED
  BY <1>1, <1>2

RadioStep == [C!Radio!RadioNext]_(C!Radio!radio)

\* The steps of the half-duplex radio, in terms of the driver.
LEMMA RadioMoves ==
  ASSUME OneTaskInv, OneTaskInv',
         \/ C!Phase' = C!Phase /\ freq' = freq
         \/ C!Phase \in {"listen", "carrier", "turn"} /\ C!Phase' = "turn"
         \/ C!Phase = "turn" /\ C!Phase' = "send" /\ freq' = freq
         \/ C!Phase = "send" /\ C!Phase' = "turn" /\ freq' = freq
         \/ C!Phase = "turn" /\ C!Phase' \in {"listen", "carrier"} /\ freq' = freq
              /\ freq = C!Nominal(is433)
         \/ C!Phase' = "listen" /\ freq' = C!Nominal(is433')
  PROVE  RadioStep
<1>1. freq' \in C!Frequencies /\ is433 \in BOOLEAN /\ is433' \in BOOLEAN
  BY DEF OneTaskInv, DriverTypes
<1>2. CASE C!Phase' = C!Phase /\ freq' = freq
  BY <1>2 DEF RadioStep, C!Radio!radio
<1>3. CASE C!Phase \in {"listen", "carrier", "turn"} /\ C!Phase' = "turn"
  BY <1>1, <1>3 DEF RadioStep, C!Radio!RadioNext, C!Radio!Turn, C!Radio!Retune
<1>4. CASE C!Phase = "turn" /\ C!Phase' = "send" /\ freq' = freq
  BY <1>4 DEF RadioStep, C!Radio!RadioNext, C!Radio!Send
<1>5. CASE C!Phase = "send" /\ C!Phase' = "turn" /\ freq' = freq
  BY <1>5 DEF RadioStep, C!Radio!RadioNext, C!Radio!Sent
<1>6. CASE C!Phase = "turn" /\ C!Phase' \in {"listen", "carrier"} /\ freq' = freq
              /\ freq = C!Nominal(is433)
  BY <1>1, <1>6 DEF RadioStep, C!Radio!RadioNext, C!Radio!Listen, C!Radio!KeepCarrier
<1>7. CASE C!Phase' = "listen" /\ freq' = C!Nominal(is433')
  BY <1>1, <1>7 DEF RadioStep, C!Radio!RadioNext, C!Radio!Reset
<1> QED
  BY <1>2, <1>3, <1>4, <1>5, <1>6, <1>7

LEMMA BootRadio ==
  ASSUME NEW s, Tasks = {s}, OneTaskInv, OneTaskInv', NEW n, C!Boot(n)
  PROVE  RadioStep
<1>1. C!Receiving' /\ at'[s] # "burst" /\ freq' = C!Nominal(is433')
  BY DEF C!Boot, C!Receiving, C!Nominal
<1> QED
  BY <1>1, PhaseOneTask, RadioMoves

LEMMA IssueRadio ==
  ASSUME NEW s, Tasks = {s}, OneTaskInv, OneTaskInv', C!Issue(s)
  PROVE  RadioStep
<1>1. PICK l \in {"tx", "raw_somfy", "rx", "flag", "dump", "erase", "answer"} :
        at[s] = "ready" /\ at' = [at EXCEPT ![s] = l] /\ UNCHANGED <<marc, dir, intr, freq>>
  BY DEF C!Issue, C!cc1101_send_raw_slowrf, C!cc1101_send_it_v3, C!cc1101_send_hms,
      C!cc1101_send_fht, C!cc1101_send_oregon, C!send_raw_durations, C!cc1101_send_it_v1,
      C!cc1101_send_somfy, C!set_frequency_command, C!carrier_command,
      C!register_dump_command, C!factory_reset_command, C!other_command, C!Enter,
      C!At, C!Goto, C!mode
<1>2. at'[s] = l /\ InMode /\ C!Receiving' = C!Receiving /\ C!Carrier' = C!Carrier
  BY <1>1 DEF OneTaskInv, DriverTypes, ModeInv, C!Receiving, C!Carrier
<1>3. C!Phase \in {"listen", "carrier"} /\ C!Phase' \in {C!Phase, "turn"}
  BY <1>1, <1>2, PhaseOneTask DEF InMode, C!Unsettled
<1> QED
  BY <1>1, <1>3, RadioMoves

LEMMA TakingRadio ==
  ASSUME NEW s, Tasks = {s}, OneTaskInv, OneTaskInv', C!TakingStep(s)
  PROVE  RadioStep
<1> USE DEF C!At, C!Goto
<1>0. at \in [{s} -> C!Labels]
  BY DEF OneTaskInv, DriverTypes
<1>1. CASE C!TxIdle(s) \/ C!SetFrequencyRaw(s) \/ C!SetSomfyFrequency(s) \/ C!RxIdle(s)
  <2>1. at[s] # "burst" /\ at'[s] # "burst" /\ marc' = "IDLE"
    BY <1>0, <1>1 DEF C!TxIdle, C!SetFrequencyRaw, C!SetSomfyFrequency, C!RxIdle, C!SIDLE
  <2>2. C!Phase \in {"listen", "carrier", "turn"} /\ C!Phase' = "turn"
    BY <2>1, PhaseOneTask DEF C!Receiving, C!Carrier
  <2> QED
    BY <2>2, RadioMoves
<1>2. CASE C!RetryIdle(s) \/ C!RetryStrobe(s)
  BY <1>2 DEF C!RetryIdle, C!RetryStrobe, OneTaskInv, ModeInv
<1>3. CASE C!PollRelock(s) \/ C!DumpLock(s)
  <2>1. /\ \/ at[s] = "poll_delay" /\ at'[s] = "poll"
           \/ at[s] = "dump" /\ at'[s] = "dumping"
        /\ UNCHANGED <<op, marc, dir, intr, freq>>
    BY <1>0, <1>3 DEF C!PollRelock, C!DumpLock, C!mode
  <2>2. C!Unsettled(s)' = C!Unsettled(s) /\ C!Receiving' = C!Receiving /\ C!Carrier' = C!Carrier
    BY <2>1 DEF C!Unsettled, C!Receiving, C!Carrier
  <2> QED
    BY <2>1, <2>2, PhaseOneTask, RadioMoves
<1>4. CASE C!CheckMarc(s)
  <2>1. at[s] = "check" /\ at' = [at EXCEPT ![s] = "burst"] /\ freq' = freq /\ dir = "out"
    BY <1>4 DEF C!CheckMarc, C!mode, OneTaskInv, ModeInv
  <2>2. at'[s] = "burst" /\ ~C!Receiving /\ C!Unsettled(s)
    BY <1>0, <2>1 DEF C!Receiving, C!Unsettled
  <2> QED
    BY <2>1, <2>2, PhaseOneTask, RadioMoves
<1> QED
  BY <1>1, <1>2, <1>3, <1>4 DEF C!TakingStep

LEMMA FreeRadio ==
  ASSUME NEW s, Tasks = {s}, OneTaskInv, OneTaskInv', C!FreeStep(s)
  PROVE  RadioStep
<1> USE DEF C!At, C!Goto
<1>0. at \in [{s} -> C!Labels]
  BY DEF OneTaskInv, DriverTypes
<1>1. CASE C!TxStrobe(s)
  <2>1. /\ at[s] = "tx_delay" /\ at'[s] = "poll" /\ marc = "IDLE" /\ dir' = "out"
        /\ freq' = freq /\ UNCHANGED op
    BY <1>0, <1>1 DEF C!TxStrobe, OneTaskInv, ModeInv
  <2>2. C!Phase = "turn" /\ C!Phase' \in {"carrier", "turn"}
    BY <2>1, PhaseOneTask DEF C!Receiving, C!Carrier
  <2>3. CASE op[s] = "somfy"
    <3>1. C!Unsettled(s)'
      BY <2>1, <2>3 DEF C!Unsettled
    <3>2. C!Phase' = "turn"
      BY <2>1, <3>1, PhaseOneTask DEF C!Receiving
    <3> QED
      BY <2>1, <2>2, <3>2, RadioMoves
  <2>4. CASE op[s] # "somfy"
    <3>1. freq = C!Nominal(is433)
      BY <2>1, <2>4 DEF OneTaskInv, TuneInv
    <3> QED
      BY <2>1, <2>2, <3>1, RadioMoves
  <2> QED
    BY <2>3, <2>4
<1>2. CASE C!PollDone(s)
  <2>1. /\ at[s] = "poll" /\ dir = "out" /\ C!Carrier
        /\ UNCHANGED <<marc, dir, intr, freq>> /\ C!AfterTxMode(s)
    BY <1>2 DEF C!PollDone, C!mode, OneTaskInv, ModeInv, C!Carrier
  <2>2. ~C!Receiving /\ ~C!Receiving' /\ C!Carrier'
    BY <2>1 DEF C!Receiving, C!Carrier
  <2>3. CASE op[s] = "TX1"
    <3>1. at'[s] = "answer"
      BY <1>0, <2>1, <2>3 DEF C!AfterTxMode, C!Finish, C!FromBridge
    <3>2. ~C!Unsettled(s) /\ ~C!Unsettled(s)'
      BY <2>1, <2>3, <3>1 DEF C!Unsettled
    <3> QED
      BY <2>1, <2>2, <3>1, <3>2, PhaseOneTask, RadioMoves
  <2>4. CASE op[s] # "TX1"
    <3>1. at'[s] \in {"burst", "settle"}
      BY <1>0, <2>1, <2>4 DEF C!AfterTxMode
    <3>2. C!Unsettled(s) /\ C!Unsettled(s)'
      BY <2>1, <2>4, <3>1 DEF C!Unsettled
    <3> QED
      BY <2>1, <2>2, <3>1, <3>2, PhaseOneTask, RadioMoves
  <2> QED
    BY <2>3, <2>4
<1>3. CASE C!PollAgain(s) \/ C!SetFlag(s) \/ C!DumpUnlock(s) \/ C!EraseNvs(s)
  <2>1. /\ \/ at[s] = "poll" /\ at'[s] = "poll_delay" /\ op' = op
           \/ at[s] = "flag" /\ at'[s] = "nvs" /\ op' = op
           \/ at[s] = "dumping" /\ at'[s] \in {"ready", "answer"}
           \/ at[s] = "erase" /\ at'[s] = "erased"
        /\ UNCHANGED <<marc, dir, intr, freq>>
    BY <1>0, <1>3 DEF C!PollAgain, C!SetFlag, C!DumpUnlock, C!Finish, C!EraseNvs, C!mode
  <2>2. C!Unsettled(s)' = C!Unsettled(s) /\ C!Receiving' = C!Receiving /\ C!Carrier' = C!Carrier
    BY <2>1 DEF C!Unsettled, C!Receiving, C!Carrier
  <2> QED
    BY <2>1, <2>2, PhaseOneTask, RadioMoves
<1>4. CASE C!SettleDelay(s)
  <2>1. /\ at[s] = "settle" /\ at'[s] \in {"check", "burst"}
        /\ dir = "out" /\ UNCHANGED <<marc, dir, intr, freq>>
    BY <1>0, <1>4 DEF C!SettleDelay, C!mode, OneTaskInv, ModeInv
  <2>2. ~C!Receiving /\ ~C!Receiving' /\ C!Unsettled(s) /\ C!Unsettled(s)'
    BY <2>1 DEF C!Receiving, C!Unsettled
  <2> QED
    BY <2>1, <2>2, PhaseOneTask, RadioMoves
<1>5. CASE C!RetryDelay(s)
  BY <1>5 DEF C!RetryDelay, OneTaskInv, ModeInv
<1>6. CASE C!BurstEnd(s)
  <2>1. /\ at[s] = "burst" /\ dir = "out" /\ UNCHANGED <<op, marc, dir, intr, freq>>
        /\ at'[s] = IF op[s] = "somfy" THEN "flag" ELSE "rx"
    BY <1>0, <1>6 DEF C!BurstEnd, C!mode, OneTaskInv, ModeInv
  <2>2. ~C!Receiving' /\ C!Unsettled(s)' /\ at'[s] # "burst"
    BY <2>1 DEF C!Receiving, C!Unsettled
  <2> QED
    BY <2>1, <2>2, PhaseOneTask, RadioMoves
<1>7. CASE C!StoreFreq(s)
  <2>1. at[s] = "nvs" /\ at'[s] = "raw" /\ UNCHANGED <<op, marc, dir, intr, freq>>
    BY <1>0, <1>7 DEF C!StoreFreq, C!mode
  <2>2. C!Receiving' = C!Receiving /\ C!Unsettled(s)'
    BY <2>1 DEF C!Receiving, C!Unsettled
  <2> QED
    BY <2>1, <2>2, PhaseOneTask, RadioMoves
<1>8. CASE C!RxStrobe(s)
  <2>1. at[s] = "rx_idle" /\ at'[s] # "burst" /\ C!Receiving' /\ freq' = freq
    BY <1>0, <1>8 DEF C!RxStrobe, C!Finish, C!Receiving
  <2>2. C!Phase' = "listen" /\ freq' = C!Nominal(is433')
    <3>1. UNCHANGED is433
      BY <1>8 DEF C!RxStrobe, C!config
    <3>2. freq = C!Nominal(is433)
      BY <2>1 DEF OneTaskInv, TuneInv, OnWay
    <3> QED
      BY <2>1, <3>1, <3>2, PhaseOneTask
  <2> QED
    BY <2>2, RadioMoves
<1>9. CASE C!Restart(s)
  BY <1>9, BootRadio DEF C!Restart
<1> QED
  BY <1>1, <1>2, <1>3, <1>4, <1>5, <1>6, <1>7, <1>8, <1>9 DEF C!FreeStep

LEMMA StepRadio ==
  ASSUME NEW s, Tasks = {s}, OneTaskInv, OneTaskInv', [C!Next]_C!vars
  PROVE  RadioStep
<1>1. CASE C!Issue(s) \/ C!TakingStep(s) \/ C!FreeStep(s)
  BY <1>1, IssueRadio, TakingRadio, FreeRadio
<1>5. CASE C!Answer(s)
  <2>1. /\ at[s] \in {"answer", "erased"} /\ at'[s] \in {"ready", "restart"}
        /\ UNCHANGED <<marc, dir, intr, freq>>
    BY <1>5 DEF C!Answer, C!At, C!Goto, C!mode, OneTaskInv, DriverTypes
  <2>2. C!Unsettled(s)' = C!Unsettled(s) /\ C!Receiving' = C!Receiving /\ C!Carrier' = C!Carrier
    BY <2>1 DEF C!Unsettled, C!Receiving, C!Carrier
  <2> QED
    BY <2>1, <2>2, PhaseOneTask, RadioMoves
<1>2. CASE C!Settle
  <2>1. /\ marc \in {"CAL_RX", "CAL_TX"} /\ UNCHANGED <<at, op, dir, intr, freq>>
        /\ marc' = IF marc = "CAL_RX" THEN "RX" ELSE "TX"
    BY <1>2 DEF C!Settle, C!Calibrating
  <2>2. C!Unsettled(s)' = C!Unsettled(s) /\ C!Receiving' = C!Receiving /\ C!Carrier' = C!Carrier
    BY <2>1 DEF C!Unsettled, C!Receiving, C!Carrier
  <2> QED
    BY <2>1, <2>2, PhaseOneTask, RadioMoves
<1>3. CASE C!PowerCycle
  BY <1>3, BootRadio DEF C!PowerCycle
<1>4. CASE C!ReportsFill \/ C!HostReads \/ UNCHANGED C!vars
  <2>1. UNCHANGED <<at, op, marc, dir, intr, freq>>
    BY <1>4 DEF C!ReportsFill, C!HostReads, C!control, C!mode, C!vars
  <2>2. C!Unsettled(s)' = C!Unsettled(s) /\ C!Receiving' = C!Receiving /\ C!Carrier' = C!Carrier
    BY <2>1 DEF C!Unsettled, C!Receiving, C!Carrier
  <2> QED
    BY <2>1, <2>2, PhaseOneTask, RadioMoves
<1> QED
  BY <1>1, <1>2, <1>3, <1>4, <1>5 DEF C!Next

\* Step by step the driver is a half-duplex radio for the one task that
\* commands it: pulses are made only on the air, the frequency registers change
\* only while the radio is turned round, and the receiver is armed only on one
\* of the two bands (cc1101.c 123-209, 446-523).  That it goes on, the fairness
\* of ImplementsHalfDuplex, is left to TLC.
THEOREM PathImplementsRadio ==
  ASSUME NEW s, Tasks = {s}, PollLimit >= 2
  PROVE  PathSpec => C!Radio!RadioSafe
<1>1. PathInit => C!Radio!RadioInit
  <2> SUFFICES ASSUME C!Init PROVE C!Radio!RadioInit
    BY DEF PathInit
  <2>1. /\ \A t \in Tasks : at[t] # "burst"
        /\ marc = "CAL_RX" /\ dir = "in" /\ intr = TRUE
    BY DEF C!Init
  <2>2. C!Receiving /\ ~C!Carrier
    BY <2>1 DEF C!Receiving, C!Carrier
  <2>3. C!Phase = "listen"
    BY <2>1, <2>2 DEF C!Phase, C!At
  <2>4. freq = C!Nominal(is433) /\ is433 \in BOOLEAN
    BY InitOneTask DEF C!Init, OneTaskInv, DriverTypes
  <2> QED
    BY <2>3, <2>4 DEF C!Radio!RadioInit
<1>2. OneTaskInv /\ OneTaskInv' /\ [PathNext]_all => [C!Radio!RadioNext]_(C!Radio!radio)
  BY DriverStep, StepRadio DEF RadioStep
<1> QED
  BY <1>1, <1>2, OneTaskInvariant, PTL DEF PathSpec, C!Radio!RadioSafe

=============================================================================
