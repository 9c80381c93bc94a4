---------------------------- MODULE Cc1101Proofs ----------------------------
(***************************************************************************)
(* Proofs about the radio driver, for every set of tasks, every set of     *)
(* commands and every poll limit.                                          *)
(***************************************************************************)
EXTENDS Cc1101, TLAPS

\* Every step keeps the types.
LEMMA TypePreserved == TypeOK /\ [Next]_vars => TypeOK'
<1> SUFFICES ASSUME TypeOK, [Next]_vars PROVE TypeOK'
  OBVIOUS
<1> USE CommandsAssumption, PollAssumption
<1>b. ASSUME NEW n \in {0, 43, 86}, Boot(n) PROVE TypeOK'
  <2>1. /\ pc' \in [Tasks -> Labels] /\ op' \in [Tasks -> Commands \cup {"none", "rearm"}]
        /\ polls' \in [Tasks -> 0..PollLimit] /\ owner' \in Tasks \cup {NoTask}
        /\ waiting' \subseteq Tasks /\ marc' \in MarcStates /\ dir' \in {"in", "out"}
        /\ freq' \in Frequencies /\ nvsFreq' \in {0, 43, 86}
    BY <1>b, MarkerAssumption DEF Boot, Nominal, Frequencies, Labels, MarcStates
  <2>2. intr' \in BOOLEAN /\ is433' \in BOOLEAN /\ nvsReady' \in BOOLEAN /\ usbFull' \in BOOLEAN
    BY <1>b, MarkerAssumption DEF Boot, BandAtBoot
  <2> QED
    BY <2>1, <2>2 DEF TypeOK
<1>1. ASSUME NEW t \in Tasks, Issue(t) PROVE TypeOK'
  <2>1. ASSUME NEW c, NEW l \in Labels, Enter(t, c, l) PROVE TypeOK'
    BY <2>1 DEF TypeOK, Enter, At, Goto, mode, config
  <2> QED
    BY <1>1, <2>1 DEF Issue, cc1101_send_raw_slowrf, cc1101_send_it_v3,
       cc1101_send_hms, cc1101_send_fht, cc1101_send_oregon,
       send_raw_durations, cc1101_send_it_v1, cc1101_send_somfy,
       set_frequency_command, carrier_command, register_dump_command,
       factory_reset_command, other_command, At, Goto, mode, config, TypeOK,
       Labels, Critical
<1>2. ASSUME NEW t \in Tasks, TakingStep(t) PROVE TypeOK'
  <2> USE DEF TypeOK, At, Goto, cc1101_lock, Locked, SIDLE, mode, config,
              Labels, Critical, MarcStates
  <2>1. CASE TxIdle(t)
    BY <2>1 DEF TxIdle
  <2>2. CASE PollRelock(t)
    BY <2>2 DEF PollRelock
  <2>3. CASE CheckMarc(t)
    BY <2>3 DEF CheckMarc
  <2>4. CASE RetryIdle(t)
    BY <2>4 DEF RetryIdle
  <2>5. CASE RetryStrobe(t)
    BY <2>5 DEF RetryStrobe, AfterSTX
  <2>6. CASE SetFrequencyRaw(t)
    BY <2>6 DEF SetFrequencyRaw, Nominal, Frequencies
  <2>7. CASE SetSomfyFrequency(t)
    BY <2>7 DEF SetSomfyFrequency, Frequencies
  <2>8. CASE RxIdle(t)
    BY <2>8 DEF RxIdle
  <2>9. CASE DumpLock(t)
    BY <2>9 DEF DumpLock
  <2> QED
    BY <1>2, <2>1, <2>2, <2>3, <2>4, <2>5, <2>6, <2>7, <2>8, <2>9
       DEF TakingStep
<1>3. ASSUME NEW t \in Tasks, FreeStep(t) PROVE TypeOK'
  <2> USE DEF TypeOK, At, Goto, Finish, cc1101_unlock, mode, config,
              Labels, Critical, MarcStates
  <2>1. CASE TxStrobe(t)
    BY <2>1 DEF TxStrobe, AfterSTX
  <2>2. CASE PollDone(t)
    BY <2>2 DEF PollDone, AfterTxMode, BeginDelay
  <2>3. CASE PollAgain(t)
    BY <2>3 DEF PollAgain, BeginDelay
  <2>4. CASE SettleDelay(t)
    BY <2>4 DEF SettleDelay
  <2>5. CASE RetryDelay(t)
    BY <2>5 DEF RetryDelay
  <2>6. CASE BurstEnd(t)
    BY <2>6 DEF BurstEnd
  <2>7. CASE SetFlag(t)
    BY <2>7 DEF SetFlag
  <2>8. CASE StoreFreq(t)
    BY <2>8 DEF StoreFreq
  <2>9. CASE RxStrobe(t)
    BY <2>9 DEF RxStrobe
  <2>10. CASE DumpUnlock(t)
    BY <2>10 DEF DumpUnlock
  <2>11. CASE EraseNvs(t)
    BY <2>11 DEF EraseNvs
  <2>12. CASE Restart(t)
    BY <2>12, <1>b DEF Restart
  <2> QED
    BY <1>3, <2>1, <2>2, <2>3, <2>4, <2>5, <2>6, <2>7, <2>8, <2>9, <2>10,
       <2>11, <2>12 DEF FreeStep
<1>4. CASE Settle
  BY <1>4 DEF Settle, TypeOK, config, MarcStates
<1>5. CASE PowerCycle
  BY <1>5, <1>b DEF PowerCycle, TypeOK
<1>6. CASE UNCHANGED vars
  BY <1>6 DEF TypeOK, vars
<1>7. ASSUME NEW t \in Tasks, Answer(t) PROVE TypeOK'
  BY <1>7 DEF Answer, At, Goto, mode, TypeOK, Labels
<1>8. CASE ReportsFill \/ HostReads
  <2>1. usbFull' \in BOOLEAN
    BY <1>8 DEF ReportsFill, HostReads
  <2> QED
    BY <1>8, <2>1 DEF ReportsFill, HostReads, control, mode, TypeOK
<1> QED
  BY <1>1, <1>2, <1>3, <1>4, <1>5, <1>6, <1>7, <1>8 DEF Next

\* Every step keeps the rest of the inductive invariant.  The mutex matters
\* at TxStrobe: the disarmed interrupt and the idle chip that TxIdle left are
\* still there, so the pin is turned round disarmed and STX starts at IDLE.
LEMMA InvPreserved == Inv /\ [Next]_vars => Inv'
<1> SUFFICES ASSUME Inv, [Next]_vars PROVE Inv'
  OBVIOUS
<1> DEFINE Rest == MutexInv /\ TxDelayInv /\ NoSelfReception /\ SettledInv
                  /\ ErasedInv
<1>t. TypeOK'
  BY TypePreserved DEF Inv
<1> SUFFICES Rest'
  BY <1>t DEF Inv
<1> USE TasksAssumption DEF Inv, TypeOK, MutexInv, TxDelayInv, NoSelfReception,
        SettledInv, ErasedInv, Unsettled, Receiving, Carrier, Critical, At, Goto, mode,
        config
<1>1. ASSUME NEW t \in Tasks, Issue(t) PROVE Rest'
  <2>1. ASSUME NEW c,
               NEW l \in {"tx", "raw_somfy", "rx", "flag", "dump", "erase"},
               l = "flag" => c # "somfy", Enter(t, c, l)
        PROVE  Rest'
    BY <2>1 DEF Enter
  <2>2. CASE other_command(t)
    BY <2>2 DEF other_command
  <2> HIDE DEF Rest
  <2> QED
    BY <1>1, <2>1, <2>2 DEF Issue, cc1101_send_raw_slowrf, cc1101_send_it_v3,
       cc1101_send_hms, cc1101_send_fht, cc1101_send_oregon,
       send_raw_durations, cc1101_send_it_v1, cc1101_send_somfy,
       set_frequency_command, carrier_command, register_dump_command,
       factory_reset_command
<1>2. ASSUME NEW t \in Tasks, TakingStep(t) PROVE Rest'
  <2> USE DEF cc1101_lock, cc1101_unlock, Locked, SIDLE
  <2>1. CASE TxIdle(t)
    BY <2>1 DEF TxIdle
  <2>2. CASE PollRelock(t)
    BY <2>2 DEF PollRelock
  <2>3. CASE CheckMarc(t)
    BY <2>3 DEF CheckMarc
  <2>4. CASE RetryIdle(t)
    BY <2>4 DEF RetryIdle
  <2>5. CASE RetryStrobe(t)
    BY <2>5 DEF RetryStrobe, AfterSTX
  <2>6. CASE SetFrequencyRaw(t)
    BY <2>6 DEF SetFrequencyRaw
  <2>7. CASE SetSomfyFrequency(t)
    BY <2>7 DEF SetSomfyFrequency
  <2>8. CASE RxIdle(t)
    BY <2>8 DEF RxIdle
  <2>9. CASE DumpLock(t)
    BY <2>9 DEF DumpLock
  <2> QED
    BY <1>2, <2>1, <2>2, <2>3, <2>4, <2>5, <2>6, <2>7, <2>8, <2>9
       DEF TakingStep
<1>3. ASSUME NEW t \in Tasks, FreeStep(t) PROVE Rest'
  <2> USE DEF cc1101_lock, cc1101_unlock, Locked, SIDLE
  <2>1. CASE TxStrobe(t)
    BY <2>1 DEF TxStrobe, AfterSTX
  <2>2. CASE PollDone(t)
    BY <2>2 DEF PollDone, AfterTxMode, Finish, BeginDelay
  <2>3. CASE PollAgain(t)
    BY <2>3 DEF PollAgain
  <2>4. CASE SettleDelay(t)
    BY <2>4 DEF SettleDelay
  <2>5. CASE RetryDelay(t)
    BY <2>5 DEF RetryDelay
  <2>6. CASE BurstEnd(t)
    BY <2>6 DEF BurstEnd
  <2>7. CASE SetFlag(t)
    BY <2>7 DEF SetFlag
  <2>8. CASE StoreFreq(t)
    BY <2>8 DEF StoreFreq
  <2>9. CASE RxStrobe(t)
    BY <2>9 DEF RxStrobe, Finish
  <2>10. CASE DumpUnlock(t)
    BY <2>10 DEF DumpUnlock, Finish
  <2>11. CASE EraseNvs(t)
    BY <2>11 DEF EraseNvs
  <2>12. CASE Restart(t)
    BY <2>12 DEF Restart, Boot
  <2> QED
    BY <1>3, <2>1, <2>2, <2>3, <2>4, <2>5, <2>6, <2>7, <2>8, <2>9, <2>10, <2>11, <2>12
       DEF FreeStep
<1>4. CASE Settle
  BY <1>4 DEF Settle, Calibrating
<1>5. CASE PowerCycle
  BY <1>5 DEF PowerCycle, Boot
<1>6. CASE UNCHANGED vars
  BY <1>6 DEF vars
<1>7. ASSUME NEW t \in Tasks, Answer(t) PROVE Rest'
  BY <1>7 DEF Answer
<1>8. CASE ReportsFill \/ HostReads
  BY <1>8 DEF ReportsFill, HostReads, control
<1> HIDE DEF Rest
<1> QED
  BY <1>1, <1>2, <1>3, <1>4, <1>5, <1>6, <1>7, <1>8 DEF Next

\* The initial states satisfy the inductive invariant.
LEMMA InvInit == Init => Inv
<1> SUFFICES ASSUME Init PROVE Inv
  OBVIOUS
<1>1. intr \in BOOLEAN /\ is433 \in BOOLEAN /\ nvsReady \in BOOLEAN /\ usbFull \in BOOLEAN
  BY MarkerAssumption DEF Init, BandAtBoot
<1>2. TypeOK
  BY <1>1, PollAssumption DEF Init, TypeOK, Labels, MarcStates, Frequencies, Nominal
<1>3. MutexInv /\ TxDelayInv /\ NoSelfReception /\ SettledInv /\ ErasedInv
  BY TasksAssumption
     DEF Init, MutexInv, TxDelayInv, NoSelfReception, SettledInv, ErasedInv,
         Receiving, Critical, At
<1> QED
  BY <1>2, <1>3 DEF Inv

\* The inductive invariant holds in every reachable state.
THEOREM Invariance == Spec => []Inv
  BY InvInit, InvPreserved, PTL DEF Spec

\* The variables of the driver keep their types, whatever tasks interleave.
THEOREM TypeCorrect == Spec => []TypeOK
<1>1. Inv => TypeOK
  BY DEF Inv
<1> QED
  BY <1>1, Invariance, PTL

\* The stick never listens to its own pulses: the edge interrupt of GDO0 is
\* never armed while the pin is an output, for any number of tasks.
THEOREM SelfReceptionExcluded == Spec => []NoSelfReception
<1>1. Inv => NoSelfReception
  BY DEF Inv
<1> QED
  BY <1>1, Invariance, PTL

\* Once all commands are over the radio is back in a consistent mode:
\* receiving, or sending the carrier that TX1 asked for.
THEOREM QuiescentConsistency == Spec => []QuiescentConsistent
<1>1. Inv => QuiescentConsistent
  BY DEF Inv, SettledInv, QuiescentConsistent, Unsettled
<1> QED
  BY <1>1, Invariance, PTL

\* Whatever the other tasks do in the 500 ms between the erase of command `e'
\* and the restart, no stored band is brought back.
THEOREM FactoryReset == Spec => []FactoryResetSticks
<1>1. Inv => FactoryResetSticks
  BY DEF Inv, ErasedInv, FactoryResetSticks
<1> QED
  BY <1>1, Invariance, PTL

=============================================================================
