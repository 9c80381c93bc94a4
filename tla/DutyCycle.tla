----------------------------- MODULE DutyCycle ------------------------------
(***************************************************************************)
(* The duty-cycle monitor (src/main/culfw_duty_cycle.c) and the send       *)
(* functions that ask it.  duty_cycle_add_tx runs in the calling task with *)
(* no lock: it reads the band and the time, resets the account when it is  *)
(* older than an hour, checks the limit and adds the duration.  The steps  *)
(* below are the shared-memory accesses between which another task of the  *)
(* same or of a higher priority can be scheduled.                          *)
(*                                                                         *)
(* Time and airtime are in coarse units, so that the hour is Window and    *)
(* the limits are small.  The history variable `onAir' records the airtime *)
(* the monitor has admitted.  cc1101_send_it_v1, _hms, _fht, _oregon and   *)
(* the commands m and TX1 never ask it: they neither read nor change the   *)
(* state below, and have no action.                                        *)
(***************************************************************************)
EXTENDS Naturals

CONSTANTS
    Tasks,       \* tasks that call the send functions
    Durations,   \* airtime estimates the send functions pass
    Window,      \* the hour of line 23
    Limit433,    \* 10 %: 360000 ms in the code
    Limit868,    \* 1 %: 36000 ms in the code
    MaxTime      \* bound of the clock

ASSUME DurationsAssumption == Durations \subseteq Nat \ {0}
ASSUME WindowAssumption == Window \in Nat \ {0}
ASSUME LimitAssumption == Limit433 \in Nat /\ Limit868 \in Nat
ASSUME LimitOrder == Limit868 <= Limit433
ASSUME BoundsAssumption == MaxTime \in Nat

VARIABLES
    airtime,     \* airtime_ms_1h
    last,        \* last_reset_time
    is433,       \* cc1101_is_433_flag
    clock,       \* esp_timer_get_time()
    started,     \* app_main has called duty_cycle_init
    pc, dur, band, now, sum,  \* per task: label, argument and locals
    onAir        \* history: airtime admitted, by band (TRUE: 433) and time

account == <<airtime, last>>
locals  == <<dur, band, now, sum>>
vars    == <<airtime, last, is433, clock, started, pc, dur, band, now, sum, onAir>>

Labels == {"ready", "window", "stamp", "check", "add"}
Times  == 0..MaxTime

TypeOK ==
    /\ airtime \in Nat
    /\ last \in 0..MaxTime
    /\ is433 \in BOOLEAN
    /\ clock \in 0..MaxTime
    /\ started \in BOOLEAN
    /\ pc \in [Tasks -> Labels]
    /\ dur \in [Tasks -> Durations \cup {0}]
    /\ band \in [Tasks -> BOOLEAN]
    /\ now \in [Tasks -> 0..MaxTime]
    /\ sum \in [Tasks -> Nat]
    /\ onAir \in [BOOLEAN -> [Times -> Nat]]

\* Mutant of Limit: one zero too many in the limit of 433 MHz.
Limit_Tenfold(b) == IF b THEN 10 * Limit433 ELSE Limit868

Limit(b) == IF b THEN Limit433 ELSE Limit868

\* Mutant of Expired: 60 s instead of 3600 s, less than a unit of the clock.
Expired_Minute(t0, t1) == t1 # t0

\* Line 23 compares the signed difference with an unsigned constant: a
\* negative difference is converted to a huge value and passes the test.
Expired(t0, t1) == t1 < t0 \/ t1 - t0 > Window

\* Mutant of Remaining: no clamp, the unsigned difference wraps around.
Remaining_NoClamp ==
    IF airtime > Limit(is433) THEN 2^30 ELSE Limit(is433) - airtime

\* duty_cycle_get_remaining, the DC_Rem of command V.
Remaining == IF airtime > Limit(is433) THEN 0 ELSE Limit(is433) - airtime

-----------------------------------------------------------------------------

Goto(t, l) == pc' = [pc EXCEPT ![t] = l]

\* A finished call leaves no locals behind.
Return(t) ==
    /\ Goto(t, "ready")
    /\ dur' = [dur EXCEPT ![t] = 0]
    /\ band' = [band EXCEPT ![t] = FALSE]
    /\ now' = [now EXCEPT ![t] = 0]
    /\ sum' = [sum EXCEPT ![t] = 0]

\* Mutant of add_tx_enter: the caller passes microseconds.
add_tx_enter_Micros(t) ==
    /\ pc[t] = "ready"
    /\ \E d \in Durations : dur' = [dur EXCEPT ![t] = 1000 * d]
    /\ band' = [band EXCEPT ![t] = is433]
    /\ now' = [now EXCEPT ![t] = clock]
    /\ Goto(t, "window")
    /\ UNCHANGED <<sum, account, is433, clock, started, onAir>>

\* A send function calls duty_cycle_add_tx: band and time are read.
add_tx_enter(t) ==
    /\ pc[t] = "ready"
    /\ \E d \in Durations : dur' = [dur EXCEPT ![t] = d]
    /\ band' = [band EXCEPT ![t] = is433]
    /\ now' = [now EXCEPT ![t] = clock]
    /\ Goto(t, "window")
    /\ UNCHANGED <<sum, account, is433, clock, started, onAir>>

\* Lines 23 to 26: the account is cleared, then its start is stamped.
add_tx_window(t) ==
    /\ pc[t] = "window"
    /\ IF Expired(last, now[t])
         THEN airtime' = 0 /\ Goto(t, "stamp")
         ELSE UNCHANGED airtime /\ Goto(t, "check")
    /\ UNCHANGED <<locals, last, is433, clock, started, onAir>>

add_tx_stamp(t) ==
    /\ pc[t] = "stamp"
    /\ last' = now[t]
    /\ Goto(t, "check")
    /\ UNCHANGED <<locals, airtime, is433, clock, started, onAir>>

\* Lines 28 to 31: over the limit, the send function returns without sending.
add_tx_check(t) ==
    /\ pc[t] = "check"
    /\ IF airtime + dur[t] > Limit(band[t])
         THEN Return(t)
         ELSE /\ sum' = [sum EXCEPT ![t] = airtime + dur[t]]
              /\ Goto(t, "add")
              /\ UNCHANGED <<dur, band, now>>
    /\ UNCHANGED <<account, is433, clock, started, onAir>>

\* Mutant of add_tx_add: the duration replaces the account.
add_tx_add_Replace(t) ==
    /\ pc[t] = "add"
    /\ airtime' = dur[t]
    /\ onAir' = [onAir EXCEPT ![band[t]][now[t]] = @ + dur[t]]
    /\ Return(t)
    /\ UNCHANGED <<last, is433, clock, started>>

\* Line 33, an unprotected read-modify-write: the value read for the check
\* may be used again, or be read anew.  The send function then transmits.
add_tx_add(t) ==
    /\ pc[t] = "add"
    /\ airtime' \in {sum[t], airtime + dur[t]}
    /\ onAir' = [onAir EXCEPT ![band[t]][now[t]] = @ + dur[t]]
    /\ Return(t)
    /\ UNCHANGED <<last, is433, clock, started>>

\* app_main, after the tasks have been started.  It has the lowest priority,
\* and add_tx does not block: it runs between calls.
duty_cycle_init ==
    /\ ~started
    /\ \A t \in Tasks : pc[t] = "ready"
    /\ started' = TRUE
    /\ last' = clock
    /\ UNCHANGED <<airtime, is433, clock, pc, locals, onAir>>

set_band ==
    /\ is433' = ~is433
    /\ UNCHANGED <<account, clock, started, pc, locals, onAir>>

\* The clock stops at its bound.  app_main does not take hours to get to
\* duty_cycle_init.
Tick ==
    /\ clock < MaxTime
    /\ started \/ clock < Window
    /\ clock' = clock + 1
    /\ UNCHANGED <<account, is433, started, pc, locals, onAir>>

Init ==
    /\ airtime = 0
    /\ last = 0
    /\ is433 \in BOOLEAN
    /\ clock = 0
    /\ started = FALSE
    /\ pc = [t \in Tasks |-> "ready"]
    /\ dur = [t \in Tasks |-> 0]
    /\ band = [t \in Tasks |-> FALSE]
    /\ now = [t \in Tasks |-> 0]
    /\ sum = [t \in Tasks |-> 0]
    /\ onAir = [b \in BOOLEAN |-> [i \in Times |-> 0]]

Next ==
    \/ \E t \in Tasks :
          \/ add_tx_enter(t)
          \/ add_tx_window(t)
          \/ add_tx_stamp(t)
          \/ add_tx_check(t)
          \/ add_tx_add(t)
    \/ duty_cycle_init
    \/ set_band
    \/ Tick

Spec == Init /\ [][Next]_vars

-----------------------------------------------------------------------------
(* Properties.                                                              *)

\* The airtime of history h before every time, and before the end.
Before(h) ==
    LET total[n \in 0..(MaxTime + 1)] ==
            IF n = 0 THEN 0 ELSE total[n - 1] + h[n - 1]
    IN  total

\* The airtime admitted to band b from time t0 on, up to t1.
Admitted(b, t0, t1) ==
    Before(onAir[b])[IF t1 < MaxTime THEN t1 + 1 ELSE MaxTime + 1]
        - Before(onAir[b])[t0]

\* In every hour, wherever it begins, the transmissions that the monitor
\* admits to a band take at most twice its limit: the account is a fixed
\* window that is cleared as a whole, so the hour may straddle one reset,
\* but never two.  MEMORY.md:48 calls the hour a sliding one: then the limit
\* itself would be the bound, which a frame on either side of a reset exceeds.
HourWithinTwiceLimit ==
    \A b \in BOOLEAN, t0 \in Times :
        Admitted(b, t0, t0 + Window) <= 2 * Limit(b)

\* Between calls the account holds all the airtime that the monitor has
\* admitted since the account was last cleared, over both bands; a call of
\* duty_cycle_init after the first transmissions loses none of them.
AccountComplete ==
    (\A t \in Tasks : pc[t] = "ready") =>
        Admitted(TRUE, last, MaxTime) + Admitted(FALSE, last, MaxTime) <= airtime

\* The airtime that command V announces as remaining is indeed granted to a
\* send that is at the check, and nothing beyond it, also after a change of
\* band has left the account above the new limit.
RemainingHonest ==
    [][\A t \in Tasks : pc[t] = "check" /\ pc'[t] # "check" /\ band[t] = is433 =>
           (pc'[t] = "add" <=> dur[t] <= Remaining)]_vars

\* The account never exceeds what the larger limit admits.
AccountBounded == airtime <= Limit433

\* The inductive invariant behind it: what a task has checked still fits
\* when it is added.  It needs a single task: the others could add between.
CheckedFits ==
    \A t \in Tasks : pc[t] = "add" =>
        airtime + dur[t] <= Limit433 /\ sum[t] <= Limit433

=============================================================================
