---------------------------- MODULE RollingCode -----------------------------
(***************************************************************************)
(* The rolling-code manager (src/main/rolling_code.c) and its one caller,  *)
(* the Somfy branch of matter_bridge_command_cb: the code of a device is   *)
(* taken from NVS and its successor stored and committed before the frame  *)
(* is sent.  Tasks take codes without a lock, the duty-cycle monitor may   *)
(* refuse the frame, and the power may fail between any two steps.         *)
(*                                                                         *)
(* The blind is external: it obeys a frame whose code is ahead of the last *)
(* one it received, modulo the 16 bits.  A stick that comes up without its *)
(* counter is paired anew.  Module SendPath joins these steps with those   *)
(* of the radio.                                                           *)
(***************************************************************************)
EXTENDS Integers

CONSTANTS
    Tasks,        \* tasks that run matter_bridge_command_cb
    Consoles,     \* those of them that also take commands (e)
    CodeModulus,  \* codes are uint16_t: 65536 in the code
    MaxSkips      \* bound of the codes taken between two frames received

ASSUME ConsolesAssumption == Consoles \subseteq Tasks
ASSUME ModulusAssumption == CodeModulus \in Nat \ {0, 1}
ASSUME SkipsAssumption == MaxSkips \in Nat /\ MaxSkips <= CodeModulus \div 2

VARIABLES
    stored,     \* the NVS entry of the device, NoCode when there is none
    ready,      \* NVS initialised
    pc, code,   \* per task: label and the code taken
    last,       \* the blind: last code received since pairing, or NoCode
    skips,      \* codes taken since then
    obeyed,     \* history: the blind has obeyed every frame so far
    raced       \* history: a code was taken out of turn, see OutOfTurn

vars == <<stored, ready, pc, code, last, skips, obeyed, raced>>

NoCode == -1
Codes  == 0..(CodeModulus - 1)

TypeOK ==
    /\ stored \in Codes \cup {NoCode}
    /\ ready \in BOOLEAN
    /\ pc \in [Tasks -> {"idle", "store", "send", "erased"}]
    /\ code \in [Tasks -> Codes]
    /\ last \in Codes \cup {NoCode}
    /\ skips \in 0..MaxSkips
    /\ obeyed \in BOOLEAN
    /\ raced \in BOOLEAN

Ahead(c, l) == l = NoCode \/ (c - l) % CodeModulus \in 1..(CodeModulus \div 2)

Goto(t, l) == pc' = [pc EXCEPT ![t] = l]

\* A code is on its way from NVS to the blind.
UnderWay(t) == pc[t] \in {"store", "send"}

\* t takes a code while that of another task is under way, or after the erase.
OutOfTurn(t) == ~ready \/ \E u \in Tasks \ {t} : UnderWay(u)

\* nvs_open and nvs_get_u16; a failed open leaves code at 0 and stores nothing.
get_code(t) ==
    /\ pc[t] = "idle"
    /\ skips < MaxSkips
    /\ skips' = skips + 1
    /\ code' = [code EXCEPT ![t] =
                  IF ~ready THEN 0 ELSE IF stored = NoCode THEN 1 ELSE stored]
    /\ Goto(t, IF ready THEN "store" ELSE "send")
    /\ raced' = (raced \/ OutOfTurn(t))
    /\ UNCHANGED <<stored, ready, last, obeyed>>

\* Mutants of inc_code: the sum is stored without its 16 bits; nvs_commit is
\* forgotten and the successor may be lost.
inc_code_Wide(t) ==
    /\ pc[t] = "store"
    /\ stored' = IF ready THEN code[t] + 1 ELSE stored
    /\ Goto(t, "send")
    /\ UNCHANGED <<ready, code, last, skips, obeyed, raced>>

inc_code_NoCommit(t) ==
    /\ pc[t] = "store"
    /\ stored' \in {stored, (code[t] + 1) % CodeModulus}
    /\ Goto(t, "send")
    /\ UNCHANGED <<ready, code, last, skips, obeyed, raced>>

\* nvs_set_u16 and nvs_commit of the successor, in 16 bits.  After an erase
\* by another task the handle is stale and the write fails.
inc_code(t) ==
    /\ pc[t] = "store"
    /\ stored' = IF ready THEN (code[t] + 1) % CodeModulus ELSE stored
    /\ Goto(t, "send")
    /\ UNCHANGED <<ready, code, last, skips, obeyed, raced>>

\* The blind does not hear the frame: duty_cycle_add_tx refused it, or it was
\* lost.  The code is gone.
miss(t) ==
    /\ pc[t] = "send"
    /\ Goto(t, "idle")
    /\ code' = [code EXCEPT ![t] = 0]
    /\ UNCHANGED <<stored, ready, last, skips, obeyed, raced>>

\* The blind hears the frame, and obeys it if its code is ahead.
hear(t) ==
    /\ pc[t] = "send"
    /\ last' = code[t]
    /\ skips' = 0
    /\ obeyed' = (obeyed /\ Ahead(code[t], last))
    /\ Goto(t, "idle")
    /\ code' = [code EXCEPT ![t] = 0]
    /\ UNCHANGED <<stored, ready, raced>>

\* Command e: the erase, 500 ms in which the other tasks go on, the restart.
erase(t) ==
    /\ t \in Consoles
    /\ pc[t] = "idle"
    /\ stored' = NoCode
    /\ ready' = FALSE
    /\ Goto(t, "erased")
    /\ UNCHANGED <<code, last, skips, obeyed, raced>>

\* The stick comes up with counter c, and is paired anew if there is none.
Boot(c) ==
    /\ stored' = c
    /\ ready' = TRUE
    /\ pc' = [t \in Tasks |-> "idle"]
    /\ code' = [t \in Tasks |-> 0]
    /\ last' = IF c = NoCode THEN NoCode ELSE last
    /\ skips' = IF c = NoCode THEN 0 ELSE skips
    /\ UNCHANGED <<obeyed, raced>>

restart(t) == pc[t] = "erased" /\ Boot(stored)

\* The power fails, and the button is held when it comes back, or not.
PowerLoss(button) == Boot(IF button THEN NoCode ELSE stored)

Init ==
    /\ stored = NoCode
    /\ ready = TRUE
    /\ pc = [t \in Tasks |-> "idle"]
    /\ code = [t \in Tasks |-> 0]
    /\ last = NoCode
    /\ skips = 0
    /\ obeyed = TRUE
    /\ raced = FALSE

Next ==
    \/ \E t \in Tasks : \/ get_code(t)
                        \/ inc_code(t)
                        \/ miss(t)
                        \/ hear(t)
                        \/ erase(t)
                        \/ restart(t)
    \/ \E button \in BOOLEAN : PowerLoss(button)

Spec == Init /\ [][Next]_vars

-----------------------------------------------------------------------------
(* Properties.                                                              *)

\* The blind obeys every frame that is sent: no code is used twice and none
\* goes back, across power failures between storing and sending, frames
\* swallowed by the duty-cycle monitor and the wrap-around of the counter; as
\* long as no task takes a code while another one's is between NVS and the end
\* of its frame (rolling_code_get_and_inc takes no lock), or in the 500 ms after
\* the erase of command e.  Only these two make the counter in NVS and the
\* blind drift apart; with one task neither happens.
ObeyedInTurn == ~raced => obeyed

=============================================================================
