--------------------------- MODULE GenericDecoder ---------------------------
(***************************************************************************)
(* The generic decoder (src/main/generic_decoder.c): protocols read from a *)
(* database, and for each of them the progress in the signal being heard.  *)
(*                                                                         *)
(* slowrf_task has the only core and a higher priority than the command    *)
(* task that reloads the database (GR), so a reload advances only while    *)
(* slowrf_task waits: for a pulse, or in the middle of the loop over the   *)
(* protocols while it hands a packet to the USB driver.  The states are    *)
(* not reset by a reload.                                                  *)
(*                                                                         *)
(* A pulse is its duration and its own level (pulse_level).  A sequence    *)
(* (sync, bit0, bit1) is a sequence of such pulses, a pair of the database *)
(* the sequence of its at most two pulses, in multiples of `short'.        *)
(***************************************************************************)
EXTENDS Integers, Sequences

CONSTANTS
    MaxProtocols,   \* MAX_PROTOCOLS
    SeqLen,         \* MAX_SEQ_LEN
    Databases,      \* what GR may find: sequences of entries
    Pulses          \* the pulses that may be heard

Bit64 == 64         \* width of bit_buffer

ASSUME MaxProtocolsAssumption == MaxProtocols \in Nat
ASSUME SeqLenAssumption == SeqLen \in Nat \ {0}
ASSUME PulsesAssumption == Pulses \subseteq (0..65535) \X {0, 1}

\* Sequences of pulses; a pair of the database adds a high pulse, a low one,
\* both or none.
PulseDefs == Seq(Nat \X {0, 1})
Pair == {p \in PulseDefs : Len(p) <= 2}
Entry == [short : Nat, tol : Nat, min : Nat, max : Nat,
          sync : Seq(Pair), bit0 : Seq(Pair), bit1 : Seq(Pair)]

ASSUME DatabasesAssumption == \A db \in Databases : db \in Seq(Entry)

VARIABLES
    protocols,      \* the entries, the first protocol_count of them valid
    protocol_count,
    states,         \* proto_state_t of each
    loader,         \* generic_decoder_load_from_json, between its steps
    cur,            \* the pulse being processed, <<>> between pulses
    index,          \* the protocol it is processed for
    packet          \* the bits being output, <<>> or <<bits>>

genVars == <<protocols, protocol_count, states, loader, cur, index, packet>>

Slots  == 1..MaxProtocols
Fields == {"bit0", "bit1", "sync"}

-----------------------------------------------------------------------------
(* One protocol and one pulse.                                              *)

reset_state ==
    [reading |-> FALSE, seq_idx |-> 0, cnt |-> 0, bits |-> <<>>,
     i0 |-> 0, i1 |-> 0, m0 |-> TRUE, m1 |-> TRUE]

match_pulse(duration, target, tol) ==
    target = 0 \/ (duration > target - tol /\ duration < target + tol)

\* Element k of an array, counted from 0; the entry was cleared before it was
\* filled, so what was not written is a low pulse of length 0.
Elem(seq, k) == IF k < Len(seq) THEN seq[k + 1] ELSE <<0, 0>>

Hit(p, seq, k, pulse) ==
    pulse[2] = Elem(seq, k)[2] /\ match_pulse(pulse[1], Elem(seq, k)[1], p.tol)

\* Both bits are possible again.
Begin(s) == [s EXCEPT !.reading = TRUE, !.i0 = 0, !.i1 = 0, !.m0 = TRUE, !.m1 = TRUE]

wait_sync(p, s, pulse) ==
    LET level == pulse[2] = Elem(p.sync, s.seq_idx)[2] IN
    CASE s.seq_idx >= Len(p.sync) -> s
      [] s.seq_idx < Len(p.sync) /\ Hit(p, p.sync, s.seq_idx, pulse) ->
            IF s.seq_idx + 1 < Len(p.sync) THEN [s EXCEPT !.seq_idx = @ + 1]
            ELSE Begin([s EXCEPT !.seq_idx = @ + 1, !.cnt = 0, !.bits = <<>>])
      [] OTHER ->
            [s EXCEPT !.seq_idx = IF level /\ Hit(p, p.sync, 0, pulse) THEN 1 ELSE 0]

\* A completed bit enters the buffer of 64, the counter has 16 bits.
Push(s, b) ==
    Begin([s EXCEPT !.cnt = (@ + 1) % 65536,
                    !.bits = Append(IF Len(@) < Bit64 THEN @ ELSE Tail(@), b)])

\* The pulse compared with what either bit expects next.
Compared(p, s, pulse) ==
    LET m0 == s.m0 /\ Hit(p, p.bit0, s.i0, pulse)
        m1 == s.m1 /\ Hit(p, p.bit1, s.i1, pulse)
    IN  [s EXCEPT !.m0 = m0, !.i0 = IF m0 THEN @ + 1 ELSE @,
                  !.m1 = m1, !.i1 = IF m1 THEN @ + 1 ELSE @]

\* The state after the comparison, the end of a bit included.
Completed(p, s) ==
    LET c0 == s.m0 /\ s.i0 >= Len(p.bit0)
        c1 == s.m1 /\ s.i1 >= Len(p.bit1)
    IN  CASE c0 /\ c1 -> reset_state
          [] c0 /\ ~c1 -> Push(s, 0)
          [] ~c0 /\ c1 -> Push(s, 1)
          [] OTHER -> s

read_bits(p, s, pulse) ==
    LET t == Compared(p, s, pulse) IN
    IF ~t.m0 /\ ~t.m1 THEN t ELSE Completed(p, t)

\* The state of a protocol after a pulse, before a packet is output.
Next_state(p, s, pulse) ==
    IF s.reading THEN read_bits(p, s, pulse) ELSE wait_sync(p, s, pulse)

\* A packet is output when neither bit matches and there are enough of them
\* (early exit), or when there are as many as there may be.
Complete(p, s) ==
    s.reading /\ (IF ~s.m0 /\ ~s.m1 THEN s.cnt >= p.min ELSE p.max > 0 /\ s.cnt >= p.max)

\* Neither bit matches: the signal is given up.
Failed(s) == s.reading /\ ~s.m0 /\ ~s.m1

-----------------------------------------------------------------------------
(* The loop over the protocols.                                             *)

Idle == cur = <<>>

\* slowrf_task waits here, and other tasks run.
Waiting == Idle \/ packet # <<>>

\* A pulse from the queue.
GenTake(pulse) ==
    /\ Idle
    /\ cur' = <<pulse>>
    /\ index' = 1
    /\ UNCHANGED <<protocols, protocol_count, states, loader, packet>>

\* One protocol; what is output stays in the state until it is output.
GenProtocol ==
    /\ ~Idle /\ packet = <<>>
    /\ index <= protocol_count
    /\ LET p == protocols[index]
           s == Next_state(p, states[index], cur[1])
       IN  IF Complete(p, s)
           THEN /\ states' = [states EXCEPT ![index] = s]
                /\ packet' = <<s.bits>>
                /\ UNCHANGED index
           ELSE /\ states' = [states EXCEPT ![index] = IF Failed(s) THEN reset_state ELSE s]
                /\ index' = index + 1
                /\ UNCHANGED packet
    /\ UNCHANGED <<protocols, protocol_count, loader, cur>>

\* generic_decoder_output_packet has returned.
GenOutput ==
    /\ packet # <<>>
    /\ packet' = <<>>
    /\ states' = [states EXCEPT ![index] = reset_state]
    /\ index' = index + 1
    /\ UNCHANGED <<protocols, protocol_count, loader, cur>>

\* Mutant of GenEnd: the loop runs until i = protocol_count.
GenEnd_Equal ==
    /\ ~Idle /\ packet = <<>>
    /\ index = protocol_count + 1
    /\ cur' = <<>> /\ index' = 1
    /\ UNCHANGED <<protocols, protocol_count, states, loader, packet>>

\* The loop ends; protocol_count may have changed under it.
GenEnd ==
    /\ ~Idle /\ packet = <<>>
    /\ index > protocol_count
    /\ cur' = <<>> /\ index' = 1
    /\ UNCHANGED <<protocols, protocol_count, states, loader, packet>>

-----------------------------------------------------------------------------
(* Loading a database.                                                      *)

Cleared == [tol |-> 0, sync |-> <<>>, bit0 |-> <<>>, bit1 |-> <<>>,
            min |-> 0, max |-> 0]

NoLoad == [on |-> FALSE, rest |-> <<>>, field |-> "", pairs |-> <<>>]

Filling == protocol_count + 1

\* The file was parsed; if it cannot be parsed nothing happens at all.
LoadBegin ==
    /\ ~loader.on /\ Waiting
    /\ \E db \in Databases :
         loader' = [on |-> TRUE, rest |-> db, field |-> "", pairs |-> <<>>]
    /\ protocol_count' = 0
    /\ UNCHANGED <<protocols, states, cur, index, packet>>

\* The entry is cleared; its numbers are copied (names are left out).
LoadEntry ==
    /\ loader.on /\ Waiting
    /\ loader.field = "" /\ loader.rest # <<>> /\ protocol_count < MaxProtocols
    /\ LET e == Head(loader.rest) IN
         /\ protocols' = [protocols EXCEPT ![Filling] =
                [Cleared EXCEPT !.tol = e.tol, !.min = e.min, !.max = e.max]]
         /\ loader' = [loader EXCEPT !.field = "bit0", !.pairs = e.bit0]
    /\ UNCHANGED <<protocol_count, states, cur, index, packet>>

\* Mutant of Room: a pair is added to a full array too.
Room_Always(seq) == Len(seq) < SeqLen

\* Room for a pair, in parse_pulse_def.
Room(seq) == Len(seq) < SeqLen - 1

\* A pair in microseconds; the products have 16 bits.
InUs(pair, short) == [k \in DOMAIN pair |-> <<(pair[k][1] * short) % 65536, pair[k][2]>>]

\* parse_pulse_def, a pair.
ParsePair ==
    /\ loader.on /\ Waiting
    /\ loader.field \in Fields /\ loader.pairs # <<>>
    /\ Room(protocols[Filling][loader.field])
    /\ protocols' = [protocols EXCEPT ![Filling][loader.field] =
                        @ \o InUs(Head(loader.pairs), Head(loader.rest).short)]
    /\ loader' = [loader EXCEPT !.pairs = Tail(@)]
    /\ UNCHANGED <<protocol_count, states, cur, index, packet>>

\* The end of a sequence; after the third the entry counts.
ParseEnd ==
    /\ loader.on /\ Waiting
    /\ loader.field \in Fields
    /\ loader.pairs # <<>> => ~Room(protocols[Filling][loader.field])
    /\ LET e == Head(loader.rest) IN
       CASE loader.field = "bit0" ->
              /\ loader' = [loader EXCEPT !.field = "bit1", !.pairs = e.bit1]
              /\ UNCHANGED protocol_count
         [] loader.field = "bit1" ->
              /\ loader' = [loader EXCEPT !.field = "sync", !.pairs = e.sync]
              /\ UNCHANGED protocol_count
         [] OTHER ->
              /\ loader' = [loader EXCEPT !.field = "", !.pairs = <<>>, !.rest = Tail(@)]
              /\ protocol_count' = protocol_count + 1
    /\ UNCHANGED <<protocols, states, cur, index, packet>>

LoadEnd ==
    /\ loader.on /\ Waiting
    /\ loader.field = "" /\ (loader.rest = <<>> \/ protocol_count >= MaxProtocols)
    /\ loader' = NoLoad
    /\ UNCHANGED <<protocols, protocol_count, states, cur, index, packet>>

GenLoad == LoadBegin \/ LoadEntry \/ ParsePair \/ ParseEnd \/ LoadEnd

\* generic_decoder_init: the states are zeroed, which is not reset_state.
NoStates == [i \in Slots |-> [reset_state EXCEPT !.m0 = FALSE, !.m1 = FALSE]]

GenInit ==
    /\ protocols = [i \in Slots |-> Cleared]
    /\ protocol_count = 0
    /\ states = NoStates
    /\ loader = NoLoad
    /\ cur = <<>>
    /\ index = 1
    /\ packet = <<>>

GenNext ==
    \/ \E pulse \in Pulses : GenTake(pulse)
    \/ GenProtocol \/ GenOutput \/ GenEnd
    \/ GenLoad

GenSpec == GenInit /\ [][GenNext]_genVars

-----------------------------------------------------------------------------
(* Properties.                                                              *)

\* rf_proto_internal_t and proto_state_t
Proto == [tol : Nat, min : Nat, max : Nat,
          sync : PulseDefs, bit0 : PulseDefs, bit1 : PulseDefs]
State == [reading : BOOLEAN, seq_idx : Nat, cnt : Nat, bits : Seq({0, 1}),
          i0 : Nat, i1 : Nat, m0 : BOOLEAN, m1 : BOOLEAN]

\* The types of the decoder's state, and where the loop and the loader are.
GenTypeOK ==
    /\ protocols \in [Slots -> Proto]
    /\ protocol_count \in Nat
    /\ states \in [Slots -> State]
    /\ loader \in [on : BOOLEAN, rest : Seq(Entry), field : Fields \cup {""}, pairs : Seq(Pair)]
    /\ cur \in Seq(Pulses) /\ Len(cur) <= 1
    /\ index \in Nat \ {0}
    /\ packet \in Seq(Seq({0, 1}))

\* Whatever database is loaded, at whatever moment, and whatever is heard,
\* no array is left: parse_pulse_def writes inside the sequences, and a state
\* that an earlier database left behind never makes the decoder read bit0 or
\* bit1 past its end (generic_decoder.c 124-146, 293, 304).
IndicesInRange ==
    /\ protocol_count <= MaxProtocols
    /\ \A i \in Slots : \A f \in Fields : Len(protocols[i][f]) <= SeqLen
    /\ \A i \in Slots : /\ states[i].m0 => states[i].i0 < SeqLen
                        /\ states[i].m1 => states[i].i1 < SeqLen

=============================================================================
