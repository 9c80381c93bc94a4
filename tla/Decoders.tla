------------------------------ MODULE Decoders ------------------------------
(***************************************************************************)
(* The fixed decoders of slowrf_task (src/main/slowrf.c).  Each is a       *)
(* record and a function from the record and a pulse to the next record.   *)
(* A pulse is its duration in microseconds and the level of the pin after  *)
(* it, as in pulse_t: level 0 ends a high pulse, level 1 a low one.        *)
(*                                                                         *)
(* Counters are the lengths of sequences: a byte is the sequence of its    *)
(* bits in the order received, bit_cnt the length of `bits', byte_cnt or   *)
(* nibble_cnt the length of `data'.  The capacities are those of the       *)
(* arrays in the code.  rtl_dec is left out: nothing reads it.             *)
(***************************************************************************)
EXTENDS Integers, Sequences

CONSTANTS
    Durations,   \* durations of the pulses in the queue
    Garbage      \* what last_pulse, which is never initialised, may hold

ASSUME DurationsAssumption == Durations \subseteq 0..65535
ASSUME GarbageAssumption == Garbage \subseteq Int

SYNC_MIN == 4000      \* SLOWRF_SYNC_MIN
FsCap    == 16        \* fs20_dec_t.data
FhtCap   == 16        \* fht_dec_t.data
NibCap   == 24        \* sensor_dec_t.nibbles
OsCap    == 24        \* nibbles that Oregon stores; os_dec_t.data holds 32
It1Len   == 12
It3Len   == 32

VARIABLES fs, fht, it1, it3, os, s300, hms

Bit == {0, 1}

\* The types of the decoders.
fs20_dec_t == [data : Seq(Seq(Bit)), bits : Seq(Bit), last : {-1, 0, 1},
               half : BOOLEAN, sync : BOOLEAN]
fht_dec_t  == [data : Seq(Seq(Bit)), bits : Seq(Bit), shift : Seq(Bit), sync : BOOLEAN]
itv1_dec_t == [s : Seq({"0", "1", "F"}), buf : Seq(Int)]
itv3_dec_t == [s : Seq({"0", "1"}), buf : Seq(Int), sync : BOOLEAN]
os_dec_t   == [data : Seq(Seq(Bit)), bits : Seq(Bit), ps : 0..10, sync : BOOLEAN]
s300_dec_t == [data : Seq(Seq(Bit)), bits : Seq(Bit), last : Int, sync : BOOLEAN]
hms_dec_t  == [data : Seq(Seq(Bit)), bits : Seq(Bit), last : Int, armed : BOOLEAN]

decVars == <<fs, fht, it1, it3, os, s300, hms>>

-----------------------------------------------------------------------------
(* FS20: two equal halves, or one pulse of the length of both, are a bit;   *)
(* after the first 1 come bytes of eight bits and even parity.              *)

reset_fs20 ==
    [data |-> <<>>, bits |-> <<>>, last |-> -1, half |-> FALSE, sync |-> FALSE]

\* Mutant of Parity: only the first seven bits count.
Parity_Seven(b) == (b[1] + b[2] + b[3] + b[4] + b[5] + b[6] + b[7]) % 2

\* The parity of the first eight bits.
Parity(b) == (b[1] + b[2] + b[3] + b[4] + b[5] + b[6] + b[7] + b[8]) % 2

\* Mutant of fs20_bit: the array of bytes has no limit.
fs20_bit_NoCap(d, b) ==
    LET bits == Append(d.bits, b) IN
    CASE ~d.sync -> IF b = 1 THEN [d EXCEPT !.sync = TRUE, !.bits = <<>>] ELSE d
      [] d.sync /\ Len(bits) < 9 -> [d EXCEPT !.bits = bits]
      [] OTHER -> [d EXCEPT !.bits = <<>>, !.data = Append(@, SubSeq(bits, 1, 8))]

fs20_bit(d, b) ==
    LET bits == Append(d.bits, b) IN
    CASE ~d.sync -> IF b = 1 THEN [d EXCEPT !.sync = TRUE, !.bits = <<>>] ELSE d
      [] d.sync /\ Len(bits) < 9 -> [d EXCEPT !.bits = bits]
      [] d.sync /\ Len(bits) >= 9 /\ bits[9] = Parity(bits) ->
            [d EXCEPT !.bits = <<>>,
                      !.data = IF Len(@) < FsCap THEN Append(@, SubSeq(bits, 1, 8))
                               ELSE @]
      [] OTHER -> IF d.data # <<>> THEN reset_fs20
                  ELSE [d EXCEPT !.bits = <<>>, !.sync = FALSE]

fs20_pulse(d, pulse) ==
    LET b     == IF pulse \in (551..900) \cup (1151..1600) THEN 1 ELSE 0
        half  == pulse \in 250..900
        ready == pulse \in 901..1600 \/ (half /\ d.half /\ d.last = b)
    IN  IF ready THEN fs20_bit([d EXCEPT !.half = FALSE], b)
        ELSE IF half THEN [d EXCEPT !.last = b, !.half = TRUE]
        ELSE d

-----------------------------------------------------------------------------
(* FHT: the length of a high pulse is a bit; a sync pattern of twelve bits, *)
(* then groups of nine bits of which the first eight are stored.            *)

Zeros12   == [i \in 1..12 |-> 0]
FhtSync   == <<0, 0, 0, 0, 0, 0, 0, 0, 1, 1, 0, 0>>

\* The low twelve bits of current_bits while there is no sync are `shift'.
reset_fht == [data |-> <<>>, bits |-> <<>>, shift |-> Zeros12, sync |-> FALSE]

fht_bit(d, b) ==
    LET shift == Append(Tail(d.shift), b)
        bits  == Append(d.bits, b)
    IN  CASE ~d.sync /\ shift = FhtSync -> [reset_fht EXCEPT !.sync = TRUE]
          [] ~d.sync /\ shift # FhtSync -> [d EXCEPT !.shift = shift]
          [] d.sync /\ Len(bits) < 9 -> [d EXCEPT !.bits = bits]
          [] OTHER -> [d EXCEPT !.bits = <<>>,
                                !.data = Append(@, SubSeq(bits, 1, 8)),
                                !.sync = Len(d.data) + 1 < FhtCap]

fht_pulse(d, pulse, level) ==
    IF level = 0 /\ pulse \in 351..849
    THEN fht_bit(d, IF pulse > 550 THEN 0 ELSE 1) ELSE d

-----------------------------------------------------------------------------
(* Intertechno: four pulses, each short (T) or long (3T), are a symbol.     *)

\* The symbol of four pulses, given the ranges of T and 3T; "" if none.
Symbol(p, T, T3) ==
    CASE p[1] \in T  /\ p[2] \in T3 /\ p[3] \in T  /\ p[4] \in T3 -> "0"
      [] p[1] \in T3 /\ p[2] \in T  /\ p[3] \in T3 /\ p[4] \in T  -> "1"
      [] p[1] \in T  /\ p[2] \in T3 /\ p[3] \in T3 /\ p[4] \in T  -> "F"
      [] OTHER -> ""

reset_itv1 == [s |-> <<>>, buf |-> <<>>]
reset_itv3 == [s |-> <<>>, buf |-> <<>>, sync |-> FALSE]

\* Before the first symbol the window slides, afterwards symbols are aligned.
itv1_pulse(d, pulse) ==
    LET buf == Append(IF d.s = <<>> /\ Len(d.buf) = 4 THEN Tail(d.buf) ELSE d.buf,
                      pulse)
        sym == IF Len(buf) = 4 THEN Symbol(buf, 100..800, 801..2200) ELSE ""
        bit == sym # "" /\ Len(d.s) < It1Len
    IN  CASE bit -> [s |-> Append(d.s, sym), buf |-> <<>>]
          [] ~bit /\ d.s # <<>> /\ Len(buf) = 4 -> reset_itv1
          [] OTHER -> [d EXCEPT !.buf = buf]

\* V3 has no 3T-T-3T-T, and calls T-3T-3T-T a 1.
itv3_pulse(d, pulse) ==
    LET buf == Append(d.buf, pulse)
        sym == IF Len(buf) = 4 THEN Symbol(buf, 101..599, 600..1499) ELSE ""
        s   == Append(d.s, IF sym = "F" THEN "1" ELSE "0")
    IN  CASE ~d.sync -> d
          [] d.sync /\ Len(buf) < 4 -> [d EXCEPT !.buf = buf]
          [] d.sync /\ Len(buf) >= 4 /\ sym \in {"0", "F"} ->
                [s |-> s, buf |-> <<>>, sync |-> Len(s) < It3Len]
          [] OTHER -> [d EXCEPT !.buf = <<>>, !.sync = FALSE]

-----------------------------------------------------------------------------
(* Oregon: Manchester.  After eleven short pulses every edge in the middle  *)
(* of a bit is a bit, least significant first; the first nibble is 0xA.     *)

reset_os == [data |-> <<>>, bits |-> <<>>, ps |-> 0, sync |-> FALSE]

os_bit(d, b) ==
    LET bits == Append(d.bits, b) IN
    CASE Len(d.data) >= OsCap -> d
      [] Len(d.data) < OsCap /\ Len(bits) < 4 -> [d EXCEPT !.bits = bits]
      [] OTHER -> [d EXCEPT !.bits = <<>>, !.data = Append(@, bits),
                            !.sync = d.data # <<>> \/ bits = <<0, 1, 0, 1>>]

\* Mutant of os_pulse: the counter of the preamble is not limited.
os_pulse_Count(d, pulse, level) ==
    IF ~d.sync /\ pulse \in 351..749 THEN [d EXCEPT !.ps = @ + 1] ELSE d

os_pulse(d, pulse, level) ==
    CASE pulse \notin 201..1399 -> d
      [] pulse \in 201..1399 /\ ~d.sync ->
            IF pulse \notin 351..749 THEN [d EXCEPT !.ps = 0]
            ELSE IF d.ps >= 10 THEN [reset_os EXCEPT !.sync = TRUE]
            ELSE [d EXCEPT !.ps = @ + 1]
      [] pulse \in 201..849 /\ d.sync /\ d.ps # 1 -> [d EXCEPT !.ps = 1]
      [] OTHER -> os_bit([d EXCEPT !.ps = IF pulse < 850 THEN 0 ELSE 1], 1 - level)

-----------------------------------------------------------------------------
(* S300TH and HMS: pairs of a high and a low pulse.  reset_sensor leaves    *)
(* last_pulse alone.                                                        *)

reset_s300(d) == [data |-> <<>>, bits |-> <<>>, last |-> d.last, sync |-> FALSE]
reset_hms(d)  == [data |-> <<>>, bits |-> <<>>, last |-> d.last, armed |-> FALSE]

\* A bit of either: four are a nibble.
sensor_bit(d, b) ==
    LET bits == Append(d.bits, b) IN
    IF Len(bits) < 4 THEN [d EXCEPT !.bits = bits]
    ELSE [d EXCEPT !.bits = <<>>,
                   !.data = IF Len(@) < NibCap THEN Append(@, bits) ELSE @]

s300_pulse(d, pulse, level) ==
    CASE level = 1 /\ pulse \in 801..1499 -> [reset_s300(d) EXCEPT !.sync = TRUE]
      [] ~d.sync /\ ~(level = 1 /\ pulse \in 801..1499) -> d
      [] d.sync /\ level = 0 -> [d EXCEPT !.last = pulse]
      [] OTHER -> IF d.last < 600 THEN sensor_bit(d, IF pulse > 600 THEN 0 ELSE 1)
                  ELSE IF Len(d.data) < 9 THEN reset_s300(d)
                  ELSE [d EXCEPT !.sync = FALSE]

\* Leading zeros are taken for the preamble.
hms_pulse(d, pulse, level) ==
    LET b    == IF d.last > 600 THEN 1 ELSE 0
        done == [d EXCEPT !.armed = FALSE]
    IN  CASE level = 0 -> [d EXCEPT !.last = pulse, !.armed = TRUE]
          [] level = 1 /\ ~d.armed -> d
          [] level = 1 /\ d.armed /\ pulse \notin 200..1200 ->
                IF d.data # <<>> THEN reset_hms(d) ELSE done
          [] OTHER -> IF /\ d.last \in 201..1199
                         /\ b = 1 \/ d.data # <<>> \/ d.bits # <<>>
                      THEN sensor_bit(done, b) ELSE done

-----------------------------------------------------------------------------
(* A pulse from the queue.                                                  *)

\* Bytes as hexadecimal digits: the buffer has room for 31 of them, so the
\* second digit of a sixteenth byte is cut off.
Printed(bytes) ==
    IF Len(bytes) < 16 THEN bytes ELSE [bytes EXCEPT ![16] = SubSeq(@, 1, 4)]

\* What the decoders report at a gap: prefix and data.
Reports ==
    LET Line(prefix, data, min) ==
            IF Len(data) >= min THEN {<<prefix, data>>} ELSE {}
    IN  UNION {Line("F", Printed(fs.data), 4), Line("is", it1.s, It1Len),
               Line("is", it3.s, It3Len), Line("P", os.data, 16),
               Line("H", hms.data, 8), Line("K", s300.data, 9),
               Line("T", Printed(fht.data), 5)}

\* Lines 307 to 421: the decoders are reset; a gap of some 10 ms is also the
\* sync of Intertechno V3.
sync_gap(pulse) ==
    /\ pulse > SYNC_MIN
    /\ fs' = reset_fs20
    /\ fht' = reset_fht
    /\ it1' = reset_itv1
    /\ it3' = [reset_itv3 EXCEPT !.sync = pulse \in 8001..10999]
    /\ os' = reset_os
    /\ s300' = reset_s300(s300)
    /\ hms' = reset_hms(hms)

\* Lines 424 to 610: every decoder takes the pulse.
data_pulse(pulse, level) ==
    /\ pulse <= SYNC_MIN
    /\ fs' = fs20_pulse(fs, pulse)
    /\ fht' = fht_pulse(fht, pulse, level)
    /\ it1' = itv1_pulse(it1, pulse)
    /\ it3' = itv3_pulse(it3, pulse)
    /\ os' = os_pulse(os, pulse, level)
    /\ s300' = s300_pulse(s300, pulse, level)
    /\ hms' = hms_pulse(hms, pulse, level)

DecInit ==
    /\ fs = reset_fs20
    /\ fht = reset_fht
    /\ it1 = reset_itv1
    /\ it3 = reset_itv3
    /\ os = reset_os
    /\ \E g \in Garbage : s300 = reset_s300([last |-> g])
    /\ \E g \in Garbage : hms = reset_hms([last |-> g])

DecNext ==
    \E pulse \in Durations, level \in {0, 1} :
        sync_gap(pulse) \/ data_pulse(pulse, level)

DecSpec == DecInit /\ [][DecNext]_decVars

-----------------------------------------------------------------------------
(* Properties.                                                              *)

DecTypeOK ==
    /\ fs \in fs20_dec_t
    /\ fht \in fht_dec_t /\ Len(fht.shift) = 12
    /\ it1 \in itv1_dec_t
    /\ it3 \in itv3_dec_t
    /\ os \in os_dec_t
    /\ s300 \in s300_dec_t
    /\ hms \in hms_dec_t

\* What is stored fits; where the code stores before it tests (FHT,
\* Intertechno V3, both pulse buffers) there is room for one more.
Fs20Fits(d) == Len(d.data) <= FsCap /\ Len(d.bits) <= 8
FhtFits(d) ==
    /\ Len(d.data) <= FhtCap /\ Len(d.bits) <= 8
    /\ d.sync => Len(d.data) < FhtCap
ItV1Fits(d) ==
    /\ Len(d.s) <= It1Len /\ Len(d.buf) <= 4
    /\ d.s # <<>> => Len(d.buf) < 4
ItV3Fits(d) ==
    /\ Len(d.s) <= It3Len /\ Len(d.buf) < 4
    /\ d.sync => Len(d.s) < It3Len
OsFits(d) == Len(d.data) <= OsCap /\ Len(d.bits) < 4
SensorFits(d) == Len(d.data) <= NibCap /\ Len(d.bits) < 4

\* Whatever pulses arrive, in whatever order, no decoder of slowrf_task
\* writes outside its arrays (slowrf.c 424-610).
ArraysInRange ==
    /\ Fs20Fits(fs)
    /\ FhtFits(fht)
    /\ ItV1Fits(it1)
    /\ ItV3Fits(it3)
    /\ OsFits(os)
    /\ SensorFits(s300)
    /\ SensorFits(hms)

=============================================================================
