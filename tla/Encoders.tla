------------------------------ MODULE Encoders ------------------------------
(***************************************************************************)
(* The pulses of the send functions of src/main/cc1101.c, for a receiver.  *)
(* The code sets the pin and waits: `On' and `Off' are such steps, and     *)
(* waits at the same level are joined to one pulse.  A pulse is its        *)
(* duration in microseconds and the level after it, as in pulse_t.         *)
(* Bytes and nibbles are sequences of bits, symbols the characters of the  *)
(* command.  Each operator is one repetition of the frame.                 *)
(***************************************************************************)
EXTENDS Integers, Sequences, SequencesExt

On(us)  == <<<<us, 0>>>>
Off(us) == <<<<us, 1>>>>
Pair(h, l) == On(h) \o Off(l)

\* Waits at the same level are one pulse.  No more than two follow each other.
Wave(steps) ==
    LET Level(i) == IF i \in DOMAIN steps THEN steps[i][2] ELSE 2
        Joined(i) == IF Level(i) = Level(i + 1) THEN steps[i][1] + steps[i + 1][1] ELSE steps[i][1]
    IN  FlattenSeq([i \in DOMAIN steps |->
                       IF Level(i) = Level(i - 1) THEN <<>> ELSE <<<<Joined(i), Level(i)>>>>])

\* The level at the end of w lasts longer.
Longer(w, us) == [w EXCEPT ![Len(w)] = <<@[1] + us, @[2]>>]

Times(n, s) == FlattenSeq([i \in 1..n |-> s])

\* The fields of s, encoded one after the other.
Each(s, code) == FlattenSeq([i \in 1..Len(s) |-> code[s[i]]])

\* fs20_send_bit, it_v1_send_bit, fht_bit, os_manchester and the bits of V3
\* and HMS, each as a function.
Fs20Bit == [b \in {0, 1} |-> IF b = 1 THEN Pair(600, 600) ELSE Pair(400, 400)]

ItV1Bit == [c \in {"0", "1", "F"} |->
    CASE c = "0" -> Pair(420, 1260) \o Pair(420, 1260)
      [] c = "1" -> Pair(1260, 420) \o Pair(1260, 420)
      [] OTHER   -> Pair(420, 1260) \o Pair(1260, 420)]

ItV3Bit == [c \in {"0", "1"} |->
    Pair(300, 900) \o (IF c = "0" THEN Pair(300, 900) ELSE Pair(900, 300))]

HmsBit == [b \in {0, 1} |-> IF b = 1 THEN Pair(800, 400) ELSE Pair(400, 400)]

FhtBit == [b \in {0, 1} |-> IF b = 1 THEN Pair(600, 400) ELSE Pair(400, 600)]

OsBit == [b \in {0, 1} |-> IF b = 1 THEN Off(500) \o On(500) ELSE Pair(500, 500)]

\* The parity bit that cc1101_send_raw_slowrf appends to a byte.
WithParity(b) ==
    Append(b, (b[1] + b[2] + b[3] + b[4] + b[5] + b[6] + b[7] + b[8]) % 2)

\* The bits of a frame: sync, bytes with parity, end.
Fs20Bits(bytes) ==
    Times(24, <<0>>) \o <<1>> \o FlattenSeq([i \in 1..Len(bytes) |-> WithParity(bytes[i])])
      \o <<0>>

cc1101_send_raw_slowrf(bytes) == Longer(Each(Fs20Bits(bytes), Fs20Bit), 10000)

cc1101_send_it_v1(data) == Each(data, ItV1Bit) \o Pair(420, 31 * 420)

cc1101_send_it_v3(data) ==
    Pair(300, 31 * 300) \o Each(data, ItV3Bit) \o Pair(300, 31 * 300)

cc1101_send_hms(nibbles) ==
    Longer(Times(16, Pair(400, 400)) \o Each(FlattenSeq(nibbles), HmsBit), 10000)

\* Every byte has a start and a stop bit, and the array holds 16 of them.
cc1101_send_fht(bytes) ==
    LET len == IF Len(bytes) < 16 THEN Len(bytes) ELSE 16 IN
    Longer(Each(Times(16, <<0>>) \o <<1, 1, 0, 0>>
                  \o FlattenSeq([i \in 1..len |-> <<0>> \o bytes[i] \o <<1>>]),
                FhtBit), 100000)

\* The bits of a nibble are sent from the least significant one on.
cc1101_send_oregon(nibbles) ==
    Wave(Times(32, Pair(500, 500)) \o Each(FlattenSeq(nibbles), OsBit) \o Off(100000))

=============================================================================
