----------------------------- MODULE MCLoopback -----------------------------
(* Loopback for TLC: frames of each kind, chosen so that all symbols, both  *)
(* parities, runs of equal symbols and frames longer than the arrays occur. *)
EXTENDS Loopback

MCDurations == 0..65535
MCGarbage   == {0, 700}

Z4 == <<0, 0, 0, 0>>
O4 == <<1, 1, 1, 1>>
A4 == <<1, 0, 1, 0>>
Bytes5(a, b, c) == <<a, b, c, a, b>>

MCFrames ==
    {[kind |-> "FS20", data |-> Bytes5(Z4 \o O4, A4 \o <<0, 1, 1, 1>>, O4 \o O4)],
     [kind |-> "FS20", data |-> Bytes5(Z4 \o Z4, Z4 \o <<0, 0, 0, 1>>, A4 \o A4)],
     [kind |-> "FS20", data |-> [i \in 1..17 |-> Z4 \o (IF i % 3 = 0 THEN A4 ELSE O4)]],
     [kind |-> "IT_V1", data |-> <<"0", "F", "0", "F", "F", "1", "1", "0", "0", "0", "F", "1">>],
     [kind |-> "IT_V1", data |-> [i \in 1..12 |-> IF i = 12 THEN "1" ELSE "0"]],
     [kind |-> "IT_V3", data |-> [i \in 1..32 |-> IF i % 3 = 0 THEN "1" ELSE "0"]],
     [kind |-> "IT_V3", data |-> [i \in 1..32 |-> IF i % 16 < 9 THEN "1" ELSE "0"]],
     [kind |-> "HMS", data |-> <<A4, Z4, O4, A4, Z4, O4, <<0, 1, 1, 0>>, A4, Z4, O4>>],
     [kind |-> "HMS", data |-> <<O4, Z4, Z4, Z4, Z4, A4, Z4, Z4, Z4, <<0, 0, 0, 1>>>>],
     [kind |-> "HMS", data |-> [i \in 1..26 |-> IF i % 3 = 1 THEN O4 ELSE A4]],
     [kind |-> "FHT", data |-> Bytes5(A4 \o Z4, O4 \o A4, Z4 \o Z4)],
     [kind |-> "Oregon", data |-> [i \in 1..18 |-> IF i % 2 = 1 THEN <<0, 1, 0, 1>> ELSE O4]]}

\* The frames that make switches of Intertechno V1 known.
ItV1Frames == {f \in MCFrames : f.kind = "IT_V1"}

\* 49 is the largest stretch that keeps the halves of FS20 bits apart.
MCOffsets == {-49, 49}
Undistorted == {0}

MCNoise == {150, 300, 500, 700, 1000, 1400, 3000, 9000, 12000} \X {0, 1}

=============================================================================
