---------------------------- MODULE BridgeFrames ----------------------------
(***************************************************************************)
(* From packets to Matter and back: the events that slowrf_task passes to  *)
(* matter_bridge_report_event (src/main/slowrf.c) and the frames that      *)
(* matter_bridge_command_cb makes of a device and a value                  *)
(* (src/main/matter_bridge.c), for the protocols that the fixed decoders   *)
(* present as switches.  Sensors cannot be commanded by a controller.      *)
(* Bytes are sequences of bits, an rf_id is what it is printed from.       *)
(***************************************************************************)
EXTENDS Integers, Sequences, SequencesExt

\* Bytes and numbers.
Number(bits) ==
    LET number[n \in 0..Len(bits)] == IF n = 0 THEN 0 ELSE 2 * number[n - 1] + bits[n]
    IN  number[Len(bits)]
ByteOf(n) == [i \in 1..8 |-> (n \div <<128, 64, 32, 16, 8, 4, 2, 1>>[i]) % 2]

\* A packet that begins with eight "0" is a temperature sensor.
IsSensor(s) == \A i \in 1..8 : s[i] = "0"

\* The event of a report: the symbol that carries the state is masked.
Event(report) ==
    LET data == report[2] IN
    CASE report[1] = "F" ->
            [proto |-> "FS20", id |-> SubSeq(data, 1, 3), switch |-> TRUE, value |-> data[4][8]]
      [] report[1] = "is" /\ Len(data) = 12 /\ ~IsSensor(data) ->
            [proto |-> "IT_V1", id |-> [data EXCEPT ![12] = "X"], switch |-> TRUE,
             value |-> IF data[12] = "0" THEN 0 ELSE 1]
      [] report[1] = "is" /\ Len(data) = 12 /\ IsSensor(data) ->
            [proto |-> "IT_V1", id |-> data, switch |-> FALSE,
             value |-> 10 * Number([k \in 1..4 |-> IF data[8 + k] = "1" THEN 1 ELSE 0])]
      [] report[1] = "is" /\ Len(data) = 32 ->
            [proto |-> "IT_V3", id |-> [data EXCEPT ![19] = "X"], switch |-> TRUE,
             value |-> IF data[19] = "1" THEN 1 ELSE 0]
      [] report[1] = "H" ->
            [proto |-> "HMS", id |-> IF Len(data) > 16 THEN SubSeq(data, 1, 16) ELSE data,
             switch |-> FALSE, value |-> Number(data[7] \o data[8])]

\* cc1101_send_fs20: house code, address and command with their checksum.
send_fs20(id, cmd) ==
    LET sum == 6 + Number(id[1]) + Number(id[2]) + Number(id[3]) + Number(cmd) IN
    [kind |-> "FS20", data |-> id \o <<cmd, ByteOf(sum % 256)>>]

\* Mutant of Translate: on and off of FS20 are exchanged.
Translate_Swapped(e, value) ==
    CASE e.proto = "FS20" -> {send_fs20(e.id, ByteOf(IF value > 0 THEN 0 ELSE 17))}
      [] e.proto = "IT_V1" ->
            {[kind |-> "IT_V1",
              data |-> IF e.id[12] = "X"
                       THEN [e.id EXCEPT ![12] = IF value > 0 THEN "0" ELSE "F"]
                       ELSE e.id]}
      [] OTHER -> {}

\* The frame sent for a device and a value, if any.  The id of an Intertechno
\* V3 device is looked up behind a `_', and the fixed decoder gives it none.
Translate(e, value) ==
    CASE e.proto = "FS20" -> {send_fs20(e.id, ByteOf(IF value > 0 THEN 17 ELSE 0))}
      [] e.proto = "IT_V1" ->
            {[kind |-> "IT_V1",
              data |-> IF e.id[12] = "X"
                       THEN [e.id EXCEPT ![12] = IF value > 0 THEN "0" ELSE "F"]
                       ELSE e.id]}
      [] OTHER -> {}

=============================================================================
