--------------------------- MODULE DecodersProofs ---------------------------
(***************************************************************************)
(* The decoders keep their types and stay inside their arrays, for every   *)
(* set of durations and every value of the uninitialised last_pulse.       *)
(***************************************************************************)
EXTENDS Decoders, SequenceTheorems, TLAPS

\* What the capacities are.
LEMMA Capacities ==
    /\ FsCap = 16 /\ FhtCap = 16 /\ NibCap = 24 /\ OsCap = 24
    /\ It1Len = 12 /\ It3Len = 32
  BY DEF FsCap, FhtCap, NibCap, OsCap, It1Len, It3Len

\* The empty sequence has every type.
LEMMA Nothing ==
    /\ <<>> \in Seq(Bit) /\ <<>> \in Seq(Seq(Bit)) /\ <<>> \in Seq(Int)
    /\ <<>> \in Seq({"0", "1"}) /\ <<>> \in Seq({"0", "1", "F"})
    /\ Len(<<>>) = 0
  BY EmptySeq

\* At most n and not n is less than n.
LEMMA Below == ASSUME NEW n \in Nat, NEW k \in Nat, k <= n, k # n PROVE k < n
  OBVIOUS

\* The first eight of nine bits are a byte.
LEMMA ByteOfBits ==
    ASSUME NEW bits \in Seq(Bit), Len(bits) = 9
    PROVE  SubSeq(bits, 1, 8) \in Seq(Bit)
<1>0. bits \in [1..9 -> Bit]
  BY LenProperties
<1>1. \A i \in 1..8 : bits[i] \in Bit
  BY <1>0
<1> QED
  BY <1>1, SubSeqProperties

\* FS20, a bit.
LEMMA Fs20BitFits ==
    ASSUME NEW d \in fs20_dec_t, Fs20Fits(d), NEW b \in Bit
    PROVE  fs20_bit(d, b) \in fs20_dec_t /\ Fs20Fits(fs20_bit(d, b))
<1> DEFINE bits == Append(d.bits, b)
           byte == SubSeq(bits, 1, 8)
<1>1. bits \in Seq(Bit) /\ Len(bits) = Len(d.bits) + 1 /\ Len(d.bits) \in Nat
  BY AppendProperties, LenProperties DEF fs20_dec_t
<1>2. CASE ~d.sync
  <2>1. fs20_bit(d, b) = IF b = 1 THEN [d EXCEPT !.sync = TRUE, !.bits = <<>>] ELSE d
    BY <1>2 DEF fs20_bit
  <2>2. [d EXCEPT !.sync = TRUE, !.bits = <<>>] \in fs20_dec_t
    BY Nothing, Zenon DEF fs20_dec_t
  <2>3. Fs20Fits([d EXCEPT !.sync = TRUE, !.bits = <<>>])
    BY Nothing DEF fs20_dec_t, Fs20Fits
  <2> QED
    BY <2>1, <2>2, <2>3
<1>3. CASE d.sync /\ Len(bits) < 9
  <2>1. fs20_bit(d, b) = [d EXCEPT !.bits = bits]
    BY <1>3 DEF fs20_bit
  <2>2. Len(bits) <= 8
    BY <1>1, <1>3
  <2> HIDE DEF bits
  <2>3. [d EXCEPT !.bits = bits] \in fs20_dec_t /\ Fs20Fits([d EXCEPT !.bits = bits])
    BY <1>1, <2>2 DEF fs20_dec_t, Fs20Fits
  <2> QED
    BY <2>1, <2>3
<1>4. CASE d.sync /\ ~(Len(bits) < 9)
  <2>1. Len(bits) = 9
    BY <1>1, <1>4 DEF Fs20Fits
  <2>2. byte \in Seq(Bit)
    BY <1>1, <2>1, ByteOfBits
  <2> DEFINE data == IF Len(d.data) < FsCap THEN Append(d.data, byte) ELSE d.data
             stored == [d EXCEPT !.bits = <<>>, !.data = data]
             none == IF d.data # <<>> THEN reset_fs20
                     ELSE [d EXCEPT !.bits = <<>>, !.sync = FALSE]
  <2>3. fs20_bit(d, b) \in {stored, none}
    <3>1. CASE bits[9] = Parity(bits)
      BY <1>4, <2>1, <3>1 DEF fs20_bit
    <3>2. CASE bits[9] # Parity(bits)
      BY <1>4, <2>1, <3>2 DEF fs20_bit
    <3> QED
      BY <3>1, <3>2
  <2> HIDE DEF byte
  <2>4. data \in Seq(Seq(Bit)) /\ Len(data) <= FsCap
    <3>1. d.data \in Seq(Seq(Bit)) /\ Len(d.data) \in Nat /\ Len(d.data) <= FsCap
      BY LenProperties DEF fs20_dec_t, Fs20Fits
    <3>2. /\ Append(d.data, byte) \in Seq(Seq(Bit))
          /\ Len(Append(d.data, byte)) = Len(d.data) + 1
      BY <2>2, <3>1, AppendProperties
    <3> QED
      BY <3>1, <3>2, Capacities
  <2> HIDE DEF data
  <2>5. stored \in fs20_dec_t
    BY <2>4, Nothing, Zenon DEF fs20_dec_t
  <2>6. Fs20Fits(stored)
    BY <2>4, Nothing DEF fs20_dec_t, Fs20Fits
  <2>7. reset_fs20 \in fs20_dec_t /\ Fs20Fits(reset_fs20)
    BY Nothing, Capacities DEF reset_fs20, fs20_dec_t, Fs20Fits
  <2>8. [d EXCEPT !.bits = <<>>, !.sync = FALSE] \in fs20_dec_t
    BY Nothing, Zenon DEF fs20_dec_t
  <2>9. Fs20Fits([d EXCEPT !.bits = <<>>, !.sync = FALSE])
    BY Nothing DEF fs20_dec_t, Fs20Fits
  <2> QED
    BY <2>3, <2>5, <2>6, <2>7, <2>8, <2>9
<1> QED
  BY <1>2, <1>3, <1>4

\* FS20, a pulse.
LEMMA Fs20PulseFits ==
    ASSUME NEW d \in fs20_dec_t, Fs20Fits(d), NEW pulse \in Int
    PROVE  fs20_pulse(d, pulse) \in fs20_dec_t /\ Fs20Fits(fs20_pulse(d, pulse))
<1> DEFINE b == IF pulse \in (551..900) \cup (1151..1600) THEN 1 ELSE 0
           full == [d EXCEPT !.half = FALSE]
           half == [d EXCEPT !.last = b, !.half = TRUE]
<1>1. b \in Bit
  BY DEF Bit
<1>2. fs20_pulse(d, pulse) \in {fs20_bit(full, b), half, d}
  BY DEF fs20_pulse
<1> HIDE DEF b
<1>3. full \in fs20_dec_t /\ Fs20Fits(full)
  BY DEF fs20_dec_t, Fs20Fits
<1>4. fs20_bit(full, b) \in fs20_dec_t /\ Fs20Fits(fs20_bit(full, b))
  BY <1>1, <1>3, Fs20BitFits
<1>5. half \in fs20_dec_t /\ Fs20Fits(half)
  BY <1>1 DEF fs20_dec_t, Fs20Fits, Bit
<1> QED
  BY <1>2, <1>4, <1>5

-----------------------------------------------------------------------------
\* FHT, a bit.
LEMMA FhtBitFits ==
    ASSUME NEW d \in fht_dec_t, Len(d.shift) = 12, FhtFits(d), NEW b \in Bit
    PROVE  /\ fht_bit(d, b) \in fht_dec_t
           /\ Len(fht_bit(d, b).shift) = 12
           /\ FhtFits(fht_bit(d, b))
<1> DEFINE shift == Append(Tail(d.shift), b)
           bits == Append(d.bits, b)
           byte == SubSeq(bits, 1, 8)
           data == Append(d.data, byte)
           room == Len(d.data) + 1 < FhtCap
           synced == [reset_fht EXCEPT !.sync = TRUE]
           shifted == [d EXCEPT !.shift = shift]
           more == [d EXCEPT !.bits = bits]
           stored == [d EXCEPT !.bits = <<>>, !.data = data,
                               !.sync = room]
<1>1. bits \in Seq(Bit) /\ Len(bits) = Len(d.bits) + 1 /\ Len(d.bits) \in Nat
  BY AppendProperties, LenProperties DEF fht_dec_t
<1>2. shift \in Seq(Bit) /\ Len(shift) = 12
  <2>1. d.shift \in Seq(Bit)
    BY DEF fht_dec_t
  <2>2. d.shift # <<>>
    BY Nothing
  <2>3. Tail(d.shift) \in Seq(Bit) /\ Len(Tail(d.shift)) = 11
    BY <2>1, <2>2, HeadTailProperties
  <2> QED
    BY <2>3, AppendProperties
<1>3. /\ synced \in fht_dec_t
      /\ Len(synced.shift) = 12
      /\ FhtFits(synced)
  <2>1. Zeros12 \in Seq(Bit) /\ Len(Zeros12) = 12
    BY DEF Zeros12, Bit
  <2> HIDE DEF Zeros12
  <2>2. reset_fht \in fht_dec_t
    BY <2>1, Nothing, Zenon DEF reset_fht, fht_dec_t
  <2>3. synced \in fht_dec_t
    BY <2>2, Zenon DEF fht_dec_t
  <2>4. synced.shift = Zeros12 /\ synced.data = <<>> /\ synced.bits = <<>>
    BY DEF reset_fht
  <2> HIDE DEF synced
  <2> QED
    BY <2>1, <2>3, <2>4, Nothing, Capacities DEF FhtFits
<1>4. CASE ~d.sync
  <2>1. fht_bit(d, b) \in {synced, shifted}
    BY <1>4 DEF fht_bit
  <2> HIDE DEF shift
  <2>2. shifted \in fht_dec_t
    BY <1>2, Zenon DEF fht_dec_t
  <2>3. Len(shifted.shift) = 12 /\ FhtFits(shifted)
    BY <1>2 DEF fht_dec_t, FhtFits
  <2> QED
    BY <1>3, <2>1, <2>2, <2>3
<1>5. CASE d.sync /\ Len(bits) < 9
  <2>1. fht_bit(d, b) = more
    BY <1>5 DEF fht_bit
  <2> HIDE DEF bits
  <2>2. more \in fht_dec_t
    BY <1>1, Zenon DEF fht_dec_t
  <2>3. Len(more.shift) = 12 /\ FhtFits(more)
    BY <1>1, <1>5 DEF fht_dec_t, FhtFits
  <2> QED
    BY <2>1, <2>2, <2>3
<1>6. CASE d.sync /\ ~(Len(bits) < 9)
  <2>1. fht_bit(d, b) = stored
    BY <1>6 DEF fht_bit
  <2>2. Len(bits) = 9
    BY <1>1, <1>6 DEF FhtFits
  <2>3. byte \in Seq(Bit)
    BY <1>1, <2>2, ByteOfBits
  <2>4. d.data \in Seq(Seq(Bit)) /\ Len(d.data) \in Nat /\ Len(d.data) < FhtCap
    BY <1>6, LenProperties DEF fht_dec_t, FhtFits
  <2> HIDE DEF byte
  <2>5. data \in Seq(Seq(Bit)) /\ Len(data) = Len(d.data) + 1
    BY <2>3, <2>4, AppendProperties
  <2> HIDE DEF data
  <2>6. room \in BOOLEAN /\ (room => Len(data) < FhtCap) /\ Len(data) <= FhtCap
    BY <2>4, <2>5, Capacities
  <2> HIDE DEF room
  <2>7. stored \in fht_dec_t
    BY <2>5, <2>6, Nothing, Zenon DEF fht_dec_t
  <2>8. /\ stored.shift = d.shift /\ stored.data = data
        /\ stored.bits = <<>> /\ stored.sync = room
    BY Zenon DEF fht_dec_t
  <2> HIDE DEF stored
  <2>9. Len(stored.shift) = 12 /\ FhtFits(stored)
    BY <2>6, <2>8, Nothing DEF FhtFits
  <2> QED
    BY <2>1, <2>7, <2>9
<1> QED
  BY <1>4, <1>5, <1>6

\* FHT, a pulse.
LEMMA FhtPulseFits ==
    ASSUME NEW d \in fht_dec_t, Len(d.shift) = 12, FhtFits(d),
           NEW pulse \in Int, NEW level \in Bit
    PROVE  /\ fht_pulse(d, pulse, level) \in fht_dec_t
           /\ Len(fht_pulse(d, pulse, level).shift) = 12
           /\ FhtFits(fht_pulse(d, pulse, level))
<1> DEFINE b == IF pulse > 550 THEN 0 ELSE 1
<1>1. b \in Bit
  BY DEF Bit
<1>2. fht_pulse(d, pulse, level) \in {fht_bit(d, b), d}
  BY DEF fht_pulse
<1> QED
  BY <1>1, <1>2, FhtBitFits

-----------------------------------------------------------------------------
\* Intertechno V1.
LEMMA ItV1PulseFits ==
    ASSUME NEW d \in itv1_dec_t, ItV1Fits(d), NEW pulse \in Int
    PROVE  itv1_pulse(d, pulse) \in itv1_dec_t /\ ItV1Fits(itv1_pulse(d, pulse))
<1> DEFINE old == IF d.s = <<>> /\ Len(d.buf) = 4 THEN Tail(d.buf) ELSE d.buf
           buf == Append(old, pulse)
           sym == IF Len(buf) = 4 THEN Symbol(buf, 100..800, 801..2200) ELSE ""
           bit == sym # "" /\ Len(d.s) < It1Len
           stored == [s |-> Append(d.s, sym), buf |-> <<>>]
           more == [d EXCEPT !.buf = buf]
<1>1. old \in Seq(Int) /\ Len(old) \in Nat /\ Len(old) < 4
  <2>1. d.buf \in Seq(Int) /\ Len(d.buf) \in Nat
    BY LenProperties DEF itv1_dec_t
  <2>2. CASE d.s = <<>> /\ Len(d.buf) = 4
    <3>1. d.buf # <<>>
      BY <2>2, Nothing
    <3>2. Tail(d.buf) \in Seq(Int) /\ Len(Tail(d.buf)) = 3
      BY <2>1, <2>2, <3>1, HeadTailProperties
    <3>3. old = Tail(d.buf)
      BY <2>2, Zenon
    <3> HIDE DEF old
    <3> QED
      BY <3>2, <3>3
  <2>3. CASE ~(d.s = <<>> /\ Len(d.buf) = 4)
    <3> DEFINE fresh == d.s = <<>>
    <3>1. Len(d.buf) <= 4 /\ (fresh => Len(d.buf) # 4) /\ (~fresh => Len(d.buf) < 4)
      BY <2>3, Zenon DEF ItV1Fits
    <3>2. old = d.buf
      BY <2>3, Zenon
    <3> HIDE DEF old, fresh
    <3>3. Len(d.buf) < 4
      BY <2>1, <3>1, Below, Zenon
    <3> QED
      BY <2>1, <3>2, <3>3
  <2> QED
    BY <2>2, <2>3
<1>2. buf \in Seq(Int) /\ Len(buf) \in Nat /\ Len(buf) <= 4
  <2> HIDE DEF old
  <2> QED
    BY <1>1, AppendProperties
<1>3. sym \in {"0", "1", "F", ""}
  BY DEF Symbol
<1>0. itv1_pulse(d, pulse) =
        CASE bit -> stored
          [] ~bit /\ d.s # <<>> /\ Len(buf) = 4 -> reset_itv1
          [] OTHER -> more
  BY Zenon DEF itv1_pulse
<1>4. CASE bit
  <2>1. itv1_pulse(d, pulse) = stored
    <3> HIDE DEF bit, stored, more, buf
    <3> QED
      BY <1>0, <1>4
  <2> HIDE DEF sym
  <2>2. d.s \in Seq({"0", "1", "F"}) /\ sym \in {"0", "1", "F"} /\ Len(d.s) \in Nat
    BY <1>3, <1>4, LenProperties DEF itv1_dec_t
  <2>3. Append(d.s, sym) \in Seq({"0", "1", "F"}) /\ Len(Append(d.s, sym)) = Len(d.s) + 1
    BY <2>2, AppendProperties
  <2>4. Len(Append(d.s, sym)) <= It1Len
    <3>1. Len(d.s) < It1Len
      BY <1>4, Zenon
    <3> QED
      BY <2>2, <2>3, <3>1, Capacities
  <2>5. stored \in itv1_dec_t
    BY <2>3, Nothing, Zenon DEF itv1_dec_t
  <2>6. ItV1Fits(stored)
    BY <2>4, Nothing DEF ItV1Fits
  <2> QED
    BY <2>1, <2>5, <2>6
<1>5. CASE ~bit /\ d.s # <<>> /\ Len(buf) = 4
  <2>1. itv1_pulse(d, pulse) = reset_itv1
    BY <1>5, Zenon DEF itv1_pulse
  <2>2. reset_itv1 \in itv1_dec_t /\ ItV1Fits(reset_itv1)
    BY Nothing, Capacities DEF reset_itv1, itv1_dec_t, ItV1Fits
  <2> QED
    BY <2>1, <2>2
<1>6. CASE ~bit /\ ~(d.s # <<>> /\ Len(buf) = 4)
  <2>1. itv1_pulse(d, pulse) = more
    BY <1>6, Zenon DEF itv1_pulse
  <2> HIDE DEF buf
  <2>2. more \in itv1_dec_t
    BY <1>2, Zenon DEF itv1_dec_t
  <2>3. more.s = d.s /\ more.buf = buf
    BY DEF itv1_dec_t
  <2> HIDE DEF more
  <2>4. d.s # <<>> => Len(buf) < 4
    <3>1. d.s # <<>> => Len(buf) # 4
      BY <1>6, Zenon
    <3>2. Len(buf) # 4 => Len(buf) < 4
      BY <1>2, Below, Zenon
    <3> QED
      BY <3>1, <3>2, Zenon
  <2>5. ItV1Fits(more)
    BY <1>2, <2>3, <2>4, Zenon DEF ItV1Fits
  <2> QED
    BY <2>1, <2>2, <2>5
<1> QED
  BY <1>4, <1>5, <1>6

-----------------------------------------------------------------------------
\* Intertechno V3.
LEMMA ItV3PulseFits ==
    ASSUME NEW d \in itv3_dec_t, ItV3Fits(d), NEW pulse \in Int
    PROVE  itv3_pulse(d, pulse) \in itv3_dec_t /\ ItV3Fits(itv3_pulse(d, pulse))
<1> DEFINE buf == Append(d.buf, pulse)
           sym == IF Len(buf) = 4 THEN Symbol(buf, 101..599, 600..1499) ELSE ""
           chr == IF sym = "F" THEN "1" ELSE "0"
           s   == Append(d.s, chr)
           room == Len(s) < It3Len
           more == [d EXCEPT !.buf = buf]
           stored == [s |-> s, buf |-> <<>>, sync |-> room]
           lost == [d EXCEPT !.buf = <<>>, !.sync = FALSE]
<1>1. itv3_pulse(d, pulse) =
        CASE ~d.sync -> d
          [] d.sync /\ Len(buf) < 4 -> more
          [] d.sync /\ Len(buf) >= 4 /\ sym \in {"0", "F"} -> stored
          [] OTHER -> lost
  BY Zenon DEF itv3_pulse
<1>2. buf \in Seq(Int) /\ Len(buf) \in Nat /\ d.buf \in Seq(Int)
  BY AppendProperties, LenProperties DEF itv3_dec_t
<1>3. chr \in {"0", "1"}
  OBVIOUS
<1> HIDE DEF buf, sym, chr
<1>4. d.s \in Seq({"0", "1"}) /\ Len(d.s) \in Nat /\ Len(d.s) <= It3Len
  BY LenProperties DEF itv3_dec_t, ItV3Fits
<1>5. s \in Seq({"0", "1"}) /\ Len(s) = Len(d.s) + 1
  BY <1>3, <1>4, AppendProperties
<1>6. room \in BOOLEAN
  OBVIOUS
<1> HIDE DEF s
<1>7. CASE ~d.sync
  BY <1>1, <1>7
<1>8. CASE d.sync /\ Len(buf) < 4
  <2>1. itv3_pulse(d, pulse) = more
    BY <1>1, <1>8
  <2>2. more \in itv3_dec_t
    BY <1>2, Zenon DEF itv3_dec_t
  <2>3. more.s = d.s /\ more.buf = buf /\ more.sync = d.sync
    BY Zenon DEF itv3_dec_t
  <2> HIDE DEF more
  <2>4. ItV3Fits(more)
    BY <1>8, <2>3, Zenon DEF ItV3Fits
  <2> QED
    BY <2>1, <2>2, <2>4
<1>9. CASE d.sync /\ ~(Len(buf) < 4)
  <2>1. itv3_pulse(d, pulse) \in {stored, lost}
    BY <1>1, <1>2, <1>9
  <2>2. Len(s) <= It3Len /\ (room => Len(s) < It3Len)
    <3>1. Len(d.s) < It3Len
      BY <1>9, Zenon DEF ItV3Fits
    <3> QED
      BY <1>4, <1>5, <3>1, Capacities
  <2> HIDE DEF room
  <2>3. stored \in itv3_dec_t
    BY <1>5, <1>6, Nothing, Zenon DEF itv3_dec_t
  <2>4. stored.s = s /\ stored.buf = <<>> /\ stored.sync = room
    BY Zenon
  <2>5. lost \in itv3_dec_t
    BY Nothing, Zenon DEF itv3_dec_t
  <2>6. lost.s = d.s /\ lost.buf = <<>> /\ lost.sync = FALSE
    BY Zenon DEF itv3_dec_t
  <2> HIDE DEF stored, lost
  <2>7. ItV3Fits(stored)
    BY <2>2, <2>4, Nothing DEF ItV3Fits
  <2>8. ItV3Fits(lost)
    BY <1>4, <2>6, Nothing DEF ItV3Fits
  <2> QED
    BY <2>1, <2>3, <2>5, <2>7, <2>8
<1> QED
  BY <1>7, <1>8, <1>9

-----------------------------------------------------------------------------
\* Oregon, a bit.
LEMMA OsBitFits ==
    ASSUME NEW d \in os_dec_t, OsFits(d), NEW b \in Bit
    PROVE  os_bit(d, b) \in os_dec_t /\ OsFits(os_bit(d, b))
<1> DEFINE bits == Append(d.bits, b)
           data == Append(d.data, bits)
           good == d.data # <<>> \/ bits = <<0, 1, 0, 1>>
           more == [d EXCEPT !.bits = bits]
           stored == [d EXCEPT !.bits = <<>>, !.data = data, !.sync = good]
<1>1. os_bit(d, b) = CASE Len(d.data) >= OsCap -> d
                       [] Len(d.data) < OsCap /\ Len(bits) < 4 -> more
                       [] OTHER -> stored
  BY Zenon DEF os_bit
<1>2. bits \in Seq(Bit) /\ Len(bits) \in Nat
  BY AppendProperties, LenProperties DEF os_dec_t
<1> HIDE DEF bits
<1>3. d.data \in Seq(Seq(Bit)) /\ Len(d.data) \in Nat
  BY LenProperties DEF os_dec_t
<1>4. data \in Seq(Seq(Bit)) /\ Len(data) = Len(d.data) + 1
  BY <1>2, <1>3, AppendProperties
<1>5. good \in BOOLEAN
  BY Zenon
<1> HIDE DEF data, good
<1>6. more \in os_dec_t
  BY <1>2, Zenon DEF os_dec_t
<1>7. more.data = d.data /\ more.bits = bits
  BY Zenon DEF os_dec_t
<1>8. stored \in os_dec_t
  BY <1>4, <1>5, Nothing, Zenon DEF os_dec_t
<1>9. stored.data = data /\ stored.bits = <<>>
  BY Zenon DEF os_dec_t
<1> HIDE DEF more, stored
<1>10. CASE Len(d.data) >= OsCap
  BY <1>1, <1>3, <1>10, Capacities
<1>11. CASE ~(Len(d.data) >= OsCap) /\ Len(bits) < 4
  <2>1. os_bit(d, b) = more
    BY <1>1, <1>3, <1>11, Capacities
  <2>2. OsFits(more)
    BY <1>7, <1>11, Zenon DEF OsFits
  <2> QED
    BY <1>6, <2>1, <2>2
<1>12. CASE ~(Len(d.data) >= OsCap) /\ ~(Len(bits) < 4)
  <2>1. os_bit(d, b) = stored
    BY <1>1, <1>12
  <2>2. Len(data) <= OsCap
    BY <1>3, <1>4, <1>12, Capacities
  <2>3. OsFits(stored)
    BY <1>9, <2>2, Nothing DEF OsFits
  <2> QED
    BY <1>8, <2>1, <2>3
<1> QED
  BY <1>10, <1>11, <1>12

\* Oregon, a pulse.
LEMMA OsPulseFits ==
    ASSUME NEW d \in os_dec_t, OsFits(d), NEW pulse \in Int, NEW level \in Bit
    PROVE  os_pulse(d, pulse, level) \in os_dec_t /\ OsFits(os_pulse(d, pulse, level))
<1> DEFINE ps == IF pulse < 850 THEN 0 ELSE 1
           found == [reset_os EXCEPT !.sync = TRUE]
           counted == [d EXCEPT !.ps = @ + 1]
           edge == [d EXCEPT !.ps = ps]
           At(n) == [d EXCEPT !.ps = n]
<1>1. os_pulse(d, pulse, level) \in {d, At(0), At(1), found, os_bit(edge, 1 - level)}
         \/ (d.ps < 10 /\ os_pulse(d, pulse, level) = counted)
  <2> DEFINE in == pulse \in 201..1399
             result == os_pulse(d, pulse, level)
             preamble == IF pulse \notin 351..749 THEN At(0)
                         ELSE IF d.ps >= 10 THEN found ELSE counted
             first == pulse \in 201..849 /\ d.sync /\ d.ps # 1
             bit == os_bit(edge, 1 - level)
  <2>1. result = CASE ~in -> d
                   [] in /\ ~d.sync -> preamble
                   [] first -> At(1)
                   [] OTHER -> bit
    BY Zenon DEF os_pulse
  <2>2. first => in /\ d.sync
    OBVIOUS
  <2>3. preamble \in {At(0), found} \/ (d.ps < 10 /\ preamble = counted)
    <3>1. d.ps >= 10 \/ d.ps < 10
      BY DEF os_dec_t
    <3> QED
      BY <3>1, Zenon
  <2> HIDE DEF in, result, preamble, first, bit, At, found, counted
  <2>4. result \in {d, preamble, At(1), bit}
    BY <2>1, <2>2
  <2> QED
    BY <2>3, <2>4, Zenon DEF result, bit
<1>2. 1 - level \in Bit
  BY DEF Bit
<1>3. ps \in 0..10
  OBVIOUS
<1> HIDE DEF ps
<1>4. ASSUME NEW n \in 0..10 PROVE At(n) \in os_dec_t /\ OsFits(At(n))
  <2>1. At(n) \in os_dec_t
    BY <1>4, Zenon DEF os_dec_t
  <2>2. At(n).data = d.data /\ At(n).bits = d.bits
    BY Zenon DEF os_dec_t
  <2> HIDE DEF At
  <2> QED
    BY <2>1, <2>2, Zenon DEF OsFits
<1>5. found \in os_dec_t /\ OsFits(found)
  <2>1. reset_os \in os_dec_t
    BY Nothing DEF reset_os, os_dec_t
  <2>2. found \in os_dec_t
    BY <2>1, Zenon DEF os_dec_t
  <2>3. found.data = <<>> /\ found.bits = <<>>
    BY DEF reset_os
  <2> HIDE DEF found
  <2> QED
    BY <2>2, <2>3, Nothing, Capacities DEF OsFits
<1>6. os_bit(edge, 1 - level) \in os_dec_t /\ OsFits(os_bit(edge, 1 - level))
  BY <1>2, <1>3, <1>4, OsBitFits
<1>7. d.ps < 10 => counted \in os_dec_t /\ OsFits(counted)
  <2>1. d.ps < 10 => d.ps + 1 \in 0..10
    BY DEF os_dec_t
  <2>2. counted = At(d.ps + 1)
    BY DEF os_dec_t
  <2> HIDE DEF counted, At
  <2> QED
    BY <1>4, <2>1, <2>2
<1>8. 0 \in 0..10 /\ 1 \in 0..10
  OBVIOUS
<1> HIDE DEF At, found, counted, edge
<1> QED
  BY <1>1, <1>4, <1>5, <1>6, <1>7, <1>8

-----------------------------------------------------------------------------
\* S300TH and HMS, the nibbles after a bit.
LEMMA SensorDataFits ==
    ASSUME NEW data \in Seq(Seq(Bit)), Len(data) <= NibCap, NEW bits \in Seq(Bit)
    PROVE  LET new == IF Len(data) < NibCap THEN Append(data, bits) ELSE data
           IN  new \in Seq(Seq(Bit)) /\ Len(new) <= NibCap
<1>1. Len(data) \in Nat
  BY LenProperties
<1>2. Append(data, bits) \in Seq(Seq(Bit)) /\ Len(Append(data, bits)) = Len(data) + 1
  BY AppendProperties
<1> QED
  BY <1>1, <1>2, Capacities

\* S300TH, a bit.
LEMMA S300BitFits ==
    ASSUME NEW d \in s300_dec_t, SensorFits(d), NEW b \in Bit
    PROVE  sensor_bit(d, b) \in s300_dec_t /\ SensorFits(sensor_bit(d, b))
<1> DEFINE bits == Append(d.bits, b)
           data == IF Len(d.data) < NibCap THEN Append(d.data, bits) ELSE d.data
           more == [d EXCEPT !.bits = bits]
           stored == [d EXCEPT !.bits = <<>>, !.data = data]
<1>1. sensor_bit(d, b) = IF Len(bits) < 4 THEN more ELSE stored
  BY DEF sensor_bit, s300_dec_t
<1>2. bits \in Seq(Bit) /\ d.data \in Seq(Seq(Bit)) /\ Len(d.data) <= NibCap
  BY AppendProperties DEF s300_dec_t, SensorFits
<1> HIDE DEF bits
<1>3. data \in Seq(Seq(Bit)) /\ Len(data) <= NibCap
  BY <1>2, SensorDataFits
<1> HIDE DEF data
<1>4. more \in s300_dec_t /\ stored \in s300_dec_t
  BY <1>2, <1>3, Nothing, Zenon DEF s300_dec_t
<1>5. /\ more.data = d.data /\ more.bits = bits
      /\ stored.data = data /\ stored.bits = <<>>
  BY Zenon DEF s300_dec_t
<1> HIDE DEF more, stored
<1>6. Len(bits) < 4 => SensorFits(more)
  BY <1>2, <1>5, Zenon DEF SensorFits
<1>7. SensorFits(stored)
  BY <1>3, <1>5, Nothing DEF SensorFits
<1> QED
  BY <1>1, <1>4, <1>6, <1>7

\* HMS, a bit.
LEMMA HmsBitFits ==
    ASSUME NEW d \in hms_dec_t, SensorFits(d), NEW b \in Bit
    PROVE  sensor_bit(d, b) \in hms_dec_t /\ SensorFits(sensor_bit(d, b))
<1> DEFINE bits == Append(d.bits, b)
           data == IF Len(d.data) < NibCap THEN Append(d.data, bits) ELSE d.data
           more == [d EXCEPT !.bits = bits]
           stored == [d EXCEPT !.bits = <<>>, !.data = data]
<1>1. sensor_bit(d, b) = IF Len(bits) < 4 THEN more ELSE stored
  BY DEF sensor_bit, hms_dec_t
<1>2. bits \in Seq(Bit) /\ d.data \in Seq(Seq(Bit)) /\ Len(d.data) <= NibCap
  BY AppendProperties DEF hms_dec_t, SensorFits
<1> HIDE DEF bits
<1>3. data \in Seq(Seq(Bit)) /\ Len(data) <= NibCap
  BY <1>2, SensorDataFits
<1> HIDE DEF data
<1>4. more \in hms_dec_t /\ stored \in hms_dec_t
  BY <1>2, <1>3, Nothing, Zenon DEF hms_dec_t
<1>5. /\ more.data = d.data /\ more.bits = bits
      /\ stored.data = data /\ stored.bits = <<>>
  BY Zenon DEF hms_dec_t
<1> HIDE DEF more, stored
<1>6. Len(bits) < 4 => SensorFits(more)
  BY <1>2, <1>5, Zenon DEF SensorFits
<1>7. SensorFits(stored)
  BY <1>3, <1>5, Nothing DEF SensorFits
<1> QED
  BY <1>1, <1>4, <1>6, <1>7

\* S300TH, a pulse.
LEMMA S300PulseFits ==
    ASSUME NEW d \in s300_dec_t, SensorFits(d), NEW pulse \in Int, NEW level \in Bit
    PROVE  /\ s300_pulse(d, pulse, level) \in s300_dec_t
           /\ SensorFits(s300_pulse(d, pulse, level))
<1> DEFINE result == s300_pulse(d, pulse, level)
           begin == level = 1 /\ pulse \in 801..1499
           b == IF pulse > 600 THEN 0 ELSE 1
           synced == [reset_s300(d) EXCEPT !.sync = TRUE]
           noted == [d EXCEPT !.last = pulse]
           bit == sensor_bit(d, b)
           over == [d EXCEPT !.sync = FALSE]
           low == IF d.last < 600 THEN bit
                  ELSE IF Len(d.data) < 9 THEN reset_s300(d) ELSE over
<1>1. result = CASE begin -> synced
                 [] ~d.sync /\ ~begin -> d
                 [] d.sync /\ level = 0 -> noted
                 [] OTHER -> low
  BY Zenon DEF s300_pulse
<1>2. low \in {bit, reset_s300(d), over}
  BY Zenon
<1>3. reset_s300(d) \in s300_dec_t
  BY Nothing, Zenon DEF reset_s300, s300_dec_t
<1>4. /\ synced \in s300_dec_t /\ noted \in s300_dec_t /\ over \in s300_dec_t
  BY <1>3, Zenon DEF s300_dec_t
<1>5. SensorFits(reset_s300(d)) /\ SensorFits(synced)
  BY Nothing, Capacities DEF reset_s300, SensorFits
<1>6. SensorFits(noted) /\ SensorFits(over)
  BY DEF s300_dec_t, SensorFits
<1>7. bit \in s300_dec_t /\ SensorFits(bit)
  BY S300BitFits DEF Bit
<1>8. begin => level # 0
  OBVIOUS
<1> HIDE DEF result, begin, low, synced, noted, bit, over
<1>9. result \in {synced, d, noted, low}
  BY <1>1, <1>8
<1> QED
  BY <1>2, <1>3, <1>4, <1>5, <1>6, <1>7, <1>9, Zenon DEF result

\* HMS, a pulse.
LEMMA HmsPulseFits ==
    ASSUME NEW d \in hms_dec_t, SensorFits(d), NEW pulse \in Int, NEW level \in Bit
    PROVE  /\ hms_pulse(d, pulse, level) \in hms_dec_t
           /\ SensorFits(hms_pulse(d, pulse, level))
<1> DEFINE result == hms_pulse(d, pulse, level)
           b == IF d.last > 600 THEN 1 ELSE 0
           taken == d.last \in 201..1199 /\ (b = 1 \/ d.data # <<>> \/ d.bits # <<>>)
           noted == [d EXCEPT !.last = pulse, !.armed = TRUE]
           done == [d EXCEPT !.armed = FALSE]
           bit == sensor_bit(done, b)
           far == IF d.data # <<>> THEN reset_hms(d) ELSE done
           near == IF taken THEN bit ELSE done
           out == pulse \notin 200..1200
<1>1. result = CASE level = 0 -> noted
                 [] level = 1 /\ ~d.armed -> d
                 [] level = 1 /\ d.armed /\ out -> far
                 [] OTHER -> near
  BY Zenon DEF hms_pulse
<1>2. far \in {reset_hms(d), done} /\ near \in {bit, done}
  BY Zenon
<1>3. reset_hms(d) \in hms_dec_t
  BY Nothing, Zenon DEF reset_hms, hms_dec_t
<1>4. noted \in hms_dec_t /\ done \in hms_dec_t
  BY Zenon DEF hms_dec_t
<1>5. SensorFits(reset_hms(d))
  BY Nothing, Capacities DEF reset_hms, SensorFits
<1>6. SensorFits(noted) /\ SensorFits(done)
  BY DEF hms_dec_t, SensorFits
<1>7. b \in Bit
  BY DEF Bit
<1>8. bit \in hms_dec_t /\ SensorFits(bit)
  BY <1>4, <1>6, <1>7, HmsBitFits
<1> HIDE DEF result, noted, done, bit, far, near, out
<1>9. result \in {noted, d, far, near}
  BY <1>1
<1> QED
  BY <1>2, <1>3, <1>4, <1>5, <1>6, <1>8, <1>9, Zenon DEF result

-----------------------------------------------------------------------------
\* The reset states have their types.
LEMMA ResetFht ==
    reset_fht \in fht_dec_t /\ Len(reset_fht.shift) = 12 /\ FhtFits(reset_fht)
<1>1. Zeros12 \in Seq(Bit) /\ Len(Zeros12) = 12
  BY DEF Zeros12, Bit
<1>2. reset_fht \in fht_dec_t
  BY <1>1, Nothing, Zenon DEF reset_fht, fht_dec_t
<1> QED
  BY <1>1, <1>2, Nothing, Capacities DEF reset_fht, FhtFits

LEMMA ResetItV3 ==
    ASSUME NEW found \in BOOLEAN
    PROVE  /\ reset_itv3 \in itv3_dec_t /\ ItV3Fits(reset_itv3)
           /\ [reset_itv3 EXCEPT !.sync = found] \in itv3_dec_t
           /\ ItV3Fits([reset_itv3 EXCEPT !.sync = found])
<1>1. reset_itv3 \in itv3_dec_t
  BY Nothing, Zenon DEF reset_itv3, itv3_dec_t
<1>2. [reset_itv3 EXCEPT !.sync = found] \in itv3_dec_t
  BY <1>1, Zenon DEF itv3_dec_t
<1> QED
  BY <1>1, <1>2, Nothing, Capacities DEF reset_itv3, ItV3Fits

LEMMA ResetSensors ==
    ASSUME NEW d, d.last \in Int
    PROVE  reset_s300(d) \in s300_dec_t /\ reset_hms(d) \in hms_dec_t
  BY Nothing, Zenon DEF reset_s300, reset_hms, s300_dec_t, hms_dec_t

\* A gap resets every decoder.
LEMMA GapFits ==
    ASSUME DecTypeOK, ArraysInRange, NEW pulse \in Int, sync_gap(pulse)
    PROVE  DecTypeOK' /\ ArraysInRange'
<1> USE Nothing, Capacities DEF sync_gap
<1>1. fs' \in fs20_dec_t /\ Fs20Fits(fs')
  BY DEF reset_fs20, fs20_dec_t, Fs20Fits
<1>2. fht' \in fht_dec_t /\ Len(fht'.shift) = 12 /\ FhtFits(fht')
  BY ResetFht
<1>3. it1' \in itv1_dec_t /\ ItV1Fits(it1')
  BY DEF reset_itv1, itv1_dec_t, ItV1Fits
<1>4. it3' \in itv3_dec_t /\ ItV3Fits(it3')
  <2> DEFINE found == pulse \in 8001..10999
  <2>1. found \in BOOLEAN /\ it3' = [reset_itv3 EXCEPT !.sync = found]
    OBVIOUS
  <2> HIDE DEF found
  <2> QED
    BY <2>1, ResetItV3
<1>5. os' \in os_dec_t /\ OsFits(os')
  BY DEF reset_os, os_dec_t, OsFits
<1>6. s300' \in s300_dec_t /\ hms' \in hms_dec_t
  <2>1. s300.last \in Int /\ hms.last \in Int
    BY DEF DecTypeOK, s300_dec_t, hms_dec_t
  <2> QED
    BY <2>1, ResetSensors
<1>7. SensorFits(s300') /\ SensorFits(hms')
  BY DEF reset_s300, reset_hms, SensorFits
<1> HIDE Nothing, Capacities DEF sync_gap
<1> QED
  BY <1>1, <1>2, <1>3, <1>4, <1>5, <1>6, <1>7, Zenon DEF DecTypeOK, ArraysInRange

\* A pulse keeps every decoder inside its arrays.
LEMMA PulseFits ==
    ASSUME DecTypeOK, ArraysInRange, NEW pulse \in Int, NEW level \in Bit,
           data_pulse(pulse, level)
    PROVE  DecTypeOK' /\ ArraysInRange'
  BY Fs20PulseFits, FhtPulseFits, ItV1PulseFits, ItV3PulseFits, OsPulseFits,
     S300PulseFits, HmsPulseFits, Zenon DEF DecTypeOK, ArraysInRange, data_pulse

\* The decoders start empty.
LEMMA InitFits == DecInit => DecTypeOK /\ ArraysInRange
<1> SUFFICES ASSUME DecInit PROVE DecTypeOK /\ ArraysInRange
  OBVIOUS
<1> USE Nothing, Capacities DEF DecInit
<1>1. fs \in fs20_dec_t /\ Fs20Fits(fs)
  BY DEF reset_fs20, fs20_dec_t, Fs20Fits
<1>2. fht \in fht_dec_t /\ Len(fht.shift) = 12 /\ FhtFits(fht)
  BY ResetFht
<1>3. it1 \in itv1_dec_t /\ ItV1Fits(it1)
  BY DEF reset_itv1, itv1_dec_t, ItV1Fits
<1>4. it3 \in itv3_dec_t /\ ItV3Fits(it3)
  BY ResetItV3
<1>5. os \in os_dec_t /\ OsFits(os)
  BY DEF reset_os, os_dec_t, OsFits
<1>6. s300 \in s300_dec_t /\ hms \in hms_dec_t
  <2>1. PICK g \in Garbage, h \in Garbage :
          s300 = reset_s300([last |-> g]) /\ hms = reset_hms([last |-> h])
    OBVIOUS
  <2>2. [last |-> g].last \in Int /\ [last |-> h].last \in Int
    BY GarbageAssumption
  <2> QED
    BY <2>1, <2>2, ResetSensors
<1>7. SensorFits(s300) /\ SensorFits(hms)
  BY DEF reset_s300, reset_hms, SensorFits
<1> QED
  BY <1>1, <1>2, <1>3, <1>4, <1>5, <1>6, <1>7, Zenon DEF DecTypeOK, ArraysInRange

\* Types and array bounds need each other: the bounds are kept because the
\* counters are numbers, the arrays keep their shape because no write leaves
\* them.
LEMMA DecodersInductive == DecSpec => [](DecTypeOK /\ ArraysInRange)
<1> DEFINE Inv == DecTypeOK /\ ArraysInRange
<1>1. DecInit => Inv
  BY InitFits
<1>2. Inv /\ [DecNext]_decVars => Inv'
  <2> SUFFICES ASSUME DecTypeOK, ArraysInRange, [DecNext]_decVars PROVE Inv'
    OBVIOUS
  <2>1. CASE DecNext
    <3>1. PICK pulse \in Durations, level \in {0, 1} :
            sync_gap(pulse) \/ data_pulse(pulse, level)
      BY <2>1 DEF DecNext
    <3>2. pulse \in Int /\ level \in Bit
      BY DurationsAssumption DEF Bit
    <3> QED
      BY <3>1, <3>2, GapFits, PulseFits
  <2>2. CASE UNCHANGED decVars
    BY <2>2, Zenon DEF decVars, DecTypeOK, ArraysInRange
  <2> QED
    BY <2>1, <2>2
<1> QED
  BY <1>1, <1>2, PTL DEF DecSpec

\* Whatever pulses arrive and whatever the uninitialised last_pulse holds,
\* the state of every decoder of slowrf_task keeps its type.
THEOREM DecodersTyped == DecSpec => []DecTypeOK
  BY DecodersInductive, PTL

\* Whatever pulses arrive, no decoder writes outside its arrays.
THEOREM DecodersSafe == DecSpec => []ArraysInRange
  BY DecodersInductive, PTL

=============================================================================
