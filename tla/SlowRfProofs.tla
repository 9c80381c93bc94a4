---------------------------- MODULE SlowRfProofs ----------------------------
(***************************************************************************)
(* Proofs about the receive path: no array of the generic decoder is left, *)
(* whatever database is loaded at whatever moment, and what slowrf_task    *)
(* withholds or prints twice, for every size, database and set of pulses.  *)
(***************************************************************************)
EXTENDS SlowRf, SequenceTheorems, TLAPS

\* A state whose indices stay inside the sequences.
SafeState == {s \in State : (s.m0 => s.i0 < SeqLen) /\ (s.m1 => s.i1 < SeqLen)}

\* A protocol whose sequences fit.
SafeProto == {p \in Proto : /\ Len(p.sync) <= SeqLen
                            /\ Len(p.bit0) <= SeqLen
                            /\ Len(p.bit1) <= SeqLen}

\* The inductive invariant: the entry being filled is inside the table, and
\* so is the protocol whose packet is being output.
GenInv ==
    /\ GenTypeOK
    /\ protocols \in [Slots -> SafeProto]
    /\ states \in [Slots -> SafeState]
    /\ protocol_count <= MaxProtocols
    /\ loader.field # "" => loader.on /\ loader.rest # <<>> /\ protocol_count < MaxProtocols
    /\ packet # <<>> => index \in Slots /\ ~Idle

-----------------------------------------------------------------------------
(* One protocol and one pulse.                                              *)

LEMMA NoBits == <<>> \in Seq({0, 1}) /\ Len(<<>>) = 0
BY EmptySeq

LEMMA ResetSafe == reset_state \in SafeState
BY NoBits, SeqLenAssumption DEF reset_state, SafeState, State

LEMMA BeginSafe ==
    ASSUME NEW s \in State
    PROVE  Begin(s) \in SafeState
<1>1. 0 \in Nat /\ TRUE \in BOOLEAN /\ 0 < SeqLen
  BY SeqLenAssumption
<1>2. Begin(s) \in State
  BY <1>1, Zenon DEF Begin, State
<1>3. Begin(s).i0 = 0 /\ Begin(s).i1 = 0
  BY DEF Begin, State
<1> QED
  BY <1>1, <1>2, <1>3 DEF SafeState

LEMMA WaitSafe ==
    ASSUME NEW p \in SafeProto, NEW s \in SafeState, NEW pulse \in Pulses
    PROVE  wait_sync(p, s, pulse) \in SafeState
<1> DEFINE one   == [s EXCEPT !.seq_idx = @ + 1]
           zero  == [s EXCEPT !.seq_idx = @ + 1, !.cnt = 0, !.bits = <<>>]
           again == [s EXCEPT !.seq_idx =
                        IF pulse[2] = Elem(p.sync, s.seq_idx)[2] /\ Hit(p, p.sync, 0, pulse)
                        THEN 1 ELSE 0]
<1>1. s \in SafeState /\ one \in SafeState /\ again \in SafeState
  BY DEF SafeState, State
<1>2. zero \in State
  <2>1. s \in State /\ s.seq_idx + 1 \in Nat /\ 0 \in Nat
    BY DEF SafeState, State
  <2> QED
    BY <2>1, NoBits, Zenon DEF State
<1>3. Begin(zero) \in SafeState
  BY <1>2, BeginSafe
<1>4. Len(p.sync) \in Nat /\ s.seq_idx \in Nat
  BY LenProperties DEF SafeProto, Proto, PulseDefs, SafeState, State
<1>5. \/ wait_sync(p, s, pulse) = s
      \/ wait_sync(p, s, pulse) = one
      \/ wait_sync(p, s, pulse) = Begin(zero)
      \/ wait_sync(p, s, pulse) = again
  <2> HIDE DEF one, zero, again
  <2> DEFINE far == s.seq_idx >= Len(p.sync)
             hit == s.seq_idx < Len(p.sync) /\ Hit(p, p.sync, s.seq_idx, pulse)
             arm == IF s.seq_idx + 1 < Len(p.sync) THEN one ELSE Begin(zero)
  <2>1. wait_sync(p, s, pulse) = CASE far -> s [] hit -> arm [] OTHER -> again
    BY Zenon DEF wait_sync, one, zero, again
  <2>2. far => ~hit
    BY <1>4
  <2>3. arm \in {one, Begin(zero)}
    OBVIOUS
  <2> HIDE DEF far, hit, arm
  <2> QED
    BY <2>1, <2>2, <2>3
<1> QED
  <2> HIDE DEF one, zero, again
  <2> QED BY <1>1, <1>3, <1>5

LEMMA PushSafe ==
    ASSUME NEW s \in State, NEW b \in {0, 1}
    PROVE  Push(s, b) \in SafeState
<1> DEFINE bits == Append(IF Len(s.bits) < Bit64 THEN s.bits ELSE Tail(s.bits), b)
           t    == [s EXCEPT !.cnt = (@ + 1) % 65536, !.bits = bits]
<1>1. s.bits \in Seq({0, 1}) /\ s.cnt \in Nat
  BY DEF State
<1>2. Len(s.bits) \in Nat
  BY <1>1, LenProperties
<1>3. ~(Len(s.bits) < Bit64) => Tail(s.bits) \in Seq({0, 1})
  <2> HAVE ~(Len(s.bits) < Bit64)
  <2>1. s.bits # <<>>
    BY <1>2, EmptySeq DEF Bit64
  <2> QED
    BY <1>1, <2>1, HeadTailProperties
<1>4. bits \in Seq({0, 1})
  BY <1>1, <1>3, AppendProperties
<1>5. (s.cnt + 1) % 65536 \in Nat
  BY <1>1
<1>6. t \in State
  <2> DEFINE n == (s.cnt + 1) % 65536
  <2>1. n \in Nat
    BY <1>5
  <2> HIDE DEF bits, n
  <2>2. [s EXCEPT !.cnt = n, !.bits = bits] \in State
    BY <1>4, <2>1, Zenon DEF State
  <2> QED BY <2>2 DEF n
<1>7. Push(s, b) = Begin(t)
  BY DEF Push
<1> QED
  <2> HIDE DEF t
  <2> QED BY <1>6, <1>7, BeginSafe

LEMMA ReadSafe ==
    ASSUME NEW p \in SafeProto, NEW s \in SafeState, NEW pulse \in Pulses
    PROVE  read_bits(p, s, pulse) \in SafeState
<1> DEFINE t  == Compared(p, s, pulse)
           c0 == t.m0 /\ t.i0 >= Len(p.bit0)
           c1 == t.m1 /\ t.i1 >= Len(p.bit1)
<1>1. t \in State
  <2> DEFINE h0 == s.m0 /\ Hit(p, p.bit0, s.i0, pulse)
             h1 == s.m1 /\ Hit(p, p.bit1, s.i1, pulse)
  <2>1. t = [s EXCEPT !.m0 = h0, !.i0 = IF h0 THEN @ + 1 ELSE @,
                      !.m1 = h1, !.i1 = IF h1 THEN @ + 1 ELSE @]
    BY Zenon DEF Compared
  <2> DEFINE n0 == IF h0 THEN s.i0 + 1 ELSE s.i0
             n1 == IF h1 THEN s.i1 + 1 ELSE s.i1
  <2>2. h0 \in BOOLEAN /\ h1 \in BOOLEAN /\ s \in State
    BY DEF SafeState
  <2>3. n0 \in Nat /\ n1 \in Nat
    BY <2>2 DEF State
  <2>4. t = [s EXCEPT !.m0 = h0, !.i0 = n0, !.m1 = h1, !.i1 = n1]
    BY <2>1
  <2> HIDE DEF h0, h1, t, n0, n1
  <2> QED
    BY <2>2, <2>3, <2>4, Zenon DEF State
<1>2. /\ Len(p.bit0) \in Nat /\ Len(p.bit0) <= SeqLen
      /\ Len(p.bit1) \in Nat /\ Len(p.bit1) <= SeqLen
  BY LenProperties DEF SafeProto, Proto, PulseDefs
<1>3. CASE ~t.m0 /\ ~t.m1
  <2>1. read_bits(p, s, pulse) = t
    BY <1>3, Zenon DEF read_bits
  <2> HIDE DEF t
  <2> QED BY <1>1, <1>3, <2>1 DEF SafeState
<1>4. CASE ~(~t.m0 /\ ~t.m1)
  <2>1. read_bits(p, s, pulse) = Completed(p, t)
    BY <1>4, Zenon DEF read_bits
  <2>2. Completed(p, t) = CASE c0 /\ c1 -> reset_state
                            [] c0 /\ ~c1 -> Push(t, 0)
                            [] ~c0 /\ c1 -> Push(t, 1)
                            [] OTHER -> t
    BY Zenon DEF Completed
  <2> HIDE DEF t
  <2>3. ~c0 /\ ~c1 => t \in SafeState
    BY <1>1, <1>2, SeqLenAssumption DEF SafeState, State
  <2>4. Push(t, 0) \in SafeState /\ Push(t, 1) \in SafeState
    BY <1>1, PushSafe
  <2> HIDE DEF c0, c1
  <2> QED
    BY <2>1, <2>2, <2>3, <2>4, ResetSafe
<1> QED
  BY <1>3, <1>4

LEMMA NextSafe ==
    ASSUME NEW p \in SafeProto, NEW s \in SafeState, NEW pulse \in Pulses
    PROVE  Next_state(p, s, pulse) \in SafeState
BY WaitSafe, ReadSafe DEF Next_state

-----------------------------------------------------------------------------
(* The loop over the protocols, and the loader.                             *)

\* The parts of GenInv that the loop can disturb.
LoopInv ==
    /\ states \in [Slots -> SafeState]
    /\ cur \in Seq(Pulses) /\ Len(cur) <= 1
    /\ index \in Nat \ {0}
    /\ packet \in Seq(Seq({0, 1}))
    /\ packet # <<>> => index \in Slots /\ ~Idle

\* The parts that the loader can disturb.
LoadInv ==
    /\ protocols \in [Slots -> SafeProto]
    /\ protocol_count \in Nat /\ protocol_count <= MaxProtocols
    /\ loader \in [on : BOOLEAN, rest : Seq(Entry), field : Fields \cup {""}, pairs : Seq(Pair)]
    /\ loader.field # "" => loader.on /\ loader.rest # <<>> /\ protocol_count < MaxProtocols

LEMMA GenInvParts == GenInv <=> LoopInv /\ LoadInv
<1>1. SafeState \subseteq State /\ SafeProto \subseteq Proto
  BY DEF SafeState, SafeProto
<1>2. /\ states \in [Slots -> SafeState] => states \in [Slots -> State]
      /\ protocols \in [Slots -> SafeProto] => protocols \in [Slots -> Proto]
  BY <1>1
<1> QED
  BY <1>2 DEF GenInv, GenTypeOK, LoopInv, LoadInv

loopVars == <<states, cur, index, packet>>
loadVars == <<protocols, protocol_count, loader>>

LEMMA LoopKept == LoopInv /\ UNCHANGED loopVars => LoopInv'
BY DEF LoopInv, loopVars, Idle

LEMMA LoadKept == LoadInv /\ UNCHANGED loadVars => LoadInv'
BY DEF LoadInv, loadVars

LEMMA TakeSafe ==
    ASSUME LoopInv, NEW pulse \in Pulses, GenTake(pulse)
    PROVE  LoopInv'
<1>1. <<pulse>> \in Seq(Pulses) /\ Len(<<pulse>>) = 1
  OBVIOUS
<1>2. packet = <<>>
  BY DEF LoopInv, GenTake
<1> QED
  BY <1>1, <1>2 DEF LoopInv, GenTake, Idle

LEMMA ProtocolSafe ==
    ASSUME LoopInv, LoadInv, GenProtocol
    PROVE  LoopInv'
<1> DEFINE p == protocols[index]
           s == Next_state(p, states[index], cur[1])
<1>1. index \in Slots /\ p \in SafeProto /\ states[index] \in SafeState
  <2>1. /\ index \in Nat \ {0} /\ protocol_count \in Nat
        /\ index <= protocol_count /\ protocol_count <= MaxProtocols
    BY DEF LoopInv, LoadInv, GenProtocol
  <2>2. index \in Slots
    BY <2>1, MaxProtocolsAssumption DEF Slots
  <2> QED
    BY <2>2 DEF LoopInv, LoadInv
<1>2. cur[1] \in Pulses
  <2>1. cur \in Seq(Pulses) /\ cur # <<>>
    BY DEF LoopInv, GenProtocol, Idle
  <2> QED
    BY <2>1
<1>3. s \in SafeState
  BY <1>1, <1>2, NextSafe
<1>4. s.bits \in Seq({0, 1})
  BY <1>3 DEF SafeState, State
<1>5. <<s.bits>> \in Seq(Seq({0, 1}))
  <2> DEFINE bits == s.bits
  <2> HIDE DEF bits
  <2>1. bits \in Seq({0, 1})
    BY <1>4 DEF bits
  <2>2. <<bits>> \in Seq(Seq({0, 1}))
    BY <2>1
  <2> QED
    BY <2>2 DEF bits
<1>6. /\ states \in [Slots -> SafeState] /\ index \in Nat \ {0}
      /\ cur' = cur /\ cur # <<>> /\ packet = <<>> /\ packet \in Seq(Seq({0, 1}))
      /\ cur \in Seq(Pulses) /\ Len(cur) <= 1
  BY DEF LoopInv, GenProtocol, Idle
<1>7. CASE Complete(p, s)
  <2>1. states' = [states EXCEPT ![index] = s] /\ packet' = <<s.bits>> /\ index' = index
    BY <1>7 DEF GenProtocol
  <2> HIDE DEF s
  <2> QED
    BY <1>1, <1>3, <1>5, <1>6, <2>1 DEF LoopInv, Idle
<1>8. CASE ~Complete(p, s)
  <2> DEFINE n == IF Failed(s) THEN reset_state ELSE s
  <2>1. states' = [states EXCEPT ![index] = n] /\ packet' = packet /\ index' = index + 1
    BY <1>8 DEF GenProtocol
  <2>2. n \in SafeState
    BY <1>3, ResetSafe
  <2> HIDE DEF s, n
  <2> QED
    BY <1>1, <1>6, <2>1, <2>2 DEF LoopInv, Idle
<1> QED
  BY <1>7, <1>8

LEMMA OutputSafe ==
    ASSUME LoopInv, GenOutput
    PROVE  LoopInv'
<1>1. <<>> \in Seq(Seq({0, 1}))
  BY EmptySeq
<1> QED
  BY <1>1, ResetSafe DEF LoopInv, GenOutput, Idle

LEMMA EndSafe ==
    ASSUME LoopInv, GenEnd
    PROVE  LoopInv'
<1>1. <<>> \in Seq(Pulses) /\ Len(<<>>) = 0
  BY EmptySeq
<1> QED
  BY <1>1 DEF LoopInv, GenEnd, Idle

\* The entry that a loader at work fills.
LEMMA FillingSlot ==
    ASSUME LoadInv, protocol_count < MaxProtocols
    PROVE  Filling \in Slots
<1>1. protocol_count \in Nat
  BY DEF LoadInv
<1> QED
  BY <1>1, MaxProtocolsAssumption DEF Filling, Slots

LEMMA NoPulses == <<>> \in PulseDefs /\ <<>> \in Seq(Pair) /\ <<>> \in Seq(Entry)
BY EmptySeq DEF PulseDefs

LEMMA LoadBeginSafe ==
    ASSUME LoadInv, LoadBegin
    PROVE  LoadInv'
<1>1. PICK db \in Databases :
        loader' = [on |-> TRUE, rest |-> db, field |-> "", pairs |-> <<>>]
  BY DEF LoadBegin
<1>2. db \in Seq(Entry)
  BY DatabasesAssumption
<1>3. /\ loader' \in [on : BOOLEAN, rest : Seq(Entry), field : Fields \cup {""}, pairs : Seq(Pair)]
      /\ loader'.field = ""
  BY <1>1, <1>2, NoPulses
<1>4. protocols' = protocols /\ protocol_count' = 0
  BY DEF LoadBegin
<1>5. 0 <= MaxProtocols
  BY MaxProtocolsAssumption
<1> QED
  BY <1>3, <1>4, <1>5 DEF LoadInv

LEMMA LoadEntrySafe ==
    ASSUME LoadInv, LoadEntry
    PROVE  LoadInv'
<1> DEFINE e == Head(loader.rest)
           p == [Cleared EXCEPT !.tol = e.tol, !.min = e.min, !.max = e.max]
<1>1. e \in Entry
  BY HeadTailProperties DEF LoadInv, LoadEntry
<1>2. p \in SafeProto
  <2>1. /\ p.tol = e.tol /\ p.min = e.min /\ p.max = e.max
        /\ p.sync = <<>> /\ p.bit0 = <<>> /\ p.bit1 = <<>>
    BY DEF Cleared
  <2>2. p \in Proto
    BY <1>1, NoPulses DEF Cleared, Proto, Entry
  <2>3. Len(<<>>) = 0 /\ 0 <= SeqLen
    BY SeqLenAssumption, EmptySeq
  <2> HIDE DEF p
  <2> QED BY <2>1, <2>2, <2>3 DEF SafeProto
<1>3. Filling \in Slots
  BY FillingSlot DEF LoadEntry
<1>4. protocols' \in [Slots -> SafeProto]
  <2>1. protocols' = [protocols EXCEPT ![Filling] = p]
    BY DEF LoadEntry
  <2> HIDE DEF p
  <2> QED BY <1>2, <2>1 DEF LoadInv
<1>5. /\ loader' \in [on : BOOLEAN, rest : Seq(Entry), field : Fields \cup {""}, pairs : Seq(Pair)]
      /\ loader'.on /\ loader'.rest # <<>>
  <2>1. loader' = [loader EXCEPT !.field = "bit0", !.pairs = e.bit0]
    BY DEF LoadEntry
  <2>2. e.bit0 \in Seq(Pair) /\ "bit0" \in Fields
    BY <1>1 DEF Entry, Fields
  <2> HIDE DEF e
  <2> QED
    BY <2>1, <2>2 DEF LoadInv, LoadEntry
<1> QED
  BY <1>4, <1>5 DEF LoadInv, LoadEntry

LEMMA LoadEndSafe ==
    ASSUME LoadInv, LoadEnd
    PROVE  LoadInv'
BY NoPulses DEF LoadInv, LoadEnd, NoLoad

\* A pair in microseconds is a pair.
LEMMA PairInUs ==
    ASSUME NEW pair \in Pair, NEW short \in Nat
    PROVE  InUs(pair, short) \in PulseDefs /\ Len(InUs(pair, short)) <= 2
<1> DEFINE n == Len(pair)
           us == InUs(pair, short)
<1>1. pair \in Seq(Nat \X {0, 1}) /\ n \in Nat /\ n <= 2 /\ DOMAIN pair = 1..n
  BY LenProperties DEF Pair, PulseDefs
<1>2. \A k \in 1..n : pair[k] \in Nat \X {0, 1}
  BY <1>1, ElementOfSeq
<1>3. \A a \in Nat : (a * short) % 65536 \in Nat
  <2> TAKE a \in Nat
  <2>1. a * short \in Nat
    OBVIOUS
  <2> DEFINE m == a * short
  <2> HIDE DEF m
  <2>2. m \in Nat => m % 65536 \in Nat
    OBVIOUS
  <2> QED
    BY <2>1, <2>2 DEF m
<1>4. \A k \in 1..n : <<(pair[k][1] * short) % 65536, pair[k][2]>> \in Nat \X {0, 1}
  <2> TAKE k \in 1..n
  <2>1. pair[k][1] \in Nat /\ pair[k][2] \in {0, 1}
    BY <1>2
  <2>2. (pair[k][1] * short) % 65536 \in Nat
    BY <1>3, <2>1
  <2> QED
    BY <2>1, <2>2
<1>5. us \in [1..n -> Nat \X {0, 1}]
  BY <1>1, <1>4 DEF InUs
<1>6. us \in Seq(Nat \X {0, 1}) /\ Len(us) = n
  <2> HIDE DEF us
  <2> QED BY <1>1, <1>5, SeqDef, LenProperties
<1> QED
  BY <1>1, <1>6 DEF PulseDefs

\* A sequence of a protocol, by name.
LEMMA FieldTyped ==
    ASSUME NEW q \in SafeProto, NEW f \in Fields
    PROVE  q[f] \in PulseDefs
<1>1. CASE f = "bit0" BY <1>1 DEF SafeProto, Proto
<1>2. CASE f = "bit1" BY <1>2 DEF SafeProto, Proto
<1>3. CASE f = "sync" BY <1>3 DEF SafeProto, Proto
<1> QED BY <1>1, <1>2, <1>3 DEF Fields

LEMMA FieldReplaced ==
    ASSUME NEW q \in SafeProto, NEW f \in Fields,
           NEW seq \in PulseDefs, Len(seq) <= SeqLen
    PROVE  [q EXCEPT ![f] = seq] \in SafeProto
<1>1. CASE f = "bit0" BY <1>1 DEF SafeProto, Proto
<1>2. CASE f = "bit1" BY <1>2 DEF SafeProto, Proto
<1>3. CASE f = "sync" BY <1>3 DEF SafeProto, Proto
<1> QED BY <1>1, <1>2, <1>3 DEF Fields

LEMMA ParsePairSafe ==
    ASSUME LoadInv, ParsePair
    PROVE  LoadInv'
<1> DEFINE f    == loader.field
           old  == protocols[Filling][f]
           pair == Head(loader.pairs)
           e    == Head(loader.rest)
           us   == InUs(pair, e.short)
           new  == old \o us
<1>0. loader.field \in Fields /\ loader.pairs # <<>> /\ Room(protocols[Filling][loader.field])
  BY DEF ParsePair
<1>1. f \in Fields /\ f # "" /\ loader.rest # <<>> /\ protocol_count < MaxProtocols
  BY <1>0 DEF LoadInv, Fields
<1>2. Filling \in Slots
  BY <1>1, FillingSlot
<1>3. protocols[Filling] \in SafeProto
  BY <1>2 DEF LoadInv
<1>4. old \in PulseDefs /\ Len(old) < SeqLen - 1
  <2>1. Len(old) < SeqLen - 1
    BY <1>0 DEF Room
  <2>2. old \in PulseDefs
    BY <1>1, <1>3, FieldTyped
  <2> QED
    BY <2>1, <2>2
<1>5. pair \in Pair /\ e.short \in Nat
  <2>1. pair \in Pair
    BY <1>0, HeadTailProperties DEF LoadInv
  <2>2. e \in Entry
    BY <1>1, HeadTailProperties DEF LoadInv
  <2> QED
    BY <2>1, <2>2 DEF Entry
<1>6. us \in PulseDefs /\ Len(us) <= 2
  BY <1>5, PairInUs
<1>7. new \in PulseDefs /\ Len(new) <= SeqLen
  <2> HIDE DEF old, us
  <2>1. new \in PulseDefs /\ Len(new) = Len(old) + Len(us)
    BY <1>4, <1>6, ConcatProperties DEF PulseDefs
  <2>2. Len(old) \in Nat /\ Len(us) \in Nat
    BY <1>4, <1>6, LenProperties DEF PulseDefs
  <2> QED
    BY <1>4, <1>6, <2>1, <2>2, SeqLenAssumption
<1>8. protocols' = [protocols EXCEPT ![Filling] = [@ EXCEPT ![f] = new]]
  BY DEF ParsePair
<1>9. [protocols[Filling] EXCEPT ![f] = new] \in SafeProto
  <2> HIDE DEF new, f
  <2> QED
    BY <1>1, <1>3, <1>7, FieldReplaced
<1>10. protocols' \in [Slots -> SafeProto]
  <2> HIDE DEF new, f
  <2> QED
    BY <1>2, <1>8, <1>9 DEF LoadInv
<1>11. /\ loader' \in [on : BOOLEAN, rest : Seq(Entry), field : Fields \cup {""}, pairs : Seq(Pair)]
       /\ loader'.on = loader.on /\ loader'.rest = loader.rest /\ loader'.field = loader.field
  <2>1. Tail(loader.pairs) \in Seq(Pair)
    BY <1>0, HeadTailProperties DEF LoadInv
  <2>2. loader' = [loader EXCEPT !.pairs = Tail(loader.pairs)]
    BY DEF ParsePair
  <2> QED
    BY <2>1, <2>2 DEF LoadInv
<1>12. protocol_count' = protocol_count
  BY DEF ParsePair
<1> QED
  BY <1>10, <1>11, <1>12 DEF LoadInv

LEMMA ParseEndSafe ==
    ASSUME LoadInv, ParseEnd
    PROVE  LoadInv'
<1> DEFINE e == Head(loader.rest)
           Loaders == [on : BOOLEAN, rest : Seq(Entry), field : Fields \cup {""}, pairs : Seq(Pair)]
<1>1. /\ loader \in Loaders /\ loader.on /\ loader.rest # <<>>
      /\ protocol_count \in Nat /\ protocol_count < MaxProtocols
      /\ loader.field \in Fields /\ protocols' = protocols
  BY DEF LoadInv, ParseEnd, Fields
<1>2. e \in Entry /\ Tail(loader.rest) \in Seq(Entry)
  BY <1>1, HeadTailProperties
<1>3. e.bit1 \in Seq(Pair) /\ e.sync \in Seq(Pair)
  BY <1>2 DEF Entry
<1>4. CASE loader.field = "bit0"
  <2>1. loader' = [loader EXCEPT !.field = "bit1", !.pairs = e.bit1] /\ protocol_count' = protocol_count
    BY <1>4 DEF ParseEnd
  <2>2. loader' \in Loaders /\ loader'.on /\ loader'.rest # <<>>
    <3> HIDE DEF e
    <3> QED BY <1>1, <1>3, <2>1 DEF Fields
  <2> QED
    BY <1>1, <2>1, <2>2 DEF LoadInv
<1>5. CASE loader.field = "bit1"
  <2>1. loader' = [loader EXCEPT !.field = "sync", !.pairs = e.sync] /\ protocol_count' = protocol_count
    BY <1>5 DEF ParseEnd
  <2>2. loader' \in Loaders /\ loader'.on /\ loader'.rest # <<>>
    <3> HIDE DEF e
    <3> QED BY <1>1, <1>3, <2>1 DEF Fields
  <2> QED
    BY <1>1, <2>1, <2>2 DEF LoadInv
<1>6. CASE loader.field = "sync"
  <2>1. /\ loader' = [loader EXCEPT !.field = "", !.pairs = <<>>, !.rest = Tail(loader.rest)]
        /\ protocol_count' = protocol_count + 1
    BY <1>6 DEF ParseEnd
  <2>2. loader' \in Loaders /\ loader'.field = ""
    BY <1>1, <1>2, <2>1, NoPulses
  <2>3. protocol_count' \in Nat /\ protocol_count' <= MaxProtocols
    <3>1. protocol_count \in Nat /\ protocol_count < MaxProtocols
      BY <1>1
    <3> QED
      BY <3>1, <2>1, MaxProtocolsAssumption
  <2> QED
    BY <1>1, <2>2, <2>3 DEF LoadInv
<1> QED
  BY <1>1, <1>4, <1>5, <1>6 DEF Fields

\* A step of the generic decoder, whoever takes it.
LEMMA GenStepSafe ==
    ASSUME GenInv, [GenNext]_genVars
    PROVE  GenInv'
<1> SUFFICES LoopInv' /\ LoadInv'
  BY GenInvParts, PTL
<1>0. LoopInv /\ LoadInv
  BY GenInvParts
<1>1. ASSUME NEW pulse \in Pulses, GenTake(pulse) PROVE LoopInv' /\ LoadInv'
  BY <1>0, <1>1, TakeSafe, LoadKept DEF GenTake, loadVars
<1>2. CASE GenProtocol
  <2>1. UNCHANGED loadVars
    BY <1>2 DEF GenProtocol, loadVars
  <2> QED
    BY <1>0, <1>2, <2>1, ProtocolSafe, LoadKept
<1>3. CASE GenOutput
  <2>1. UNCHANGED loadVars
    BY <1>3 DEF GenOutput, loadVars
  <2> QED
    BY <1>0, <1>3, <2>1, OutputSafe, LoadKept
<1>4. CASE GenEnd
  <2>1. UNCHANGED loadVars
    BY <1>4 DEF GenEnd, loadVars
  <2> QED
    BY <1>0, <1>4, <2>1, EndSafe, LoadKept
<1>5. CASE LoadBegin
  <2>1. UNCHANGED loopVars
    BY <1>5 DEF LoadBegin, loopVars
  <2> QED
    BY <1>0, <1>5, <2>1, LoadBeginSafe, LoopKept
<1>6. CASE LoadEntry
  <2>1. UNCHANGED loopVars
    BY <1>6 DEF LoadEntry, loopVars
  <2> QED
    BY <1>0, <1>6, <2>1, LoadEntrySafe, LoopKept
<1>7. CASE ParsePair
  <2>1. UNCHANGED loopVars
    BY <1>7 DEF ParsePair, loopVars
  <2> QED
    BY <1>0, <1>7, <2>1, ParsePairSafe, LoopKept
<1>8. CASE ParseEnd
  <2>1. UNCHANGED loopVars
    BY <1>8 DEF ParseEnd, loopVars
  <2> QED
    BY <1>0, <1>8, <2>1, ParseEndSafe, LoopKept
<1>9. CASE LoadEnd
  <2>1. UNCHANGED loopVars
    BY <1>9 DEF LoadEnd, loopVars
  <2> QED
    BY <1>0, <1>9, <2>1, LoadEndSafe, LoopKept
<1>10. CASE UNCHANGED genVars
  <2>1. UNCHANGED loopVars /\ UNCHANGED loadVars
    BY <1>10 DEF genVars, loopVars, loadVars
  <2> QED
    BY <1>0, <2>1, LoopKept, LoadKept
<1> QED
  BY <1>1, <1>2, <1>3, <1>4, <1>5, <1>6, <1>7, <1>8, <1>9, <1>10 DEF GenNext, GenLoad

-----------------------------------------------------------------------------
(* The receive path.                                                        *)

LEMMA NoStatesSafe == NoStates \in [Slots -> SafeState]
<1> DEFINE z == [reset_state EXCEPT !.m0 = FALSE, !.m1 = FALSE]
<1>1. z \in SafeState
  BY NoBits, SeqLenAssumption DEF reset_state, SafeState, State
<1> HIDE DEF z
<1>2. [i \in Slots |-> z] \in [Slots -> SafeState]
  BY <1>1
<1> QED
  BY <1>2 DEF NoStates, z

\* The states and the table at the start, or after a restart.
Blank ==
    /\ protocols = [i \in Slots |-> Cleared] /\ protocol_count = 0
    /\ states = NoStates
    /\ loader = NoLoad
    /\ cur = <<>> /\ index = 1 /\ packet = <<>>

LEMMA BlankSafe == Blank => GenInv
<1> SUFFICES ASSUME Blank PROVE LoopInv /\ LoadInv
  BY GenInvParts
<1>1. <<>> \in Seq(Pulses) /\ <<>> \in Seq(Seq({0, 1})) /\ Len(<<>>) = 0
  BY EmptySeq
<1>2. LoopInv
  BY <1>1, NoStatesSafe DEF Blank, LoopInv, Idle
<1>3. Cleared \in SafeProto
  <2>0. 0 \in Nat
    OBVIOUS
  <2>1. Cleared \in Proto
    BY <2>0, NoPulses, Zenon DEF Cleared, Proto
  <2>3. Cleared.sync = <<>> /\ Cleared.bit0 = <<>> /\ Cleared.bit1 = <<>>
    BY DEF Cleared
  <2>2. Len(<<>>) <= SeqLen
    BY <1>1, SeqLenAssumption
  <2> QED
    BY <2>1, <2>2, <2>3 DEF SafeProto
<1>4. protocols \in [Slots -> SafeProto]
  BY <1>3 DEF Blank
<1>5. 0 <= MaxProtocols
  BY MaxProtocolsAssumption
<1>6. LoadInv
  BY <1>4, <1>5, NoPulses DEF Blank, LoadInv, NoLoad
<1> QED
  BY <1>2, <1>6

\* Every step is one of the generic decoder, or leaves it alone, or starts it.
LEMMA RfStepGen ==
    ASSUME GenInv, [RfNext]_rfVars, queue \in Seq(Pulses)
    PROVE  GenInv'
<1>1. CASE Receive
  <2>1. Head(queue) \in Pulses
    BY <1>1, HeadTailProperties DEF Receive
  <2>2. GenTake(Head(queue))
    BY <1>1 DEF Receive
  <2> QED
    BY <2>1, <2>2, GenStepSafe DEF GenNext
<1>2. CASE GenericStep
  BY <1>2, GenStepSafe DEF GenericStep, GenNext
<1>3. CASE GenericWritten
  BY <1>3, GenStepSafe DEF GenericWritten, GenNext
<1>4. CASE AfterGeneric
  BY <1>4, GenStepSafe DEF AfterGeneric, GenNext
<1>5. CASE Load
  <2>1. GenLoad \/ UNCHANGED genVars
    BY <1>5 DEF Load
  <2> QED
    BY <2>1, GenStepSafe DEF GenNext
<1>6. CASE Start
  <2>1. LoopInv /\ LoadInv
    BY GenInvParts
  <2>2. /\ states' = NoStates
        /\ UNCHANGED <<protocols, protocol_count, loader, cur, index, packet>>
    BY <1>6 DEF Start
  <2>3. LoopInv'
    BY <2>1, <2>2, NoStatesSafe DEF LoopInv, Idle
  <2>4. LoadInv'
    BY <2>1, <2>2, LoadKept DEF loadVars
  <2> QED
    BY <2>3, <2>4, GenInvParts, PTL
<1>7. CASE Fresh
  <2>1. Blank'
    BY <1>7 DEF Fresh, Blank
  <2> QED
    BY <2>1, BlankSafe, PTL
<1>8. CASE UNCHANGED genVars
  BY <1>8, GenStepSafe
<1>9. UNCHANGED rfVars => UNCHANGED genVars
  BY DEF rfVars
<1>10. PulseArrives \/ HostReads \/ GenericPacket \/ FlushRaw \/ Report
         \/ Command \/ Setting \/ Answer => UNCHANGED genVars
  BY DEF PulseArrives, HostReads, GenericPacket, FlushRaw, Report, Command, Setting, Answer
<1>11. Button => Fresh \/ UNCHANGED genVars
  BY DEF Button
<1>12. Restart \/ PowerFails => Fresh
  BY DEF Restart, PowerFails
<1> QED
  BY <1>1, <1>2, <1>3, <1>4, <1>5, <1>6, <1>7, <1>8, <1>9, <1>10, <1>11, <1>12
  DEF RfNext, Task, Commander

\* What slowrf_task knows about the signal: the flag stands for a packet that
\* was reported, and is down when the raw data is printed and the fixed
\* decoders report.
SignalInv ==
    /\ pc \in {"boot", "receive", "generic", "rssi", "usb", "raw", "report"}
    /\ protocol_matched \in BOOLEAN /\ gen \in BOOLEAN /\ fixed \in BOOLEAN /\ raw \in BOOLEAN
    /\ gen => protocol_matched
    /\ protocol_matched => gen \/ fixed
    /\ pc \in {"raw", "report"} => ~protocol_matched

signalVars == <<pc, protocol_matched, gen, fixed, raw>>

LEMMA SignalStep ==
    ASSUME SignalInv, [RfNext]_rfVars
    PROVE  SignalInv'
<1>1. CASE UNCHANGED signalVars
  BY <1>1 DEF SignalInv, signalVars
<1>2. CASE Receive
  BY <1>2 DEF SignalInv, Receive, histVars
<1>3. CASE GenericStep
  BY <1>3 DEF SignalInv, GenericStep, histVars
<1>4. CASE GenericPacket
  BY <1>4 DEF SignalInv, GenericPacket, Matched
<1>5. CASE GenericWritten
  BY <1>5 DEF SignalInv, GenericWritten, histVars
<1>6. CASE AfterGeneric
  <2>0. protocol_matched \in BOOLEAN /\ gen \in BOOLEAN /\ fixed \in BOOLEAN
    BY DEF SignalInv
  <2>1. CASE pc' = "receive" /\ UNCHANGED <<protocol_matched, histVars>>
    BY <2>1 DEF SignalInv, histVars
  <2>2. CASE /\ Flushed /\ pc' \in {"report", "receive"}
             /\ gen' = FALSE /\ fixed' \in BOOLEAN /\ raw' = raw
    BY <2>2 DEF SignalInv, Flushed
  <2>3. CASE pc' = "raw" /\ ~Withheld /\ UNCHANGED <<protocol_matched, histVars>>
    BY <2>3 DEF SignalInv, Withheld, histVars
  <2>4. (IF reporting THEN fixed ELSE FALSE) \in BOOLEAN
    BY <2>0
  <2>5. (IF reporting THEN "report" ELSE "receive") \in {"report", "receive"}
    OBVIOUS
  <2> QED
    BY <1>6, <2>1, <2>2, <2>3, <2>4, <2>5, Zenon DEF AfterGeneric
<1>7. CASE FlushRaw
  <2>0. UsbRoom \in BOOLEAN
    BY SMT DEF UsbRoom
  <2>1. raw' \in BOOLEAN
    BY <1>7, <2>0, Zenon DEF FlushRaw
  <2> QED
    BY <1>7, <2>1 DEF SignalInv, FlushRaw, Flushed
<1>8. CASE Report
  <2>1. pc = "report" /\ pc' = "receive" /\ gen' = gen /\ raw' = raw
    BY <1>8 DEF Report
  <2>2. CASE Matched /\ fixed' = TRUE
    BY <2>1, <2>2 DEF SignalInv, Matched
  <2>3. CASE protocol_matched' = protocol_matched /\ fixed' = FALSE
    BY <2>1, <2>3 DEF SignalInv
  <2> QED
    BY <1>8, <2>2, <2>3, Zenon DEF Report
<1>9. CASE Start
  BY <1>9 DEF SignalInv, Start, histVars
<1>10. CASE Fresh
  BY <1>10 DEF SignalInv, Fresh
<1>11. PulseArrives \/ HostReads \/ Command \/ Setting \/ Answer \/ Load \/ UNCHANGED rfVars
         => UNCHANGED signalVars
  BY DEF PulseArrives, HostReads, Command, Setting, Answer, Load, signalVars, taskVars,
         histVars, rfVars
<1>12. Button => Fresh \/ UNCHANGED signalVars
  BY DEF Button, signalVars, taskVars, histVars
<1>13. Restart \/ PowerFails => Fresh
  BY DEF Restart, PowerFails
<1> QED
  BY <1>1, <1>2, <1>3, <1>4, <1>5, <1>6, <1>7, <1>8, <1>9, <1>10, <1>11, <1>12, <1>13
  DEF RfNext, Task, Commander

-----------------------------------------------------------------------------
(* Types.                                                                   *)

Steps == ({"mode", "save_mode"} \X Modes)
            \cup ({"enabled", "reporting", "save_reporting", "answer", "load", "erase", "restart",
                   "button", "ready", "start", "load_reporting", "set_reporting", "load_mode"}
                    \X BOOLEAN)

\* The types of the command task's state ...
SettingTypes ==
    /\ mode \in Modes /\ reporting \in BOOLEAN /\ enabled \in BOOLEAN
    /\ nvs.mode \in Modes /\ nvs.reporting \in BOOLEAN
    /\ DOMAIN nvs = {"mode", "reporting"}
    /\ todo \in Seq(Steps)

\* ... and of slowrf_task's.
TaskTypes ==
    /\ queue \in Seq(Pulses) /\ Len(queue) <= QueueLen
    /\ mu_idx \in 0..MuSize
    /\ usb \in 0..UsbLen
    /\ cur # <<>> <=> pc \in {"generic", "rssi", "usb"}

LEMMA StepsTyped ==
    /\ \A m \in Modes : <<"mode", m>> \in Steps /\ <<"save_mode", m>> \in Steps
    /\ \A w \in {"enabled", "reporting"} : On(w) \in Steps /\ Off(w) \in Steps
    /\ \A w \in {"save_reporting", "answer", "load", "erase", "restart", "button", "ready",
                 "start", "load_reporting", "set_reporting", "load_mode"} : Do(w) \in Steps
BY DEF Steps, On, Off, Do

\* A few steps in a row.
LEMMA TwoInARow ==
    ASSUME NEW S, NEW a \in S, NEW b \in S
    PROVE  <<a, b>> \in Seq(S)
OBVIOUS

LEMMA ThreeInARow ==
    ASSUME NEW S, NEW a \in S, NEW b \in S, NEW c \in S
    PROVE  <<a, b, c>> \in Seq(S)
OBVIOUS

LEMMA FourInARow ==
    ASSUME NEW S, NEW a \in S, NEW b \in S, NEW c \in S, NEW d \in S
    PROVE  <<a, b, c, d>> \in Seq(S)
OBVIOUS

LEMMA SevenInARow ==
    ASSUME NEW S, NEW a \in S, NEW b \in S, NEW c \in S, NEW d \in S, NEW e \in S, NEW f \in S, NEW g \in S
    PROVE  <<a, b, c, d, e, f, g>> \in Seq(S)
OBVIOUS

LEMMA BootTyped == BootSteps \in Seq(Steps)
BY StepsTyped, SevenInARow, Zenon DEF BootSteps

LEMMA CommandTyped ==
    ASSUME NEW c \in Commands
    PROVE  StepsOf(c) \in Seq(Steps)
<1>0. "CUL" \in Modes /\ "SD" \in Modes
  BY DEF Modes
<1>1. CASE c = "X00"
  <2>1. StepsOf(c) = <<Off("enabled"), Off("reporting"), Do("save_reporting"), Do("answer")>>
    BY <1>1 DEF StepsOf
  <2>2. /\ Off("enabled") \in Steps
        /\ Off("reporting") \in Steps
        /\ Do("save_reporting") \in Steps
        /\ Do("answer") \in Steps
    BY StepsTyped, Zenon
  <2> QED BY <2>1, <2>2, FourInARow, Zenon
<1>2. CASE c = "X99"
  <2>1. StepsOf(c) = <<On("enabled"), On("reporting"), Do("save_reporting"), Do("answer")>>
    BY <1>2 DEF StepsOf
  <2>2. /\ On("enabled") \in Steps
        /\ On("reporting") \in Steps
        /\ Do("save_reporting") \in Steps
        /\ Do("answer") \in Steps
    BY StepsTyped, Zenon
  <2> QED BY <2>1, <2>2, FourInARow, Zenon
<1>3. CASE c = "X21"
  <2>1. StepsOf(c) = <<<<"mode", "CUL">>, On("enabled"), On("reporting"), <<"save_mode", "CUL">>,
                       Do("save_reporting"), Do("answer")>>
    BY <1>3 DEF StepsOf
  <2>2. /\ <<"mode", "CUL">> \in Steps
        /\ On("enabled") \in Steps
        /\ On("reporting") \in Steps
        /\ <<"save_mode", "CUL">> \in Steps
        /\ Do("save_reporting") \in Steps
        /\ Do("answer") \in Steps
    BY <1>0, StepsTyped, Zenon
  <2> QED BY <2>1, <2>2, SMTT(30)
<1>4. CASE c = "X25"
  <2>1. StepsOf(c) = <<<<"mode", "SD">>, On("enabled"), On("reporting"), <<"save_mode", "SD">>,
                       Do("save_reporting"), Do("answer")>>
    BY <1>4 DEF StepsOf
  <2>2. /\ <<"mode", "SD">> \in Steps
        /\ On("enabled") \in Steps
        /\ On("reporting") \in Steps
        /\ <<"save_mode", "SD">> \in Steps
        /\ Do("save_reporting") \in Steps
        /\ Do("answer") \in Steps
    BY <1>0, StepsTyped, Zenon
  <2> QED BY <2>1, <2>2, SMTT(30)
<1>5. CASE c = "X"
  <2>1. StepsOf(c) = <<Do("save_reporting"), Do("answer")>>
    BY <1>5 DEF StepsOf
  <2> QED BY <2>1, StepsTyped, TwoInARow, Zenon
<1>6. CASE c = "GR"
  <2>1. StepsOf(c) = <<Do("load"), Do("answer")>>
    BY <1>6 DEF StepsOf
  <2> QED BY <2>1, StepsTyped, TwoInARow, Zenon
<1>7. CASE c = "e"
  <2>1. StepsOf(c) = <<Do("erase"), Do("answer"), Do("restart")>>
    BY <1>7 DEF StepsOf
  <2> QED BY <2>1, StepsTyped, ThreeInARow, Zenon
<1> QED
  BY <1>1, <1>2, <1>3, <1>4, <1>5, <1>6, <1>7, SlowRfAssumption

settingVars == <<mode, reporting, enabled, nvs, todo>>

LEMMA SettingStep ==
    ASSUME SettingTypes, [RfNext]_rfVars
    PROVE  SettingTypes'
<1>1. CASE UNCHANGED settingVars
  BY <1>1 DEF SettingTypes, settingVars
<1>2. CASE Command
  BY <1>2, CommandTyped DEF SettingTypes, Command
<1>3. todo # <<>> => Head(todo) \in Steps /\ Tail(todo) \in Seq(Steps)
  BY HeadTailProperties DEF SettingTypes
<1>4. CASE todo' = Tail(todo) /\ todo # <<>> /\ UNCHANGED <<mode, reporting, enabled, nvs>>
  BY <1>3, <1>4 DEF SettingTypes
<1>5. CASE Fresh /\ (nvs' = nvs \/ nvs' = Unset)
  <2>1. Unset.mode \in Modes /\ Unset.reporting \in BOOLEAN /\ DOMAIN Unset = {"mode", "reporting"}
    BY DEF Unset, Modes
  <2>2. /\ nvs'.mode \in Modes /\ nvs'.reporting \in BOOLEAN
        /\ DOMAIN nvs' = {"mode", "reporting"}
    BY <1>5, <2>1 DEF SettingTypes
  <2>3. /\ mode' \in Modes /\ reporting' \in BOOLEAN /\ enabled' \in BOOLEAN
        /\ todo' = BootSteps
    BY <1>5 DEF Fresh, Modes
  <2> QED
    BY <2>2, <2>3, BootTyped DEF SettingTypes
<1>6. CASE Setting
  <2>0. ASSUME NEW s, Step(s)
        PROVE  Head(todo)[1] = s /\ Head(todo) \in Steps /\ todo' \in Seq(Steps)
    BY <1>3, <2>0 DEF Step, At
  <2>1. CASE SetMode
    <3>1. Value \in Modes /\ todo' \in Seq(Steps)
      BY <2>0, <2>1 DEF SetMode, Steps, Value
    <3> QED
      BY <2>1, <3>1 DEF SettingTypes, SetMode
  <2>2. CASE SetEnabled
    <3>1. Value \in BOOLEAN /\ todo' \in Seq(Steps)
      BY <2>0, <2>2 DEF SetEnabled, Steps, Value
    <3> QED
      BY <2>2, <3>1 DEF SettingTypes, SetEnabled
  <2>3. CASE SetReporting
    <3>1. Value \in BOOLEAN /\ todo' \in Seq(Steps)
      BY <2>0, <2>3 DEF SetReporting, Steps, Value
    <3> QED
      BY <2>3, <3>1 DEF SettingTypes, SetReporting
  <2>4. CASE SaveMode
    <3>1. Value \in Modes /\ todo' \in Seq(Steps)
      BY <2>0, <2>4 DEF SaveMode, Steps, Value
    <3> QED
      BY <2>4, <3>1 DEF SettingTypes, SaveMode
  <2>5. CASE SaveReporting
    <3>1. todo' \in Seq(Steps)
      BY <2>0, <2>5 DEF SaveReporting
    <3> QED
      BY <2>5, <3>1 DEF SettingTypes, SaveReporting
  <2>6. CASE Erase
    <3>1. todo' \in Seq(Steps)
      BY <2>0, <2>6 DEF Erase
    <3> QED
      BY <2>6, <3>1 DEF SettingTypes, Erase, Unset, Modes
  <2>7. CASE LoadReporting
    <3>1. todo' \in Seq(Steps)
      BY <2>0, <2>7 DEF LoadReporting
    <3> QED
      BY <2>7, <3>1 DEF SettingTypes, LoadReporting
  <2>8. CASE ApplyReporting
    <3>1. todo' \in Seq(Steps)
      BY <2>0, <2>8 DEF ApplyReporting
    <3> QED
      BY <2>8, <3>1 DEF SettingTypes, ApplyReporting
  <2>9. CASE LoadMode
    <3>1. todo' \in Seq(Steps)
      BY <2>0, <2>9 DEF LoadMode
    <3> QED
      BY <2>9, <3>1 DEF SettingTypes, LoadMode
  <2> QED
    BY <1>6, <2>1, <2>2, <2>3, <2>4, <2>5, <2>6, <2>7, <2>8, <2>9 DEF Setting
<1>7. Answer \/ Start => todo' = Tail(todo) /\ todo # <<>> /\ UNCHANGED <<mode, reporting, enabled, nvs>>
  BY DEF Answer, Start, Step, At
<1>8. Load => \/ todo' = Tail(todo) /\ todo # <<>> /\ UNCHANGED <<mode, reporting, enabled, nvs>>
              \/ UNCHANGED settingVars
  <2> SUFFICES ASSUME Load PROVE \/ todo' = Tail(todo) /\ todo # <<>> /\ UNCHANGED <<mode, reporting, enabled, nvs>>
                                \/ UNCHANGED settingVars
    OBVIOUS
  <2>1. /\ todo # <<>> /\ UNCHANGED <<mode, reporting, enabled, nvs>>
        /\ todo' = Tail(todo) \/ todo' = todo
    BY Zenon DEF Load, At
  <2> QED
    BY <2>1 DEF settingVars
<1>9. Button => \/ Fresh /\ nvs' = Unset
                \/ todo' = Tail(todo) /\ todo # <<>> /\ UNCHANGED <<mode, reporting, enabled, nvs>>
  BY DEF Button, Step, At
<1>10. Restart \/ PowerFails => Fresh /\ nvs' = nvs
  BY DEF Restart, PowerFails
<1>11. PulseArrives \/ HostReads \/ Task \/ UNCHANGED rfVars => UNCHANGED settingVars
  BY DEF PulseArrives, HostReads, Task, Receive, GenericStep, GenericPacket, GenericWritten,
         AfterGeneric, FlushRaw, Report, setVars, rfVars, settingVars
<1> QED
  BY <1>1, <1>2, <1>4, <1>5, <1>6, <1>7, <1>8, <1>9, <1>10, <1>11 DEF RfNext, Commander

LEMMA UsbKept ==
    ASSUME usb \in 0..UsbLen
    PROVE  /\ UsbWrite => usb' \in 0..UsbLen
           /\ UsbTry => usb' \in 0..UsbLen
           /\ UsbTries => usb' \in 0..UsbLen
BY SlowRfAssumption DEF UsbWrite, UsbTry, UsbTries, UsbRoom

LEMMA QueueKept ==
    ASSUME queue \in Seq(Pulses), Len(queue) <= QueueLen
    PROVE  /\ PulseArrives => queue' \in Seq(Pulses) /\ Len(queue') <= QueueLen
           /\ Receive => queue' \in Seq(Pulses) /\ Len(queue') <= QueueLen
<1>1. Len(queue) \in Nat /\ QueueLen \in Nat
  BY LenProperties, SlowRfAssumption
<1>2. ASSUME PulseArrives PROVE queue' \in Seq(Pulses) /\ Len(queue') <= QueueLen
  <2>1. PICK q \in Pulses : queue' = IF Len(queue) < QueueLen THEN Append(queue, q) ELSE queue
    BY <1>2 DEF PulseArrives
  <2>2. Append(queue, q) \in Seq(Pulses) /\ Len(Append(queue, q)) = Len(queue) + 1
    BY AppendProperties
  <2> QED
    BY <1>1, <2>1, <2>2
<1>3. ASSUME Receive PROVE queue' \in Seq(Pulses) /\ Len(queue') <= QueueLen
  <2>1. queue # <<>> /\ queue' = Tail(queue)
    BY <1>3 DEF Receive
  <2>2. Tail(queue) \in Seq(Pulses) /\ Len(Tail(queue)) = Len(queue) - 1
    BY <2>1, HeadTailProperties
  <2> QED
    BY <1>1, <2>1, <2>2
<1> QED
  BY <1>2, <1>3

LEMMA TaskStep ==
    ASSUME TaskTypes, [RfNext]_rfVars
    PROVE  TaskTypes'
<1> DEFINE Busy == {"generic", "rssi", "usb"}
<1>0. /\ queue \in Seq(Pulses) /\ Len(queue) <= QueueLen
      /\ mu_idx \in 0..MuSize /\ usb \in 0..UsbLen
      /\ cur # <<>> <=> pc \in Busy
  BY DEF TaskTypes
<1>n. 0 \in 0..MuSize /\ 0 \in 0..UsbLen
  BY SlowRfAssumption
<1>m. (IF mu_idx < MuSize THEN mu_idx + 1 ELSE mu_idx) \in 0..MuSize
  BY <1>0, SlowRfAssumption
<1> SUFFICES /\ queue' \in Seq(Pulses) /\ Len(queue') <= QueueLen
             /\ mu_idx' \in 0..MuSize /\ usb' \in 0..UsbLen
             /\ cur' # <<>> <=> pc' \in Busy
  BY DEF TaskTypes
<1>1. CASE PulseArrives
  <2>1. UNCHANGED <<mu_idx, usb, cur, pc>>
    BY <1>1 DEF PulseArrives, genVars
  <2> QED
    BY <1>0, <1>1, <2>1, QueueKept
<1>2. CASE Receive
  <2>1. UNCHANGED <<mu_idx, usb>> /\ cur' # <<>> /\ pc' = "generic"
    BY <1>2 DEF Receive, GenTake
  <2> QED
    BY <1>0, <1>2, <2>1, QueueKept
<1>3. CASE GenericStep
  <2>1. UNCHANGED <<queue, mu_idx, usb, cur>> /\ pc \in Busy /\ pc' \in Busy
    BY <1>3 DEF GenericStep, GenProtocol
  <2> QED
    BY <1>0, <2>1
<1>4. CASE GenericPacket
  <2>1. UNCHANGED <<queue, usb, cur>> /\ pc \in Busy /\ pc' \in Busy /\ mu_idx' = 0
    BY <1>4 DEF GenericPacket, genVars, Matched
  <2> QED
    BY <1>0, <1>n, <2>1
<1>5. CASE GenericWritten
  <2>1. UNCHANGED <<queue, mu_idx, cur>> /\ pc \in Busy /\ pc' \in Busy /\ UsbWrite
    BY <1>5 DEF GenericWritten, GenOutput
  <2> QED
    BY <1>0, <2>1, UsbKept
<1>6. CASE AfterGeneric
  <2>1. UNCHANGED <<queue, usb>> /\ cur' = <<>>
    BY <1>6 DEF AfterGeneric, GenEnd
  <2>2. pc' \in {"receive", "report", "raw"}
    BY <1>6 DEF AfterGeneric
  <2>3. mu_idx' = 0 \/ mu_idx' = IF mu_idx < MuSize THEN mu_idx + 1 ELSE mu_idx
    BY <1>6 DEF AfterGeneric, Flushed
  <2> QED
    BY <1>0, <1>n, <1>m, <2>1, <2>2, <2>3
<1>7. CASE FlushRaw
  <2>1. UNCHANGED <<queue, cur>> /\ pc = "raw" /\ pc' \in {"receive", "report"} /\ mu_idx' = 0 /\ UsbTry
    BY <1>7 DEF FlushRaw, Flushed, genVars
  <2> QED
    BY <1>0, <1>n, <2>1, UsbKept
<1>8. CASE Report
  <2>1. UNCHANGED <<queue, cur>> /\ pc = "report" /\ pc' = "receive"
    BY <1>8 DEF Report, genVars
  <2>2. (mu_idx' = 0 /\ UsbTries) \/ UNCHANGED <<mu_idx, usb>>
    BY <1>8 DEF Report, Matched
  <2> QED
    BY <1>0, <1>n, <2>1, <2>2, UsbKept
<1>9. CASE HostReads
  <2>1. UNCHANGED <<queue, mu_idx, cur, pc>> /\ usb > 0 /\ usb' = usb - 1
    BY <1>9 DEF HostReads, genVars, taskVars
  <2> QED
    BY <1>0, <2>1, SlowRfAssumption
<1>10. CASE Answer
  <2>1. UNCHANGED <<queue, mu_idx, cur, pc>> /\ UsbWrite
    BY <1>10 DEF Answer, genVars, taskVars
  <2> QED
    BY <1>0, <2>1, UsbKept
<1>11. CASE Start
  <2>1. UNCHANGED <<queue, mu_idx, cur, usb>> /\ pc = "boot" /\ pc' = "receive"
    BY <1>11 DEF Start
  <2> QED
    BY <1>0, <2>1
<1>12. CASE Fresh
  <2>1. queue' = <<>> /\ mu_idx' = 0 /\ usb' = 0 /\ cur' = <<>> /\ pc' = "boot"
    BY <1>12 DEF Fresh
  <2>2. <<>> \in Seq(Pulses) /\ Len(<<>>) = 0 /\ 0 <= QueueLen
    BY EmptySeq, SlowRfAssumption
  <2> QED
    BY <1>n, <2>1, <2>2
<1>13. CASE UNCHANGED <<queue, mu_idx, cur, pc, usb>>
  BY <1>0, <1>13
<1>14. Command \/ Setting \/ UNCHANGED rfVars => UNCHANGED <<queue, mu_idx, cur, pc, usb>>
  BY DEF Command, Setting, genVars, taskVars, rfVars
<1>15. Load => UNCHANGED <<queue, mu_idx, cur, pc, usb>>
  BY DEF Load, GenLoad, LoadBegin, LoadEntry, ParsePair, ParseEnd, LoadEnd, genVars, taskVars
<1>16. Button => Fresh \/ UNCHANGED <<queue, mu_idx, cur, pc, usb>>
  BY DEF Button, genVars, taskVars
<1>17. Restart \/ PowerFails => Fresh
  BY DEF Restart, PowerFails
<1> QED
  <2> HIDE DEF Busy
  <2> QED
    BY <1>1, <1>2, <1>3, <1>4, <1>5, <1>6, <1>7, <1>8, <1>9, <1>10, <1>11, <1>12, <1>13,
       <1>14, <1>15, <1>16, <1>17 DEF RfNext, Task, Commander

-----------------------------------------------------------------------------
(* The settings.                                                            *)

\* The command task has still to do s; it does every r before any s; it has
\* only steps of S to do.
Left(s)      == \E i \in 1..Len(todo) : todo[i][1] = s
Before(r, s) == \A i, j \in 1..Len(todo) : todo[i][1] = r /\ todo[j][1] = s => i < j
Only(S)      == \A i \in 1..Len(todo) : todo[i][1] \in S

\* What it has still to set is what was asked for.
Values ==
    \A i \in 1..Len(todo) :
        /\ todo[i][1] \in {"enabled", "reporting"} => todo[i][2] = acked.asked.reporting
        /\ todo[i][1] \in {"mode", "save_mode"} => todo[i][2] = acked.asked.mode

\* In a command that changes settings or reloads, or between commands: what
\* has not still to be set is as it was asked for, and the answer is last.
Obeying ==
    /\ Only({"mode", "enabled", "reporting", "save_mode", "save_reporting", "load", "answer"})
    /\ Values
    /\ Before("enabled", "save_reporting")
    /\ Before("save_mode", "answer") /\ Before("save_reporting", "answer")
    /\ Left("enabled") \/ enabled = acked.asked.reporting
    /\ Left("reporting") \/ reporting = acked.asked.reporting
    /\ Left("mode") \/ mode = acked.asked.mode
    /\ Left("save_mode") \/ nvs.mode = acked.asked.mode
    /\ Left("save_reporting") \/ nvs.reporting = acked.asked.reporting
    /\ Left("answer") \/ acked.last = acked.asked

\* In a factory reset, which ends in a restart.
Erasing ==
    /\ Only({"erase", "answer", "restart"})
    /\ Before("erase", "answer")
    /\ Left("restart")
    /\ Left("erase") \/ nvs = Unset
    /\ acked.asked = Unset

\* In app_main and at the head of the command task: the settings are read
\* one after the other, the mode last.
Booting ==
    /\ Only({"button", "load", "ready", "start", "load_reporting", "set_reporting", "load_mode"})
    /\ Before("load_reporting", "set_reporting")
    /\ \A i \in 1..Len(todo) : todo[i][1] = "load_mode" => i = Len(todo)
    /\ Left("load_mode")
    /\ Left("load_reporting") => Left("set_reporting")
    /\ Left("load_reporting") \/ enabled = nvs.reporting
    /\ Left("set_reporting") \/ reporting = enabled

Settings == [reporting : BOOLEAN, mode : Modes]

DurableInv ==
    /\ nvs \in Settings /\ acked \in [last : Settings, asked : Settings]
    /\ nvs.reporting \in {acked.last.reporting, acked.asked.reporting}
    /\ nvs.mode \in {acked.last.mode, acked.asked.mode}
    /\ Obeying \/ Erasing \/ Booting

\* What a step that takes the head off the list makes of these.
LEMMA TailFacts ==
  ASSUME todo \in Seq(Steps), todo # <<>>, todo' = Tail(todo)
  PROVE  /\ \A s : Left(s) <=> Left(s)' \/ Head(todo)[1] = s
         /\ \A S : Only(S) => Only(S)' /\ Head(todo)[1] \in S
         /\ \A r, s : Before(r, s) => Before(r, s)'
         /\ \A r, s : Before(r, s) /\ Head(todo)[1] = s => ~Left(r)
         /\ Values /\ acked'.asked = acked.asked => Values'
<1>1. /\ Len(todo) \in Nat \ {0} /\ Len(todo') = Len(todo) - 1
      /\ \A i \in 1..Len(todo') : todo'[i] = todo[i + 1]
      /\ Head(todo) = todo[1]
  BY HeadTailProperties
<1>2. 1 \in 1..Len(todo) /\ \A i \in 1..Len(todo') : i \in Nat /\ i + 1 \in 1..Len(todo)
  BY <1>1
<1>3. ASSUME NEW i \in 1..Len(todo), i # 1
      PROVE  i - 1 \in 1..Len(todo') /\ todo'[i - 1] = todo[i]
  <2>1. i - 1 \in 1..Len(todo') /\ (i - 1) + 1 = i
    BY <1>1, <1>3
  <2> QED
    BY <1>1, <2>1
<1>4. ASSUME NEW s PROVE Left(s) <=> Left(s)' \/ Head(todo)[1] = s
  BY <1>1, <1>2, <1>3 DEF Left
<1>5. ASSUME NEW S, Only(S) PROVE Only(S)' /\ Head(todo)[1] \in S
  BY <1>1, <1>2, <1>5 DEF Only
<1>6. ASSUME NEW r, NEW s, Before(r, s)
      PROVE  Before(r, s)' /\ (Head(todo)[1] = s => ~Left(r))
  <2>1. ASSUME NEW i \in 1..Len(todo'), NEW j \in 1..Len(todo'),
               todo'[i][1] = r, todo'[j][1] = s
        PROVE  i < j
    <3>1. i + 1 < j + 1
      BY <1>1, <1>2, <1>6, <2>1 DEF Before
    <3> QED
      BY <1>2, <3>1
  <2>2. ASSUME Head(todo)[1] = s, NEW i \in 1..Len(todo), todo[i][1] = r PROVE FALSE
    <3>1. i < 1
      BY <1>1, <1>2, <1>6, <2>2 DEF Before
    <3> QED
      BY <3>1
  <2> QED
    BY <2>1, <2>2 DEF Before, Left
<1>7. ASSUME Values, acked'.asked = acked.asked PROVE Values'
  BY <1>1, <1>2, <1>7 DEF Values
<1> QED
  BY <1>4, <1>5, <1>6, <1>7

\* Types of the settings.
LEMMA SettingParts ==
  ASSUME DurableInv
  PROVE  /\ acked = [last |-> acked.last, asked |-> acked.asked]
         /\ acked.last = [reporting |-> acked.last.reporting, mode |-> acked.last.mode]
         /\ acked.asked = [reporting |-> acked.asked.reporting, mode |-> acked.asked.mode]
         /\ nvs = [reporting |-> nvs.reporting, mode |-> nvs.mode]
  BY DEF DurableInv, Settings

LEMMA UnsetTyped == Unset \in Settings
  BY DEF Unset, Settings, Modes

\* A restart, with what is stored or with nothing.
LEMMA FreshDurable ==
  ASSUME DurableInv, Fresh,
         \/ UNCHANGED <<nvs, acked>>
         \/ nvs' = Unset /\ acked' = [last |-> Unset, asked |-> Unset]
  PROVE  DurableInv'
<1>1. /\ nvs' \in Settings /\ acked' \in [last : Settings, asked : Settings]
      /\ nvs'.reporting \in {acked'.last.reporting, acked'.asked.reporting}
      /\ nvs'.mode \in {acked'.last.mode, acked'.asked.mode}
  BY UnsetTyped DEF DurableInv
<1>2. /\ Len(todo') = 7
      /\ todo'[1][1] = "button" /\ todo'[2][1] = "load" /\ todo'[3][1] = "ready"
      /\ todo'[4][1] = "start" /\ todo'[5][1] = "load_reporting"
      /\ todo'[6][1] = "set_reporting" /\ todo'[7][1] = "load_mode"
  BY DEF Fresh, BootSteps, Do
<1>3. \A i \in 1..7 : i = 1 \/ i = 2 \/ i = 3 \/ i = 4 \/ i = 5 \/ i = 6 \/ i = 7
  OBVIOUS
<1>4. Booting'
  BY <1>2, <1>3 DEF Booting, Only, Before, Left
<1> QED
  BY <1>1, <1>4 DEF DurableInv

LEMMA WantedOf ==
    /\ Wanted("X00").reporting = FALSE /\ Wanted("X00").mode = mode
    /\ Wanted("X99").reporting = TRUE /\ Wanted("X99").mode = mode
    /\ Wanted("X21").reporting = TRUE /\ Wanted("X21").mode = "CUL"
    /\ Wanted("X25").reporting = TRUE /\ Wanted("X25").mode = "SD"
    /\ Wanted("X").reporting = enabled /\ Wanted("X").mode = mode
    /\ Wanted("GR").reporting = enabled /\ Wanted("GR").mode = mode
    /\ Wanted("e") = Unset
BY DEF Wanted

\* A command begins when the settings in force are the ones stored.
LEMMA CommandDurable ==
  ASSUME SettingTypes, DurableInv, SettingsDurable, Command
  PROVE  DurableInv'
<1>0. PICK c \in Commands : todo' = StepsOf(c) /\ acked' = [acked EXCEPT !.asked = Wanted(c)]
  BY DEF Command
<1>1. /\ todo = <<>> /\ UNCHANGED <<mode, reporting, enabled, nvs>>
      /\ nvs = acked.last /\ nvs.reporting = reporting /\ nvs.mode = mode /\ enabled = reporting
  BY DEF Command, SettingsDurable
<1>2. acked'.last = acked.last /\ acked'.asked = Wanted(c)
  BY <1>0 DEF DurableInv
<1>3. Wanted(c) \in Settings
  BY UnsetTyped DEF SettingTypes, Wanted, Settings, Modes
<1>4. acked' \in [last : Settings, asked : Settings] /\ nvs' \in Settings
  BY <1>0, <1>1, <1>3 DEF DurableInv
<1>5. /\ nvs'.reporting \in {acked'.last.reporting, acked'.asked.reporting}
      /\ nvs'.mode \in {acked'.last.mode, acked'.asked.mode}
  BY <1>1, <1>2
<1>6. CASE c \in {"X00", "X99"}
  <2>1. /\ Len(todo') = 4
        /\ todo'[1][1] = "enabled" /\ todo'[2][1] = "reporting"
        /\ todo'[3][1] = "save_reporting" /\ todo'[4][1] = "answer"
    BY <1>0, <1>6 DEF StepsOf, On, Off, Do
  <2>2. /\ todo'[1][2] = acked'.asked.reporting /\ todo'[2][2] = acked'.asked.reporting
        /\ acked'.asked.mode = mode
    BY <1>0, <1>2, <1>6, WantedOf DEF StepsOf, On, Off, Do
  <2>3. \A i \in 1..4 : i = 1 \/ i = 2 \/ i = 3 \/ i = 4
    OBVIOUS
  <2>4. Obeying'
    BY <1>1, <2>1, <2>2, <2>3 DEF Obeying, Only, Values, Before, Left
  <2> QED
    BY <1>4, <1>5, <2>4 DEF DurableInv
<1>7. CASE c \in {"X21", "X25"}
  <2>1. /\ Len(todo') = 6
        /\ todo'[1][1] = "mode" /\ todo'[2][1] = "enabled" /\ todo'[3][1] = "reporting"
        /\ todo'[4][1] = "save_mode" /\ todo'[5][1] = "save_reporting" /\ todo'[6][1] = "answer"
    BY <1>0, <1>7 DEF StepsOf, On, Off, Do
  <2>2. /\ todo'[1][2] = acked'.asked.mode /\ todo'[2][2] = acked'.asked.reporting
        /\ todo'[3][2] = acked'.asked.reporting /\ todo'[4][2] = acked'.asked.mode
    BY <1>0, <1>2, <1>7, WantedOf DEF StepsOf, On, Off, Do
  <2>3. \A i \in 1..6 : i = 1 \/ i = 2 \/ i = 3 \/ i = 4 \/ i = 5 \/ i = 6
    OBVIOUS
  <2>4. Obeying'
    BY <1>1, <2>1, <2>2, <2>3 DEF Obeying, Only, Values, Before, Left
  <2> QED
    BY <1>4, <1>5, <2>4 DEF DurableInv
<1>8. CASE c \in {"X", "GR"}
  <2>1. /\ Len(todo') = 2 /\ todo'[1][1] \in {"save_reporting", "load"} /\ todo'[2][1] = "answer"
    BY <1>0, <1>8 DEF StepsOf, On, Off, Do
  <2>2. acked'.asked.mode = mode /\ acked'.asked.reporting = enabled
    BY <1>2, <1>8, WantedOf
  <2>3. \A i \in 1..2 : i = 1 \/ i = 2
    OBVIOUS
  <2>4. Obeying'
    BY <1>1, <2>1, <2>2, <2>3 DEF Obeying, Only, Values, Before, Left
  <2> QED
    BY <1>4, <1>5, <2>4 DEF DurableInv
<1>9. CASE c = "e"
  <2>1. /\ Len(todo') = 3 /\ todo'[1][1] = "erase" /\ todo'[2][1] = "answer"
        /\ todo'[3][1] = "restart"
    BY <1>0, <1>9 DEF StepsOf, Do
  <2>2. acked'.asked = Unset
    BY <1>2, <1>9, WantedOf
  <2>3. \A i \in 1..3 : i = 1 \/ i = 2 \/ i = 3
    OBVIOUS
  <2>4. Erasing'
    BY <2>1, <2>2, <2>3 DEF Erasing, Only, Before, Left, Unset
  <2> QED
    BY <1>4, <1>5, <2>4 DEF DurableInv
<1> QED
  BY <1>6, <1>7, <1>8, <1>9, SlowRfAssumption

\* A step of a command that sets nothing, or not yet what is stored.
LEMMA ObeyStep ==
  ASSUME SettingTypes, DurableInv, Obeying, todo # <<>>, todo' = Tail(todo),
         acked' = acked, NEW s, s = Head(todo)[1],
         enabled' = (IF s = "enabled" THEN Value ELSE enabled),
         reporting' = (IF s = "reporting" THEN Value ELSE reporting),
         mode' = (IF s = "mode" THEN Value ELSE mode),
         nvs' = (CASE s = "save_mode" -> [nvs EXCEPT !.mode = Value]
                   [] s = "save_reporting" -> [nvs EXCEPT !.reporting = enabled]
                   [] OTHER -> nvs),
         s # "answer"
  PROVE  DurableInv'
<1>1. todo \in Seq(Steps)
  BY DEF SettingTypes
<1>2. /\ s \in {"enabled", "reporting"} => Value = acked.asked.reporting
      /\ s \in {"mode", "save_mode"} => Value = acked.asked.mode
  <2>1. 1 \in 1..Len(todo) /\ Head(todo) = todo[1]
    BY <1>1, HeadTailProperties
  <2> QED
    BY <2>1 DEF Obeying, Values, Value
<1>3. s = "save_reporting" => enabled = acked.asked.reporting
  BY <1>1, TailFacts DEF Obeying
<1>4. /\ nvs'.mode = (IF s = "save_mode" THEN acked.asked.mode ELSE nvs.mode)
      /\ nvs'.reporting = (IF s = "save_reporting" THEN acked.asked.reporting ELSE nvs.reporting)
      /\ nvs' \in Settings
  BY <1>2, <1>3 DEF DurableInv, Settings, SettingTypes
<1>5. Obeying'
  <2> HIDE DEF Left, Before, Only, Values
  <2>1. /\ Only({"mode", "enabled", "reporting", "save_mode", "save_reporting", "load", "answer"})'
        /\ Values' /\ Before("enabled", "save_reporting")'
        /\ Before("save_mode", "answer")' /\ Before("save_reporting", "answer")'
    BY <1>1, TailFacts, Zenon DEF Obeying
  <2>2. /\ Left("enabled") => Left("enabled")' \/ s = "enabled"
        /\ Left("reporting") => Left("reporting")' \/ s = "reporting"
        /\ Left("mode") => Left("mode")' \/ s = "mode"
        /\ Left("save_mode") => Left("save_mode")' \/ s = "save_mode"
        /\ Left("save_reporting") => Left("save_reporting")' \/ s = "save_reporting"
        /\ Left("answer") => Left("answer")' \/ s = "answer"
    BY <1>1, TailFacts, Zenon
  <2>3. /\ Left("enabled")' \/ enabled' = acked.asked.reporting
        /\ Left("reporting")' \/ reporting' = acked.asked.reporting
        /\ Left("mode")' \/ mode' = acked.asked.mode
        /\ Left("save_mode")' \/ nvs'.mode = acked.asked.mode
        /\ Left("save_reporting")' \/ nvs'.reporting = acked.asked.reporting
        /\ Left("answer")' \/ acked.last = acked.asked
    BY <1>2, <1>4, <2>2 DEF Obeying
  <2> QED
    BY <2>1, <2>3 DEF Obeying
<1> QED
  BY <1>4, <1>5 DEF DurableInv

\* The answer comes when everything is set.
LEMMA AnswerStep ==
  ASSUME SettingTypes, DurableInv, Obeying \/ Erasing, todo # <<>>, todo' = Tail(todo),
         Head(todo)[1] = "answer", acked' = [acked EXCEPT !.last = acked.asked],
         UNCHANGED <<mode, reporting, enabled, nvs>>
  PROVE  DurableInv'
<1>1. todo \in Seq(Steps)
  BY DEF SettingTypes
<1>2. acked'.last = acked.asked /\ acked'.asked = acked.asked
      /\ acked' \in [last : Settings, asked : Settings]
  BY DEF DurableInv
<1> HIDE DEF Left, Before, Only, Values
<1>3. CASE Obeying
  <2>1. ~Left("save_mode") /\ ~Left("save_reporting")
    BY <1>1, <1>3, TailFacts, Zenon DEF Obeying
  <2>2. nvs.mode = acked.asked.mode /\ nvs.reporting = acked.asked.reporting
    BY <1>3, <2>1 DEF Obeying
  <2>3. /\ Only({"mode", "enabled", "reporting", "save_mode", "save_reporting", "load", "answer"})'
        /\ Values' /\ Before("enabled", "save_reporting")'
        /\ Before("save_mode", "answer")' /\ Before("save_reporting", "answer")'
    BY <1>1, <1>2, <1>3, TailFacts, Zenon DEF Obeying
  <2>4. /\ Left("enabled") => Left("enabled")'
        /\ Left("reporting") => Left("reporting")'
        /\ Left("mode") => Left("mode")'
    <3>1. "answer" \notin {"enabled", "reporting", "mode"}
      OBVIOUS
    <3> QED
      BY <1>1, <3>1, TailFacts, Zenon
  <2>5. Obeying'
    BY <1>2, <1>3, <2>2, <2>3, <2>4 DEF Obeying
  <2> QED
    BY <1>2, <2>2, <2>5 DEF DurableInv
<1>4. CASE Erasing
  <2>1. ~Left("erase")
    BY <1>1, <1>4, TailFacts, Zenon DEF Erasing
  <2>2. nvs = Unset /\ acked.asked = Unset
    BY <1>4, <2>1 DEF Erasing
  <2>3. Only({"erase", "answer", "restart"})' /\ Before("erase", "answer")'
    BY <1>1, <1>4, TailFacts, Zenon DEF Erasing
  <2>4. Left("restart")'
    <3>1. "answer" # "restart"
      OBVIOUS
    <3> QED
      BY <1>1, <1>4, <3>1, TailFacts, Zenon DEF Erasing
  <2>5. Erasing'
    BY <1>2, <2>2, <2>3, <2>4 DEF Erasing, Unset
  <2> QED
    BY <1>2, <2>2, <2>5 DEF DurableInv
<1> QED
  BY <1>3, <1>4

LEMMA EraseStep ==
  ASSUME SettingTypes, DurableInv, Erasing, todo # <<>>, todo' = Tail(todo),
         Head(todo)[1] = "erase", acked' = acked, nvs' = Unset
  PROVE  DurableInv'
<1>1. todo \in Seq(Steps)
  BY DEF SettingTypes
<1> HIDE DEF Left, Before, Only, Values
<1>2. Only({"erase", "answer", "restart"})' /\ Before("erase", "answer")'
  BY <1>1, TailFacts, Zenon DEF Erasing
<1>3. Left("restart")'
  <2>1. "erase" # "restart"
    OBVIOUS
  <2> QED
    BY <1>1, <2>1, TailFacts, Zenon DEF Erasing
<1>4. Erasing'
  BY <1>2, <1>3 DEF Erasing, Unset
<1> QED
  BY <1>4, UnsetTyped DEF DurableInv, Erasing

\* A step that stands only at the end of a list.
LEMMA LastOfTail ==
  ASSUME NEW q \in Seq(Steps), q # <<>>, NEW v,
         \A i \in 1..Len(q) : q[i][1] = v => i = Len(q)
  PROVE  /\ \A i \in 1..Len(Tail(q)) : Tail(q)[i][1] = v => i = Len(Tail(q))
         /\ Head(q)[1] = v => Tail(q) = <<>> /\ \A i \in 1..Len(q) : q[i][1] = v
<1>1. /\ Len(q) \in Nat \ {0} /\ Tail(q) \in Seq(Steps) /\ Len(Tail(q)) = Len(q) - 1
      /\ Head(q) = q[1] /\ \A i \in 1..(Len(q) - 1) : Tail(q)[i] = q[i + 1]
  BY HeadTailProperties
<1> DEFINE n == Len(q)
           t == Tail(q)
<1>0. n \in Nat \ {0}
  BY <1>1
<1>2. ASSUME NEW i \in 1..(n - 1), t[i][1] = v PROVE i = n - 1
  <2>1. i + 1 \in 1..n /\ i \in Nat
    <3> HIDE DEF n
    <3> QED
      BY <1>0
  <2>2. q[i + 1][1] = v
    BY <1>1, <1>2
  <2>3. i + 1 = n
    BY <2>1, <2>2
  <2> QED
    BY <2>1, <2>3
<1>3. ASSUME Head(q)[1] = v PROVE t = <<>> /\ \A i \in 1..n : q[i][1] = v
  <2>0. 1 \in 1..n
    <3> HIDE DEF n
    <3> QED
      BY <1>0
  <2>1. 1 \in 1..n /\ q[1][1] = v
    BY <1>1, <1>3, <2>0
  <2>2. n = 1
    BY <2>1
  <2>3. Len(t) = 0
    BY <1>1, <2>2
  <2>4. t = <<>>
    BY <1>1, <2>3, EmptySeq
  <2> QED
    BY <2>1, <2>2, <2>4
<1> QED
  BY <1>1, <1>2, <1>3

LEMMA BootStep ==
  ASSUME SettingTypes, DurableInv, Booting, todo # <<>>, todo' = Tail(todo),
         NEW s, s = Head(todo)[1], s # "load_mode",
         enabled' = (IF s = "load_reporting" THEN nvs.reporting ELSE enabled),
         reporting' = (IF s = "set_reporting" THEN enabled ELSE reporting),
         UNCHANGED <<nvs, acked>>
  PROVE  DurableInv'
<1>1. todo \in Seq(Steps)
  BY DEF SettingTypes
<1>2. \A i \in 1..Len(todo') : todo'[i][1] = "load_mode" => i = Len(todo')
  <2>1. \A i \in 1..Len(todo) : todo[i][1] = "load_mode" => i = Len(todo)
    BY DEF Booting
  <2> QED
    BY <1>1, <2>1, LastOfTail, Zenon
<1> HIDE DEF Left, Before, Only, Values
<1>3. /\ Only({"button", "load", "ready", "start", "load_reporting", "set_reporting", "load_mode"})'
      /\ Before("load_reporting", "set_reporting")'
  BY <1>1, TailFacts, Zenon DEF Booting
<1>4. Left("load_mode")'
  BY <1>1, TailFacts, Zenon DEF Booting
<1>5. /\ Left("load_reporting") <=> Left("load_reporting")' \/ s = "load_reporting"
      /\ Left("set_reporting") <=> Left("set_reporting")' \/ s = "set_reporting"
      /\ s = "set_reporting" => ~Left("load_reporting")
  BY <1>1, TailFacts, Zenon DEF Booting
<1>6. /\ Left("load_reporting")' \/ enabled' = nvs.reporting
      /\ Left("set_reporting")' \/ reporting' = enabled'
      /\ Left("load_reporting")' => Left("set_reporting")'
  BY <1>5 DEF Booting
<1>7. Booting'
  BY <1>2, <1>3, <1>4, <1>6 DEF Booting
<1> QED
  BY <1>7 DEF DurableInv

\* The mode is read last: what is stored is then in force.
LEMMA LoadedStep ==
  ASSUME SettingTypes, DurableInv, Booting, todo # <<>>, todo' = Tail(todo),
         Head(todo)[1] = "load_mode", mode' = nvs.mode,
         acked' = [last |-> nvs, asked |-> nvs],
         UNCHANGED <<reporting, enabled, nvs>>
  PROVE  DurableInv'
<1>1. todo \in Seq(Steps)
  BY DEF SettingTypes
<1>2. \A i \in 1..Len(todo) : todo[i][1] = "load_mode" => i = Len(todo)
  BY DEF Booting
<1>3. Tail(todo) = <<>> /\ \A i \in 1..Len(todo) : todo[i][1] = "load_mode"
  BY <1>1, <1>2, LastOfTail, Zenon
<1>4. enabled = nvs.reporting /\ reporting = enabled
  <2>1. ~Left("load_reporting") /\ ~Left("set_reporting")
    BY <1>3 DEF Left
  <2> QED
    BY <2>1 DEF Booting
<1>5. 1..Len(todo') = {}
  BY <1>3
<1>6. Only({"mode", "enabled", "reporting", "save_mode", "save_reporting", "load", "answer"})'
  BY <1>5 DEF Only
<1>7. Values' /\ \A r, s : Before(r, s)'
  BY <1>5 DEF Values, Before
<1>8. Obeying'
  <2> HIDE DEF Only, Values, Before, Left
  <2> QED
    BY <1>4, <1>6, <1>7 DEF Obeying
<1> QED
  BY <1>8 DEF DurableInv

\* Which step is next says in which of the three the command task is.
LEMMA WhichPhase ==
  ASSUME SettingTypes, DurableInv, todo # <<>>, NEW s, Head(todo)[1] = s
  PROVE  /\ s \in {"mode", "enabled", "reporting", "save_mode", "save_reporting"} => Obeying
         /\ s = "erase" => Erasing
         /\ s = "answer" => Obeying \/ Erasing
         /\ s \in {"button", "ready", "start", "load_reporting", "set_reporting", "load_mode"}
              => Booting
         /\ s = "load" => Obeying \/ Booting
<1>1. 1 \in 1..Len(todo) /\ todo[1][1] = s
  BY HeadTailProperties DEF SettingTypes
<1>2. Obeying => s \in {"mode", "enabled", "reporting", "save_mode", "save_reporting", "load", "answer"}
  BY <1>1 DEF Obeying, Only
<1>3. Erasing => s \in {"erase", "answer", "restart"}
  BY <1>1 DEF Erasing, Only
<1>4. Booting => s \in {"button", "load", "ready", "start", "load_reporting", "set_reporting", "load_mode"}
  BY <1>1 DEF Booting, Only
<1>5. Obeying \/ Erasing \/ Booting
  BY DEF DurableInv
<1> QED
  BY <1>2, <1>3, <1>4, <1>5

\* Between commands everything is set and stored.
LEMMA DurableImplies ==
  ASSUME DurableInv
  PROVE  SettingsDurable
<1>1. ASSUME todo = <<>>
      PROVE  /\ nvs = acked.last /\ nvs = [reporting |-> reporting, mode |-> mode]
             /\ enabled = reporting
  <2>1. 1..Len(todo) = {}
    BY <1>1
  <2>2. \A s : ~Left(s)
    BY <2>1 DEF Left
  <2>3. Obeying
    BY <2>2 DEF DurableInv, Erasing, Booting
  <2>4. /\ enabled = acked.asked.reporting /\ reporting = acked.asked.reporting
        /\ mode = acked.asked.mode /\ nvs.mode = acked.asked.mode
        /\ nvs.reporting = acked.asked.reporting /\ acked.last = acked.asked
    BY <2>2, <2>3 DEF Obeying
  <2> QED
    BY <2>4, SettingParts
<1> QED
  BY <1>1 DEF DurableInv, SettingsDurable

LEMMA DurableStep ==
  ASSUME SettingTypes, DurableInv, [RfNext]_rfVars
  PROVE  DurableInv'
<1> DEFINE name == Head(todo)[1]
<1>1. CASE UNCHANGED <<settingVars, acked>>
  BY <1>1 DEF settingVars, DurableInv, Obeying, Erasing, Booting, Only, Values, Before, Left
<1>2. CASE Command
  BY <1>2, CommandDurable, DurableImplies
<1>3. CASE Setting
  <2>1. CASE SetMode
    <3>1. /\ todo # <<>> /\ todo' = Tail(todo) /\ name = "mode" /\ mode' = Value
          /\ UNCHANGED <<reporting, enabled, nvs, acked>>
      BY <2>1 DEF SetMode, Step, At
    <3> QED
      BY <3>1, WhichPhase, ObeyStep
  <2>2. CASE SetEnabled
    <3>1. /\ todo # <<>> /\ todo' = Tail(todo) /\ name = "enabled" /\ enabled' = Value
          /\ UNCHANGED <<reporting, mode, nvs, acked>>
      BY <2>2 DEF SetEnabled, Step, At
    <3> QED
      BY <3>1, WhichPhase, ObeyStep
  <2>3. CASE SetReporting
    <3>1. /\ todo # <<>> /\ todo' = Tail(todo) /\ name = "reporting" /\ reporting' = Value
          /\ UNCHANGED <<enabled, mode, nvs, acked>>
      BY <2>3 DEF SetReporting, Step, At
    <3> QED
      BY <3>1, WhichPhase, ObeyStep
  <2>4. CASE SaveMode
    <3>1. /\ todo # <<>> /\ todo' = Tail(todo) /\ name = "save_mode"
          /\ nvs' = [nvs EXCEPT !.mode = Value] /\ UNCHANGED <<reporting, enabled, mode, acked>>
      BY <2>4 DEF SaveMode, Step, At
    <3> QED
      BY <3>1, WhichPhase, ObeyStep
  <2>5. CASE SaveReporting
    <3>1. /\ todo # <<>> /\ todo' = Tail(todo) /\ name = "save_reporting"
          /\ nvs' = [nvs EXCEPT !.reporting = enabled]
          /\ UNCHANGED <<reporting, enabled, mode, acked>>
      BY <2>5 DEF SaveReporting, Step, At
    <3> QED
      BY <3>1, WhichPhase, ObeyStep
  <2>6. CASE Erase
    <3>1. /\ todo # <<>> /\ todo' = Tail(todo) /\ name = "erase" /\ nvs' = Unset /\ acked' = acked
      BY <2>6 DEF Erase, Step, At
    <3> QED
      BY <3>1, WhichPhase, EraseStep
  <2>7. CASE LoadReporting
    <3>1. /\ todo # <<>> /\ todo' = Tail(todo) /\ name = "load_reporting"
          /\ enabled' = nvs.reporting /\ UNCHANGED <<reporting, mode, nvs, acked>>
      BY <2>7 DEF LoadReporting, Step, At
    <3> QED
      BY <3>1, WhichPhase, BootStep
  <2>8. CASE ApplyReporting
    <3>1. /\ todo # <<>> /\ todo' = Tail(todo) /\ name = "set_reporting"
          /\ reporting' = enabled /\ UNCHANGED <<enabled, mode, nvs, acked>>
      BY <2>8 DEF ApplyReporting, Step, At
    <3> QED
      BY <3>1, WhichPhase, BootStep
  <2>9. CASE LoadMode
    <3>1. /\ todo # <<>> /\ todo' = Tail(todo) /\ name = "load_mode"
          /\ mode' = nvs.mode /\ acked' = [last |-> nvs, asked |-> nvs]
          /\ UNCHANGED <<reporting, enabled, nvs>>
      BY <2>9 DEF LoadMode, Step, At
    <3> QED
      BY <3>1, WhichPhase, LoadedStep
  <2> QED
    BY <1>3, <2>1, <2>2, <2>3, <2>4, <2>5, <2>6, <2>7, <2>8, <2>9 DEF Setting
<1>4. ASSUME todo # <<>>, todo' = Tail(todo), name \in {"button", "ready", "start", "load"},
             UNCHANGED <<mode, reporting, enabled, nvs, acked>>
      PROVE  DurableInv'
  <2>1. Obeying => name = "load"
    BY <1>4, HeadTailProperties DEF SettingTypes, Obeying, Only
  <2>2. CASE Obeying
    BY <1>4, <2>1, <2>2, ObeyStep
  <2>3. CASE Booting
    BY <1>4, <2>3, BootStep
  <2> QED
    BY <1>4, <2>2, <2>3, WhichPhase
<1>5. CASE Answer
  <2>1. CASE Step("answer") /\ acked' = [acked EXCEPT !.last = acked.asked]
    BY <1>5, <2>1, WhichPhase, AnswerStep DEF Answer, Step, At
  <2>2. CASE Step("ready") /\ UNCHANGED acked
    BY <1>4, <1>5, <2>2 DEF Answer, Step, At
  <2> QED
    BY <1>5, <2>1, <2>2 DEF Answer
<1>6. CASE Load
  <2>1. /\ todo # <<>> /\ name = "load" /\ UNCHANGED <<mode, reporting, enabled, nvs, acked>>
        /\ todo' = Tail(todo) \/ todo' = todo
    BY <1>6, Zenon DEF Load, At
  <2> QED
    BY <1>1, <1>4, <2>1 DEF settingVars
<1>7. CASE Start
  BY <1>4, <1>7 DEF Start, Step, At
<1>8. CASE Button
  <2>1. CASE Fresh
    BY <1>8, <2>1, FreshDurable DEF Button
  <2>2. CASE Step("button") /\ UNCHANGED <<mode, reporting, enabled, nvs, acked>>
    BY <1>4, <2>2 DEF Step, At
  <2> QED
    BY <1>8, <2>1, <2>2 DEF Button
<1>9. CASE Restart \/ PowerFails
  BY <1>9, FreshDurable DEF Restart, PowerFails
<1>10. PulseArrives \/ HostReads \/ Task \/ UNCHANGED rfVars => UNCHANGED <<settingVars, acked>>
  BY DEF PulseArrives, HostReads, Task, Receive, GenericStep, GenericPacket, GenericWritten,
         AfterGeneric, FlushRaw, Report, setVars, rfVars, settingVars
<1> QED
  BY <1>1, <1>2, <1>3, <1>5, <1>6, <1>7, <1>8, <1>9, <1>10 DEF RfNext, Commander

-----------------------------------------------------------------------------

\* The inductive invariant of the receive path.
RfInv == GenInv /\ SignalInv /\ SettingTypes /\ TaskTypes

LEMMA RfInitInv == RfInit => RfInv
<1> SUFFICES ASSUME RfInit PROVE RfInv
  OBVIOUS
<1>1. GenInv
  BY BlankSafe DEF RfInit, GenInit, Blank
<1>2. SignalInv
  BY DEF RfInit, SignalInv
<1>3. SettingTypes
  <2>1. Unset.mode \in Modes /\ Unset.reporting \in BOOLEAN /\ DOMAIN Unset = {"mode", "reporting"}
    BY DEF Unset, Modes
  <2> QED
    BY <2>1, BootTyped DEF RfInit, SettingTypes, Modes
<1>4. TaskTypes
  <2>1. <<>> \in Seq(Pulses) /\ Len(<<>>) = 0 /\ 0 <= QueueLen
    BY EmptySeq, SlowRfAssumption
  <2>2. 0 \in 0..MuSize /\ 0 \in 0..UsbLen
    BY SlowRfAssumption
  <2> QED
    BY <2>1, <2>2 DEF RfInit, GenInit, TaskTypes
<1> QED
  BY <1>1, <1>2, <1>3, <1>4 DEF RfInv

LEMMA RfInductive == RfSpec => []RfInv
<1>1. RfInv /\ [RfNext]_rfVars => RfInv'
  <2> SUFFICES ASSUME RfInv, [RfNext]_rfVars PROVE RfInv'
    OBVIOUS
  <2>1. GenInv'
    BY RfStepGen DEF RfInv, TaskTypes
  <2>2. SignalInv' /\ SettingTypes' /\ TaskTypes'
    BY SignalStep, SettingStep, TaskStep DEF RfInv
  <2> QED
    BY <2>1, <2>2 DEF RfInv
<1> QED
  BY <1>1, RfInitInv, PTL DEF RfSpec

\* The types of the receive path and of the command task hold always.
THEOREM RfTyped == RfSpec => []RfTypeOK
<1>1. RfInv => RfTypeOK
  BY DEF RfInv, GenInv, SignalInv, SettingTypes, TaskTypes, RfTypeOK
<1> QED
  BY <1>1, RfInductive, PTL

\* No array of the generic decoder is left, for every database, every pulse and
\* every moment of a reload (generic_decoder.c 124-146, 293, 304).
THEOREM IndicesSafe == RfSpec => []IndicesInRange
<1>1. GenInv => IndicesInRange
  <2> SUFFICES ASSUME GenInv PROVE IndicesInRange
    OBVIOUS
  <2>1. \A i \in Slots : protocols[i] \in SafeProto /\ states[i] \in SafeState
    BY DEF GenInv
  <2>2. \A i \in Slots : \A f \in Fields : Len(protocols[i][f]) <= SeqLen
    <3> TAKE i \in Slots
    <3> TAKE f \in Fields
    <3>1. CASE f = "bit0" BY <2>1, <3>1 DEF SafeProto
    <3>2. CASE f = "bit1" BY <2>1, <3>2 DEF SafeProto
    <3>3. CASE f = "sync" BY <2>1, <3>3 DEF SafeProto
    <3> QED BY <3>1, <3>2, <3>3 DEF Fields
  <2>3. \A i \in Slots : /\ states[i].m0 => states[i].i0 < SeqLen
                         /\ states[i].m1 => states[i].i1 < SeqLen
    BY <2>1 DEF SafeState
  <2> QED
    BY <2>2, <2>3 DEF GenInv, IndicesInRange
<1> QED
  BY <1>1, RfInductive, PTL DEF RfInv

\* A signal reported by the generic decoder is not printed as raw data too
\* (slowrf.c 78, 117).
THEOREM GenericOnce == RfSpec => []GenericNotRaw
<1>1. RfInv => GenericNotRaw
  BY DEF RfInv, SignalInv, GenericNotRaw
<1> QED
  BY <1>1, RfInductive, PTL

\* Raw data is withheld only for a packet of this signal or of the one before
\* (slowrf.c 28, 308).
THEOREM WithheldExplained == RfSpec => []WithheldForReason
<1>1. RfInv => WithheldForReason
  BY DEF RfInv, SignalInv, WithheldForReason
<1> QED
  BY <1>1, RfInductive, PTL

\* Whatever commands are given and wherever the power fails, the settings
\* stored are those of the last command answered or of the one under way, and
\* between commands they are the ones in force (culfw_parser.c, the X and e
\* commands; nvs_set of the reporting and of the mode are two steps).
THEOREM SettingsSurvive == RfSpec => []SettingsDurable
<1>1. RfInit => DurableInv
  <2> SUFFICES ASSUME RfInit PROVE DurableInv
    OBVIOUS
  <2>1. /\ Len(todo) = 7
        /\ todo[1][1] = "button" /\ todo[2][1] = "load" /\ todo[3][1] = "ready"
        /\ todo[4][1] = "start" /\ todo[5][1] = "load_reporting"
        /\ todo[6][1] = "set_reporting" /\ todo[7][1] = "load_mode"
    BY DEF RfInit, BootSteps, Do
  <2>2. \A i \in 1..7 : i = 1 \/ i = 2 \/ i = 3 \/ i = 4 \/ i = 5 \/ i = 6 \/ i = 7
    OBVIOUS
  <2>3. Booting
    BY <2>1, <2>2 DEF Booting, Only, Before, Left
  <2> QED
    BY <2>3, UnsetTyped DEF RfInit, DurableInv
<1>2. RfInv /\ DurableInv /\ [RfNext]_rfVars => DurableInv'
  BY DurableStep DEF RfInv
<1>3. DurableInv => SettingsDurable
  BY DurableImplies
<1> QED
  BY <1>1, <1>2, <1>3, RfInductive, PTL DEF RfSpec

=============================================================================
