--------------------------- MODULE LoopbackProofs ---------------------------
(***************************************************************************)
(* What one stick sends the other one reports, for every set of well-      *)
(* formed frames, every stretching of the marks by less than 50 us, any    *)
(* noise before the train and any pulses lost of its first repetition.     *)
(*                                                                         *)
(* The send functions are shown to make the trains that the code describes *)
(* pulse by pulse; the decoder of each protocol is followed through such a *)
(* train (FsAt, HmsAt, It1At, It3At); and the gap at the end of the first  *)
(* repetition is shown to bring it to the start of the second (InStep).    *)
(* To all the decoders a train, noise and lost pulses are a sequence of    *)
(* pulses, so what is proved of them in DecodersProofs holds here.         *)
(***************************************************************************)
EXTENDS Loopback, DecodersProofs, NaturalsInduction, WellFoundedInduction

-----------------------------------------------------------------------------
(* Sequences.                                                               *)

\* Induction over the natural numbers, with a set for the property.
LEMMA Induction ==
  ASSUME NEW S, 0 \in S, \A n \in Nat : n \in S => n + 1 \in S
  PROVE  \A n \in Nat : n \in S
<1> DEFINE R == {ss \in Nat \X Nat : ss[1] < ss[2]}
<1> DEFINE E == Nat \ S
<1> SUFFICES ASSUME E # {} PROVE FALSE
  OBVIOUS
<1>1. IsWellFoundedOn(R, Nat)
  BY NatLessThanWellFounded, Zenon DEF OpToRel
<1>2. E \subseteq Nat
  OBVIOUS
<1>3. PICK i \in E : \A j \in E : ~(<<j, i>> \in R)
  <2> HIDE DEF R, E
  <2> QED
    BY <1>1, <1>2, WFMin, Zenon
<1>4. i # 0 /\ i \in Nat /\ i - 1 \in Nat /\ (i - 1) + 1 = i
  OBVIOUS
<1>5. ~(i - 1 \in E)
  <2>1. <<i - 1, i>> \in R
    BY <1>4
  <2> QED
    BY <1>3, <2>1, Zenon
<1>6. i - 1 \in S
  BY <1>4, <1>5
<1>7. (i - 1) + 1 \in S
  BY <1>4, <1>6
<1> QED
  BY <1>4, <1>7

\* f is u and then w.
Joins(f, u, w) ==
    /\ Len(f) = Len(u) + Len(w)
    /\ \A i \in 1..Len(u) : f[i] = u[i]
    /\ \A i \in 1..Len(w) : f[Len(u) + i] = w[i]

\* The concatenation of two sequences joins them.
LEMMA Joined ==
  ASSUME NEW S, NEW u \in Seq(S), NEW w \in Seq(S)
  PROVE  u \o w \in Seq(S) /\ Joins(u \o w, u, w)
BY DEF Joins

\* The recursive function of FlattenSeq exists.
LEMMA FlattenExists ==
  ASSUME NEW S, NEW ws \in Seq(Seq(S)), Len(ws) > 0
  PROVE  \E g \in [1..Len(ws) -> Seq(S)] :
            g = [i \in 1..Len(ws) |-> IF i = 1 THEN ws[i] ELSE g[i - 1] \o ws[i]]
<1> DEFINE L == Len(ws)
<1> DEFINE Eq(g, m) == \A i \in 1..m : g[i] = IF i = 1 THEN ws[i] ELSE g[i - 1] \o ws[i]
<1> DEFINE T == {m \in Nat : m + 1 <= L => \E g \in [1..L -> Seq(S)] : Eq(g, m + 1)}
<1>0. L \in Nat /\ L > 0 /\ \A i \in 1..L : ws[i] \in Seq(S)
  OBVIOUS
<1> HIDE DEF L
<1>1. 0 \in T
  <2>1. [i \in 1..L |-> ws[i]] \in [1..L -> Seq(S)]
    BY <1>0
  <2>2. Eq([i \in 1..L |-> ws[i]], 1)
    BY <1>0
  <2>3. \E g \in [1..L -> Seq(S)] : Eq(g, 1)
    <3> HIDE DEF Eq
    <3> QED
      BY <2>1, <2>2, Zenon
  <2>4. 0 + 1 = 1
    OBVIOUS
  <2> QED
    BY <2>3, <2>4
<1>2. ASSUME NEW m \in Nat, m \in T PROVE m + 1 \in T
  <2> SUFFICES ASSUME m + 2 <= L
               PROVE  \E g \in [1..L -> Seq(S)] : Eq(g, m + 2)
    OBVIOUS
  <2>1. PICK g \in [1..L -> Seq(S)] : Eq(g, m + 1)
    <3>1. m + 1 <= L
      BY <1>0
    <3> HIDE DEF Eq
    <3> QED
      BY <1>2, <3>1, Zenon
  <2> DEFINE v == g[m + 1] \o ws[m + 2]
  <2> DEFINE k == [g EXCEPT ![m + 2] = v]
  <2>2. v \in Seq(S)
    <3>1. g[m + 1] \in Seq(S) /\ ws[m + 2] \in Seq(S)
      BY <1>0
    <3> QED
      BY <3>1
  <2>3. k \in [1..L -> Seq(S)]
    <3> HIDE DEF v
    <3> QED
      BY <2>2, <1>0
  <2>a. k[m + 2] = v /\ \A i \in 1..(m + 1) : k[i] = g[i]
    <3> HIDE DEF v
    <3> QED
      BY <1>0
  <2>4. ASSUME NEW i \in 1..(m + 2) PROVE k[i] = IF i = 1 THEN ws[i] ELSE k[i - 1] \o ws[i]
    <3> HIDE DEF k
    <3>1. CASE i = m + 2
      <4>1. i - 1 = m + 1 /\ i # 1 /\ m + 1 \in 1..(m + 1)
        BY <3>1
      <4>2. k[i - 1] = g[m + 1] /\ k[i] = v
        BY <2>a, <3>1, <4>1, Zenon
      <4> QED
        BY <3>1, <4>1, <4>2
    <3>2. CASE i # m + 2
      <4>1. g[i] = IF i = 1 THEN ws[i] ELSE g[i - 1] \o ws[i]
        BY <2>1, <3>2
      <4>2. k[i] = g[i] /\ (i # 1 => k[i - 1] = g[i - 1])
        BY <2>a, <3>2
      <4> QED
        BY <4>1, <4>2
    <3> QED
      BY <3>1, <3>2
  <2>5. Eq(k, m + 2)
    <3> HIDE DEF k
    <3> QED BY <2>4
  <2> QED
    <3> HIDE DEF k, Eq
    <3> QED BY <2>3, <2>5
<1>3. L - 1 \in T
  <2> HIDE DEF T
  <2>1. L - 1 \in Nat
    BY <1>0
  <2> QED
    BY <1>1, <1>2, <2>1, Induction
<1>4. PICK g \in [1..L -> Seq(S)] : Eq(g, L)
  <2>1. (L - 1) + 1 = L /\ L <= L
    BY <1>0
  <2> HIDE DEF Eq
  <2> QED
    BY <1>3, <2>1
<1>5. g = [i \in 1..L |-> IF i = 1 THEN ws[i] ELSE g[i - 1] \o ws[i]]
  BY <1>4
<1> QED
  BY <1>5 DEF L

\* FlattenSeq joins one word after the other.
LEMMA FlattenPrefixes ==
  ASSUME NEW S, NEW ws \in Seq(Seq(S)), Len(ws) > 0
  PROVE  \E g \in [1..Len(ws) -> Seq(S)] :
            /\ g[1] = ws[1]
            /\ \A i \in 2..Len(ws) : g[i] = g[i - 1] \o ws[i]
            /\ FlattenSeq(ws) = g[Len(ws)]
<1> DEFINE L == Len(ws)
<1> DEFINE Eq(g) == g = [i \in 1..L |-> IF i = 1 THEN ws[i] ELSE g[i - 1] \o ws[i]]
<1> DEFINE f == CHOOSE g : Eq(g)
<1>0. L \in Nat /\ L > 0 /\ \A i \in 1..L : ws[i] \in Seq(S)
  OBVIOUS
<1>1. FlattenSeq(ws) = f[L]
  BY <1>0 DEF FlattenSeq
<1>2. \E g : Eq(g)
  <2>1. PICK g \in [1..L -> Seq(S)] : Eq(g)
    BY FlattenExists
  <2> HIDE DEF Eq
  <2> QED
    BY <2>1, Zenon
<1>3. Eq(f)
  <2> HIDE DEF Eq
  <2> QED
    BY <1>2, Zenon
<1> HIDE DEF L
<1>4. ASSUME NEW g, Eq(g)
      PROVE  /\ \A i \in 1..L : g[i] = IF i = 1 THEN ws[i] ELSE g[i - 1] \o ws[i]
             /\ g = [i \in 1..L |-> g[i]]
  BY <1>4
<1>5. /\ \A i \in 1..L : f[i] = IF i = 1 THEN ws[i] ELSE f[i - 1] \o ws[i]
      /\ f = [i \in 1..L |-> f[i]]
  <2> HIDE DEF f, Eq
  <2> QED
    BY <1>3, <1>4, Zenon
<1> HIDE DEF f
<1>6. f[1] = ws[1]
  <2>1. 1 \in 1..L
    BY <1>0
  <2> QED
    BY <1>5, <2>1, Zenon
<1>7. \A i \in 2..L : f[i] = f[i - 1] \o ws[i]
  <2> SUFFICES ASSUME NEW i \in 2..L PROVE f[i] = f[i - 1] \o ws[i]
    OBVIOUS
  <2>1. i \in 1..L /\ i # 1
    BY <1>0
  <2> QED
    BY <1>5, <2>1, Zenon
<1> DEFINE T == {m \in Nat : m + 1 <= L => f[m + 1] \in Seq(S)}
<1>8. \A m \in Nat : m \in T
  <2>1. 0 \in T
    BY <1>6, <1>0
  <2>2. ASSUME NEW m \in Nat, m \in T PROVE m + 1 \in T
    <3> SUFFICES ASSUME m + 2 <= L PROVE f[m + 2] \in Seq(S)
      OBVIOUS
    <3>0. m + 2 \in 2..L /\ (m + 2) - 1 = m + 1
      BY <1>0
    <3>1. f[m + 2] = f[m + 1] \o ws[m + 2]
      BY <1>7, <3>0
    <3>2. f[m + 1] \in Seq(S) /\ ws[m + 2] \in Seq(S)
      BY <2>2, <1>0
    <3> QED
      BY <3>1, <3>2
  <2> HIDE DEF T
  <2> QED
    BY <2>1, <2>2, Induction
<1>9. \A i \in 1..L : f[i] \in Seq(S)
  <2> SUFFICES ASSUME NEW i \in 1..L PROVE f[i] \in Seq(S)
    OBVIOUS
  <2>1. i - 1 \in Nat /\ (i - 1) + 1 = i /\ i <= L
    BY <1>0
  <2> QED
    BY <1>8, <2>1
<1>10. f \in [1..L -> Seq(S)]
  BY <1>5, <1>9
<1> QED
  BY <1>1, <1>6, <1>7, <1>10 DEF L

\* FlattenSeq makes a sequence over S of sequences over S.
LEMMA FlattenTyped ==
  ASSUME NEW S, NEW ws \in Seq(Seq(S))
  PROVE  FlattenSeq(ws) \in Seq(S)
<1>1. CASE Len(ws) = 0
  BY <1>1 DEF FlattenSeq
<1>2. CASE Len(ws) > 0
  <2>1. PICK g \in [1..Len(ws) -> Seq(S)] : FlattenSeq(ws) = g[Len(ws)]
    BY <1>2, FlattenPrefixes
  <2>2. Len(ws) \in 1..Len(ws)
    BY <1>2
  <2> QED
    BY <2>1, <2>2
<1> QED
  BY <1>1, <1>2

\* A symbol of an earlier word lies before the words that follow it.
LEMMA Beyond ==
  ASSUME NEW n \in Nat, NEW i \in Nat, NEW k \in Nat, k < i, NEW j \in 1..n
  PROVE  n * k + j <= n * i /\ n * k >= 0
<1> DEFINE d == i - k - 1
<1>1. d \in Nat /\ i = k + 1 + d
  OBVIOUS
<1> HIDE DEF d
<1>2. n * i = n * k + n + n * d
  BY <1>1
<1>3. n * d >= 0 /\ n * d \in Nat /\ n * k \in Nat
  BY <1>1
<1> QED
  BY <1>2, <1>3

\* f is the words of ws, of n symbols each, one after the other.
Laid(f, ws, n) ==
    /\ Len(f) = n * Len(ws)
    /\ \A k \in 0..(Len(ws) - 1) : \A j \in 1..n : f[n * k + j] = ws[k + 1][j]

\* Words of n symbols.
LEMMA FlattenWords ==
  ASSUME NEW S, NEW n \in Nat \ {0}, NEW ws \in Seq(Seq(S)),
         \A i \in 1..Len(ws) : Len(ws[i]) = n
  PROVE  /\ FlattenSeq(ws) \in Seq(S)
         /\ Laid(FlattenSeq(ws), ws, n)
<1>1. CASE Len(ws) = 0
  BY <1>1 DEF FlattenSeq, Laid
<1>2. CASE Len(ws) > 0
  <2> DEFINE L == Len(ws)
  <2>0. L \in Nat /\ L > 0 /\ \A i \in 1..L : ws[i] \in Seq(S) /\ Len(ws[i]) = n
    BY <1>2
  <2>1. PICK g \in [1..L -> Seq(S)] :
            /\ g[1] = ws[1]
            /\ \A i \in 2..L : g[i] = g[i - 1] \o ws[i]
            /\ FlattenSeq(ws) = g[L]
    BY <1>2, FlattenPrefixes
  <2> HIDE DEF L
  <2> DEFINE P(m) == /\ Len(g[m]) = n * m
                     /\ \A k \in 0..(m - 1) : \A j \in 1..n : g[m][n * k + j] = ws[k + 1][j]
  <2> DEFINE T == {m \in Nat : m + 1 <= L => P(m + 1)}
  <2>2. 0 \in T
    <3>1. P(1)
      <4>1. Len(g[1]) = n * 1
        BY <2>0, <2>1
      <4>2. ASSUME NEW k \in 0..(1 - 1), NEW j \in 1..n PROVE g[1][n * k + j] = ws[k + 1][j]
        <5>1. k = 0 /\ n * k + j = j /\ k + 1 = 1
          OBVIOUS
        <5> QED
          BY <5>1, <2>1
      <4> QED BY <4>1, <4>2
    <3>2. 0 + 1 = 1
      OBVIOUS
    <3> HIDE DEF P
    <3> QED BY <3>1, <3>2
  <2>3. ASSUME NEW m \in Nat, m \in T PROVE m + 1 \in T
    <3> SUFFICES ASSUME m + 2 <= L PROVE P(m + 2)
      OBVIOUS
    <3>1. P(m + 1)
      BY <2>3, <2>0
    <3>2. /\ g[m + 2] = g[m + 1] \o ws[m + 2]
          /\ g[m + 1] \in Seq(S) /\ ws[m + 2] \in Seq(S) /\ Len(ws[m + 2]) = n
      <4>1. m + 2 \in 2..L /\ (m + 2) - 1 = m + 1 /\ m + 2 \in 1..L /\ m + 1 \in 1..L
        BY <2>0
      <4> QED
        BY <2>0, <2>1, <4>1
    <3>a. Len(g[m + 1]) = n * (m + 1)
      BY <3>1
    <3> DEFINE u == g[m + 1]
    <3> DEFINE w == ws[m + 2]
    <3>b. u \in Seq(S) /\ w \in Seq(S) /\ Len(w) = n /\ Len(u) = n * (m + 1)
      BY <3>2, <3>a
    <3>c. g[m + 2] = u \o w
      BY <3>2
    <3> HIDE DEF u, w
    <3>d. /\ Len(u \o w) = Len(u) + Len(w)
          /\ \A i \in 1..Len(u) : (u \o w)[i] = u[i]
          /\ \A i \in 1..Len(w) : (u \o w)[Len(u) + i] = w[i]
      <4>1. u \in Seq(S) /\ w \in Seq(S)
        BY <3>b
      <4> QED
        BY <4>1, Joined DEF Joins
    <3>3. Len(g[m + 2]) = n * (m + 2)
      BY <3>b, <3>c, <3>d
    <3>4. ASSUME NEW k \in 0..(m + 1), NEW j \in 1..n PROVE g[m + 2][n * k + j] = ws[k + 1][j]
      <4>1. CASE k = m + 1
        <5>1. n * k + j = Len(u) + j /\ k + 1 = m + 2
          BY <3>b, <4>1
        <5>2. (u \o w)[Len(u) + j] = w[j]
          BY <3>b, <3>d
        <5> QED BY <3>c, <5>1, <5>2 DEF w
      <4>2. CASE k # m + 1
        <5>1. k \in Nat /\ k < m + 1
          BY <4>2
        <5>2. n * k + j <= n * (m + 1) /\ n * k >= 0
          <6>1. m + 1 \in Nat /\ n \in Nat
            OBVIOUS
          <6> QED
            BY <5>1, <6>1, Beyond
        <5>3. n * k + j \in 1..Len(u)
          <6> DEFINE p == n * k
          <6> DEFINE q == n * (m + 1)
          <6>1. p \in Int /\ q \in Int /\ p >= 0 /\ p + j <= q /\ Len(u) = q
            BY <3>b, <5>1, <5>2
          <6> HIDE DEF p, q
          <6>2. p + j \in 1..Len(u)
            BY <6>1
          <6> QED
            BY <6>2 DEF p
        <5>4. (u \o w)[n * k + j] = u[n * k + j]
          BY <3>d, <5>3
        <5>5. g[m + 1][n * k + j] = ws[k + 1][j]
          <6>1. k \in 0..((m + 1) - 1)
            BY <5>1
          <6>2. \A i \in 0..((m + 1) - 1) : \A h \in 1..n : g[m + 1][n * i + h] = ws[i + 1][h]
            BY <3>1, Zenon
          <6> QED
            BY <6>1, <6>2, Zenon
        <5> QED BY <3>c, <5>4, <5>5 DEF u
      <4> QED BY <4>1, <4>2
    <3>5. (m + 2) - 1 = m + 1
      OBVIOUS
    <3> QED BY <3>3, <3>4, <3>5
  <2>4. P(L)
    <3>1. L - 1 \in Nat /\ (L - 1) + 1 = L /\ L <= L
      BY <2>0
    <3>2. L - 1 \in T
      <4> HIDE DEF T
      <4> QED BY <2>2, <2>3, <3>1, Induction
    <3> HIDE DEF P
    <3> QED BY <3>1, <3>2
  <2> QED
    BY <2>0, <2>1, <2>4 DEF L, Laid
<1> QED
  BY <1>1, <1>2

-----------------------------------------------------------------------------
(* The building blocks of the send functions.                               *)

\* A pulse: duration and level.
Step == Int \X {0, 1}

\* f is the symbols of s, coded with n pulses each.
Coded(f, s, code, n) ==
    /\ Len(f) = n * Len(s)
    /\ \A k \in 0..(Len(s) - 1) : \A j \in 1..n : f[n * k + j] = code[s[k + 1]][j]

\* f is m times s.
Repeats(f, m, s) ==
    /\ Len(f) = Len(s) * m
    /\ \A k \in 0..(m - 1) : \A j \in 1..Len(s) : f[Len(s) * k + j] = s[j]

\* Each codes the symbols of a sequence one after the other.
LEMMA EachWords ==
  ASSUME NEW A, NEW n \in Nat \ {0}, NEW code \in [A -> Seq(Step)],
         \A a \in A : Len(code[a]) = n, NEW s \in Seq(A)
  PROVE  /\ Each(s, code) \in Seq(Step)
         /\ Coded(Each(s, code), s, code, n)
<1> DEFINE ws == [i \in 1..Len(s) |-> code[s[i]]]
<1>1. \A i \in 1..Len(s) : s[i] \in A
  OBVIOUS
<1>2. \A a \in A : code[a] \in Seq(Step)
  OBVIOUS
<1>3. ws \in Seq(Seq(Step)) /\ Len(ws) = Len(s) /\ Len(s) \in Nat
  BY <1>1, <1>2
<1>4. \A i \in 1..Len(s) : ws[i] = code[s[i]]
  OBVIOUS
<1>5. Each(s, code) = FlattenSeq(ws)
  BY DEF Each
<1> HIDE DEF ws
<1>6. \A i \in 1..Len(ws) : Len(ws[i]) = n
  BY <1>1, <1>3, <1>4
<1> DEFINE f == FlattenSeq(ws)
<1>7. f \in Seq(Step) /\ Laid(f, ws, n)
  BY <1>3, <1>6, FlattenWords, Zenon
<1> HIDE DEF f
<1>8. ASSUME NEW k \in 0..(Len(s) - 1), NEW j \in 1..n PROVE f[n * k + j] = code[s[k + 1]][j]
  <2>1. f[n * k + j] = ws[k + 1][j]
    BY <1>3, <1>7 DEF Laid
  <2>2. k + 1 \in 1..Len(s)
    BY <1>3
  <2> QED
    BY <1>4, <2>1, <2>2
<1>9. Each(s, code) = f
  BY <1>5 DEF f
<1>10. Len(f) = n * Len(s)
  BY <1>3, <1>7 DEF Laid
<1> QED
  BY <1>7, <1>8, <1>9, <1>10, Zenon DEF Coded

\* Times repeats a sequence.
LEMMA TimesWords ==
  ASSUME NEW S, NEW m \in Nat, NEW s \in Seq(S), Len(s) > 0
  PROVE  Times(m, s) \in Seq(S) /\ Repeats(Times(m, s), m, s)
<1> DEFINE n == Len(s)
<1>0. n \in Nat \ {0} /\ n = Len(s)
  OBVIOUS
<1> HIDE DEF n
<1> DEFINE ws == [i \in 1..m |-> s]
<1>3. ws \in Seq(Seq(S)) /\ Len(ws) = m
  OBVIOUS
<1>4. \A i \in 1..m : ws[i] = s
  OBVIOUS
<1>5. Times(m, s) = FlattenSeq(ws)
  BY DEF Times
<1> HIDE DEF ws
<1>6. \A i \in 1..Len(ws) : Len(ws[i]) = n
  BY <1>0, <1>3, <1>4
<1> DEFINE f == FlattenSeq(ws)
<1>7. f \in Seq(S) /\ Laid(f, ws, n)
  BY <1>0, <1>3, <1>6, FlattenWords, Zenon
<1> HIDE DEF f
<1>8. ASSUME NEW k \in 0..(m - 1), NEW j \in 1..n PROVE f[n * k + j] = s[j]
  <2>1. f[n * k + j] = ws[k + 1][j]
    BY <1>0, <1>3, <1>7 DEF Laid
  <2>2. k + 1 \in 1..m
    OBVIOUS
  <2> QED
    BY <1>4, <2>1, <2>2
<1>9. Times(m, s) = f
  BY <1>5 DEF f
<1>10. Len(f) = n * m
  BY <1>0, <1>3, <1>7 DEF Laid
<1> QED
  BY <1>0, <1>7, <1>8, <1>9, <1>10, Zenon DEF Repeats

\* A pair is a mark and a space.
LEMMA PairOf ==
  ASSUME NEW h \in Int, NEW l \in Int
  PROVE  /\ Pair(h, l) \in Seq(Step)
         /\ Len(Pair(h, l)) = 2
         /\ Pair(h, l)[1] = <<h, 0>>
         /\ Pair(h, l)[2] = <<l, 1>>
<1>1. <<h, 0>> \in Step /\ <<l, 1>> \in Step
  BY DEF Step
<1> DEFINE u == On(h)
<1> DEFINE w == Off(l)
<1>2. u \in Seq(Step) /\ Len(u) = 1 /\ u[1] = <<h, 0>>
  BY <1>1 DEF On
<1>3. w \in Seq(Step) /\ Len(w) = 1 /\ w[1] = <<l, 1>>
  BY <1>1 DEF Off
<1>4. Pair(h, l) = u \o w
  BY DEF Pair
<1> HIDE DEF u, w
<1>5. /\ u \o w \in Seq(Step) /\ Len(u \o w) = 1 + 1
      /\ (u \o w)[1] = u[1] /\ (u \o w)[1 + 1] = w[1]
  BY <1>2, <1>3, Joined DEF Joins
<1> QED
  BY <1>2, <1>3, <1>4, <1>5

\* Two pairs are two marks, each with its space.
LEMMA FourOf ==
  ASSUME NEW a \in Int, NEW b \in Int, NEW c \in Int, NEW d \in Int
  PROVE  /\ Pair(a, b) \o Pair(c, d) \in Seq(Step)
         /\ Len(Pair(a, b) \o Pair(c, d)) = 4
         /\ (Pair(a, b) \o Pair(c, d))[1] = <<a, 0>>
         /\ (Pair(a, b) \o Pair(c, d))[2] = <<b, 1>>
         /\ (Pair(a, b) \o Pair(c, d))[3] = <<c, 0>>
         /\ (Pair(a, b) \o Pair(c, d))[4] = <<d, 1>>
<1> DEFINE u == Pair(a, b)
<1> DEFINE w == Pair(c, d)
<1>1. /\ u \in Seq(Step) /\ Len(u) = 2 /\ u[1] = <<a, 0>> /\ u[2] = <<b, 1>>
      /\ w \in Seq(Step) /\ Len(w) = 2 /\ w[1] = <<c, 0>> /\ w[2] = <<d, 1>>
  BY PairOf
<1> HIDE DEF u, w
<1>2. /\ u \o w \in Seq(Step) /\ Len(u \o w) = 4
      /\ (u \o w)[1] = u[1] /\ (u \o w)[2] = u[2] /\ (u \o w)[3] = w[1] /\ (u \o w)[4] = w[2]
  <2> DEFINE e == u \o w
  <2>1. e \in Seq(Step) /\ Joins(e, u, w)
    BY <1>1, Joined, Zenon
  <2> HIDE DEF e
  <2>2. /\ Len(e) = 4 /\ e[1] = u[1] /\ e[2] = u[2]
        /\ e[2 + 1] = w[1] /\ e[2 + 2] = w[2]
    BY <1>1, <2>1 DEF Joins
  <2> QED
    BY <2>1, <2>2 DEF e
<1> QED
  BY <1>1, <1>2 DEF u, w

\* The codes.
Half(b) == IF b = 1 THEN 600 ELSE 400
High(b) == IF b = 1 THEN 800 ELSE 400

\* The code of FS20: two equal halves, 400 us for a 0, 600 us for a 1.
LEMMA Fs20Code ==
  /\ Fs20Bit \in [Bit -> Seq(Step)]
  /\ \A b \in Bit : /\ Len(Fs20Bit[b]) = 2
                       /\ Fs20Bit[b][1] = <<Half(b), 0>> /\ Fs20Bit[b][2] = <<Half(b), 1>>
<1>1. \A b \in Bit : Fs20Bit[b] = Pair(Half(b), Half(b)) /\ Half(b) \in Int
  BY DEF Fs20Bit, Half, Bit
<1>2. \A b \in Bit : Fs20Bit[b] \in Seq(Step)
  BY <1>1, PairOf
<1>3. Fs20Bit = [b \in Bit |-> Fs20Bit[b]]
  BY DEF Fs20Bit, Bit
<1>4. Fs20Bit \in [Bit -> Seq(Step)]
  BY <1>2, <1>3
<1> QED
  BY <1>1, <1>4, PairOf

\* The code of HMS: the mark is the bit, the space is always 400 us.
LEMMA HmsCode ==
  /\ HmsBit \in [Bit -> Seq(Step)]
  /\ \A b \in Bit : /\ Len(HmsBit[b]) = 2
                       /\ HmsBit[b][1] = <<High(b), 0>> /\ HmsBit[b][2] = <<400, 1>>
<1>1. \A b \in Bit : HmsBit[b] = Pair(High(b), 400) /\ High(b) \in Int
  BY DEF HmsBit, High, Bit
<1>2. \A b \in Bit : HmsBit[b] \in Seq(Step)
  BY <1>1, PairOf
<1>3. HmsBit = [b \in Bit |-> HmsBit[b]]
  BY DEF HmsBit, Bit
<1>4. HmsBit \in [Bit -> Seq(Step)]
  BY <1>2, <1>3
<1> QED
  BY <1>1, <1>4, PairOf

\* The code of FHT: a mark and a space.
LEMMA FhtCode ==
  /\ FhtBit \in [Bit -> Seq(Step)]
  /\ \A b \in Bit : Len(FhtBit[b]) = 2
<1>1. /\ FhtBit[0] = Pair(400, 600) /\ FhtBit[1] = Pair(600, 400)
  BY DEF FhtBit, Bit
<1>2. \A b \in Bit : FhtBit[b] \in Seq(Step) /\ Len(FhtBit[b]) = 2
  BY <1>1, PairOf DEF Bit
<1>3. FhtBit = [b \in Bit |-> FhtBit[b]]
  BY DEF FhtBit, Bit
<1> QED
  BY <1>2, <1>3

\* The code of Oregon: a mark and a space, or the other way round.
LEMMA OsCode ==
  /\ OsBit \in [Bit -> Seq(Step)]
  /\ \A b \in Bit : Len(OsBit[b]) = 2
<1>1. /\ OsBit[0] = Pair(500, 500) /\ OsBit[1] = Off(500) \o On(500)
  BY DEF OsBit, Bit
<1>2. /\ Off(500) \in Seq(Step) /\ Len(Off(500)) = 1
      /\ On(500) \in Seq(Step) /\ Len(On(500)) = 1
  BY DEF Step, Off, On
<1> DEFINE u == Off(500)
<1> DEFINE w == On(500)
<1>a. u \in Seq(Step) /\ w \in Seq(Step) /\ Len(u) = 1 /\ Len(w) = 1 /\ OsBit[1] = u \o w
  BY <1>1, <1>2
<1> HIDE DEF u, w
<1>b. u \o w \in Seq(Step) /\ Len(u \o w) = 2
  BY <1>a, Joined DEF Joins
<1>c. OsBit[0] \in Seq(Step) /\ Len(OsBit[0]) = 2
  BY <1>1, PairOf
<1>3. \A b \in Bit : OsBit[b] \in Seq(Step) /\ Len(OsBit[b]) = 2
  BY <1>a, <1>b, <1>c DEF Bit
<1>4. OsBit = [b \in Bit |-> OsBit[b]]
  BY DEF OsBit, Bit
<1> QED
  BY <1>3, <1>4

\* The code of Intertechno V1, T being 420 us.
LEMMA ItV1Code ==
  /\ ItV1Bit \in [{"0", "1", "F"} -> Seq(Step)]
  /\ \A c \in {"0", "1", "F"} : Len(ItV1Bit[c]) = 4
  /\ ItV1Bit["0"][1][1] = 420 /\ ItV1Bit["0"][2][1] = 1260
  /\ ItV1Bit["0"][3][1] = 420 /\ ItV1Bit["0"][4][1] = 1260
  /\ ItV1Bit["1"][1][1] = 1260 /\ ItV1Bit["1"][2][1] = 420
  /\ ItV1Bit["1"][3][1] = 1260 /\ ItV1Bit["1"][4][1] = 420
  /\ ItV1Bit["F"][1][1] = 420 /\ ItV1Bit["F"][2][1] = 1260
  /\ ItV1Bit["F"][3][1] = 1260 /\ ItV1Bit["F"][4][1] = 420
<1>1. /\ ItV1Bit["0"] = Pair(420, 1260) \o Pair(420, 1260)
      /\ ItV1Bit["1"] = Pair(1260, 420) \o Pair(1260, 420)
      /\ ItV1Bit["F"] = Pair(420, 1260) \o Pair(1260, 420)
  BY DEF ItV1Bit
<1>2. ItV1Bit = [c \in {"0", "1", "F"} |-> ItV1Bit[c]]
  BY DEF ItV1Bit
<1>3. ItV1Bit["0"] \in Seq(Step) /\ ItV1Bit["1"] \in Seq(Step) /\ ItV1Bit["F"] \in Seq(Step)
  BY <1>1, FourOf
<1>4. ItV1Bit \in [{"0", "1", "F"} -> Seq(Step)]
  BY <1>2, <1>3
<1>5. ItV1Bit["0"][1] = <<420, 0>> /\ ItV1Bit["0"][2] = <<1260, 1>>
      /\ ItV1Bit["0"][3] = <<420, 0>> /\ ItV1Bit["0"][4] = <<1260, 1>> /\ Len(ItV1Bit["0"]) = 4
  BY <1>1, FourOf
<1>6. ItV1Bit["1"][1] = <<1260, 0>> /\ ItV1Bit["1"][2] = <<420, 1>>
      /\ ItV1Bit["1"][3] = <<1260, 0>> /\ ItV1Bit["1"][4] = <<420, 1>> /\ Len(ItV1Bit["1"]) = 4
  BY <1>1, FourOf
<1>7. ItV1Bit["F"][1] = <<420, 0>> /\ ItV1Bit["F"][2] = <<1260, 1>>
      /\ ItV1Bit["F"][3] = <<1260, 0>> /\ ItV1Bit["F"][4] = <<420, 1>> /\ Len(ItV1Bit["F"]) = 4
  BY <1>1, FourOf
<1> QED
  BY <1>4, <1>5, <1>6, <1>7

\* The code of Intertechno V3, T being 300 us.
LEMMA ItV3Code ==
  /\ ItV3Bit \in [{"0", "1"} -> Seq(Step)]
  /\ \A c \in {"0", "1"} : Len(ItV3Bit[c]) = 4
  /\ ItV3Bit["0"][1][1] = 300 /\ ItV3Bit["0"][2][1] = 900
  /\ ItV3Bit["0"][3][1] = 300 /\ ItV3Bit["0"][4][1] = 900
  /\ ItV3Bit["1"][1][1] = 300 /\ ItV3Bit["1"][2][1] = 900
  /\ ItV3Bit["1"][3][1] = 900 /\ ItV3Bit["1"][4][1] = 300
<1>1. /\ ItV3Bit["0"] = Pair(300, 900) \o Pair(300, 900)
      /\ ItV3Bit["1"] = Pair(300, 900) \o Pair(900, 300)
  BY DEF ItV3Bit
<1>2. ItV3Bit = [c \in {"0", "1"} |-> ItV3Bit[c]]
  BY DEF ItV3Bit
<1>3. ItV3Bit["0"] \in Seq(Step) /\ ItV3Bit["1"] \in Seq(Step)
  BY <1>1, FourOf
<1>4. ItV3Bit \in [{"0", "1"} -> Seq(Step)]
  BY <1>2, <1>3
<1>5. ItV3Bit["0"][1] = <<300, 0>> /\ ItV3Bit["0"][2] = <<900, 1>>
      /\ ItV3Bit["0"][3] = <<300, 0>> /\ ItV3Bit["0"][4] = <<900, 1>> /\ Len(ItV3Bit["0"]) = 4
  BY <1>1, FourOf
<1>6. ItV3Bit["1"][1] = <<300, 0>> /\ ItV3Bit["1"][2] = <<900, 1>>
      /\ ItV3Bit["1"][3] = <<900, 0>> /\ ItV3Bit["1"][4] = <<300, 1>> /\ Len(ItV3Bit["1"]) = 4
  BY <1>1, FourOf
<1> QED
  BY <1>4, <1>5, <1>6

-----------------------------------------------------------------------------
(* The trains of the send functions.                                        *)

\* t is s and then x.
Extends(t, s, x) ==
    /\ Len(t) = Len(s) + 1
    /\ t[Len(s) + 1] = x
    /\ \A i \in 1..Len(s) : t[i] = s[i]

\* Append extends a sequence by one.
LEMMA Appended ==
  ASSUME NEW S, NEW s \in Seq(S), NEW x \in S
  PROVE  Append(s, x) \in Seq(S) /\ Extends(Append(s, x), s, x)
BY DEF Extends

\* The elements of a sequence over S are in S.
LEMMA SymbolsOf ==
  ASSUME NEW S, NEW s \in Seq(S)
  PROVE  \A i \in 1..Len(s) : s[i] \in S
OBVIOUS

\* WithParity leaves a byte alone and puts its parity behind it.
LEMMA ParityBit ==
  ASSUME NEW b \in Word(8, Bit)
  PROVE  /\ WithParity(b) \in Seq(Bit)
         /\ Len(WithParity(b)) = 9
         /\ \A j \in 1..8 : WithParity(b)[j] = b[j]
         /\ WithParity(b)[9] = (b[1] + b[2] + b[3] + b[4] + b[5] + b[6] + b[7] + b[8]) % 2
<1>1. b \in Seq(Bit) /\ Len(b) = 8
  BY DEF Word
<1> DEFINE sum == b[1] + b[2] + b[3] + b[4] + b[5] + b[6] + b[7] + b[8]
<1> DEFINE p == sum % 2
<1>2. p \in Bit
  <2>a. \A j \in 1..Len(b) : b[j] \in Bit
    BY <1>1, SymbolsOf, Zenon
  <2>0. \A j \in 1..8 : b[j] \in Bit
    BY <1>1, <2>a
  <2>1. /\ b[1] \in Int /\ b[2] \in Int /\ b[3] \in Int /\ b[4] \in Int
        /\ b[5] \in Int /\ b[6] \in Int /\ b[7] \in Int /\ b[8] \in Int
    BY <2>0 DEF Bit
  <2>2. sum \in Int
    BY <2>1
  <2> HIDE DEF sum
  <2> QED
    BY <2>2 DEF Bit
<1>3. WithParity(b) = Append(b, p)
  BY DEF WithParity
<1> HIDE DEF p
<1> DEFINE w == Append(b, p)
<1>4. w \in Seq(Bit) /\ Len(w) = 9 /\ w[9] = p /\ \A j \in 1..8 : w[j] = b[j]
  <2>1. w \in Seq(Bit) /\ Extends(w, b, p)
    BY <1>1, <1>2, Appended, Zenon
  <2> HIDE DEF w
  <2> QED
    BY <1>1, <2>1 DEF Extends
<1> QED
  BY <1>3, <1>4 DEF p

\* The bits of an FS20 frame.
LEMMA FsBits ==
  ASSUME NEW bytes \in Seq(Word(8, Bit))
  PROVE  /\ Fs20Bits(bytes) \in Seq(Bit)
         /\ Len(Fs20Bits(bytes)) = 26 + 9 * Len(bytes)
         /\ \A i \in 1..24 : Fs20Bits(bytes)[i] = 0
         /\ Fs20Bits(bytes)[25] = 1
         /\ \A q \in 0..(Len(bytes) - 1) : \A j \in 1..9 :
               Fs20Bits(bytes)[25 + 9 * q + j] = WithParity(bytes[q + 1])[j]
         /\ Fs20Bits(bytes)[26 + 9 * Len(bytes)] = 0
<1> DEFINE n == Len(bytes)
<1> DEFINE z == Times(24, <<0>>)
<1> DEFINE ws == [i \in 1..Len(bytes) |-> WithParity(bytes[i])]
<1> DEFINE f == FlattenSeq(ws)
<1>0. n \in Nat /\ \A i \in 1..n : bytes[i] \in Word(8, Bit)
  OBVIOUS
<1>1. z \in Seq(Bit) /\ Len(z) = 24 /\ \A i \in 1..24 : z[i] = 0
  <2>1. <<0>> \in Seq(Bit) /\ Len(<<0>>) = 1 /\ <<0>>[1] = 0
    BY DEF Bit
  <2>2. z \in Seq(Bit) /\ Repeats(z, 24, <<0>>)
    <3>1. 24 \in Nat /\ Len(<<0>>) > 0
      BY <2>1
    <3> QED
      BY <2>1, <3>1, TimesWords, Zenon
  <2>3. ASSUME NEW i \in 1..24 PROVE z[i] = 0
    <3>1. i - 1 \in 0..(24 - 1) /\ 1 \in 1..1 /\ 1 * (i - 1) + 1 = i
      OBVIOUS
    <3> HIDE DEF z
    <3> QED
      BY <2>1, <2>2, <3>1 DEF Repeats
  <2>4. Len(z) = 24
    <3> HIDE DEF z
    <3> QED
      BY <2>1, <2>2 DEF Repeats
  <2> QED
    BY <2>2, <2>3, <2>4
<1>2. ws \in Seq(Seq(Bit)) /\ Len(ws) = n /\ \A i \in 1..n : ws[i] = WithParity(bytes[i]) /\ Len(ws[i]) = 9
  <2>1. \A i \in 1..n : WithParity(bytes[i]) \in Seq(Bit) /\ Len(WithParity(bytes[i])) = 9
    BY <1>0, ParityBit
  <2> QED
    BY <1>0, <2>1
<1>3. f \in Seq(Bit) /\ Laid(f, ws, 9)
  <2> HIDE DEF ws
  <2>1. 9 \in Nat \ {0} /\ \A i \in 1..Len(ws) : Len(ws[i]) = 9
    BY <1>2
  <2> QED
    BY <1>2, <2>1, FlattenWords, Zenon
<1> DEFINE v == z \o <<1>>
<1> DEFINE u == v \o f
<1>4. Fs20Bits(bytes) = u \o <<0>>
  BY DEF Fs20Bits
<1> HIDE DEF z, f, ws, n
<1>5. Len(f) = 9 * n /\ \A q \in 0..(n - 1) : \A j \in 1..9 : f[9 * q + j] = WithParity(bytes[q + 1])[j]
  <2>1. Len(f) = 9 * n
    BY <1>2, <1>3 DEF Laid
  <2>2. ASSUME NEW q \in 0..(n - 1), NEW j \in 1..9 PROVE f[9 * q + j] = WithParity(bytes[q + 1])[j]
    <3>1. f[9 * q + j] = ws[q + 1][j]
      BY <1>2, <1>3 DEF Laid
    <3>2. q + 1 \in 1..n
      BY <1>0
    <3> QED
      BY <1>2, <3>1, <3>2
  <2> QED
    BY <2>1, <2>2
<1>6. v \in Seq(Bit) /\ Len(v) = 25 /\ v[25] = 1 /\ \A i \in 1..24 : v[i] = 0
  <2>1. <<1>> \in Seq(Bit) /\ Len(<<1>>) = 1 /\ <<1>>[1] = 1
    BY DEF Bit
  <2>2. v \in Seq(Bit) /\ Joins(v, z, <<1>>)
    BY <1>1, <2>1, Joined, Zenon
  <2> HIDE DEF v
  <2> QED
    BY <1>1, <2>1, <2>2 DEF Joins
<1> HIDE DEF v
<1>7. /\ u \in Seq(Bit) /\ Len(u) = 25 + 9 * n
      /\ \A i \in 1..25 : u[i] = v[i]
      /\ \A i \in 1..(9 * n) : u[25 + i] = f[i]
  <2>1. u \in Seq(Bit) /\ Joins(u, v, f)
    BY <1>3, <1>6, Joined, Zenon
  <2> HIDE DEF u
  <2> QED
    BY <1>5, <1>6, <2>1 DEF Joins
<1> HIDE DEF u
<1> DEFINE e == u \o <<0>>
<1>8. /\ e \in Seq(Bit) /\ Len(e) = Len(u) + 1
      /\ \A i \in 1..Len(u) : e[i] = u[i]
      /\ e[Len(u) + 1] = 0
  <2>1. <<0>> \in Seq(Bit) /\ Len(<<0>>) = 1 /\ <<0>>[1] = 0
    BY DEF Bit
  <2>2. e \in Seq(Bit) /\ Joins(e, u, <<0>>)
    BY <1>7, <2>1, Joined, Zenon
  <2> HIDE DEF e
  <2> QED
    BY <2>1, <2>2 DEF Joins
<1> HIDE DEF e
<1>9. \A q \in 0..(n - 1) : \A j \in 1..9 : e[25 + 9 * q + j] = WithParity(bytes[q + 1])[j]
  <2> SUFFICES ASSUME NEW q \in 0..(n - 1), NEW j \in 1..9
               PROVE  e[25 + 9 * q + j] = WithParity(bytes[q + 1])[j]
    OBVIOUS
  <2>0. Len(u) = 25 + 9 * n /\ n \in Nat /\ q \in Nat /\ q <= n - 1
    BY <1>0, <1>7
  <2>1. 9 * q + j \in 1..(9 * n) /\ 25 + 9 * q + j \in 1..Len(u) /\ 25 + 9 * q + j = 25 + (9 * q + j)
    BY <2>0
  <2>2. e[25 + (9 * q + j)] = u[25 + (9 * q + j)] /\ u[25 + (9 * q + j)] = f[9 * q + j]
    BY <1>7, <1>8, <2>1
  <2> QED
    BY <1>5, <2>1, <2>2
<1>10. e[25] = 1 /\ \A i \in 1..24 : e[i] = 0
  BY <1>0, <1>6, <1>7, <1>8
<1>11. Len(e) = 26 + 9 * n /\ e[26 + 9 * n] = 0
  BY <1>0, <1>7, <1>8
<1>12. Fs20Bits(bytes) = e
  BY <1>4 DEF e
<1> QED
  BY <1>8, <1>9, <1>10, <1>11, <1>12 DEF n

\* The pulses of an FS20 frame: two halves for each bit, and then the gap.
FsPulses(t, bits, L) ==
    /\ Len(t) = 2 * L
    /\ \A m \in 0..(L - 1) : t[2 * m + 1] = <<Half(bits[m + 1]), 0>>
    /\ \A m \in 0..(L - 2) : t[2 * m + 2] = <<Half(bits[m + 1]), 1>>
    /\ t[2 * L] = <<10400, 1>>

\* cc1101_send_raw_slowrf sends these pulses.
LEMMA FsTrain ==
  ASSUME NEW bytes \in Seq(Word(8, Bit)), NEW L, L = 26 + 9 * Len(bytes)
  PROVE  /\ cc1101_send_raw_slowrf(bytes) \in Seq(Step)
         /\ FsPulses(cc1101_send_raw_slowrf(bytes), Fs20Bits(bytes), L)
<1> DEFINE bits == Fs20Bits(bytes)
<1> DEFINE w == Each(bits, Fs20Bit)
<1>0. Len(bytes) \in Nat /\ L \in Nat /\ L >= 26
  OBVIOUS
<1>1. bits \in Seq(Bit) /\ Len(bits) = L /\ bits[L] = 0
  BY FsBits
<1> HIDE DEF bits
<1>2. w \in Seq(Step) /\ Coded(w, bits, Fs20Bit, 2)
  <2>1. 2 \in Nat \ {0} /\ \A a \in Bit : Len(Fs20Bit[a]) = 2
    BY Fs20Code
  <2> QED
    BY <1>1, <2>1, Fs20Code, EachWords, Zenon
<1> HIDE DEF w
<1>3. ASSUME NEW m \in 0..(L - 1)
      PROVE  w[2 * m + 1] = <<Half(bits[m + 1]), 0>> /\ w[2 * m + 2] = <<Half(bits[m + 1]), 1>>
  <2>1. bits[m + 1] \in Bit
    BY <1>0, <1>1
  <2>2. w[2 * m + 1] = Fs20Bit[bits[m + 1]][1] /\ w[2 * m + 2] = Fs20Bit[bits[m + 1]][2]
    BY <1>0, <1>1, <1>2 DEF Coded
  <2> QED
    BY <2>1, <2>2, Fs20Code
<1>4. w[2 * L] = <<400, 1>>
  <2>1. L - 1 \in 0..(L - 1) /\ (L - 1) + 1 = L /\ 2 * (L - 1) + 2 = 2 * L
    BY <1>0
  <2>2. w[2 * (L - 1) + 2] = <<Half(bits[L - 1 + 1]), 1>>
    BY <1>3, <2>1, Zenon
  <2> QED
    BY <1>1, <2>1, <2>2 DEF Half
<1> DEFINE t == [w EXCEPT ![2 * L] = <<10400, 1>>]
<1>5. cc1101_send_raw_slowrf(bytes) = t
  <2>1. Longer(w, 10000) = [w EXCEPT ![Len(w)] = <<w[Len(w)][1] + 10000, w[Len(w)][2]>>]
    BY DEF Longer
  <2>2. Len(w) = 2 * L /\ w[Len(w)][1] + 10000 = 10400 /\ w[Len(w)][2] = 1
    BY <1>1, <1>2, <1>4 DEF Coded
  <2> QED
    BY <2>1, <2>2 DEF cc1101_send_raw_slowrf, w, bits
<1>6. <<10400, 1>> \in Step
  BY DEF Step
<1>7. /\ t \in Seq(Step) /\ Len(t) = 2 * L /\ t[2 * L] = <<10400, 1>>
      /\ \A i \in 1..(2 * L - 1) : t[i] = w[i]
  BY <1>0, <1>1, <1>2, <1>6 DEF Coded
<1> HIDE DEF t
<1>8. \A m \in 0..(L - 1) : t[2 * m + 1] = <<Half(bits[m + 1]), 0>>
  <2> SUFFICES ASSUME NEW m \in 0..(L - 1) PROVE t[2 * m + 1] = <<Half(bits[m + 1]), 0>>
    OBVIOUS
  <2>1. 2 * m + 1 \in 1..(2 * L - 1)
    BY <1>0
  <2>2. t[2 * m + 1] = w[2 * m + 1]
    BY <1>7, <2>1
  <2> QED
    BY <1>3, <2>1, <2>2, Zenon
<1>9. \A m \in 0..(L - 2) : t[2 * m + 2] = <<Half(bits[m + 1]), 1>>
  <2> SUFFICES ASSUME NEW m \in 0..(L - 2) PROVE t[2 * m + 2] = <<Half(bits[m + 1]), 1>>
    OBVIOUS
  <2>1. 2 * m + 2 \in 1..(2 * L - 1) /\ m \in 0..(L - 1)
    BY <1>0
  <2>2. t[2 * m + 2] = w[2 * m + 2]
    BY <1>7, <2>1
  <2> QED
    BY <1>3, <2>1, <2>2, Zenon
<1>10. FsPulses(t, bits, L)
  BY <1>0, <1>7, <1>8, <1>9 DEF FsPulses
<1> QED
  BY <1>5, <1>7, <1>10 DEF bits

\* The level at the end of w lasts longer.
Lengthened(t, w, us) ==
    /\ Len(t) = Len(w)
    /\ t[Len(w)] = <<w[Len(w)][1] + us, w[Len(w)][2]>>
    /\ \A i \in 1..(Len(w) - 1) : t[i] = w[i]

\* Longer makes the last pulse of a train longer.
LEMMA LongerStep ==
  ASSUME NEW w \in Seq(Step), Len(w) > 0, NEW us \in Int
  PROVE  Longer(w, us) \in Seq(Step) /\ Lengthened(Longer(w, us), w, us)
<1> DEFINE n == Len(w)
<1> DEFINE x == <<w[n][1] + us, w[n][2]>>
<1>1. n \in Nat /\ n \in 1..n /\ w[n] \in Step
  OBVIOUS
<1>2. x \in Step
  BY <1>1 DEF Step
<1>3. Longer(w, us) = [w EXCEPT ![n] = x]
  BY DEF Longer
<1> HIDE DEF x
<1>4. /\ [w EXCEPT ![n] = x] \in Seq(Step)
      /\ Len([w EXCEPT ![n] = x]) = n
      /\ [w EXCEPT ![n] = x][n] = x
      /\ \A i \in 1..(n - 1) : [w EXCEPT ![n] = x][i] = w[i]
  BY <1>1, <1>2
<1> QED
  BY <1>3, <1>4, Zenon DEF Lengthened, x, n

\* The pulses of an HMS frame: 16 zeros, then the bits of the nibbles.
HmsPreamble(t) == \A m \in 0..15 : t[2 * m + 1] = <<400, 0>>
HmsMarks(t, nibs, n) ==
    \A q \in 0..(n - 1) : \A j \in 1..4 :
        t[32 + 8 * q + 2 * j - 1] = <<High(nibs[q + 1][j]), 0>>
HmsSpaces(t, n) ==
    /\ Len(t) = 32 + 8 * n
    /\ \A m \in 0..(14 + 4 * n) : t[2 * m + 2] = <<400, 1>>
    /\ t[32 + 8 * n] = <<10400, 1>>

\* cc1101_send_hms sends these pulses.
LEMMA HmsTrain ==
  ASSUME NEW nibs \in Seq(Word(4, Bit))
  PROVE  LET t == cc1101_send_hms(nibs)
             n == Len(nibs)
         IN  t \in Seq(Step) /\ HmsPreamble(t) /\ HmsMarks(t, nibs, n) /\ HmsSpaces(t, n)
<1> DEFINE n == Len(nibs)
<1> DEFINE bits == FlattenSeq(nibs)
<1> DEFINE w == Each(bits, HmsBit)
<1> DEFINE u == Pair(400, 400)
<1> DEFINE p == Times(16, u)
<1> DEFINE c == p \o w
<1> DEFINE us == 10000
<1> DEFINE t == Longer(c, us)
<1>a. cc1101_send_hms(nibs) = t
  BY DEF cc1101_send_hms
<1>0. n \in Nat /\ \A i \in 1..n : nibs[i] \in Word(4, Bit)
  OBVIOUS
<1>1. bits \in Seq(Bit) /\ Laid(bits, nibs, 4)
  <2>1. \A i \in 1..Len(nibs) : nibs[i] \in Seq(Bit) /\ Len(nibs[i]) = 4
    BY <1>0 DEF Word
  <2>2. nibs \in Seq(Seq(Bit)) /\ 4 \in Nat \ {0}
    BY <2>1
  <2> QED
    BY <2>1, <2>2, FlattenWords, Zenon
<1> HIDE DEF bits, n
<1>2. w \in Seq(Step) /\ Coded(w, bits, HmsBit, 2)
  <2>1. 2 \in Nat \ {0} /\ \A a \in Bit : Len(HmsBit[a]) = 2
    BY HmsCode
  <2> QED
    BY <1>1, <2>1, HmsCode, EachWords, Zenon
<1> HIDE DEF w
<1>b. u \in Seq(Step) /\ Len(u) = 2 /\ u[1] = <<400, 0>> /\ u[2] = <<400, 1>>
  BY PairOf
<1>c. us = 10000
  OBVIOUS
<1> HIDE DEF u, us
<1>3. p \in Seq(Step) /\ Repeats(p, 16, u)
  <2>1. 16 \in Nat /\ Len(u) > 0
    BY <1>b
  <2> QED
    BY <1>b, <2>1, TimesWords, Zenon
<1> HIDE DEF p
<1>4. Len(p) = 32 /\ \A m \in 0..15 : p[2 * m + 1] = <<400, 0>> /\ p[2 * m + 2] = <<400, 1>>
  <2>2. Len(p) = 32
    BY <1>b, <1>3 DEF Repeats
  <2>3. ASSUME NEW m \in 0..15 PROVE p[2 * m + 1] = <<400, 0>> /\ p[2 * m + 2] = <<400, 1>>
    <3>1. m \in 0..(16 - 1) /\ 1 \in 1..Len(u) /\ 2 \in 1..Len(u)
      BY <1>b
    <3>2. p[Len(u) * m + 1] = u[1] /\ p[Len(u) * m + 2] = u[2]
      BY <1>3, <3>1 DEF Repeats
    <3> QED
      BY <1>b, <3>1, <3>2
  <2> QED
    BY <2>2, <2>3
<1>5. Len(bits) = 4 * n /\ Len(w) = 8 * n
  BY <1>0, <1>1, <1>2 DEF Laid, Coded, n
<1>6. ASSUME NEW m \in 0..(4 * n - 1)
      PROVE  w[2 * m + 1] = <<High(bits[m + 1]), 0>> /\ w[2 * m + 2] = <<400, 1>>
  <2>1. m + 1 \in 1..Len(bits) /\ m \in 0..(Len(bits) - 1)
    BY <1>0, <1>5
  <2>2. bits[m + 1] \in Bit
    BY <1>1, <2>1
  <2>3. w[2 * m + 1] = HmsBit[bits[m + 1]][1] /\ w[2 * m + 2] = HmsBit[bits[m + 1]][2]
    BY <1>2, <2>1 DEF Coded
  <2> QED
    BY <2>2, <2>3, HmsCode
<1>7. c \in Seq(Step) /\ Joins(c, p, w)
  BY <1>2, <1>3, Joined, Zenon
<1> HIDE DEF c
<1>8. /\ Len(c) = 32 + 8 * n
      /\ \A i \in 1..32 : c[i] = p[i]
      /\ \A i \in 1..(8 * n) : c[32 + i] = w[i]
  BY <1>4, <1>5, <1>7 DEF Joins
<1>9. t \in Seq(Step) /\ Lengthened(t, c, us)
  <2>1. Len(c) > 0
    <3>1. n \in Nat /\ Len(c) = 32 + 8 * n
      BY <1>0, <1>8
    <3> QED
      BY <3>1
  <2>2. us \in Int
    BY <1>c
  <2> QED
    BY <1>7, <2>1, <2>2, LongerStep, Zenon
<1> HIDE DEF t
<1>10. \A i \in 1..(31 + 8 * n) : t[i] = c[i]
  <2>1. Len(c) - 1 = 31 + 8 * n
    BY <1>0, <1>8
  <2> QED
    BY <1>9, <2>1, Zenon DEF Lengthened
<1>11. ASSUME NEW m \in 0..(15 + 4 * n) PROVE c[2 * m + 2] = <<400, 1>>
  <2>1. CASE m <= 15
    <3>1. m \in 0..15 /\ 2 * m + 2 \in 1..32
      BY <2>1
    <3>2. c[2 * m + 2] = p[2 * m + 2]
      BY <1>8, <3>1
    <3> QED
      BY <1>4, <3>1, <3>2
  <2>2. CASE m > 15
    <3> DEFINE k == m - 16
    <3>1. k \in 0..(4 * n - 1) /\ 2 * k + 2 \in 1..(8 * n) /\ 2 * m + 2 = 32 + (2 * k + 2)
      BY <1>0, <2>2
    <3> HIDE DEF k
    <3>2. c[32 + (2 * k + 2)] = w[2 * k + 2]
      BY <1>8, <3>1, Zenon
    <3> QED
      BY <1>6, <3>1, <3>2
  <2> QED
    BY <1>0, <2>1, <2>2
<1>12. HmsPreamble(t)
  <2> SUFFICES ASSUME NEW m \in 0..15 PROVE t[2 * m + 1] = <<400, 0>>
    BY DEF HmsPreamble
  <2>1. 2 * m + 1 \in 1..32 /\ 2 * m + 1 \in 1..(31 + 8 * n)
    BY <1>0
  <2> QED
    BY <1>4, <1>8, <1>10, <2>1, Zenon
<1>13. HmsMarks(t, nibs, n)
  <2> SUFFICES ASSUME NEW q \in 0..(n - 1), NEW j \in 1..4
               PROVE  t[32 + 8 * q + 2 * j - 1] = <<High(nibs[q + 1][j]), 0>>
    BY DEF HmsMarks
  <2> DEFINE m == 4 * q + j - 1
  <2>0. q \in Nat /\ q <= n - 1 /\ j \in Nat /\ 1 <= j /\ j <= 4
    BY <1>0
  <2>1. /\ m \in 0..(4 * n - 1) /\ 2 * m + 1 \in 1..(8 * n)
        /\ 32 + 8 * q + 2 * j - 1 = 32 + (2 * m + 1) /\ 32 + (2 * m + 1) \in 1..(31 + 8 * n)
        /\ m + 1 = 4 * q + j
    BY <1>0, <2>0
  <2> HIDE DEF m
  <2>2. bits[m + 1] = nibs[q + 1][j]
    <3>1. q \in 0..(Len(nibs) - 1)
      BY DEF n
    <3>2. bits[4 * q + j] = nibs[q + 1][j]
      BY <1>1, <3>1, Zenon DEF Laid
    <3> QED
      BY <2>1, <3>2
  <2>3. t[32 + (2 * m + 1)] = w[2 * m + 1]
    BY <1>8, <1>10, <2>1, Zenon
  <2> QED
    BY <1>6, <2>1, <2>2, <2>3, Zenon
<1>14. \A m \in 0..(14 + 4 * n) : t[2 * m + 2] = <<400, 1>>
  <2> SUFFICES ASSUME NEW m \in 0..(14 + 4 * n) PROVE t[2 * m + 2] = <<400, 1>>
    OBVIOUS
  <2>1. m \in 0..(15 + 4 * n) /\ 2 * m + 2 \in 1..(31 + 8 * n)
    BY <1>0
  <2> QED
    BY <1>10, <1>11, <2>1, Zenon
<1>15. t[32 + 8 * n] = <<10400, 1>>
  <2>1. 15 + 4 * n \in 0..(15 + 4 * n) /\ 2 * (15 + 4 * n) + 2 = 32 + 8 * n
    BY <1>0
  <2>2. c[32 + 8 * n] = <<400, 1>>
    BY <1>11, <2>1
  <2> QED
    BY <1>8, <1>9, <1>c, <2>2 DEF Lengthened
<1>16. Len(t) = 32 + 8 * n
  BY <1>8, <1>9 DEF Lengthened
<1>17. HmsSpaces(t, n)
  BY <1>0, <1>14, <1>15, <1>16 DEF HmsSpaces
<1> QED
  BY <1>a, <1>9, <1>12, <1>13, <1>17, Zenon DEF n

\* The pulses of an Intertechno frame: four for each symbol, from at on.
Coded4(t, at, data, code, n) ==
    \A q \in 0..(n - 1) : \A j \in 1..4 : t[at + 4 * q + j] = code[data[q + 1]][j]

\* Behind them V1 has a pair whose space is the gap.
It1End(t, n) ==
    /\ Len(t) = 4 * n + 2
    /\ t[4 * n + 1] = <<420, 0>>
    /\ t[4 * n + 2] = <<13020, 1>>

\* cc1101_send_it_v1 sends these pulses.
LEMMA It1Train ==
  ASSUME NEW data \in Seq({"0", "1", "F"})
  PROVE  LET t == cc1101_send_it_v1(data)
             n == Len(data)
         IN  t \in Seq(Step) /\ Coded4(t, 0, data, ItV1Bit, n) /\ It1End(t, n)
<1> DEFINE n == Len(data)
<1> DEFINE w == Each(data, ItV1Bit)
<1> DEFINE e == Pair(420, 31 * 420)
<1> DEFINE t == w \o e
<1>0. n \in Nat
  OBVIOUS
<1>1. w \in Seq(Step) /\ Coded(w, data, ItV1Bit, 4)
  <2>1. 4 \in Nat \ {0} /\ \A a \in {"0", "1", "F"} : Len(ItV1Bit[a]) = 4
    BY ItV1Code
  <2>2. ItV1Bit \in [{"0", "1", "F"} -> Seq(Step)]
    BY ItV1Code
  <2> QED
    BY <2>1, <2>2, EachWords, Zenon
<1>2. e \in Seq(Step) /\ Len(e) = 2 /\ e[1] = <<420, 0>> /\ e[2] = <<13020, 1>>
  <2>1. 31 * 420 = 13020
    OBVIOUS
  <2> QED
    BY <2>1, PairOf
<1>a. e \in Seq(Step)
  BY <1>2
<1>3. cc1101_send_it_v1(data) = t
  BY DEF cc1101_send_it_v1
<1> HIDE DEF w, e, n
<1>4. t \in Seq(Step) /\ Joins(t, w, e)
  BY <1>1, <1>a, Joined, Zenon
<1> HIDE DEF t
<1>5. Len(w) = 4 * n
  BY <1>1 DEF Coded, n
<1>6. Len(t) = 4 * n + 2 /\ t[4 * n + 1] = <<420, 0>> /\ t[4 * n + 2] = <<13020, 1>>
  BY <1>0, <1>2, <1>4, <1>5 DEF Joins
<1>7. Coded4(t, 0, data, ItV1Bit, n)
  <2> SUFFICES ASSUME NEW q \in 0..(n - 1), NEW j \in 1..4
               PROVE  t[0 + 4 * q + j] = ItV1Bit[data[q + 1]][j]
    BY DEF Coded4
  <2>0. q \in Nat /\ q <= n - 1 /\ j \in Nat /\ 1 <= j /\ j <= 4
    BY <1>0
  <2>1. 4 * q + j \in 1..Len(w) /\ 0 + 4 * q + j = 4 * q + j
    BY <1>0, <1>5, <2>0
  <2>2. t[4 * q + j] = w[4 * q + j]
    BY <1>4, <2>1 DEF Joins
  <2>3. q \in 0..(Len(data) - 1)
    BY DEF n
  <2>4. w[4 * q + j] = ItV1Bit[data[q + 1]][j]
    BY <1>1, <2>3, Zenon DEF Coded
  <2> QED
    BY <2>1, <2>2, <2>4
<1>8. It1End(t, n)
  BY <1>6 DEF It1End
<1> QED
  BY <1>3, <1>4, <1>7, <1>8, Zenon DEF n

\* V3 has such a pair in front of them, too.
It3Ends(t) ==
    /\ Len(t) = 132
    /\ t[1] = <<300, 0>>
    /\ t[2] = <<9300, 1>>
    /\ t[131] = <<300, 0>>
    /\ t[132] = <<9300, 1>>

\* cc1101_send_it_v3 sends these pulses.
LEMMA It3Train ==
  ASSUME NEW data \in Word(32, {"0", "1"})
  PROVE  LET t == cc1101_send_it_v3(data)
         IN  t \in Seq(Step) /\ Coded4(t, 2, data, ItV3Bit, 32) /\ It3Ends(t)
<1> DEFINE e == Pair(300, 31 * 300)
<1> DEFINE w == Each(data, ItV3Bit)
<1> DEFINE v == e \o w
<1> DEFINE t == v \o e
<1>0. data \in Seq({"0", "1"}) /\ Len(data) = 32
  BY DEF Word
<1>1. w \in Seq(Step) /\ Coded(w, data, ItV3Bit, 4)
  <2>1. 4 \in Nat \ {0} /\ \A a \in {"0", "1"} : Len(ItV3Bit[a]) = 4
    BY ItV3Code
  <2>2. ItV3Bit \in [{"0", "1"} -> Seq(Step)]
    BY ItV3Code
  <2> QED
    BY <1>0, <2>1, <2>2, EachWords, Zenon
<1>2. e \in Seq(Step) /\ Len(e) = 2 /\ e[1] = <<300, 0>> /\ e[2] = <<9300, 1>>
  <2>1. 31 * 300 = 9300
    OBVIOUS
  <2> QED
    BY <2>1, PairOf
<1>a. e \in Seq(Step)
  BY <1>2
<1>3. cc1101_send_it_v3(data) = t
  BY DEF cc1101_send_it_v3
<1> HIDE DEF w, e
<1>4. v \in Seq(Step) /\ Joins(v, e, w)
  BY <1>1, <1>a, Joined, Zenon
<1> HIDE DEF v
<1>5. t \in Seq(Step) /\ Joins(t, v, e)
  BY <1>4, <1>a, Joined, Zenon
<1> HIDE DEF t
<1>6. Len(w) = 128
  BY <1>0, <1>1 DEF Coded
<1>7. Len(v) = 130 /\ v[1] = <<300, 0>> /\ v[2] = <<9300, 1>>
  <2>1. 1 \in 1..Len(e) /\ 2 \in 1..Len(e)
    BY <1>2
  <2>2. v[1] = e[1] /\ v[2] = e[2] /\ Len(v) = Len(e) + Len(w)
    BY <1>4, <2>1 DEF Joins
  <2> QED
    BY <1>2, <1>6, <2>2
<1>8. Len(t) = 132 /\ t[1] = <<300, 0>> /\ t[2] = <<9300, 1>>
      /\ t[131] = <<300, 0>> /\ t[132] = <<9300, 1>>
  <2>1. Len(t) = 132
    BY <1>2, <1>5, <1>7 DEF Joins
  <2>2. 1 \in 1..Len(v) /\ 2 \in 1..Len(v) /\ 1 \in 1..Len(e) /\ 2 \in 1..Len(e)
    BY <1>2, <1>7
  <2>3. t[1] = v[1] /\ t[2] = v[2]
    BY <1>5, <2>2 DEF Joins
  <2>4. t[Len(v) + 1] = e[1] /\ t[Len(v) + 2] = e[2]
    BY <1>5, <2>2 DEF Joins
  <2> QED
    BY <1>2, <1>7, <2>1, <2>3, <2>4
<1>9. Coded4(t, 2, data, ItV3Bit, 32)
  <2> SUFFICES ASSUME NEW q \in 0..(32 - 1), NEW j \in 1..4
               PROVE  t[2 + 4 * q + j] = ItV3Bit[data[q + 1]][j]
    BY DEF Coded4
  <2>0. q \in Nat /\ q <= 31 /\ j \in Nat /\ 1 <= j /\ j <= 4
    OBVIOUS
  <2>1. 4 * q + j \in 1..Len(w) /\ Len(e) + (4 * q + j) = 2 + 4 * q + j
        /\ 2 + 4 * q + j \in 1..Len(v)
    BY <1>2, <1>6, <1>7, <2>0
  <2>2. t[2 + 4 * q + j] = v[2 + 4 * q + j]
    BY <1>5, <2>1 DEF Joins
  <2>5. v[Len(e) + (4 * q + j)] = w[4 * q + j]
    BY <1>4, <2>1, Zenon DEF Joins
  <2>3. q \in 0..(Len(data) - 1)
    BY <1>0
  <2>4. w[4 * q + j] = ItV3Bit[data[q + 1]][j]
    BY <1>1, <2>3, Zenon DEF Coded
  <2> QED
    BY <2>1, <2>2, <2>4, <2>5
<1>10. It3Ends(t)
  BY <1>8 DEF It3Ends
<1> QED
  BY <1>3, <1>5, <1>9, <1>10, Zenon

\* FHT and Oregon: pulses at least.
LEMMA FhtTrain ==
  ASSUME NEW bytes \in Seq(Word(8, Bit))
  PROVE  cc1101_send_fht(bytes) \in Seq(Step)
<1> DEFINE len == IF Len(bytes) < 16 THEN Len(bytes) ELSE 16
<1> DEFINE z == Times(16, <<0>>)
<1> DEFINE s == <<1, 1, 0, 0>>
<1> DEFINE ws == [i \in 1..len |-> <<0>> \o bytes[i] \o <<1>>]
<1> DEFINE v == z \o s
<1> DEFINE bits == v \o FlattenSeq(ws)
<1> DEFINE w == Each(bits, FhtBit)
<1> DEFINE us == 100000
<1>0. cc1101_send_fht(bytes) = Longer(w, us)
  BY DEF cc1101_send_fht
<1>1. len \in Nat /\ len <= Len(bytes)
  OBVIOUS
<1>2. <<0>> \in Seq(Bit) /\ Len(<<0>>) > 0 /\ <<1>> \in Seq(Bit) /\ s \in Seq(Bit) /\ Len(s) = 4
  BY DEF Bit
<1>3. us \in Int
  OBVIOUS
<1> HIDE DEF us, len, s
<1>4. z \in Seq(Bit)
  <2>1. 16 \in Nat
    OBVIOUS
  <2> QED
    BY <1>2, <2>1, TimesWords, Zenon
<1> HIDE DEF z
<1>5. v \in Seq(Bit) /\ Len(v) >= 4
  <2>1. v \in Seq(Bit) /\ Joins(v, z, s)
    BY <1>2, <1>4, Joined, Zenon
  <2>2. Len(z) \in Nat
    BY <1>4
  <2> HIDE DEF v
  <2> QED
    BY <1>2, <2>1, <2>2 DEF Joins
<1> HIDE DEF v
<1>6. FlattenSeq(ws) \in Seq(Bit)
  <2>1. ASSUME NEW i \in 1..len PROVE <<0>> \o bytes[i] \o <<1>> \in Seq(Bit)
    <3>1. bytes[i] \in Seq(Bit)
      BY <1>1 DEF Word
    <3>2. <<0>> \o bytes[i] \in Seq(Bit)
      BY <1>2, <3>1, Joined, Zenon
    <3> QED
      BY <1>2, <3>2, Joined, Zenon
  <2>2. ws \in Seq(Seq(Bit))
    BY <1>1, <2>1
  <2> HIDE DEF ws
  <2> QED
    BY <2>2, FlattenTyped, Zenon
<1> DEFINE g == FlattenSeq(ws)
<1>7. bits = v \o g /\ g \in Seq(Bit)
  BY <1>6
<1> HIDE DEF g
<1>8. bits \in Seq(Bit) /\ Len(bits) >= 4
  <2>1. v \o g \in Seq(Bit) /\ Joins(v \o g, v, g)
    BY <1>5, <1>7, Joined, Zenon
  <2>2. Len(v \o g) = Len(v) + Len(g) /\ Len(g) \in Nat
    BY <1>7, <2>1 DEF Joins
  <2> HIDE DEF bits
  <2> QED
    BY <1>5, <1>7, <2>1, <2>2
<1> HIDE DEF bits
<1>9. w \in Seq(Step) /\ Coded(w, bits, FhtBit, 2)
  <2>1. 2 \in Nat \ {0} /\ \A a \in Bit : Len(FhtBit[a]) = 2
    BY FhtCode
  <2> QED
    BY <1>8, <2>1, FhtCode, EachWords, Zenon
<1> HIDE DEF w
<1>10. Len(w) > 0
  BY <1>8, <1>9 DEF Coded
<1> QED
  BY <1>0, <1>3, <1>9, <1>10, LongerStep, Zenon

\* Wave makes pulses of steps.
LEMMA WaveTyped ==
  ASSUME NEW steps \in Seq(Step)
  PROVE  Wave(steps) \in Seq(Step)
<1> DEFINE Level(i) == IF i \in DOMAIN steps THEN steps[i][2] ELSE 2
<1> DEFINE Sum(i) == IF Level(i) = Level(i + 1) THEN steps[i][1] + steps[i + 1][1] ELSE steps[i][1]
<1> DEFINE ws == [i \in DOMAIN steps |->
                       IF Level(i) = Level(i - 1) THEN <<>> ELSE <<<<Sum(i), Level(i)>>>>]
<1>1. \A i \in 1..Len(steps) : steps[i][1] \in Int /\ steps[i][2] \in {0, 1}
  BY DEF Step
<1>2. DOMAIN steps = 1..Len(steps) /\ Len(steps) \in Nat
  OBVIOUS
<1>3. \A i \in 1..Len(steps) : Level(i) \in {0, 1} /\ (Level(i) = Level(i + 1) => i + 1 \in 1..Len(steps))
  BY <1>1, <1>2
<1>4. \A i \in 1..Len(steps) : Sum(i) \in Int
  BY <1>1, <1>3
<1>5. Wave(steps) = FlattenSeq(ws)
  BY DEF Wave
<1>6. ASSUME NEW i \in 1..Len(steps)
      PROVE  (IF Level(i) = Level(i - 1) THEN <<>> ELSE <<<<Sum(i), Level(i)>>>>) \in Seq(Step)
  <2>1. <<Sum(i), Level(i)>> \in Step
    BY <1>3, <1>4 DEF Step
  <2> HIDE DEF Sum, Level
  <2> QED
    BY <2>1
<1>7. ws \in Seq(Seq(Step))
  <2> HIDE DEF Sum, Level
  <2> QED
    BY <1>2, <1>6
<1> HIDE DEF ws
<1> QED
  BY <1>5, <1>7, FlattenTyped, Zenon

\* cc1101_send_oregon sends pulses.
LEMMA OregonTrain ==
  ASSUME NEW nibs \in Seq(Word(4, Bit))
  PROVE  cc1101_send_oregon(nibs) \in Seq(Step)
<1> DEFINE u == Pair(500, 500)
<1> DEFINE p == Times(32, u)
<1> DEFINE bits == FlattenSeq(nibs)
<1> DEFINE w == Each(bits, OsBit)
<1> DEFINE e == Off(100000)
<1>0. cc1101_send_oregon(nibs) = Wave(p \o w \o e)
  BY DEF cc1101_send_oregon
<1>1. bits \in Seq(Bit)
  <2>1. nibs \in Seq(Seq(Bit))
    BY DEF Word
  <2> QED
    BY <2>1, FlattenTyped, Zenon
<1>2. u \in Seq(Step) /\ Len(u) > 0
  BY PairOf
<1>3. e \in Seq(Step)
  BY DEF Off, Step
<1> HIDE DEF u, bits, e
<1>4. p \in Seq(Step)
  <2>1. 32 \in Nat
    OBVIOUS
  <2> QED
    BY <1>2, <2>1, TimesWords, Zenon
<1>5. w \in Seq(Step)
  <2>1. 2 \in Nat \ {0} /\ \A a \in Bit : Len(OsBit[a]) = 2
    BY OsCode
  <2> QED
    BY <1>1, <2>1, OsCode, EachWords, Zenon
<1> HIDE DEF p, w
<1>6. p \o w \in Seq(Step)
  BY <1>4, <1>5, Joined, Zenon
<1>7. p \o w \o e \in Seq(Step)
  BY <1>3, <1>6, Joined, Zenon
<1> QED
  BY <1>0, <1>7, WaveTyped, Zenon

\* Every frame has a train of pulses.
LEMMA TrainTyped ==
  ASSUME NEW f \in FrameTypes
  PROVE  Train(f) \in Seq(Step)
<1>1. CASE f \in [kind : {"FS20", "FHT"}, data : Seq(Word(8, Bit))]
  <2>1. f.data \in Seq(Word(8, Bit)) /\ f.kind \in {"FS20", "FHT"}
    BY <1>1
  <2>2. CASE f.kind = "FS20"
    BY <2>1, <2>2, FsTrain DEF Train
  <2>3. CASE f.kind = "FHT"
    BY <2>1, <2>3, FhtTrain DEF Train
  <2> QED
    BY <2>1, <2>2, <2>3
<1>2. CASE f \in [kind : {"HMS", "Oregon"}, data : Seq(Word(4, Bit))]
  <2>1. f.data \in Seq(Word(4, Bit)) /\ f.kind \in {"HMS", "Oregon"}
    BY <1>2
  <2>2. CASE f.kind = "HMS"
    BY <2>1, <2>2, HmsTrain DEF Train
  <2>3. CASE f.kind = "Oregon"
    BY <2>1, <2>3, OregonTrain DEF Train
  <2> QED
    BY <2>1, <2>2, <2>3
<1>3. CASE f \in [kind : {"IT_V1"}, data : Seq({"0", "1", "F"})]
  <2>1. f.data \in Seq({"0", "1", "F"}) /\ f.kind = "IT_V1"
    BY <1>3
  <2> QED
    BY <2>1, It1Train DEF Train
<1>4. CASE f \in [kind : {"IT_V3"}, data : Word(32, {"0", "1"})]
  <2>1. f.data \in Word(32, {"0", "1"}) /\ f.kind = "IT_V3"
    BY <1>4
  <2> QED
    BY <2>1, It3Train DEF Train
<1> QED
  BY <1>1, <1>2, <1>3, <1>4, Zenon DEF FrameTypes

-----------------------------------------------------------------------------
(* Frames and the events that are made of them.                             *)

\* The recursive function of Number exists.
LEMMA NumberExists ==
  ASSUME NEW bits \in Seq(Bit)
  PROVE  \E g \in [0..Len(bits) -> Nat] :
            g = [n \in 0..Len(bits) |-> IF n = 0 THEN 0 ELSE 2 * g[n - 1] + bits[n]]
<1> DEFINE L == Len(bits)
<1> DEFINE Eq(g, m) == \A i \in 0..m : g[i] = IF i = 0 THEN 0 ELSE 2 * g[i - 1] + bits[i]
<1> DEFINE T == {m \in Nat : m <= L => \E g \in [0..L -> Nat] : Eq(g, m)}
<1>0. L \in Nat /\ \A i \in 1..L : bits[i] \in Nat
  BY DEF Bit
<1> HIDE DEF L
<1>1. 0 \in T
  <2>1. [i \in 0..L |-> 0] \in [0..L -> Nat] /\ Eq([i \in 0..L |-> 0], 0)
    BY <1>0
  <2> HIDE DEF Eq
  <2> QED
    BY <2>1
<1>2. ASSUME NEW m \in Nat, m \in T PROVE m + 1 \in T
  <2> SUFFICES ASSUME m + 1 <= L
               PROVE  \E g \in [0..L -> Nat] : Eq(g, m + 1)
    OBVIOUS
  <2>1. PICK g \in [0..L -> Nat] : Eq(g, m)
    <3>1. m <= L
      BY <1>0
    <3> HIDE DEF Eq
    <3> QED
      BY <1>2, <3>1, Zenon
  <2> DEFINE v == 2 * g[m] + bits[m + 1]
  <2> DEFINE k == [g EXCEPT ![m + 1] = v]
  <2>2. v \in Nat
    <3>1. g[m] \in Nat /\ bits[m + 1] \in Nat
      BY <1>0
    <3> QED
      BY <3>1
  <2>3. k \in [0..L -> Nat] /\ k[m + 1] = v /\ \A i \in 0..m : k[i] = g[i]
    <3> HIDE DEF v
    <3> QED
      BY <2>2, <1>0
  <2>4. ASSUME NEW i \in 0..(m + 1) PROVE k[i] = IF i = 0 THEN 0 ELSE 2 * k[i - 1] + bits[i]
    <3> HIDE DEF k
    <3>1. CASE i = m + 1
      <4>1. i - 1 = m /\ i # 0 /\ m \in 0..m
        BY <3>1
      <4> QED
        BY <2>3, <3>1, <4>1
    <3>2. CASE i # m + 1
      <4>1. g[i] = IF i = 0 THEN 0 ELSE 2 * g[i - 1] + bits[i]
        BY <2>1, <3>2
      <4>2. k[i] = g[i] /\ (i # 0 => k[i - 1] = g[i - 1])
        BY <2>3, <3>2
      <4> QED
        BY <4>1, <4>2
    <3> QED
      BY <3>1, <3>2
  <2>5. Eq(k, m + 1)
    <3> HIDE DEF k
    <3> QED BY <2>4
  <2> QED
    <3> HIDE DEF k, Eq
    <3> QED BY <2>3, <2>5
<1>3. L \in T
  <2> HIDE DEF T
  <2> QED
    BY <1>0, <1>1, <1>2, Induction
<1>4. PICK g \in [0..L -> Nat] : Eq(g, L)
  <2>1. L <= L
    BY <1>0
  <2> HIDE DEF Eq
  <2> QED
    BY <1>3, <2>1
<1>5. g = [i \in 0..L |-> IF i = 0 THEN 0 ELSE 2 * g[i - 1] + bits[i]]
  BY <1>4
<1> QED
  BY <1>5 DEF L

\* Number makes a number of bits.
LEMMA NumberTyped ==
  ASSUME NEW bits \in Seq(Bit)
  PROVE  Number(bits) \in Nat
<1> DEFINE L == Len(bits)
<1> DEFINE Eq(g) == g = [n \in 0..L |-> IF n = 0 THEN 0 ELSE 2 * g[n - 1] + bits[n]]
<1> DEFINE f == CHOOSE g : Eq(g)
<1>0. L \in Nat /\ \A i \in 1..L : bits[i] \in Nat
  BY DEF Bit
<1>1. Number(bits) = f[L]
  BY DEF Number
<1>2. \E g : Eq(g)
  <2>1. PICK g \in [0..L -> Nat] : Eq(g)
    BY NumberExists
  <2> HIDE DEF Eq
  <2> QED
    BY <2>1, Zenon
<1>3. Eq(f)
  <2> HIDE DEF Eq
  <2> QED
    BY <1>2, Zenon
<1> HIDE DEF L
<1>4. ASSUME NEW g, Eq(g)
      PROVE  \A i \in 0..L : g[i] = IF i = 0 THEN 0 ELSE 2 * g[i - 1] + bits[i]
  BY <1>4
<1>5. \A i \in 0..L : f[i] = IF i = 0 THEN 0 ELSE 2 * f[i - 1] + bits[i]
  <2> HIDE DEF f, Eq
  <2> QED
    BY <1>3, <1>4, Zenon
<1> HIDE DEF f
<1> DEFINE T == {m \in Nat : m <= L => f[m] \in Nat}
<1>8. \A m \in Nat : m \in T
  <2>1. 0 \in T
    BY <1>5, <1>0
  <2>2. ASSUME NEW m \in Nat, m \in T PROVE m + 1 \in T
    <3> SUFFICES ASSUME m + 1 <= L PROVE f[m + 1] \in Nat
      OBVIOUS
    <3>0. m + 1 \in 0..L /\ (m + 1) - 1 = m /\ m + 1 # 0 /\ m + 1 \in 1..L
      BY <1>0
    <3>1. f[m + 1] = 2 * f[m] + bits[m + 1]
      BY <1>5, <3>0
    <3>2. f[m] \in Nat /\ bits[m + 1] \in Nat
      BY <2>2, <1>0, <3>0
    <3> QED
      BY <3>1, <3>2
  <2> HIDE DEF T
  <2> QED
    BY <2>1, <2>2, Induction
<1> QED
  BY <1>0, <1>1, <1>8

\* A function on 1..n is a word of n symbols.
LEMMA WordOf ==
  ASSUME NEW S, NEW n \in Nat, NEW b \in [1..n -> S]
  PROVE  b \in Word(n, S)
BY DEF Word

\* ByteOf makes a byte of a number.
LEMMA ByteTyped ==
  ASSUME NEW n \in Nat
  PROVE  ByteOf(n) \in Word(8, Bit)
<1>1. \A i \in 1..8 : <<128, 64, 32, 16, 8, 4, 2, 1>>[i] \in Nat \ {0}
  OBVIOUS
<1>2. \A i \in 1..8 : (n \div <<128, 64, 32, 16, 8, 4, 2, 1>>[i]) % 2 \in Bit
  BY <1>1 DEF Bit
<1>3. ByteOf(n) = [i \in 1..8 |-> (n \div <<128, 64, 32, 16, 8, 4, 2, 1>>[i]) % 2]
  BY DEF ByteOf
<1>4. ByteOf(n) \in [1..8 -> Bit]
  BY <1>2, <1>3
<1>5. 8 \in Nat
  OBVIOUS
<1> QED
  BY <1>4, <1>5, WordOf, Zenon

\* What SubSeq takes from the start of a sequence.
LEMMA PrefixOf ==
  ASSUME NEW S, NEW a \in Seq(S), NEW n \in Nat, n <= Len(a)
  PROVE  /\ SubSeq(a, 1, n) \in Seq(S) /\ Len(SubSeq(a, 1, n)) = n
         /\ \A i \in 1..n : SubSeq(a, 1, n)[i] = a[i]
OBVIOUS

\* Sequences of the same length and the same elements are the same.
LEMMA SameSeq ==
  ASSUME NEW S, NEW a \in Seq(S), NEW b \in Seq(S), Len(a) = Len(b),
         \A i \in 1..Len(a) : a[i] = b[i]
  PROVE  a = b
OBVIOUS

\* A sequence that agrees with the start of another one is that start.
LEMMA PrefixIs ==
  ASSUME NEW S, NEW a \in Seq(S), NEW u \in Seq(S), Len(u) <= Len(a),
         \A i \in 1..Len(u) : u[i] = a[i]
  PROVE  SubSeq(a, 1, Len(u)) = u
<1> DEFINE n == Len(u)
<1> DEFINE b == SubSeq(a, 1, n)
<1>1. n \in Nat /\ n <= Len(a)
  OBVIOUS
<1>2. b \in Seq(S) /\ Len(b) = n /\ \A i \in 1..n : b[i] = a[i]
  BY <1>1, PrefixOf
<1> HIDE DEF b
<1>3. Len(b) = Len(u) /\ \A i \in 1..Len(b) : b[i] = u[i]
  BY <1>1, <1>2
<1>4. b = u
  BY <1>2, <1>3, SameSeq
<1> QED
  BY <1>4 DEF b
\* The last bit of a byte is the parity of its number.
LEMMA LowBit ==
  ASSUME NEW k \in Nat
  PROVE  ByteOf(k)[8] = k % 2
BY DEF ByteOf

\* One element of a sequence is replaced.
LEMMA Replaced ==
  ASSUME NEW S, NEW d \in Seq(S), NEW n \in 1..Len(d), NEW x \in S
  PROVE  /\ [d EXCEPT ![n] = x] \in Seq(S)
         /\ Len([d EXCEPT ![n] = x]) = Len(d)
         /\ [d EXCEPT ![n] = x][n] = x
         /\ \A i \in 1..(n - 1) : [d EXCEPT ![n] = x][i] = d[i]
OBVIOUS

\* The first bytes of an FS20 packet are those of the frame.
LEMMA FsPacket ==
  ASSUME NEW f, f.kind = "FS20", f.data \in Seq(Word(8, Bit)), Len(f.data) >= 4
  PROVE  LET D == Reported(f)[2] IN
         /\ Reported(f) = <<"F", D>>
         /\ Len(D) >= 4
         /\ \A i \in 1..4 : D[i] = f.data[i]
         /\ D \in Seq(Seq(Bit))
<1> DEFINE d == f.data
<1> DEFINE s == IF Len(d) > 16 THEN SubSeq(d, 1, 16) ELSE d
<1> DEFINE D == Printed(s)
<1>1. Reported(f) = <<"F", D>>
  BY DEF Reported, FsCap
<1>2. d \in Seq(Word(8, Bit)) /\ Len(d) >= 4
  OBVIOUS
<1> HIDE DEF d
<1>3. /\ s \in Seq(Word(8, Bit)) /\ Len(s) >= 4
      /\ s[1] = d[1] /\ s[2] = d[2] /\ s[3] = d[3] /\ s[4] = d[4]
  BY <1>2
<1> HIDE DEF s
<1>4. /\ Len(D) >= 4 /\ D \in Seq(Seq(Bit))
      /\ D[1] = s[1] /\ D[2] = s[2] /\ D[3] = s[3] /\ D[4] = s[4]
  <2>1. CASE Len(s) < 16
    <3>1. D = s
      BY <2>1 DEF Printed
    <3>2. s \in Seq(Seq(Bit))
      BY <1>3 DEF Word
    <3> QED
      BY <1>3, <3>1, <3>2
  <2>2. CASE ~(Len(s) < 16)
    <3> DEFINE x == SubSeq(s[16], 1, 4)
    <3>1. D = [s EXCEPT ![16] = x]
      BY <2>2 DEF Printed
    <3>2. s \in Seq(Seq(Bit)) /\ 16 \in 1..Len(s) /\ s[16] \in Word(8, Bit)
      BY <1>3, <2>2 DEF Word
    <3>3. x \in Seq(Bit)
      BY <3>2 DEF Word
    <3> HIDE DEF x
    <3> QED
      BY <1>3, <2>2, <3>1, <3>2, <3>3, Replaced
  <2> QED
    BY <2>1, <2>2
<1> HIDE DEF D
<1>5. \A i \in 1..4 : D[i] = d[i]
  BY <1>3, <1>4
<1> QED
  BY <1>1, <1>4, <1>5 DEF d

\* The event of an FS20 packet: its first three bytes and the last bit of
\* the fourth.
LEMMA FsEvent ==
  ASSUME NEW f, f.kind = "FS20", f.data \in Seq(Word(8, Bit)), Len(f.data) >= 4
  PROVE  Event(Reported(f)) = [proto |-> "FS20", id |-> SubSeq(f.data, 1, 3), switch |-> TRUE,
                             value |-> f.data[4][8]]
<1> DEFINE D == Reported(f)[2]
<1>1. /\ Reported(f) = <<"F", D>> /\ Len(D) >= 4 /\ D \in Seq(Seq(Bit))
      /\ D[1] = f.data[1] /\ D[2] = f.data[2] /\ D[3] = f.data[3] /\ D[4] = f.data[4]
  BY FsPacket
<1> HIDE DEF D
<1>2. SubSeq(D, 1, 3) = SubSeq(f.data, 1, 3)
  <2>1. f.data \in Seq(Seq(Bit)) /\ 3 \in Nat /\ 3 <= Len(f.data) /\ 3 <= Len(D)
    BY <1>1 DEF Word
  <2> DEFINE u == SubSeq(f.data, 1, 3)
  <2>2. u \in Seq(Seq(Bit)) /\ Len(u) = 3 /\ u[1] = f.data[1] /\ u[2] = f.data[2] /\ u[3] = f.data[3]
    BY <2>1, PrefixOf
  <2> HIDE DEF u
  <2>3. \A i \in 1..Len(u) : u[i] = D[i]
    <3>1. u[1] = D[1] /\ u[2] = D[2] /\ u[3] = D[3] /\ Len(u) = 3
      BY <1>1, <2>2, Zenon
    <3>2. \A i \in 1..Len(u) : i = 1 \/ i = 2 \/ i = 3
      BY <3>1
    <3> QED
      BY <3>1, <3>2, Zenon
  <2>4. SubSeq(D, 1, Len(u)) = u
    BY <1>1, <2>1, <2>2, <2>3, PrefixIs
  <2> QED
    BY <2>2, <2>4 DEF u
<1>3. Event(<<"F", D>>) = [proto |-> "FS20", id |-> SubSeq(D, 1, 3), switch |-> TRUE, value |-> D[4][8]]
  BY DEF Event
<1> QED
  BY <1>1, <1>2, <1>3

\* The event of an Intertechno V1 packet: a sensor, or a switch whose last
\* symbol is its state.
LEMMA It1Event ==
  ASSUME NEW f, f.kind = "IT_V1", Len(f.data) = 12
  PROVE  Event(Reported(f)) =
           IF IsSensor(f.data)
           THEN [proto |-> "IT_V1", id |-> f.data, switch |-> FALSE, value |-> Event(Reported(f)).value]
           ELSE [proto |-> "IT_V1", id |-> [f.data EXCEPT ![12] = "X"], switch |-> TRUE,
                 value |-> IF f.data[12] = "0" THEN 0 ELSE 1]
<1>1. Reported(f) = <<"is", f.data>>
  BY DEF Reported
<1> DEFINE d == f.data
<1>2. Len(d) = 12
  OBVIOUS
<1> HIDE DEF d
<1>3. CASE IsSensor(d)
  <2> DEFINE v == 10 * Number([k \in 1..4 |-> IF d[8 + k] = "1" THEN 1 ELSE 0])
  <2>1. Event(<<"is", d>>) = [proto |-> "IT_V1", id |-> d, switch |-> FALSE, value |-> v]
    BY <1>2, <1>3 DEF Event
  <2> HIDE DEF v
  <2>2. Event(<<"is", d>>).value = v
    BY <2>1
  <2>3. Event(<<"is", d>>) = [proto |-> "IT_V1", id |-> d, switch |-> FALSE,
                              value |-> Event(<<"is", d>>).value]
    BY <2>1, <2>2, Zenon
  <2> QED
    BY <1>1, <1>3, <2>3, Zenon DEF d
<1>4. CASE ~IsSensor(d)
  <2>1. Event(<<"is", d>>) =
            [proto |-> "IT_V1", id |-> [d EXCEPT ![12] = "X"], switch |-> TRUE,
             value |-> IF d[12] = "0" THEN 0 ELSE 1]
    BY <1>2, <1>4 DEF Event
  <2> QED
    BY <1>1, <1>4, <2>1 DEF d
<1> QED
  BY <1>3, <1>4

\* The event of an Intertechno V3 packet is one of that protocol.
LEMMA It3Event ==
  ASSUME NEW f, f.kind = "IT_V3", Len(f.data) = 32
  PROVE  Event(Reported(f)).proto = "IT_V3"
<1>1. Reported(f) = <<"is", f.data>>
  BY DEF Reported
<1> DEFINE d == f.data
<1>2. Len(d) = 32
  OBVIOUS
<1> HIDE DEF d
<1>3. Event(<<"is", d>>) =
         [proto |-> "IT_V3", id |-> [d EXCEPT ![19] = "X"], switch |-> TRUE,
          value |-> IF d[19] = "1" THEN 1 ELSE 0]
  BY <1>2 DEF Event
<1> QED
  BY <1>1, <1>3 DEF d

\* The event of an HMS packet is not one of a switch.
LEMMA HmsEvent ==
  ASSUME NEW f, f.kind = "HMS"
  PROVE  Event(Reported(f)).switch = FALSE
<1> DEFINE d == Reported(f)[2]
<1>1. Reported(f) = <<"H", d>>
  BY DEF Reported
<1> HIDE DEF d
<1> DEFINE v == Number(d[7] \o d[8])
<1>2. Event(<<"H", d>>) =
            [proto |-> "HMS", id |-> IF Len(d) > 16 THEN SubSeq(d, 1, 16) ELSE d,
             switch |-> FALSE, value |-> v]
  BY DEF Event
<1> HIDE DEF v
<1> QED
  BY <1>1, <1>2

\* The frame of a command is one that a receiver can report, and what it
\* reports is the device with, for FS20, the value of the command.
AnswersTo(f, c) ==
    /\ f \in FrameTypes
    /\ f.kind = c.device.proto
    /\ Reportable(f)
    /\ Event(Reported(f)).proto = c.device.proto
    /\ Event(Reported(f)).id = c.device.id
    /\ Event(Reported(f)).value \in IF c.device.proto = "FS20" THEN {c.value} ELSE {0, 1}

\* The frame of a command to an FS20 switch answers to it.
LEMMA FsCommand ==
  ASSUME NEW g, g.kind = "FS20", g.data \in Seq(Word(8, Bit)), Len(g.data) >= 4,
         NEW c, c.device = Event(Reported(g)), c.value \in {0, 1}, NEW f \in FramesOf(c)
  PROVE  AnswersTo(f, c)
<1> DEFINE d == g.data
<1> DEFINE id == SubSeq(d, 1, 3)
<1> DEFINE cmd == ByteOf(IF c.value > 0 THEN 17 ELSE 0)
<1> DEFINE sum == 6 + Number(id[1]) + Number(id[2]) + Number(id[3]) + Number(cmd)
<1> DEFINE cs == ByteOf(sum % 256)
<1> DEFINE s == id \o <<cmd, cs>>
<1>1. c.device.proto = "FS20" /\ c.device.id = id
  BY FsEvent
<1>2. f = [kind |-> "FS20", data |-> s]
  <2>1. FramesOf(c) = {send_fs20(c.device.id, cmd)}
    BY <1>1 DEF FramesOf, Translate
  <2> QED
    BY <1>1, <2>1 DEF send_fs20
<1>3. d \in Seq(Word(8, Bit)) /\ Len(d) >= 4
  OBVIOUS
<1> HIDE DEF d
<1>4. id \in Seq(Word(8, Bit)) /\ Len(id) = 3 /\ \A i \in 1..Len(id) : id[i] \in Word(8, Bit)
  BY <1>3
<1> HIDE DEF id
<1>5. cmd \in Word(8, Bit) /\ cmd[8] = c.value
  <2>1. cmd \in Word(8, Bit)
    <3>1. (IF c.value > 0 THEN 17 ELSE 0) \in Nat
      OBVIOUS
    <3> DEFINE k == IF c.value > 0 THEN 17 ELSE 0
    <3> HIDE DEF k
    <3> QED
      BY <3>1, ByteTyped DEF k
  <2>2. cmd[8] = (IF c.value > 0 THEN 17 ELSE 0) % 2
    BY LowBit
  <2> QED
    BY <2>1, <2>2
<1> HIDE DEF cmd
<1>6. sum \in Nat
  <2>1. \A b \in Word(8, Bit) : Number(b) \in Nat
    BY NumberTyped DEF Word
  <2>2. id[1] \in Word(8, Bit) /\ id[2] \in Word(8, Bit) /\ id[3] \in Word(8, Bit)
    BY <1>4
  <2>3. Number(id[1]) \in Nat /\ Number(id[2]) \in Nat /\ Number(id[3]) \in Nat /\ Number(cmd) \in Nat
    BY <1>5, <2>1, <2>2
  <2> QED
    BY <2>3
<1> HIDE DEF sum
<1>7. cs \in Word(8, Bit)
  <2>1. sum % 256 \in Nat
    BY <1>6
  <2> QED
    BY <2>1, ByteTyped
<1> HIDE DEF cs
<1> DEFINE e == <<cmd, cs>>
<1>8. e \in Seq(Word(8, Bit)) /\ Len(e) = 2 /\ e[1] = cmd
  BY <1>5, <1>7
<1> HIDE DEF e
<1>9. s \in Seq(Word(8, Bit)) /\ Joins(s, id, e)
  <2>1. s = id \o e
    BY DEF e
  <2> QED
    BY <1>4, <1>8, <2>1, Joined
<1> HIDE DEF s
<1>10. Len(s) = 5 /\ s[1] = id[1] /\ s[2] = id[2] /\ s[3] = id[3] /\ s[4] = cmd
  <2>1. 1 \in 1..Len(id) /\ 2 \in 1..Len(id) /\ 3 \in 1..Len(id) /\ 1 \in 1..Len(e)
    BY <1>4, <1>8
  <2>2. s[1] = id[1] /\ s[2] = id[2] /\ s[3] = id[3] /\ s[Len(id) + 1] = e[1]
    BY <1>9, <2>1 DEF Joins
  <2> QED
    BY <1>4, <1>8, <1>9, <2>2 DEF Joins
<1>11. SubSeq(s, 1, 3) = id
  <2>1. \A i \in 1..Len(id) : id[i] = s[i]
    BY <1>4, <1>10
  <2>2. SubSeq(s, 1, Len(id)) = id
    BY <1>4, <1>9, <1>10, <2>1, PrefixIs
  <2> QED
    BY <1>4, <2>2
<1>12. f.kind = "FS20" /\ f.data = s /\ f \in FrameTypes
  BY <1>2, <1>9 DEF FrameTypes
<1>13. f.data \in Seq(Word(8, Bit)) /\ Len(f.data) >= 4
  <2>1. s \in Seq(Word(8, Bit)) /\ Len(s) = 5 /\ f.data = s
    BY <1>9, <1>10, <1>12, Zenon
  <2>2. f.data \in Seq(Word(8, Bit)) /\ Len(f.data) = 5
    BY <2>1, Zenon
  <2> QED
    BY <2>2
<1>14. Event(Reported(f)) = [proto |-> "FS20", id |-> SubSeq(f.data, 1, 3), switch |-> TRUE,
                           value |-> f.data[4][8]]
  BY <1>12, <1>13, FsEvent
<1>15. Event(Reported(f)).proto = "FS20" /\ Event(Reported(f)).id = SubSeq(f.data, 1, 3)
       /\ Event(Reported(f)).value = f.data[4][8]
  BY <1>14
<1>16. Event(Reported(f)).id = id /\ Event(Reported(f)).value = c.value
  BY <1>5, <1>10, <1>11, <1>12, <1>15
<1>17. Reportable(f)
  BY <1>12, <1>13 DEF Reportable
<1> QED
  BY <1>1, <1>12, <1>15, <1>16, <1>17 DEF AnswersTo

\* The frame of a command to an Intertechno V1 switch answers to it, with
\* either value.
LEMMA It1Command ==
  ASSUME NEW g, g.kind = "IT_V1", g.data \in Seq({"0", "1", "F"}), Len(g.data) = 12,
         NEW c, c.device = Event(Reported(g)), c.device.switch, c.value \in {0, 1},
         NEW f \in FramesOf(c)
  PROVE  AnswersTo(f, c)
<1> DEFINE d == g.data
<1> DEFINE id == [d EXCEPT ![12] = "X"]
<1> DEFINE x == IF c.value > 0 THEN "0" ELSE "F"
<1> DEFINE s == [id EXCEPT ![12] = x]
<1>1. ~IsSensor(d) /\ c.device.proto = "IT_V1" /\ c.device.id = id
  <2>1. ASSUME IsSensor(d) PROVE FALSE
    <3>1. c.device = [proto |-> "IT_V1", id |-> d, switch |-> FALSE, value |-> c.device.value]
      BY <2>1, It1Event
    <3>2. c.device.switch = FALSE
      BY <3>1
    <3> QED
      BY <3>2
  <2>2. c.device = [proto |-> "IT_V1", id |-> id, switch |-> TRUE,
                    value |-> IF d[12] = "0" THEN 0 ELSE 1]
    BY <2>1, It1Event
  <2> QED
    BY <2>1, <2>2
<1>2. d \in Seq({"0", "1", "F"}) /\ Len(d) = 12
  OBVIOUS
<1> HIDE DEF d
<1>3. id[12] = "X"
  BY <1>2
<1>4. f = [kind |-> "IT_V1", data |-> s]
  BY <1>1, <1>3 DEF FramesOf, Translate
<1>5. s \in Seq({"0", "1", "F"}) /\ Len(s) = 12 /\ s[12] = x /\ \A i \in 1..11 : s[i] = d[i]
  <2>1. s = [d EXCEPT ![12] = x] /\ x \in {"0", "1", "F"}
    BY <1>2
  <2> HIDE DEF s, x
  <2>2. 12 \in 1..Len(d) /\ 12 - 1 = 11
    BY <1>2
  <2> QED
    <3> DEFINE n == 12
    <3> DEFINE A == {"0", "1", "F"}
    <3>1. n \in 1..Len(d) /\ d \in Seq(A) /\ x \in A /\ s = [d EXCEPT ![n] = x]
      BY <1>2, <2>1, <2>2
    <3> HIDE DEF n, A
    <3>2. /\ s \in Seq(A) /\ Len(s) = Len(d) /\ s[n] = x
          /\ \A i \in 1..(n - 1) : s[i] = d[i]
      BY <3>1, Replaced
    <3> QED
      BY <1>2, <2>2, <3>2 DEF n, A
<1>6. [s EXCEPT ![12] = "X"] = id
  BY <1>2
<1> HIDE DEF s, id
<1>7. ~IsSensor(s)
  <2>1. \A i \in 1..8 : s[i] = d[i]
    BY <1>5
  <2> QED
    BY <1>1, <2>1 DEF IsSensor
<1>8. f.kind = "IT_V1" /\ f.data = s /\ f \in FrameTypes
  BY <1>4, <1>5 DEF FrameTypes
<1>9. Event(Reported(f)) = [proto |-> "IT_V1", id |-> [s EXCEPT ![12] = "X"], switch |-> TRUE,
                          value |-> IF s[12] = "0" THEN 0 ELSE 1]
  BY <1>5, <1>7, <1>8, It1Event
<1>10. Event(Reported(f)).proto = "IT_V1" /\ Event(Reported(f)).id = id
       /\ Event(Reported(f)).value \in {0, 1}
  BY <1>5, <1>6, <1>9
<1>11. Reportable(f)
  BY <1>5, <1>8 DEF Reportable, It1Len
<1> QED
  BY <1>1, <1>8, <1>10, <1>11 DEF AnswersTo

\* So does the frame of every command; Intertechno V3 has none.
LEMMA CommandFrames ==
  ASSUME NEW c \in CommandsTo, NEW f \in FramesOf(c)
  PROVE  AnswersTo(f, c)
<1>1. c.device \in Switches /\ c.value \in {0, 1}
  BY DEF CommandsTo
<1>2. PICK g \in Frames : Reportable(g) /\ c.device = Event(Reported(g)) /\ c.device.switch
  BY <1>1 DEF Switches
<1>3. g \in FrameTypes
  BY FramesAssumption
<1>4. CASE g.kind = "FS20"
  <2>1. g.data \in Seq(Word(8, Bit)) /\ Len(g.data) >= 4
    BY <1>2, <1>3, <1>4 DEF FrameTypes, Reportable
  <2> QED
    BY <1>1, <1>2, <1>4, <2>1, FsCommand
<1>5. CASE g.kind = "IT_V1"
  <2>1. g.data \in Seq({"0", "1", "F"}) /\ Len(g.data) = 12
    BY <1>2, <1>3, <1>5 DEF FrameTypes, Reportable, It1Len
  <2> QED
    BY <1>1, <1>2, <1>5, <2>1, It1Command
<1>6. CASE g.kind = "IT_V3"
  <2>1. Len(g.data) = 32
    BY <1>3, <1>6 DEF FrameTypes, Word
  <2>2. c.device.proto = "IT_V3"
    BY <1>2, <1>6, <2>1, It3Event
  <2> QED
    BY <2>2 DEF FramesOf, Translate
<1>7. CASE g.kind = "HMS"
  BY <1>2, <1>7, HmsEvent
<1> QED
  BY <1>2, <1>4, <1>5, <1>6, <1>7 DEF Reportable

\* So all that is sent is a frame.
LEMMA FramesTyped == AllFrames \subseteq FrameTypes
BY FramesAssumption, CommandFrames DEF AllFrames, AnswersTo

-----------------------------------------------------------------------------
(* The receiver is the decoders.                                            *)

\* Within the stretch of a mark or a space.
Near(x, d) == x \in (d - 49)..(d + 49)

\* r is t with marks and spaces that are a little longer or shorter.
Heard(r, t) ==
    /\ Len(r) = Len(t)
    /\ \A i \in 1..Len(t) : r[i][2] = t[i][2] /\ Near(r[i][1], t[i][1])

\* A stretched train is heard as one close to it.
LEMMA StretchHeard ==
  ASSUME NEW t \in Seq(Step), NEW o \in Int, -49 <= o, o <= 49
  PROVE  Stretch(t, o) \in Seq(Step) /\ Heard(Stretch(t, o), t)
<1> DEFINE X(i) == t[i][1] + (IF t[i][2] = 0 THEN o ELSE -o)
<1> DEFINE r == [i \in DOMAIN t |-> <<X(i), t[i][2]>>]
<1>1. \A i \in 1..Len(t) : t[i][1] \in Int /\ t[i][2] \in {0, 1}
  BY DEF Step
<1>2. DOMAIN t = 1..Len(t) /\ Len(t) \in Nat
  OBVIOUS
<1>3. Stretch(t, o) = r
  BY DEF Stretch
<1>4. \A i \in 1..Len(t) : X(i) \in Int /\ X(i) \in (t[i][1] - 49)..(t[i][1] + 49)
  BY <1>1
<1> HIDE DEF X
<1>5. \A i \in 1..Len(t) : <<X(i), t[i][2]>> \in Step
  BY <1>1, <1>4 DEF Step
<1>6. r \in Seq(Step) /\ Len(r) = Len(t)
  BY <1>2, <1>5
<1>7. \A i \in 1..Len(t) : r[i][1] = X(i) /\ r[i][2] = t[i][2]
  BY <1>2
<1> HIDE DEF r
<1> QED
  BY <1>3, <1>4, <1>6, <1>7 DEF Heard, Near

\* The repetition of a frame is heard as a sequence of pulses close to it.
LEMMA RepetitionHeard ==
  ASSUME NEW f \in AllFrames, NEW o \in Offsets
  PROVE  /\ Repetition[f][o] \in Seq(Step)
         /\ Heard(Repetition[f][o], Train(f))
<1>1. Repetition[f][o] = Stretch(Train(f), o)
  BY DEF Repetition
<1>2. Train(f) \in Seq(Step) /\ o \in Int /\ -49 <= o /\ o <= 49
  BY FramesTyped, TrainTyped, OffsetsAssumption
<1> QED
  BY <1>1, <1>2, StretchHeard

\* What is sent is one of the frames that have a repetition.
OnAir ==
    /\ pos \in Nat
    /\ frame # Idle => frame \in AllFrames /\ offset \in Offsets

\* A pulse of the train is a pulse.
LEMMA PulseTyped ==
  ASSUME OnAir, Sending
  PROVE  Pulse \in Step
<1> DEFINE r == Repetition[frame][offset]
<1>1. frame # Idle /\ pos < 2 * RepLen /\ pos \in Nat /\ r \in Seq(Step)
  <2>1. frame # Idle /\ pos < 2 * RepLen /\ pos \in Nat
    BY Zenon DEF OnAir, Sending
  <2>2. frame \in AllFrames /\ offset \in Offsets
    BY <2>1, Zenon DEF OnAir
  <2>3. r \in Seq(Step)
    BY <2>2, RepetitionHeard, Zenon
  <2> QED
    BY <2>1, <2>3, Zenon
<1>2. RepLen = Len(r)
  BY <1>1, Zenon DEF RepLen
<1> HIDE DEF r
<1>3. RepLen \in Nat /\ RepLen > 0
  BY <1>1, <1>2
<1>4. 1 + (pos % RepLen) \in 1..RepLen
  BY <1>1, <1>3
<1>5. r[1 + (pos % RepLen)] \in Step
  BY <1>1, <1>2, <1>4
<1> QED
  BY <1>5, Zenon DEF Pulse, r

\* The decoders take it as any other, or the filter drops it.
LEMMA DecodeStep ==
  ASSUME NEW p \in Step, Decode(p)
  PROVE  [DecNext]_decVars
<1>1. CASE Queued(p[1])
  <2>1. p[1] \in Durations /\ p[2] \in {0, 1}
    <3>1. p[1] \in Int /\ p[2] \in {0, 1}
      BY DEF Step
    <3>2. p[1] \in 0..Longest
      <4>1. Longest \in Nat
        BY DEF Longest
      <4> QED
        BY <1>1, <3>1, <4>1 DEF Queued
    <3> QED
      BY <1>1, <3>1, <3>2, FilterAssumption, Zenon
  <2> QED
    BY <1>1, <2>1, Zenon DEF Decode, DecNext
<1>2. CASE ~Queued(p[1])
  BY <1>2, Zenon DEF Decode
<1> QED
  BY <1>1, <1>2

\* Every step of the loop is a step of the decoders or none.
LEMMA LoopStep == OnAir /\ [LoopNext]_loopVars => [DecNext]_decVars
<1> SUFFICES ASSUME OnAir, [LoopNext]_loopVars PROVE [DecNext]_decVars
  OBVIOUS
<1>1. CASE Transmit \/ Bridge \/ Lose \/ Silence \/ UNCHANGED loopVars
  <2>1. UNCHANGED decVars
    BY <1>1, Zenon DEF Transmit, Bridge, Lose, Silence, loopVars
  <2> QED
    BY <2>1, Zenon
<1>2. CASE Hear
  BY <1>2, PulseTyped, DecodeStep, Zenon DEF Hear
<1>3. CASE HearNoise
  <2>1. PICK p \in Noise : Decode(p)
    BY <1>3, Zenon DEF HearNoise
  <2>2. p \in Step
    BY NoiseAssumption, Zenon DEF Step
  <2> QED
    BY <2>1, <2>2, DecodeStep, Zenon
<1> QED
  BY <1>1, <1>2, <1>3, Zenon DEF LoopNext

\* The frame on the air stays one that has a repetition.
LEMMA OnAirPreserved == OnAir /\ [LoopNext]_loopVars => OnAir'
<1> SUFFICES ASSUME OnAir, [LoopNext]_loopVars PROVE OnAir'
  OBVIOUS
<1>1. CASE Transmit
  BY <1>1, Zenon DEF Transmit, OnAir, AllFrames
<1>2. CASE Bridge
  <2>1. PICK c \in CommandsTo :
         \/ frame' \in FramesOf(c) /\ offset' \in Offsets
         \/ UNCHANGED <<frame, offset>>
    BY <1>2, Zenon DEF Bridge
  <2>2. pos' = pos /\ ((frame' \in AllFrames /\ offset' \in Offsets) \/ UNCHANGED <<frame, offset>>)
    BY <1>2, <2>1, Zenon DEF Bridge, AllFrames
  <2> QED
    BY <2>2, Zenon DEF OnAir
<1>3. CASE Hear \/ Lose
  <2>1. pos' = pos + 1 /\ frame' = frame /\ offset' = offset
    <3>1. CASE Hear
      BY <3>1, Zenon DEF Hear
    <3>2. CASE Lose
      BY <3>2, Zenon DEF Lose
    <3> QED
      BY <1>3, <3>1, <3>2
  <2>2. pos' \in Nat
    BY <2>1 DEF OnAir
  <2> QED
    BY <2>1, <2>2, Zenon DEF OnAir
<1>4. CASE HearNoise \/ Silence \/ UNCHANGED loopVars
  <2>1. pos' = pos /\ frame' = frame /\ offset' = offset
    BY <1>4, Zenon DEF HearNoise, Silence, loopVars, airVars
  <2> QED
    BY <2>1, Zenon DEF OnAir
<1> QED
  BY <1>1, <1>2, <1>3, <1>4, Zenon DEF LoopNext

\* The receiver of a train is the decoders of slowrf_task behind the filter of
\* gpio_isr_handler: noise, lost pulses and stretched marks give them nothing
\* they are not specified for.
THEOREM LoopImplementsDecoders == LoopSpec => DecSpec
<1>1. LoopInit => DecInit
  BY Zenon DEF LoopInit
<1>2. LoopInit => OnAir
  BY DEF LoopInit, OnAir
<1> QED
  BY <1>1, <1>2, LoopStep, OnAirPreserved, PTL DEF LoopSpec, DecSpec

\* Whatever is sent and however it arrives, the decoders keep their types.
THEOREM LoopTyped == LoopSpec => []DecTypeOK
BY LoopImplementsDecoders, DecodersTyped, PTL

\* And none of them writes outside its arrays, also when a frame is longer
\* than they are.
THEOREM LoopSafe == LoopSpec => []ArraysInRange
BY LoopImplementsDecoders, DecodersSafe, PTL

-----------------------------------------------------------------------------
(* What a decoder with an array of limited size keeps.                      *)

\* The first q of s, of which cap are kept.
First(s, q, cap) == SubSeq(s, 1, IF q < cap THEN q ELSE cap)

\* The length of what is kept.
LEMMA FirstLen ==
  ASSUME NEW S, NEW s \in Seq(S), NEW q \in Nat, q <= Len(s), NEW cap \in Nat
  PROVE  /\ First(s, q, cap) \in Seq(S)
         /\ Len(First(s, q, cap)) = IF q < cap THEN q ELSE cap
<1> DEFINE n == IF q < cap THEN q ELSE cap
<1>1. n \in Nat /\ n <= Len(s)
  OBVIOUS
<1> HIDE DEF n
<1>2. SubSeq(s, 1, n) \in Seq(S) /\ Len(SubSeq(s, 1, n)) = n
  BY <1>1, PrefixOf
<1> QED
  BY <1>2 DEF First, n

\* Of none none is kept.
LEMMA FirstNone ==
  ASSUME NEW S, NEW s \in Seq(S), NEW cap \in Nat
  PROVE  First(s, 0, cap) = <<>>
<1>1. (IF 0 < cap THEN 0 ELSE cap) = 0
  OBVIOUS
<1>2. SubSeq(s, 1, 0) = <<>>
  OBVIOUS
<1> QED
  BY <1>1, <1>2 DEF First

\* The next one is appended as long as there is room.
LEMMA FirstNext ==
  ASSUME NEW S, NEW s \in Seq(S), NEW q \in Nat, q < Len(s), NEW cap \in Nat
  PROVE  First(s, q + 1, cap) =
            IF Len(First(s, q, cap)) < cap THEN Append(First(s, q, cap), s[q + 1])
            ELSE First(s, q, cap)
<1>0. Len(First(s, q, cap)) = IF q < cap THEN q ELSE cap
  BY FirstLen
<1>1. CASE q < cap
  <2> DEFINE a == SubSeq(s, 1, q)
  <2> DEFINE e == Append(a, s[q + 1])
  <2>1. a \in Seq(S) /\ Len(a) = q /\ \A i \in 1..q : a[i] = s[i]
    BY PrefixOf
  <2> HIDE DEF a
  <2>2. s[q + 1] \in S
    OBVIOUS
  <2>3. e \in Seq(S) /\ Extends(e, a, s[q + 1])
    BY <2>1, <2>2, Appended
  <2> HIDE DEF e
  <2>4. Len(e) = q + 1 /\ \A i \in 1..Len(e) : e[i] = s[i]
    BY <2>1, <2>3 DEF Extends
  <2>5. SubSeq(s, 1, Len(e)) = e
    BY <2>3, <2>4, PrefixIs
  <2>6. First(s, q, cap) = a
    BY <1>1 DEF First, a
  <2>7. First(s, q + 1, cap) = SubSeq(s, 1, q + 1)
    <3>1. (IF q + 1 < cap THEN q + 1 ELSE cap) = q + 1
      BY <1>1
    <3> QED
      BY <3>1 DEF First
  <2> QED
    BY <1>0, <1>1, <2>4, <2>5, <2>6, <2>7 DEF e
<1>2. CASE ~(q < cap)
  <2>1. (IF q + 1 < cap THEN q + 1 ELSE cap) = cap /\ (IF q < cap THEN q ELSE cap) = cap
    BY <1>2
  <2> QED
    BY <1>0, <2>1 DEF First
<1> QED
  BY <1>1, <1>2

-----------------------------------------------------------------------------
(* FS20.                                                                    *)

\* What the halves of a bit are to the decoder.
LEMMA FsHalf ==
  ASSUME NEW d, NEW x, NEW b \in Bit, Near(x, Half(b))
  PROVE  /\ ~d.half => fs20_pulse(d, x) = [d EXCEPT !.last = b, !.half = TRUE]
         /\ d.half /\ d.last = b => fs20_pulse(d, x) = fs20_bit([d EXCEPT !.half = FALSE], b)
<1> DEFINE Ones == (551..900) \cup (1151..1600)
<1> DEFINE Halves == 250..900
<1> DEFINE Wholes == 901..1600
<1> DEFINE c == IF x \in Ones THEN 1 ELSE 0
<1> DEFINE ready == x \in Wholes \/ (x \in Halves /\ d.half /\ d.last = c)
<1>1. fs20_pulse(d, x) = IF ready THEN fs20_bit([d EXCEPT !.half = FALSE], c)
                         ELSE IF x \in Halves THEN [d EXCEPT !.last = c, !.half = TRUE]
                         ELSE d
  BY DEF fs20_pulse
<1>2. c = b /\ x \in Halves /\ ~(x \in Wholes)
  <2>1. CASE b = 0
    <3>1. x \in Int /\ 351 <= x /\ x <= 449
      BY <2>1 DEF Near, Half
    <3> QED
      BY <2>1, <3>1
  <2>2. CASE b = 1
    <3>1. x \in Int /\ 551 <= x /\ x <= 649
      BY <2>2 DEF Near, Half
    <3> QED
      BY <2>2, <3>1
  <2> QED
    BY <2>1, <2>2 DEF Bit
<1> HIDE DEF c, Ones, Halves, Wholes
<1> QED
  BY <1>1, <1>2

\* In the bytes: q of them are complete and of the next one r bits have come.
FsBytes(d, bytes, q, r) ==
    /\ d.data = First(bytes, q, FsCap)
    /\ Len(d.bits) = r
    /\ \A j \in 1..r : d.bits[j] = bytes[q + 1][j]

\* The decoder after m bits.
FsBitsDone(d, bytes, m) ==
    /\ d.bits \in Seq(Bit)
    /\ m <= 24 => ~d.sync /\ d.data = <<>> /\ d.bits = <<>>
    /\ m > 24 => d.sync /\ \E q \in 0..Len(bytes) : \E r \in 0..8 :
                              m = 25 + 9 * q + r /\ FsBytes(d, bytes, q, r)

\* The fields of the FS20 decoder.
LEMMA FsRecord ==
  ASSUME NEW d \in fs20_dec_t
  PROVE  /\ d = [data |-> d.data, bits |-> d.bits, last |-> d.last, half |-> d.half, sync |-> d.sync]
         /\ d.bits \in Seq(Bit) /\ d.half \in BOOLEAN /\ d.sync \in BOOLEAN
BY DEF fs20_dec_t

\* And after one more bit.
FsByteNext(e, bytes, q, r) ==
    /\ e.bits \in Seq(Bit) /\ e.sync
    /\ r < 8 => FsBytes(e, bytes, q, r + 1)
    /\ r = 8 => FsBytes(e, bytes, q + 1, 0)

\* A bit of a byte or its parity.
LEMMA FsByteStep ==
  ASSUME NEW bytes \in Seq(Word(8, Bit)), NEW q \in 0..(Len(bytes) - 1), NEW r \in Nat, r <= 8,
         NEW d \in fs20_dec_t, d.sync, FsBytes(d, bytes, q, r),
         NEW b, b = WithParity(bytes[q + 1])[r + 1]
  PROVE  FsByteNext(fs20_bit(d, b), bytes, q, r) /\ fs20_bit(d, b).half = d.half
<1> DEFINE w == bytes[q + 1]
<1> DEFINE bits == Append(d.bits, b)
<1>0. r \in Nat /\ r <= 8 /\ r \in 0..8 /\ d.bits \in Seq(Bit)
      /\ d = [data |-> d.data, bits |-> d.bits, last |-> d.last, half |-> d.half, sync |-> d.sync]
  BY FsRecord
<1>1. w \in Word(8, Bit) /\ Len(bytes) \in Nat /\ q \in Nat /\ q < Len(bytes)
  OBVIOUS
<1>2. /\ WithParity(w) \in Seq(Bit) /\ Len(WithParity(w)) = 9
      /\ \A j \in 1..8 : WithParity(w)[j] = w[j]
      /\ WithParity(w)[9] = (w[1] + w[2] + w[3] + w[4] + w[5] + w[6] + w[7] + w[8]) % 2
  BY <1>1, ParityBit
<1>3. b \in Bit
  <2>1. r + 1 \in 1..Len(WithParity(w))
    <3>1. Len(WithParity(w)) = 9
      BY <1>2
    <3> HIDE DEF w
    <3> QED
      BY <1>0, <3>1
  <2> QED
    BY <1>2, <2>1, SymbolsOf
<1>4. bits \in Seq(Bit) /\ Extends(bits, d.bits, b)
  BY <1>0, <1>3, Appended
<1>5. Len(d.bits) = r /\ \A j \in 1..r : d.bits[j] = w[j]
  BY DEF FsBytes
<1> HIDE DEF w
<1>6. Len(bits) = r + 1 /\ bits[r + 1] = b /\ \A j \in 1..r : bits[j] = w[j]
  BY <1>4, <1>5 DEF Extends
<1>7. CASE r < 8
  <2>1. fs20_bit(d, b) = [d EXCEPT !.bits = bits]
    <3>1. Len(bits) < 9
      BY <1>6, <1>7
    <3> QED
      BY <3>1 DEF fs20_bit
  <2>2. b = w[r + 1]
    <3>1. r + 1 \in 1..8
      BY <1>0, <1>7
    <3>2. WithParity(w)[r + 1] = w[r + 1]
      BY <1>2, <3>1
    <3> QED
      BY <3>2 DEF w
  <2>3. \A j \in 1..(r + 1) : bits[j] = w[j]
    BY <1>6, <2>2
  <2> HIDE DEF bits
  <2> DEFINE e == [d EXCEPT !.bits = bits]
  <2>4. e.bits = bits /\ e.data = d.data /\ e.sync = d.sync /\ e.half = d.half
    BY <1>0
  <2> HIDE DEF e
  <2>5. FsBytes(e, bytes, q, r + 1)
    BY <1>6, <2>3, <2>4 DEF FsBytes, w
  <2> QED
    BY <1>4, <1>7, <2>1, <2>4, <2>5 DEF e, FsByteNext
<1>8. CASE r = 8
  <2>1. Len(bits) = 9 /\ bits[9] = b /\ \A j \in 1..8 : bits[j] = w[j]
    BY <1>6, <1>8
  <2>2. bits[9] = Parity(bits)
    <3>1. Parity(bits) = (w[1] + w[2] + w[3] + w[4] + w[5] + w[6] + w[7] + w[8]) % 2
      <4> HIDE DEF bits
      <4> QED
        BY <2>1 DEF Parity
    <3> QED
      BY <1>2, <1>8, <2>1, <3>1 DEF w
  <2>3. SubSeq(bits, 1, 8) = w
    <3> HIDE DEF bits
    <3>1. w \in Seq(Bit) /\ Len(w) = 8
      BY <1>1 DEF Word
    <3>2. \A i \in 1..Len(w) : w[i] = bits[i]
      BY <2>1, <3>1
    <3>3. SubSeq(bits, 1, Len(w)) = w
      BY <1>4, <2>1, <3>1, <3>2, PrefixIs
    <3> QED
      BY <3>1, <3>3
  <2> DEFINE data == IF Len(d.data) < FsCap THEN Append(d.data, w) ELSE d.data
  <2>4. fs20_bit(d, b) = [d EXCEPT !.bits = <<>>, !.data = data]
    <3>1. ~(Len(bits) < 9) /\ Len(bits) >= 9
      BY <2>1
    <3>2. fs20_bit(d, b) = [d EXCEPT !.bits = <<>>,
                      !.data = IF Len(@) < FsCap THEN Append(@, SubSeq(bits, 1, 8))
                               ELSE @]
      BY <2>2, <3>1 DEF fs20_bit
    <3> QED
      BY <2>3, <3>2
  <2>5. data = First(bytes, q + 1, FsCap)
    <3>1. FsCap \in Nat
      BY Capacities
    <3>2. d.data = First(bytes, q, FsCap)
      BY DEF FsBytes
    <3> QED
      BY <1>1, <3>1, <3>2, FirstNext DEF w
  <2> HIDE DEF data
  <2> DEFINE e == [d EXCEPT !.bits = <<>>, !.data = data]
  <2>6. e.bits = <<>> /\ e.data = data /\ e.sync = d.sync /\ e.half = d.half
    BY <1>0
  <2> HIDE DEF e
  <2>7. FsBytes(e, bytes, q + 1, 0)
    BY <2>5, <2>6, Nothing DEF FsBytes
  <2>8. fs20_bit(d, b) = e /\ e.bits \in Seq(Bit) /\ e.sync /\ e.half = d.half /\ ~(r < 8)
    BY <1>8, <2>4, <2>6, Nothing DEF e
  <2> QED
    BY <2>7, <2>8, Zenon DEF FsByteNext
<1> QED
  BY <1>7, <1>8

\* A bit more, of the preamble, the sync, a byte or its parity.
LEMMA FsBitStep ==
  ASSUME NEW bytes \in Seq(Word(8, Bit)), NEW m \in Nat, m <= 24 + 9 * Len(bytes),
         NEW d \in fs20_dec_t, FsBitsDone(d, bytes, m),
         NEW b, b = Fs20Bits(bytes)[m + 1]
  PROVE  FsBitsDone(fs20_bit(d, b), bytes, m + 1) /\ fs20_bit(d, b).half = d.half
<1> DEFINE n == Len(bytes)
<1> DEFINE e == fs20_bit(d, b)
<1>0. n \in Nat /\ m <= 24 + 9 * n
  OBVIOUS
<1>1. CASE m < 24
  <2>1. b = 0
    <3>1. m + 1 \in 1..24
      BY <1>1
    <3> QED
      BY <3>1, FsBits
  <2>2. ~d.sync /\ d.data = <<>> /\ d.bits = <<>>
    BY <1>1 DEF FsBitsDone
  <2>3. e = d
    BY <2>1, <2>2 DEF fs20_bit
  <2> HIDE DEF e
  <2>4. FsBitsDone(d, bytes, m + 1)
    BY <1>1, <2>2, Nothing DEF FsBitsDone
  <2> QED
    BY <2>3, <2>4 DEF e
<1>2. CASE m = 24
  <2>1. b = 1
    BY <1>2, FsBits
  <2>2. ~d.sync /\ d.data = <<>> /\ d.bits = <<>>
    BY <1>2 DEF FsBitsDone
  <2>3. e = [d EXCEPT !.sync = TRUE, !.bits = <<>>]
    BY <2>1, <2>2 DEF fs20_bit
  <2> HIDE DEF e
  <2>4. e.sync /\ e.data = <<>> /\ e.bits = <<>> /\ e.half = d.half
    BY <2>2, <2>3, FsRecord
  <2>5. FsBytes(e, bytes, 0, 0)
    <3>1. FsCap \in Nat
      BY Capacities
    <3>2. First(bytes, 0, FsCap) = <<>>
      BY <3>1, FirstNone
    <3> QED
      BY <2>4, <3>2, Nothing DEF FsBytes
  <2>6. 0 \in 0..n /\ 0 \in 0..8 /\ m + 1 = 25 + 9 * 0 + 0 /\ ~(m + 1 <= 24)
    BY <1>0, <1>2
  <2>7. FsBitsDone(e, bytes, m + 1)
    BY <2>4, <2>5, <2>6, Nothing DEF FsBitsDone
  <2> QED
    BY <2>4, <2>7 DEF e
<1>3. CASE m > 24
  <2>1. PICK q \in 0..n : \E r \in 0..8 : m = 25 + 9 * q + r /\ FsBytes(d, bytes, q, r)
    BY <1>3 DEF FsBitsDone
  <2>2. PICK r \in 0..8 : m = 25 + 9 * q + r /\ FsBytes(d, bytes, q, r)
    BY <2>1
  <2>3. /\ q \in 0..(n - 1) /\ r \in Nat /\ r <= 8 /\ q \in Nat
        /\ m + 1 = 25 + 9 * q + (r + 1) /\ r + 1 \in 1..9
    BY <1>0, <2>1, <2>2
  <2>4. b = WithParity(bytes[q + 1])[r + 1]
    <3>1. Fs20Bits(bytes)[25 + 9 * q + (r + 1)] = WithParity(bytes[q + 1])[r + 1]
      BY <2>3, FsBits
    <3> QED
      BY <2>3, <3>1
  <2>5. d.sync
    BY <1>3 DEF FsBitsDone
  <2>a. FsByteNext(e, bytes, q, r) /\ e.half = d.half
    <3>1. q \in 0..(Len(bytes) - 1) /\ FsBytes(d, bytes, q, r) /\ r \in Nat /\ r <= 8
      BY <2>2, <2>3
    <3> QED
      BY <2>4, <2>5, <3>1, FsByteStep
  <2>6. /\ e.bits \in Seq(Bit) /\ e.sync /\ e.half = d.half
        /\ r < 8 => FsBytes(e, bytes, q, r + 1)
        /\ r = 8 => FsBytes(e, bytes, q + 1, 0)
    BY <2>a, Zenon DEF FsByteNext
  <2> HIDE DEF e
  <2>7. CASE r < 8
    <3>1. q \in 0..n /\ r + 1 \in 0..8 /\ m + 1 = 25 + 9 * q + (r + 1) /\ ~(m + 1 <= 24)
      BY <1>0, <1>3, <2>3, <2>7
    <3>2. FsBytes(e, bytes, q, r + 1)
      BY <2>6, <2>7
    <3> QED
      BY <2>6, <3>1, <3>2 DEF FsBitsDone, e
  <2>8. CASE r = 8
    <3>1. q + 1 \in 0..n /\ 0 \in 0..8 /\ m + 1 = 25 + 9 * (q + 1) + 0 /\ ~(m + 1 <= 24)
      BY <1>0, <1>3, <2>3, <2>8
    <3>2. FsBytes(e, bytes, q + 1, 0)
      BY <2>6, <2>8
    <3> QED
      BY <2>6, <3>1, <3>2 DEF FsBitsDone, e
  <2> QED
    BY <2>3, <2>7, <2>8
<1> QED
  BY <1>1, <1>2, <1>3

\* The decoder after k pulses.
FsAt(d, bytes, k) ==
    \E m \in Nat : /\ FsBitsDone(d, bytes, m)
                   /\ \/ k = 2 * m /\ ~d.half
                      \/ k = 2 * m + 1 /\ d.half /\ d.last = Fs20Bits(bytes)[m + 1]

\* A reset decoder has taken no pulse.
LEMMA FsStart ==
  ASSUME NEW bytes
  PROVE  FsAt(reset_fs20, bytes, 0)
<1> DEFINE e == reset_fs20
<1>1. e.bits = <<>> /\ e.data = <<>> /\ e.sync = FALSE /\ e.half = FALSE
  BY DEF reset_fs20
<1> HIDE DEF e
<1>2. FsBitsDone(e, bytes, 0)
  BY <1>1, Nothing DEF FsBitsDone
<1>3. 0 \in Nat /\ 0 = 2 * 0
  OBVIOUS
<1> QED
  BY <1>1, <1>2, <1>3 DEF FsAt, e

\* A pulse of the train, however stretched, takes the FS20 decoder one on.
LEMMA FsStep ==
  ASSUME NEW bytes \in Seq(Word(8, Bit)), NEW d \in fs20_dec_t, NEW k \in Nat,
         k < 51 + 18 * Len(bytes), FsAt(d, bytes, k),
         NEW x, Near(x, cc1101_send_raw_slowrf(bytes)[k + 1][1])
  PROVE  FsAt(fs20_pulse(d, x), bytes, k + 1)
<1> DEFINE L == 26 + 9 * Len(bytes)
<1> DEFINE bits == Fs20Bits(bytes)
<1> DEFINE t == cc1101_send_raw_slowrf(bytes)
<1> DEFINE n == Len(bytes)
<1>0. n \in Nat /\ L = 26 + 9 * n /\ k < 51 + 18 * n
  OBVIOUS
<1>1. /\ \A m \in 0..(L - 1) : t[2 * m + 1] = <<Half(bits[m + 1]), 0>>
      /\ \A m \in 0..(L - 2) : t[2 * m + 2] = <<Half(bits[m + 1]), 1>>
  <2> HIDE DEF L
  <2>1. L = 26 + 9 * Len(bytes)
    BY DEF L
  <2>2. FsPulses(t, bits, L)
    BY <2>1, FsTrain, Zenon
  <2> QED
    BY <2>2 DEF FsPulses
<1>2. bits \in Seq(Bit) /\ Len(bits) = L
  BY FsBits
<1>3. PICK m \in Nat : /\ FsBitsDone(d, bytes, m)
                       /\ \/ k = 2 * m /\ ~d.half
                          \/ k = 2 * m + 1 /\ d.half /\ d.last = bits[m + 1]
  BY DEF FsAt
<1> DEFINE b == bits[m + 1]
<1>4. b \in Bit
  <2>1. m + 1 \in 1..Len(bits)
    BY <1>0, <1>2, <1>3
  <2> HIDE DEF bits
  <2> QED
    BY <1>2, <2>1, SymbolsOf
<1> HIDE DEF t, bits, L, n
<1>5. Near(x, t[k + 1][1])
  BY DEF t
<1>6. CASE k = 2 * m /\ ~d.half
  <2>1. m \in 0..(L - 1) /\ k + 1 = 2 * m + 1
    BY <1>0, <1>6
  <2>2. t[k + 1] = <<Half(b), 0>>
    BY <1>1, <2>1
  <2>3. Near(x, Half(b))
    BY <1>5, <2>2
  <2> HIDE DEF b
  <2>4. fs20_pulse(d, x) = [d EXCEPT !.last = b, !.half = TRUE]
    BY <1>4, <1>6, <2>3, FsHalf
  <2> DEFINE e == fs20_pulse(d, x)
  <2>5. e.last = b /\ e.half /\ e.bits = d.bits /\ e.data = d.data /\ e.sync = d.sync
    BY <2>4, FsRecord
  <2> HIDE DEF e
  <2>6. FsBitsDone(e, bytes, m)
    BY <1>3, <2>5 DEF FsBitsDone, FsBytes
  <2>7. \E i \in Nat : FsBitsDone(e, bytes, i) /\ k + 1 = 2 * i + 1 /\ e.half /\ e.last = Fs20Bits(bytes)[i + 1]
    BY <2>1, <2>5, <2>6 DEF b, bits
  <2> QED
    BY <2>7 DEF FsAt, e
<1>7. CASE k = 2 * m + 1 /\ d.half /\ d.last = bits[m + 1]
  <2>0. k = 2 * m + 1 /\ k < 51 + 18 * n /\ n \in Nat /\ L = 26 + 9 * n
    BY <1>0, <1>7
  <2>1. m \in 0..(L - 2) /\ k + 1 = 2 * m + 2 /\ m <= 24 + 9 * n
    BY <2>0
  <2>2. t[k + 1] = <<Half(b), 1>>
    BY <1>1, <2>1
  <2>3. Near(x, Half(b))
    BY <1>5, <2>2
  <2>a. b = Fs20Bits(bytes)[m + 1] /\ d.last = b
    BY <1>7 DEF bits
  <2> HIDE DEF b
  <2> DEFINE f == [d EXCEPT !.half = FALSE]
  <2>4. fs20_pulse(d, x) = fs20_bit(f, b)
    BY <1>4, <1>7, <2>3, <2>a, FsHalf
  <2>5. f \in fs20_dec_t /\ f.half = FALSE /\ f.bits = d.bits /\ f.data = d.data /\ f.sync = d.sync
    BY FsRecord DEF fs20_dec_t
  <2> HIDE DEF f
  <2>6. FsBitsDone(f, bytes, m)
    BY <1>3, <2>5 DEF FsBitsDone, FsBytes
  <2>7. FsBitsDone(fs20_bit(f, b), bytes, m + 1) /\ fs20_bit(f, b).half = f.half
    BY <2>1, <2>5, <2>6, <2>a, FsBitStep DEF n
  <2>8. m + 1 \in Nat /\ k + 1 = 2 * (m + 1)
    BY <2>1
  <2>9. \E i \in Nat : FsBitsDone(fs20_bit(f, b), bytes, i) /\ k + 1 = 2 * i /\ ~fs20_bit(f, b).half
    BY <2>5, <2>7, <2>8
  <2> QED
    BY <2>4, <2>9 DEF FsAt
<1> QED
  BY <1>3, <1>6, <1>7

\* Before the gap all bytes have come.
LEMMA FsEnd ==
  ASSUME NEW bytes \in Seq(Word(8, Bit)), NEW d, FsAt(d, bytes, 51 + 18 * Len(bytes))
  PROVE  d.data = First(bytes, Len(bytes), FsCap)
<1> DEFINE n == Len(bytes)
<1>0. n \in Nat
  OBVIOUS
<1>1. PICK m \in Nat : FsBitsDone(d, bytes, m) /\ (51 + 18 * n = 2 * m \/ 51 + 18 * n = 2 * m + 1)
  BY DEF FsAt
<1>2. m = 25 + 9 * n /\ m > 24
  BY <1>0, <1>1
<1>3. PICK q \in 0..n : \E r \in 0..8 : m = 25 + 9 * q + r /\ FsBytes(d, bytes, q, r)
  BY <1>1, <1>2 DEF FsBitsDone
<1>4. PICK r \in 0..8 : m = 25 + 9 * q + r /\ FsBytes(d, bytes, q, r)
  BY <1>3
<1>5. q = n
  BY <1>0, <1>2, <1>4
<1> QED
  BY <1>4, <1>5 DEF FsBytes

\* And are what is expected.
LEMMA FirstAll ==
  ASSUME NEW S, NEW s \in Seq(S), NEW cap \in Nat
  PROVE  First(s, Len(s), cap) = IF Len(s) > cap THEN SubSeq(s, 1, cap) ELSE s
<1>1. Len(s) \in Nat
  OBVIOUS
<1>2. SubSeq(s, 1, Len(s)) = s
  BY PrefixIs
<1> QED
  BY <1>1, <1>2 DEF First

\* At the gap that ends the train the FS20 frame is reported.
LEMMA FsReport ==
  ASSUME NEW f, f.kind = "FS20", f.data \in Seq(Word(8, Bit)), Len(f.data) >= 4,
         FsAt(fs, f.data, 51 + 18 * Len(f.data))
  PROVE  Reported(f) \in Reports
<1> DEFINE d == f.data
<1> DEFINE s == IF Len(d) > FsCap THEN SubSeq(d, 1, FsCap) ELSE d
<1>1. Reported(f) = <<"F", Printed(s)>>
  BY DEF Reported
<1>2. fs.data = s
  <2>1. FsCap \in Nat
    BY Capacities
  <2>2. fs.data = First(d, Len(d), FsCap)
    BY FsEnd
  <2> QED
    BY <2>1, <2>2, FirstAll
<1>3. Len(Printed(s)) >= 4
  <2>1. Reported(f)[2] = Printed(s)
    BY <1>1
  <2>2. Len(Reported(f)[2]) >= 4
    BY FsPacket
  <2> QED
    BY <2>1, <2>2
<1> HIDE DEF s
<1> DEFINE Line(prefix, data, min) == IF Len(data) >= min THEN {<<prefix, data>>} ELSE {}
<1>4. <<"F", Printed(s)>> \in Line("F", Printed(fs.data), 4)
  BY <1>2, <1>3
<1>5. Line("F", Printed(fs.data), 4) \subseteq Reports
  <2>1. Reports = UNION {Line("F", Printed(fs.data), 4), Line("is", it1.s, It1Len),
               Line("is", it3.s, It3Len), Line("P", os.data, 16),
               Line("H", hms.data, 8), Line("K", s300.data, 9),
               Line("T", Printed(fht.data), 5)}
    BY DEF Reports
  <2> HIDE DEF Line
  <2> QED
    BY <2>1
<1> QED
  BY <1>1, <1>4, <1>5

-----------------------------------------------------------------------------
(* HMS.                                                                     *)

\* The fields of the HMS decoder.
LEMMA HmsRecord ==
  ASSUME NEW d \in hms_dec_t
  PROVE  /\ d = [data |-> d.data, bits |-> d.bits, last |-> d.last, armed |-> d.armed]
         /\ d.bits \in Seq(Bit) /\ d.armed \in BOOLEAN
BY DEF hms_dec_t

\* A mark is remembered.
LEMMA HmsMark ==
  ASSUME NEW d, NEW x
  PROVE  hms_pulse(d, x, 0) = [d EXCEPT !.last = x, !.armed = TRUE]
BY DEF hms_pulse

\* The space after it makes it a bit, unless it is a zero in front.
LEMMA HmsSpace ==
  ASSUME NEW d, NEW x, Near(x, 400), NEW b \in Bit, Near(d.last, High(b)), d.armed
  PROVE  hms_pulse(d, x, 1) =
            IF b = 1 \/ d.data # <<>> \/ d.bits # <<>>
            THEN sensor_bit([d EXCEPT !.armed = FALSE], b) ELSE [d EXCEPT !.armed = FALSE]
<1> DEFINE Spaces == 200..1200
<1> DEFINE Marks == 201..1199
<1> DEFINE c == IF d.last > 600 THEN 1 ELSE 0
<1> DEFINE done == [d EXCEPT !.armed = FALSE]
<1>1. x \in Spaces
  <2>1. x \in Int /\ 351 <= x /\ x <= 449
    BY DEF Near
  <2> QED
    BY <2>1
<1>2. c = b /\ d.last \in Marks
  <2>1. CASE b = 0
    <3>1. d.last \in Int /\ 351 <= d.last /\ d.last <= 449
      BY <2>1 DEF Near, High
    <3>2. c = 0
      BY <3>1
    <3> DEFINE y == d.last
    <3> HIDE DEF y
    <3>3. y \in Int /\ 351 <= y /\ y <= 449
      BY <3>1 DEF y
    <3>4. y \in Marks
      BY <3>3
    <3> QED
      BY <2>1, <3>2, <3>4 DEF y
  <2>2. CASE b = 1
    <3>1. d.last \in Int /\ 751 <= d.last /\ d.last <= 849
      BY <2>2 DEF Near, High
    <3>2. c = 1
      BY <3>1
    <3> DEFINE y == d.last
    <3> HIDE DEF y
    <3>3. y \in Int /\ 751 <= y /\ y <= 849
      BY <3>1 DEF y
    <3>4. y \in Marks
      BY <3>3
    <3> QED
      BY <2>2, <3>2, <3>4 DEF y
  <2> QED
    BY <2>1, <2>2 DEF Bit
<1>3. hms_pulse(d, x, 1) =
        CASE 1 = 0 -> [d EXCEPT !.last = x, !.armed = TRUE]
          [] 1 = 1 /\ ~d.armed -> d
          [] 1 = 1 /\ d.armed /\ x \notin Spaces ->
                IF d.data # <<>> THEN reset_hms(d) ELSE done
          [] OTHER -> IF /\ d.last \in Marks
                         /\ c = 1 \/ d.data # <<>> \/ d.bits # <<>>
                      THEN sensor_bit(done, c) ELSE done
  BY DEF hms_pulse
<1> HIDE DEF Spaces, Marks, c, done
<1>4. hms_pulse(d, x, 1) =
        IF /\ d.last \in Marks
           /\ c = 1 \/ d.data # <<>> \/ d.bits # <<>>
        THEN sensor_bit(done, c) ELSE done
  BY <1>1, <1>3
<1> QED
  BY <1>2, <1>4 DEF done

\* In the nibbles: q of them are complete and of the next one r bits have come.
HmsNibbles(d, nibs, q, r) ==
    /\ d.data = First(nibs, q, NibCap)
    /\ Len(d.bits) = r
    /\ \A j \in 1..r : d.bits[j] = nibs[q + 1][j]

HmsNibbleNext(e, nibs, q, r) ==
    /\ e.bits \in Seq(Bit)
    /\ r < 3 => HmsNibbles(e, nibs, q, r + 1)
    /\ r = 3 => HmsNibbles(e, nibs, q + 1, 0)

\* A bit of a nibble.
LEMMA HmsNibbleStep ==
  ASSUME NEW nibs \in Seq(Word(4, Bit)), NEW q \in 0..(Len(nibs) - 1), NEW r \in Nat, r <= 3,
         NEW d \in hms_dec_t, HmsNibbles(d, nibs, q, r), NEW b, b = nibs[q + 1][r + 1]
  PROVE  HmsNibbleNext(sensor_bit(d, b), nibs, q, r) /\ sensor_bit(d, b).armed = d.armed
<1> DEFINE w == nibs[q + 1]
<1> DEFINE bits == Append(d.bits, b)
<1>0. /\ d.bits \in Seq(Bit)
      /\ d = [data |-> d.data, bits |-> d.bits, last |-> d.last, armed |-> d.armed]
  BY HmsRecord
<1>1. w \in Word(4, Bit) /\ Len(nibs) \in Nat /\ q \in Nat /\ q < Len(nibs)
  OBVIOUS
<1>2. w \in Seq(Bit) /\ Len(w) = 4
  BY <1>1 DEF Word
<1>3. b \in Bit /\ b = w[r + 1]
  <2>1. b = w[r + 1]
    OBVIOUS
  <2> HIDE DEF w
  <2>2. r + 1 \in 1..Len(w)
    BY <1>2
  <2> QED
    BY <1>2, <2>1, <2>2, SymbolsOf
<1>4. bits \in Seq(Bit) /\ Extends(bits, d.bits, b)
  BY <1>0, <1>3, Appended
<1>5. Len(d.bits) = r /\ \A j \in 1..r : d.bits[j] = w[j]
  BY DEF HmsNibbles
<1> HIDE DEF w
<1>6. Len(bits) = r + 1 /\ bits[r + 1] = b /\ \A j \in 1..r : bits[j] = w[j]
  BY <1>4, <1>5 DEF Extends
<1>9. \A j \in 1..(r + 1) : bits[j] = w[j]
  BY <1>3, <1>6
<1>7. CASE r < 3
  <2>1. sensor_bit(d, b) = [d EXCEPT !.bits = bits]
    <3>1. Len(bits) < 4
      BY <1>6, <1>7
    <3> QED
      BY <3>1 DEF sensor_bit
  <2> HIDE DEF bits
  <2> DEFINE e == [d EXCEPT !.bits = bits]
  <2>4. e.bits = bits /\ e.data = d.data /\ e.armed = d.armed
    BY <1>0
  <2> HIDE DEF e
  <2>5. HmsNibbles(e, nibs, q, r + 1)
    BY <1>6, <1>9, <2>4 DEF HmsNibbles, w
  <2> QED
    BY <1>4, <1>7, <2>1, <2>4, <2>5 DEF e, HmsNibbleNext
<1>8. CASE r = 3
  <2>1. Len(bits) = 4 /\ \A j \in 1..Len(bits) : bits[j] = w[j]
    BY <1>6, <1>8, <1>9
  <2>2. bits = w
    <3> HIDE DEF bits
    <3> QED
      BY <1>2, <1>4, <2>1, SameSeq
  <2> DEFINE data == IF Len(d.data) < NibCap THEN Append(d.data, w) ELSE d.data
  <2>4. sensor_bit(d, b) = [d EXCEPT !.bits = <<>>, !.data = data]
    <3>1. ~(Len(bits) < 4)
      BY <2>1
    <3>2. sensor_bit(d, b) = [d EXCEPT !.bits = <<>>,
                   !.data = IF Len(@) < NibCap THEN Append(@, bits) ELSE @]
      BY <3>1 DEF sensor_bit
    <3> QED
      BY <2>2, <3>2
  <2>5. data = First(nibs, q + 1, NibCap)
    <3>1. NibCap \in Nat
      BY Capacities
    <3>2. d.data = First(nibs, q, NibCap)
      BY DEF HmsNibbles
    <3> QED
      BY <1>1, <3>1, <3>2, FirstNext DEF w
  <2> HIDE DEF data
  <2> DEFINE e == [d EXCEPT !.bits = <<>>, !.data = data]
  <2>6. e.bits = <<>> /\ e.data = data /\ e.armed = d.armed
    BY <1>0
  <2> HIDE DEF e
  <2>7. HmsNibbles(e, nibs, q + 1, 0)
    BY <2>5, <2>6, Nothing DEF HmsNibbles
  <2>8. sensor_bit(d, b) = e /\ e.bits \in Seq(Bit) /\ e.armed = d.armed /\ ~(r < 3)
    BY <1>8, <2>4, <2>6, Nothing DEF e
  <2> QED
    BY <2>7, <2>8, Zenon DEF HmsNibbleNext
<1> QED
  BY <1>7, <1>8

\* The decoder after m bits.
HmsBitsDone(d, nibs, m) ==
    /\ m <= 16 => d.data = <<>> /\ d.bits = <<>>
    /\ m >= 16 => \E q \in 0..Len(nibs) : \E r \in 0..3 :
                     m = 16 + 4 * q + r /\ HmsNibbles(d, nibs, q, r)

\* A bit more, of the preamble or of a nibble.
LEMMA HmsBitStep ==
  ASSUME NEW nibs \in Seq(Word(4, Bit)), nibs[1][1] = 1, NEW m \in Nat, m <= 14 + 4 * Len(nibs),
         NEW d \in hms_dec_t, HmsBitsDone(d, nibs, m), d.armed,
         NEW x, Near(x, 400), Near(d.last, cc1101_send_hms(nibs)[2 * m + 1][1])
  PROVE  HmsBitsDone(hms_pulse(d, x, 1), nibs, m + 1) /\ ~hms_pulse(d, x, 1).armed
<1> DEFINE n == Len(nibs)
<1> DEFINE t == cc1101_send_hms(nibs)
<1> DEFINE done == [d EXCEPT !.armed = FALSE]
<1> DEFINE e == hms_pulse(d, x, 1)
<1>0. n \in Nat /\ m <= 14 + 4 * n
  OBVIOUS
<1>1. done \in hms_dec_t /\ done.armed = FALSE /\ done.bits = d.bits /\ done.data = d.data
  BY HmsRecord DEF hms_dec_t
<1>2. HmsPreamble(t) /\ HmsMarks(t, nibs, n)
  BY HmsTrain, Zenon
<1>3. Near(d.last, t[2 * m + 1][1])
  OBVIOUS
<1> HIDE DEF t, done
<1>4. CASE m < 16
  <2>1. Near(d.last, High(0))
    <3>1. m \in 0..15
      BY <1>4
    <3>2. t[2 * m + 1] = <<400, 0>>
      BY <1>2, <3>1 DEF HmsPreamble
    <3> QED
      BY <1>3, <3>2 DEF High
  <2>2. d.data = <<>> /\ d.bits = <<>>
    BY <1>4 DEF HmsBitsDone
  <2>3. e = done
    <3>1. 0 \in Bit /\ 0 # 1
      BY DEF Bit
    <3>2. e = IF 0 = 1 \/ d.data # <<>> \/ d.bits # <<>> THEN sensor_bit(done, 0) ELSE done
      BY <2>1, <3>1, HmsSpace DEF done
    <3> QED
      BY <2>2, <3>1, <3>2
  <2> HIDE DEF e
  <2>4. HmsBitsDone(done, nibs, m + 1)
    <3>1. done.data = <<>> /\ done.bits = <<>>
      BY <1>1, <2>2
    <3>2. ASSUME m + 1 >= 16
          PROVE  \E q \in 0..n : \E r \in 0..3 : m + 1 = 16 + 4 * q + r /\ HmsNibbles(done, nibs, q, r)
      <4>1. m + 1 = 16 + 4 * 0 + 0 /\ 0 \in 0..n /\ 0 \in 0..3
        BY <1>0, <1>4, <3>2
      <4>2. NibCap \in Nat
        BY Capacities
      <4>3. First(nibs, 0, NibCap) = <<>>
        BY <4>2, FirstNone
      <4>4. HmsNibbles(done, nibs, 0, 0)
        BY <3>1, <4>3, Nothing DEF HmsNibbles
      <4> QED
        BY <4>1, <4>4
    <3> QED
      BY <3>1, <3>2 DEF HmsBitsDone
  <2> QED
    BY <1>1, <2>3, <2>4 DEF e
<1>5. CASE m >= 16
  <2>1. PICK q \in 0..n : \E r \in 0..3 : m = 16 + 4 * q + r /\ HmsNibbles(d, nibs, q, r)
    BY <1>5 DEF HmsBitsDone
  <2>2. PICK r \in 0..3 : m = 16 + 4 * q + r /\ HmsNibbles(d, nibs, q, r)
    BY <2>1
  <2>3. /\ q \in 0..(n - 1) /\ q \in Nat /\ r \in Nat /\ r <= 3
        /\ 2 * m + 1 = 32 + 8 * q + 2 * (r + 1) - 1 /\ r + 1 \in 1..4
    BY <1>0, <2>1, <2>2
  <2> DEFINE b == nibs[q + 1][r + 1]
  <2>4. b \in Bit
    <3>1. nibs[q + 1] \in Word(4, Bit)
      BY <2>3
    <3>2. nibs[q + 1] \in Seq(Bit) /\ Len(nibs[q + 1]) = 4
      BY <3>1 DEF Word
    <3> DEFINE w == nibs[q + 1]
    <3>3. w \in Seq(Bit) /\ r + 1 \in 1..Len(w)
      BY <2>3, <3>2
    <3> HIDE DEF w
    <3>4. w[r + 1] \in Bit
      BY <3>3, SymbolsOf
    <3> QED
      BY <3>4 DEF w
  <2>5. Near(d.last, High(b))
    <3>1. t[32 + 8 * q + 2 * (r + 1) - 1] = <<High(nibs[q + 1][r + 1]), 0>>
      BY <1>2, <2>3 DEF HmsMarks
    <3> QED
      BY <1>3, <2>3, <3>1
  <2>6. b = 1 \/ d.data # <<>> \/ d.bits # <<>>
    <3>1. CASE q = 0 /\ r = 0
      BY <3>1
    <3>2. CASE r # 0
      <4>1. Len(d.bits) = r
        BY <2>2 DEF HmsNibbles
      <4> QED
        BY <2>3, <3>2, <4>1, Nothing
    <3>3. CASE q # 0
      <4>1. d.data = First(nibs, q, NibCap)
        BY <2>2 DEF HmsNibbles
      <4>2. NibCap \in Nat /\ NibCap > 0 /\ q <= Len(nibs)
        BY <2>3, Capacities
      <4>3. Len(First(nibs, q, NibCap)) = IF q < NibCap THEN q ELSE NibCap
        <5>1. q \in Nat /\ q <= Len(nibs) /\ NibCap \in Nat
          BY <2>3, <4>2
        <5> DEFINE W == Word(4, Bit)
        <5>2. nibs \in Seq(W)
          OBVIOUS
        <5> HIDE DEF W
        <5> QED
          BY <5>1, <5>2, FirstLen, Zenon
      <4>4. Len(d.data) > 0
        BY <2>3, <3>3, <4>1, <4>2, <4>3
      <4> QED
        BY <4>4, Nothing
    <3> QED
      BY <3>1, <3>2, <3>3
  <2> HIDE DEF b
  <2>7. e = sensor_bit(done, b)
    <3>1. e = IF b = 1 \/ d.data # <<>> \/ d.bits # <<>> THEN sensor_bit(done, b) ELSE done
      BY <2>4, <2>5, HmsSpace DEF done
    <3> QED
      BY <2>6, <3>1, Zenon
  <2>8. HmsNibbles(done, nibs, q, r)
    BY <1>1, <2>2 DEF HmsNibbles
  <2>9. HmsNibbleNext(e, nibs, q, r) /\ e.armed = done.armed
    <3>1. q \in 0..(Len(nibs) - 1) /\ r \in Nat /\ r <= 3 /\ b = nibs[q + 1][r + 1]
      BY <2>3 DEF b
    <3> HIDE DEF e
    <3> QED
      BY <1>1, <2>7, <2>8, <3>1, HmsNibbleStep
  <2> HIDE DEF e
  <2>10. CASE r < 3
    <3>1. q \in 0..n /\ r + 1 \in 0..3 /\ m + 1 = 16 + 4 * q + (r + 1) /\ ~(m + 1 <= 16)
      BY <1>0, <1>5, <2>2, <2>3, <2>10
    <3>2. HmsNibbles(e, nibs, q, r + 1)
      BY <2>9, <2>10 DEF HmsNibbleNext
    <3> QED
      BY <1>1, <2>9, <3>1, <3>2 DEF HmsBitsDone, e
  <2>11. CASE r = 3
    <3>1. q + 1 \in 0..n /\ 0 \in 0..3 /\ m + 1 = 16 + 4 * (q + 1) + 0 /\ ~(m + 1 <= 16)
      BY <1>0, <1>5, <2>2, <2>3, <2>11
    <3>2. HmsNibbles(e, nibs, q + 1, 0)
      BY <2>9, <2>11 DEF HmsNibbleNext
    <3> QED
      BY <1>1, <2>9, <3>1, <3>2 DEF HmsBitsDone, e
  <2> QED
    BY <2>3, <2>10, <2>11
<1> QED
  BY <1>4, <1>5

\* The decoder after k pulses.
HmsAt(d, nibs, k) ==
    \E m \in Nat : /\ HmsBitsDone(d, nibs, m)
                   /\ \/ k = 2 * m
                      \/ k = 2 * m + 1 /\ d.armed /\ Near(d.last, cc1101_send_hms(nibs)[k][1])

\* A reset decoder has taken no pulse.
LEMMA HmsStart ==
  ASSUME NEW nibs, NEW d
  PROVE  HmsAt(reset_hms(d), nibs, 0)
<1> DEFINE e == reset_hms(d)
<1>1. e.bits = <<>> /\ e.data = <<>>
  BY DEF reset_hms
<1> HIDE DEF e
<1>2. HmsBitsDone(e, nibs, 0)
  BY <1>1 DEF HmsBitsDone
<1>3. 0 \in Nat /\ 0 = 2 * 0
  OBVIOUS
<1> QED
  BY <1>2, <1>3 DEF HmsAt, e

\* A pulse of the train, however stretched, takes the HMS decoder one on.
LEMMA HmsStep ==
  ASSUME NEW nibs \in Seq(Word(4, Bit)), nibs[1][1] = 1, NEW d \in hms_dec_t, NEW k \in Nat,
         k < 31 + 8 * Len(nibs), HmsAt(d, nibs, k),
         NEW x, Near(x, cc1101_send_hms(nibs)[k + 1][1]),
         NEW l, l = cc1101_send_hms(nibs)[k + 1][2]
  PROVE  HmsAt(hms_pulse(d, x, l), nibs, k + 1)
<1> DEFINE n == Len(nibs)
<1> DEFINE t == cc1101_send_hms(nibs)
<1>0. n \in Nat /\ k < 31 + 8 * n
  OBVIOUS
<1>1. HmsPreamble(t) /\ HmsMarks(t, nibs, n) /\ HmsSpaces(t, n)
  BY HmsTrain, Zenon
<1>2. PICK m \in Nat : /\ HmsBitsDone(d, nibs, m)
                       /\ \/ k = 2 * m
                          \/ k = 2 * m + 1 /\ d.armed /\ Near(d.last, t[k][1])
  BY DEF HmsAt
<1>3. Near(x, t[k + 1][1]) /\ l = t[k + 1][2]
  OBVIOUS
<1> HIDE DEF t
<1>4. CASE k = 2 * m
  <2>1. l = 0
    <3>1. CASE m < 16
      <4>1. m \in 0..15 /\ k + 1 = 2 * m + 1
        BY <1>4, <3>1
      <4>2. t[2 * m + 1] = <<400, 0>>
        BY <1>1, <4>1 DEF HmsPreamble
      <4> QED
        BY <1>3, <4>1, <4>2
    <3>2. CASE m >= 16
      <4>1. PICK q \in 0..n : \E r \in 0..3 : m = 16 + 4 * q + r
        BY <1>2, <3>2 DEF HmsBitsDone
      <4>2. PICK r \in 0..3 : m = 16 + 4 * q + r
        BY <4>1
      <4>3. q \in 0..(n - 1) /\ r + 1 \in 1..4 /\ k + 1 = 32 + 8 * q + 2 * (r + 1) - 1
        BY <1>0, <1>4, <4>1, <4>2
      <4>4. t[32 + 8 * q + 2 * (r + 1) - 1] = <<High(nibs[q + 1][r + 1]), 0>>
        BY <1>1, <4>3 DEF HmsMarks
      <4> QED
        BY <1>3, <4>3, <4>4
    <3> QED
      BY <3>1, <3>2
  <2> DEFINE e == hms_pulse(d, x, l)
  <2>2. e = [d EXCEPT !.last = x, !.armed = TRUE]
    BY <2>1, HmsMark
  <2> HIDE DEF e
  <2>3. e.last = x /\ e.armed /\ e.bits = d.bits /\ e.data = d.data
    BY <2>2, HmsRecord
  <2>4. HmsBitsDone(e, nibs, m)
    BY <1>2, <2>3 DEF HmsBitsDone, HmsNibbles
  <2>5. k + 1 = 2 * m + 1 /\ Near(e.last, t[k + 1][1])
    BY <1>3, <1>4, <2>3
  <2> QED
    BY <2>3, <2>4, <2>5 DEF HmsAt, e, t
<1>5. CASE k = 2 * m + 1 /\ d.armed /\ Near(d.last, t[k][1])
  <2>0. k = 2 * m + 1 /\ k < 31 + 8 * n
    BY <1>0, <1>5
  <2>1. m \in 0..(14 + 4 * n) /\ k + 1 = 2 * m + 2 /\ m <= 14 + 4 * n
    BY <1>0, <2>0
  <2>2. t[k + 1] = <<400, 1>>
    BY <1>1, <2>1 DEF HmsSpaces
  <2>3. l = 1 /\ Near(x, 400)
    BY <1>3, <2>2
  <2>4. Near(d.last, cc1101_send_hms(nibs)[2 * m + 1][1]) /\ d.armed
    BY <1>5 DEF t
  <2>5. HmsBitsDone(hms_pulse(d, x, 1), nibs, m + 1)
    BY <1>2, <2>1, <2>3, <2>4, HmsBitStep
  <2>6. m + 1 \in Nat /\ k + 1 = 2 * (m + 1)
    BY <2>1
  <2> QED
    BY <2>3, <2>5, <2>6 DEF HmsAt
<1> QED
  BY <1>2, <1>4, <1>5

\* Before the gap all nibbles but the last have come.
LEMMA HmsEnd ==
  ASSUME NEW nibs \in Seq(Word(4, Bit)), Len(nibs) > 0, NEW d, HmsAt(d, nibs, 31 + 8 * Len(nibs))
  PROVE  d.data = First(nibs, Len(nibs) - 1, NibCap)
<1> DEFINE n == Len(nibs)
<1>0. n \in Nat /\ n > 0
  OBVIOUS
<1>1. PICK m \in Nat : HmsBitsDone(d, nibs, m) /\ (31 + 8 * n = 2 * m \/ 31 + 8 * n = 2 * m + 1)
  BY DEF HmsAt
<1>2. m = 15 + 4 * n /\ m >= 16
  BY <1>0, <1>1
<1>3. PICK q \in 0..n : \E r \in 0..3 : m = 16 + 4 * q + r /\ HmsNibbles(d, nibs, q, r)
  BY <1>1, <1>2 DEF HmsBitsDone
<1>4. PICK r \in 0..3 : m = 16 + 4 * q + r /\ HmsNibbles(d, nibs, q, r)
  BY <1>3
<1>5. q = n - 1
  BY <1>0, <1>2, <1>4
<1> QED
  BY <1>4, <1>5 DEF HmsNibbles

\* A line of a decoder that has enough.
LEMMA InReports ==
    /\ Len(Printed(fs.data)) >= 4 => <<"F", Printed(fs.data)>> \in Reports
    /\ Len(it1.s) >= It1Len => <<"is", it1.s>> \in Reports
    /\ Len(it3.s) >= It3Len => <<"is", it3.s>> \in Reports
    /\ Len(hms.data) >= 8 => <<"H", hms.data>> \in Reports
<1> DEFINE Line(prefix, data, min) == IF Len(data) >= min THEN {<<prefix, data>>} ELSE {}
<1>1. /\ Len(Printed(fs.data)) >= 4 => <<"F", Printed(fs.data)>> \in Line("F", Printed(fs.data), 4)
      /\ Len(it1.s) >= It1Len => <<"is", it1.s>> \in Line("is", it1.s, It1Len)
      /\ Len(it3.s) >= It3Len => <<"is", it3.s>> \in Line("is", it3.s, It3Len)
      /\ Len(hms.data) >= 8 => <<"H", hms.data>> \in Line("H", hms.data, 8)
  OBVIOUS
<1>2. Reports = UNION {Line("F", Printed(fs.data), 4), Line("is", it1.s, It1Len),
               Line("is", it3.s, It3Len), Line("P", os.data, 16),
               Line("H", hms.data, 8), Line("K", s300.data, 9),
               Line("T", Printed(fht.data), 5)}
  BY DEF Reports
<1> HIDE DEF Line
<1> QED
  BY <1>1, <1>2

\* At the gap that ends the train the HMS frame is reported.
LEMMA HmsReport ==
  ASSUME NEW f, f.kind = "HMS", f.data \in Seq(Word(4, Bit)), Len(f.data) >= 9,
         HmsAt(hms, f.data, 31 + 8 * Len(f.data))
  PROVE  Reported(f) \in Reports
<1> DEFINE d == f.data
<1> DEFINE s == IF Len(d) > NibCap THEN SubSeq(d, 1, NibCap) ELSE SubSeq(d, 1, Len(d) - 1)
<1>0. d \in Seq(Word(4, Bit)) /\ Len(d) >= 9 /\ Len(d) \in Nat
  OBVIOUS
<1>1. Reported(f) = <<"H", s>>
  BY DEF Reported, Front
<1>2. hms.data = First(d, Len(d) - 1, NibCap)
  BY <1>0, HmsEnd
<1> HIDE DEF d
<1>3. hms.data = s
  <2>1. NibCap \in Nat
    BY Capacities
  <2>2. (IF Len(d) - 1 < NibCap THEN Len(d) - 1 ELSE NibCap) = IF Len(d) > NibCap THEN NibCap ELSE Len(d) - 1
    BY <1>0, <2>1
  <2> QED
    BY <1>2, <2>2 DEF First
<1>4. Len(hms.data) >= 8
  <2>1. Len(d) - 1 \in Nat /\ Len(d) - 1 <= Len(d) /\ NibCap \in Nat /\ NibCap >= 8
    BY <1>0, Capacities
  <2>2. Len(First(d, Len(d) - 1, NibCap)) = IF Len(d) - 1 < NibCap THEN Len(d) - 1 ELSE NibCap
    BY <1>0, <2>1, FirstLen
  <2> QED
    BY <1>0, <1>2, <2>1, <2>2
<1> QED
  BY <1>1, <1>3, <1>4, InReports

-----------------------------------------------------------------------------
(* Intertechno.                                                             *)

\* The buffer holds r pulses that are close to those of a symbol.
Pulses4(buf, code, r) ==
    /\ buf \in Seq(Int)
    /\ Len(buf) = r
    /\ \A j \in 1..r : Near(buf[j], code[j][1])

\* The buffer takes the next pulse of a symbol.
LEMMA Pulses4Next ==
  ASSUME NEW buf, NEW code, NEW r \in Nat, Pulses4(buf, code, r), NEW x, Near(x, code[r + 1][1]),
         code[r + 1][1] \in Int
  PROVE  Pulses4(Append(buf, x), code, r + 1)
<1> DEFINE e == Append(buf, x)
<1>1. x \in Int /\ buf \in Seq(Int) /\ Len(buf) = r /\ \A j \in 1..r : Near(buf[j], code[j][1])
  BY DEF Pulses4, Near
<1>2. e \in Seq(Int) /\ Extends(e, buf, x)
  BY <1>1, Appended
<1> HIDE DEF e
<1>3. e \in Seq(Int) /\ Len(e) = r + 1 /\ e[r + 1] = x /\ \A j \in 1..r : e[j] = buf[j]
  BY <1>1, <1>2 DEF Extends
<1>4. ASSUME NEW j \in 1..(r + 1) PROVE Near(e[j], code[j][1])
  <2>1. CASE j = r + 1
    BY <1>3, <2>1
  <2>2. CASE j # r + 1
    <3>1. j \in 1..r
      BY <2>2
    <3> QED
      BY <1>1, <1>3, <3>1
  <2> QED
    BY <2>1, <2>2
<1>5. Pulses4(e, code, r + 1)
  BY <1>3, <1>4, Zenon DEF Pulses4
<1> QED
  BY <1>5 DEF e

\* The ranges of slowrf.c tell T from 3T for Intertechno V1.
LEMMA ItV1Ranges ==
  ASSUME NEW x
  PROVE  /\ Near(x, 420) => x \in 100..800 /\ ~(x \in 801..2200)
         /\ Near(x, 1260) => x \in 801..2200 /\ ~(x \in 100..800)
<1>1. ASSUME Near(x, 420) PROVE x \in 100..800 /\ ~(x \in 801..2200)
  <2>1. x \in Int /\ 371 <= x /\ x <= 469
    BY <1>1 DEF Near
  <2> QED
    BY <2>1
<1>2. ASSUME Near(x, 1260) PROVE x \in 801..2200 /\ ~(x \in 100..800)
  <2>1. x \in Int /\ 1211 <= x /\ x <= 1309
    BY <1>2 DEF Near
  <2> QED
    BY <2>1
<1> QED
  BY <1>1, <1>2

\* The ranges of slowrf.c tell T from 3T for Intertechno V3.
LEMMA ItV3Ranges ==
  ASSUME NEW x
  PROVE  /\ Near(x, 300) => x \in 101..599 /\ ~(x \in 600..1499)
         /\ Near(x, 900) => x \in 600..1499 /\ ~(x \in 101..599)
<1>1. ASSUME Near(x, 300) PROVE x \in 101..599 /\ ~(x \in 600..1499)
  <2>1. x \in Int /\ 251 <= x /\ x <= 349
    BY <1>1 DEF Near
  <2> QED
    BY <2>1
<1>2. ASSUME Near(x, 900) PROVE x \in 600..1499 /\ ~(x \in 101..599)
  <2>1. x \in Int /\ 851 <= x /\ x <= 949
    BY <1>2 DEF Near
  <2> QED
    BY <2>1
<1> QED
  BY <1>1, <1>2

\* Four pulses close to a code are its symbol, for Intertechno V1.
LEMMA ItV1Symbol ==
  ASSUME NEW c \in {"0", "1", "F"}, NEW buf, Pulses4(buf, ItV1Bit[c], 4)
  PROVE  Symbol(buf, 100..800, 801..2200) = c
<1> DEFINE T == 100..800
<1> DEFINE T3 == 801..2200
<1>1. /\ Near(buf[1], ItV1Bit[c][1][1]) /\ Near(buf[2], ItV1Bit[c][2][1])
      /\ Near(buf[3], ItV1Bit[c][3][1]) /\ Near(buf[4], ItV1Bit[c][4][1])
  BY DEF Pulses4
<1>2. \A x : /\ Near(x, 420) => x \in T /\ ~(x \in T3)
             /\ Near(x, 1260) => x \in T3 /\ ~(x \in T)
  BY ItV1Ranges
<1> HIDE DEF T, T3
<1>3. CASE c = "0"
  <2>1. Near(buf[1], 420) /\ Near(buf[2], 1260) /\ Near(buf[3], 420) /\ Near(buf[4], 1260)
    BY <1>1, <1>3, ItV1Code
  <2>2. buf[1] \in T /\ buf[2] \in T3 /\ buf[3] \in T /\ buf[4] \in T3
    BY <1>2, <2>1
  <2>3. Symbol(buf, T, T3) = "0"
    BY <1>2, <2>1, <2>2 DEF Symbol
  <2> QED
    BY <1>3, <2>3 DEF T, T3
<1>4. CASE c = "1"
  <2>1. Near(buf[1], 1260) /\ Near(buf[2], 420) /\ Near(buf[3], 1260) /\ Near(buf[4], 420)
    BY <1>1, <1>4, ItV1Code
  <2>2. /\ buf[1] \in T3 /\ buf[2] \in T /\ buf[3] \in T3 /\ buf[4] \in T
        /\ ~(buf[1] \in T)
    BY <1>2, <2>1
  <2>3. Symbol(buf, T, T3) = "1"
    BY <2>2 DEF Symbol
  <2> QED
    BY <1>4, <2>3 DEF T, T3
<1>5. CASE c = "F"
  <2>1. Near(buf[1], 420) /\ Near(buf[2], 1260) /\ Near(buf[3], 1260) /\ Near(buf[4], 420)
    BY <1>1, <1>5, ItV1Code
  <2>2. /\ buf[1] \in T /\ buf[2] \in T3 /\ buf[3] \in T3 /\ buf[4] \in T
        /\ ~(buf[1] \in T3) /\ ~(buf[3] \in T)
    BY <1>2, <2>1
  <2>3. Symbol(buf, T, T3) = "F"
    BY <2>2 DEF Symbol
  <2> QED
    BY <1>5, <2>3 DEF T, T3
<1> QED
  BY <1>3, <1>4, <1>5

\* And for Intertechno V3, which reads an F as a 1.
LEMMA ItV3Symbol ==
  ASSUME NEW c \in {"0", "1"}, NEW buf, Pulses4(buf, ItV3Bit[c], 4)
  PROVE  Symbol(buf, 101..599, 600..1499) = IF c = "1" THEN "F" ELSE "0"
<1> DEFINE T == 101..599
<1> DEFINE T3 == 600..1499
<1>1. /\ Near(buf[1], ItV3Bit[c][1][1]) /\ Near(buf[2], ItV3Bit[c][2][1])
      /\ Near(buf[3], ItV3Bit[c][3][1]) /\ Near(buf[4], ItV3Bit[c][4][1])
  BY DEF Pulses4
<1>2. \A x : /\ Near(x, 300) => x \in T /\ ~(x \in T3)
             /\ Near(x, 900) => x \in T3 /\ ~(x \in T)
  BY ItV3Ranges
<1> HIDE DEF T, T3
<1>3. CASE c = "0"
  <2>1. Near(buf[1], 300) /\ Near(buf[2], 900) /\ Near(buf[3], 300) /\ Near(buf[4], 900)
    BY <1>1, <1>3, ItV3Code
  <2>2. buf[1] \in T /\ buf[2] \in T3 /\ buf[3] \in T /\ buf[4] \in T3
    BY <1>2, <2>1
  <2>3. Symbol(buf, T, T3) = "0"
    BY <1>2, <2>1, <2>2 DEF Symbol
  <2> QED
    BY <1>3, <2>3 DEF T, T3
<1>5. CASE c = "1"
  <2>1. Near(buf[1], 300) /\ Near(buf[2], 900) /\ Near(buf[3], 900) /\ Near(buf[4], 300)
    BY <1>1, <1>5, ItV3Code
  <2>2. /\ buf[1] \in T /\ buf[2] \in T3 /\ buf[3] \in T3 /\ buf[4] \in T
        /\ ~(buf[1] \in T3) /\ ~(buf[3] \in T)
    BY <1>2, <2>1
  <2>3. Symbol(buf, T, T3) = "F"
    BY <2>2 DEF Symbol
  <2> QED
    BY <1>5, <2>3 DEF T, T3
<1> QED
  BY <1>3, <1>5

\* A pulse of the buffer that is not its fourth.
LEMMA ItV1More ==
  ASSUME NEW d \in itv1_dec_t, Len(d.buf) < 3, NEW x \in Int
  PROVE  /\ itv1_pulse(d, x).s = d.s
         /\ itv1_pulse(d, x).buf = Append(d.buf, x)
<1> DEFINE buf == Append(d.buf, x)
<1>1. /\ d = [s |-> d.s, buf |-> d.buf] /\ d.buf \in Seq(Int)
  BY DEF itv1_dec_t
<1>2. buf \in Seq(Int) /\ Len(buf) = Len(d.buf) + 1 /\ Len(d.buf) \in Nat
  BY <1>1
<1>3. Len(d.buf) # 4 /\ Len(buf) # 4
  <2>1. Len(buf) = Len(d.buf) + 1 /\ Len(d.buf) \in Nat /\ Len(d.buf) < 3
    BY <1>2
  <2> DEFINE L == Len(d.buf)
  <2> DEFINE M == Len(buf)
  <2>2. M = L + 1 /\ L \in Nat /\ L < 3
    BY <2>1
  <2> HIDE DEF L, M
  <2>3. L # 4 /\ M # 4
    BY <2>2
  <2> QED
    BY <2>3 DEF L, M
<1>4. itv1_pulse(d, x) = [d EXCEPT !.buf = buf]
  BY <1>3 DEF itv1_pulse
<1> HIDE DEF buf
<1>5. [d EXCEPT !.buf = buf].s = d.s /\ [d EXCEPT !.buf = buf].buf = buf
  BY <1>1
<1> QED
  BY <1>4, <1>5 DEF buf

\* The fourth completes a symbol.
LEMMA ItV1Fourth ==
  ASSUME NEW d \in itv1_dec_t, NEW x \in Int, NEW c \in {"0", "1", "F"}, Len(d.buf) = 3,
         Pulses4(Append(d.buf, x), ItV1Bit[c], 4), Len(d.s) < It1Len
  PROVE  itv1_pulse(d, x) = [s |-> Append(d.s, c), buf |-> <<>>]
<1> DEFINE buf == Append(d.buf, x)
<1> DEFINE T == 100..800
<1> DEFINE T3 == 801..2200
<1>1. Len(buf) = 4 /\ Symbol(buf, T, T3) = c
  <2>1. Pulses4(buf, ItV1Bit[c], 4)
    OBVIOUS
  <2> HIDE DEF buf
  <2>2. Len(buf) = 4
    BY <2>1 DEF Pulses4
  <2> QED
    BY <2>1, <2>2, ItV1Symbol
<1>2. c # ""
  OBVIOUS
<1>3. ~(d.s = <<>> /\ Len(d.buf) = 4)
  OBVIOUS
<1>4. (IF d.s = <<>> /\ Len(d.buf) = 4 THEN Tail(d.buf) ELSE d.buf) = d.buf
  BY <1>3
<1> DEFINE b0 == Append(IF d.s = <<>> /\ Len(d.buf) = 4 THEN Tail(d.buf) ELSE d.buf, x)
<1>5. b0 = buf
  BY <1>4
<1> DEFINE sym == IF Len(b0) = 4 THEN Symbol(b0, T, T3) ELSE ""
<1> DEFINE bit == sym # "" /\ Len(d.s) < It1Len
<1>6. itv1_pulse(d, x) =
        CASE bit -> [s |-> Append(d.s, sym), buf |-> <<>>]
          [] ~bit /\ d.s # <<>> /\ Len(b0) = 4 -> reset_itv1
          [] OTHER -> [d EXCEPT !.buf = b0]
  BY DEF itv1_pulse
<1> HIDE DEF T, T3, buf, b0
<1>7. sym = c
  BY <1>1, <1>5
<1> HIDE DEF sym
<1> QED
  BY <1>2, <1>6, <1>7

\* The decoder after k pulses: q symbols and r pulses of the next one.
It1Symbols(d, data, q, r) ==
    /\ d.s = First(data, q, It1Len)
    /\ Len(d.buf) = r
    /\ q < 12 => Pulses4(d.buf, ItV1Bit[data[q + 1]], r)

It1At(d, data, k) ==
    \E q \in 0..12 : \E r \in 0..3 : k = 4 * q + r /\ It1Symbols(d, data, q, r)

\* A reset decoder has taken no pulse.
LEMMA It1Start ==
  ASSUME NEW data \in Seq({"0", "1", "F"})
  PROVE  It1At(reset_itv1, data, 0)
<1> DEFINE e == reset_itv1
<1>1. e.s = <<>> /\ e.buf = <<>>
  BY DEF reset_itv1
<1> HIDE DEF e
<1>2. It1Len \in Nat
  BY Capacities
<1>3. First(data, 0, It1Len) = <<>>
  BY <1>2, FirstNone
<1>4. It1Symbols(e, data, 0, 0)
  BY <1>1, <1>3, Nothing DEF It1Symbols, Pulses4
<1>5. 0 \in 0..12 /\ 0 \in 0..3 /\ 0 = 4 * 0 + 0
  OBVIOUS
<1> QED
  BY <1>4, <1>5 DEF It1At, e

\* As long as there is room all are kept.
LEMMA FirstShort ==
  ASSUME NEW S, NEW data \in Seq(S), NEW q \in Nat, q < Len(data), NEW cap \in Nat, q < cap
  PROVE  Len(First(data, q, cap)) = q
<1>1. q <= Len(data)
  OBVIOUS
<1>2. Len(First(data, q, cap)) = IF q < cap THEN q ELSE cap
  BY <1>1, FirstLen
<1> QED
  BY <1>2

\* A pulse of the train, however stretched, takes the Intertechno V1 decoder
\* one on: the symbols stay aligned.
LEMMA It1Step ==
  ASSUME NEW data \in Seq({"0", "1", "F"}), Len(data) = 12, NEW d \in itv1_dec_t, NEW k \in Nat,
         k < 49, It1At(d, data, k), NEW x, Near(x, cc1101_send_it_v1(data)[k + 1][1])
  PROVE  It1At(itv1_pulse(d, x), data, k + 1)
<1> DEFINE t == cc1101_send_it_v1(data)
<1> DEFINE e == itv1_pulse(d, x)
<1>1. Coded4(t, 0, data, ItV1Bit, 12) /\ t[49] = <<420, 0>>
  <2>1. Len(data) = 12 /\ 4 * 12 + 1 = 49
    OBVIOUS
  <2>a. Coded4(t, 0, data, ItV1Bit, Len(data)) /\ It1End(t, Len(data))
    BY It1Train, Zenon
  <2> HIDE DEF t
  <2>2. Coded4(t, 0, data, ItV1Bit, Len(data)) /\ t[4 * Len(data) + 1] = <<420, 0>>
    BY <2>a DEF It1End
  <2>3. Coded4(t, 0, data, ItV1Bit, 12)
    BY <2>1, <2>2
  <2> QED
    BY <2>1, <2>2, <2>3
<1>2. Near(x, t[k + 1][1])
  OBVIOUS
<1> HIDE DEF t
<1>3. PICK q \in 0..12 : \E r \in 0..3 : k = 4 * q + r /\ It1Symbols(d, data, q, r)
  BY DEF It1At
<1>4. PICK r \in 0..3 : k = 4 * q + r /\ It1Symbols(d, data, q, r)
  BY <1>3
<1>5. q \in Nat /\ r \in Nat /\ q <= 12 /\ r <= 3 /\ k = 4 * q + r
  BY <1>3, <1>4
<1>6. d.s = First(data, q, It1Len) /\ Len(d.buf) = r
  BY <1>4 DEF It1Symbols
<1>7. CASE q = 12
  <2>1. r = 0 /\ k = 48 /\ k + 1 = 49
    BY <1>5, <1>7
  <2>2. Near(x, 420)
    BY <1>1, <1>2, <2>1
  <2>3. x \in Int
    BY <2>2 DEF Near
  <2>4. Len(d.buf) < 3
    BY <1>6, <2>1
  <2>5. e.s = d.s /\ e.buf = Append(d.buf, x)
    BY <2>3, <2>4, ItV1More
  <2>6. Len(e.buf) = 1
    <3>1. d.buf \in Seq(Int) /\ Len(d.buf) = 0
      BY <1>6, <2>1 DEF itv1_dec_t
    <3>2. Len(Append(d.buf, x)) = 1
      BY <2>3, <3>1
    <3> QED
      BY <2>5, <3>2
  <2> HIDE DEF e
  <2>7. It1Symbols(e, data, 12, 1)
    BY <1>6, <1>7, <2>5, <2>6 DEF It1Symbols
  <2>8. 12 \in 0..12 /\ 1 \in 0..3 /\ k + 1 = 4 * 12 + 1
    BY <2>1
  <2> QED
    BY <2>7, <2>8 DEF It1At, e
<1>8. CASE q < 12
  <2> DEFINE c == data[q + 1]
  <2>1. c \in {"0", "1", "F"}
    <3>1. q + 1 \in 1..Len(data)
      BY <1>5, <1>8
    <3> QED
      BY <3>1, SymbolsOf
  <2>2. t[k + 1] = ItV1Bit[c][r + 1]
    <3>1. q \in 0..(12 - 1) /\ r + 1 \in 1..4 /\ k + 1 = 0 + 4 * q + (r + 1)
      BY <1>5, <1>8
    <3>2. t[0 + 4 * q + (r + 1)] = ItV1Bit[data[q + 1]][r + 1]
      BY <1>1, <3>1 DEF Coded4
    <3> QED
      BY <3>1, <3>2
  <2>3. Pulses4(d.buf, ItV1Bit[c], r)
    BY <1>4, <1>8 DEF It1Symbols
  <2> HIDE DEF c
  <2>4. ItV1Bit[c][r + 1][1] \in Int
    <3>1. r + 1 = 1 \/ r + 1 = 2 \/ r + 1 = 3 \/ r + 1 = 4
      BY <1>5
    <3>2. /\ ItV1Bit[c][1][1] \in Int /\ ItV1Bit[c][2][1] \in Int
          /\ ItV1Bit[c][3][1] \in Int /\ ItV1Bit[c][4][1] \in Int
      BY <2>1, ItV1Code
    <3> QED
      BY <3>1, <3>2
  <2>5. x \in Int /\ Near(x, ItV1Bit[c][r + 1][1])
    <3>1. Near(x, ItV1Bit[c][r + 1][1])
      BY <1>2, <2>2
    <3> QED
      BY <2>4, <3>1 DEF Near
  <2>6. Pulses4(Append(d.buf, x), ItV1Bit[c], r + 1)
    BY <1>5, <2>3, <2>4, <2>5, Pulses4Next
  <2>7. CASE r < 3
    <3>1. e.s = d.s /\ e.buf = Append(d.buf, x)
      BY <1>6, <2>5, <2>7, ItV1More
    <3> HIDE DEF e
    <3>2. Pulses4(e.buf, ItV1Bit[c], r + 1) /\ Len(e.buf) = r + 1
      BY <2>6, <3>1 DEF Pulses4
    <3>3. It1Symbols(e, data, q, r + 1)
      BY <1>6, <3>1, <3>2 DEF It1Symbols, c
    <3>4. r + 1 \in 0..3 /\ k + 1 = 4 * q + (r + 1)
      BY <1>5, <2>7
    <3> QED
      BY <3>3, <3>4 DEF It1At, e
  <2>8. CASE r = 3
    <3>0. It1Len \in Nat /\ It1Len = 12 /\ Len(data) = 12
      BY Capacities
    <3>1. Len(d.s) = q
      <4>1. q \in Nat /\ q < Len(data) /\ q < It1Len
        BY <1>5, <1>8, <3>0
      <4>2. Len(First(data, q, It1Len)) = q
        BY <3>0, <4>1, FirstShort, Zenon
      <4> QED
        BY <1>6, <4>2
    <3>2. r + 1 = 4 /\ Len(d.buf) = 3 /\ Len(d.s) < It1Len
      BY <1>6, <1>8, <2>8, <3>0, <3>1
    <3>3. e = [s |-> Append(d.s, c), buf |-> <<>>]
      <4>1. Pulses4(Append(d.buf, x), ItV1Bit[c], 4)
        BY <2>6, <3>2
      <4> QED
        BY <2>1, <2>5, <3>2, <4>1, ItV1Fourth
    <3> HIDE DEF e
    <3>4. Append(d.s, c) = First(data, q + 1, It1Len)
      <4>1. q < Len(data) /\ Len(First(data, q, It1Len)) < It1Len
        BY <1>6, <1>8, <3>0, <3>2
      <4> QED
        BY <1>5, <1>6, <3>0, <4>1, FirstNext DEF c
    <3>5. It1Symbols(e, data, q + 1, 0)
      BY <3>3, <3>4, Nothing DEF It1Symbols, Pulses4
    <3>6. q + 1 \in 0..12 /\ 0 \in 0..3 /\ k + 1 = 4 * (q + 1) + 0
      BY <1>5, <1>8, <2>8
    <3> QED
      BY <3>5, <3>6 DEF It1At, e
  <2> QED
    BY <1>5, <2>7, <2>8
<1> QED
  BY <1>5, <1>7, <1>8

\* At the gap that ends the train the Intertechno V1 frame is reported.
LEMMA It1Report ==
  ASSUME NEW f, f.kind = "IT_V1", f.data \in Seq({"0", "1", "F"}), Len(f.data) = 12,
         It1At(it1, f.data, 49)
  PROVE  Reported(f) \in Reports
<1> DEFINE d == f.data
<1>1. PICK q \in 0..12 : \E r \in 0..3 : 49 = 4 * q + r /\ It1Symbols(it1, d, q, r)
  BY DEF It1At
<1>2. PICK r \in 0..3 : 49 = 4 * q + r /\ It1Symbols(it1, d, q, r)
  BY <1>1
<1>3. q = 12
  BY <1>2
<1>4. It1Len \in Nat /\ It1Len = 12 /\ Len(d) = It1Len
  BY Capacities
<1>5. it1.s = First(d, Len(d), It1Len)
  BY <1>2, <1>3, <1>4 DEF It1Symbols
<1>6. it1.s = d
  <2>1. First(d, Len(d), It1Len) = IF Len(d) > It1Len THEN SubSeq(d, 1, It1Len) ELSE d
    BY <1>4, FirstAll
  <2> QED
    BY <1>4, <1>5, <2>1
<1>7. Reported(f) = <<"is", d>>
  BY DEF Reported
<1>8. Len(it1.s) >= It1Len
  <2>1. Len(it1.s) = It1Len
    BY <1>4, <1>6, Zenon
  <2> QED
    BY <1>4, <2>1
<1>9. <<"is", it1.s>> \in Reports
  BY <1>8, InReports
<1> QED
  BY <1>6, <1>7, <1>9

\* A pulse of the buffer that is not its fourth.
LEMMA ItV3More ==
  ASSUME NEW d \in itv3_dec_t, d.sync, Len(d.buf) < 3, NEW x \in Int
  PROVE  /\ itv3_pulse(d, x).s = d.s
         /\ itv3_pulse(d, x).buf = Append(d.buf, x)
         /\ itv3_pulse(d, x).sync
<1> DEFINE buf == Append(d.buf, x)
<1>1. /\ d = [s |-> d.s, buf |-> d.buf, sync |-> d.sync] /\ d.buf \in Seq(Int)
  BY DEF itv3_dec_t
<1>2. buf \in Seq(Int) /\ Len(buf) = Len(d.buf) + 1 /\ Len(d.buf) \in Nat
  BY <1>1
<1>3. Len(buf) < 4
  BY <1>2
<1>4. itv3_pulse(d, x) = [d EXCEPT !.buf = buf]
  BY <1>3 DEF itv3_pulse
<1> HIDE DEF buf
<1>5. /\ [d EXCEPT !.buf = buf].s = d.s /\ [d EXCEPT !.buf = buf].buf = buf
      /\ [d EXCEPT !.buf = buf].sync = d.sync
  BY <1>1
<1> QED
  BY <1>4, <1>5 DEF buf

\* The fourth completes a symbol; after the last one the decoder is deaf.
LEMMA ItV3Fourth ==
  ASSUME NEW d \in itv3_dec_t, NEW x \in Int, NEW c \in {"0", "1"}, d.sync, Len(d.buf) = 3,
         Pulses4(Append(d.buf, x), ItV3Bit[c], 4)
  PROVE  itv3_pulse(d, x) = [s |-> Append(d.s, c), buf |-> <<>>, sync |-> Len(Append(d.s, c)) < It3Len]
<1> DEFINE buf == Append(d.buf, x)
<1> DEFINE T == 101..599
<1> DEFINE T3 == 600..1499
<1>1. Len(buf) = 4 /\ Symbol(buf, T, T3) = IF c = "1" THEN "F" ELSE "0"
  <2>1. Pulses4(buf, ItV3Bit[c], 4)
    OBVIOUS
  <2> HIDE DEF buf
  <2>2. Len(buf) = 4
    BY <2>1 DEF Pulses4
  <2> QED
    BY <2>1, <2>2, ItV3Symbol
<1> DEFINE sym == IF Len(buf) = 4 THEN Symbol(buf, T, T3) ELSE ""
<1> DEFINE s == Append(d.s, IF sym = "F" THEN "1" ELSE "0")
<1>2. itv3_pulse(d, x) =
        CASE ~d.sync -> d
          [] d.sync /\ Len(buf) < 4 -> [d EXCEPT !.buf = buf]
          [] d.sync /\ Len(buf) >= 4 /\ sym \in {"0", "F"} ->
                [s |-> s, buf |-> <<>>, sync |-> Len(s) < It3Len]
          [] OTHER -> [d EXCEPT !.buf = <<>>, !.sync = FALSE]
  BY DEF itv3_pulse
<1>3. sym = IF c = "1" THEN "F" ELSE "0"
  BY <1>1
<1>4. ~(Len(buf) < 4) /\ Len(buf) >= 4
  BY <1>1
<1> HIDE DEF T, T3, buf, sym
<1>5. sym \in {"0", "F"} /\ s = Append(d.s, c)
  BY <1>3
<1> HIDE DEF s
<1>6. itv3_pulse(d, x) = [s |-> s, buf |-> <<>>, sync |-> Len(s) < It3Len]
  BY <1>2, <1>4, <1>5
<1> QED
  BY <1>5, <1>6

\* The decoder after k pulses: q symbols and r pulses of the next one.
It3Symbols(d, data, q, r) ==
    /\ d.sync
    /\ d.s = First(data, q, It3Len)
    /\ Pulses4(d.buf, ItV3Bit[data[q + 1]], r)

It3At(d, data, k) ==
    /\ k >= 130 => ~d.sync /\ d.s = data
    /\ k >= 2 /\ k < 130 => \E q \in 0..31 : \E r \in 0..3 : k = 2 + 4 * q + r /\ It3Symbols(d, data, q, r)

\* Nothing is said of the pulses in front of the gap.
LEMMA It3Before ==
  ASSUME NEW data, NEW d, NEW k \in Nat, k < 2
  PROVE  It3At(d, data, k)
<1>1. ~(k >= 130) /\ ~(k >= 2)
  OBVIOUS
<1> QED
  BY <1>1 DEF It3At

\* The gap in front of the data is the sync.
LEMMA It3Start ==
  ASSUME NEW data \in Word(32, {"0", "1"})
  PROVE  It3At([reset_itv3 EXCEPT !.sync = TRUE], data, 2)
<1> DEFINE e == [reset_itv3 EXCEPT !.sync = TRUE]
<1>1. e.s = <<>> /\ e.buf = <<>> /\ e.sync
  BY DEF reset_itv3
<1> HIDE DEF e
<1>2. It3Len \in Nat /\ data \in Seq({"0", "1"})
  BY Capacities DEF Word
<1>3. First(data, 0, It3Len) = <<>>
  BY <1>2, FirstNone
<1>4. It3Symbols(e, data, 0, 0)
  BY <1>1, <1>3, Nothing DEF It3Symbols, Pulses4
<1>5. 0 \in 0..31 /\ 0 \in 0..3 /\ 2 = 2 + 4 * 0 + 0 /\ ~(2 >= 130)
  OBVIOUS
<1> QED
  BY <1>4, <1>5 DEF It3At, e

\* Any other pulse takes the Intertechno V3 decoder one on.
LEMMA It3Step ==
  ASSUME NEW data \in Word(32, {"0", "1"}), NEW d \in itv3_dec_t, NEW k \in Nat,
         k < 131, k # 1, It3At(d, data, k), NEW x, Near(x, cc1101_send_it_v3(data)[k + 1][1])
  PROVE  It3At(itv3_pulse(d, x), data, k + 1)
<1> DEFINE t == cc1101_send_it_v3(data)
<1> DEFINE e == itv3_pulse(d, x)
<1>1. Coded4(t, 2, data, ItV3Bit, 32)
  BY It3Train, Zenon
<1>2. Near(x, t[k + 1][1])
  OBVIOUS
<1>3. data \in Seq({"0", "1"}) /\ Len(data) = 32
  BY DEF Word
<1> HIDE DEF t
<1>4. CASE k = 0
  BY <1>4, It3Before
<1>5. CASE k = 130
  <2>1. ~d.sync /\ d.s = data
    BY <1>5 DEF It3At
  <2>2. e = d
    BY <2>1 DEF itv3_pulse
  <2>3. k + 1 >= 130 /\ ~(k + 1 < 130)
    BY <1>5
  <2> HIDE DEF e
  <2> QED
    BY <2>1, <2>2, <2>3 DEF It3At, e
<1>6. CASE k >= 2 /\ k < 130
  <2>1. PICK q \in 0..31 : \E r \in 0..3 : k = 2 + 4 * q + r /\ It3Symbols(d, data, q, r)
    BY <1>6 DEF It3At
  <2>2. PICK r \in 0..3 : k = 2 + 4 * q + r /\ It3Symbols(d, data, q, r)
    BY <2>1
  <2>3. q \in Nat /\ r \in Nat /\ q <= 31 /\ r <= 3 /\ k = 2 + 4 * q + r
    BY <2>1, <2>2
  <2>4. d.sync /\ d.s = First(data, q, It3Len) /\ Len(d.buf) = r
    BY <2>2 DEF It3Symbols, Pulses4
  <2> DEFINE c == data[q + 1]
  <2>5. c \in {"0", "1"}
    <3>1. q + 1 \in 1..Len(data)
      BY <1>3, <2>3
    <3> QED
      BY <1>3, <3>1, SymbolsOf
  <2>6. t[k + 1] = ItV3Bit[c][r + 1]
    <3>1. q \in 0..(32 - 1) /\ r + 1 \in 1..4 /\ k + 1 = 2 + 4 * q + (r + 1)
      BY <2>3
    <3>2. t[2 + 4 * q + (r + 1)] = ItV3Bit[data[q + 1]][r + 1]
      BY <1>1, <3>1 DEF Coded4
    <3> QED
      BY <3>1, <3>2
  <2>7. Pulses4(d.buf, ItV3Bit[c], r)
    BY <2>2 DEF It3Symbols
  <2> HIDE DEF c
  <2>8. ItV3Bit[c][r + 1][1] \in Int
    <3>1. r + 1 = 1 \/ r + 1 = 2 \/ r + 1 = 3 \/ r + 1 = 4
      BY <2>3
    <3>2. /\ ItV3Bit[c][1][1] \in Int /\ ItV3Bit[c][2][1] \in Int
          /\ ItV3Bit[c][3][1] \in Int /\ ItV3Bit[c][4][1] \in Int
      BY <2>5, ItV3Code
    <3> QED
      BY <3>1, <3>2
  <2>9. x \in Int /\ Near(x, ItV3Bit[c][r + 1][1])
    <3>1. Near(x, ItV3Bit[c][r + 1][1])
      BY <1>2, <2>6
    <3> QED
      BY <2>8, <3>1 DEF Near
  <2>10. Pulses4(Append(d.buf, x), ItV3Bit[c], r + 1)
    BY <2>3, <2>7, <2>8, <2>9, Pulses4Next
  <2>11. CASE r < 3
    <3>1. e.s = d.s /\ e.buf = Append(d.buf, x) /\ e.sync
      BY <2>4, <2>9, <2>11, ItV3More
    <3> HIDE DEF e
    <3>2. Pulses4(e.buf, ItV3Bit[c], r + 1)
      BY <2>10, <3>1
    <3>3. It3Symbols(e, data, q, r + 1)
      BY <2>4, <3>1, <3>2 DEF It3Symbols, c
    <3>4. r + 1 \in 0..3 /\ k + 1 = 2 + 4 * q + (r + 1) /\ ~(k + 1 >= 130)
      BY <2>3, <2>11
    <3> QED
      BY <3>3, <3>4 DEF It3At, e
  <2>12. CASE r = 3
    <3>0. It3Len \in Nat /\ It3Len = 32
      BY Capacities
    <3>1. q < Len(data) /\ q < It3Len /\ r + 1 = 4 /\ Len(d.buf) = 3
      BY <1>3, <2>3, <2>4, <2>12, <3>0
    <3>2. Len(d.s) = q
      <4>1. q \in Nat /\ It3Len \in Nat /\ data \in Seq({"0", "1"})
        BY <1>3, <2>3, <3>0
      <4>2. Len(First(data, q, It3Len)) = q
        BY <3>1, <4>1, FirstShort, Zenon
      <4> QED
        BY <2>4, <4>2
    <3>3. e = [s |-> Append(d.s, c), buf |-> <<>>, sync |-> Len(Append(d.s, c)) < It3Len]
      <4>1. Pulses4(Append(d.buf, x), ItV3Bit[c], 4)
        BY <2>10, <3>1
      <4> QED
        BY <2>4, <2>5, <2>9, <3>1, <4>1, ItV3Fourth
    <3> HIDE DEF e
    <3>4. Append(d.s, c) = First(data, q + 1, It3Len)
      <4>1. Len(First(data, q, It3Len)) < It3Len
        BY <2>4, <3>1, <3>2
      <4> QED
        <5>1. q \in Nat /\ It3Len \in Nat /\ data \in Seq({"0", "1"}) /\ q < Len(data)
          BY <1>3, <2>3, <3>0, <3>1
        <5>2. First(data, q + 1, It3Len) =
                IF Len(First(data, q, It3Len)) < It3Len THEN Append(First(data, q, It3Len), data[q + 1])
                ELSE First(data, q, It3Len)
          BY <5>1, FirstNext, Zenon
        <5> QED
          BY <2>4, <4>1, <5>2 DEF c
    <3> DEFINE s == Append(d.s, c)
    <3>5. Len(s) = q + 1
      <4>1. d.s \in Seq({"0", "1"})
        BY DEF itv3_dec_t
      <4> QED
        BY <2>5, <3>2, <4>1
    <3>6. e.s = s /\ e.buf = <<>> /\ e.sync = (Len(s) < It3Len)
      BY <3>3
    <3> HIDE DEF s
    <3>7. CASE q < 31
      <4>1. e.sync
        <5>1. Len(s) < It3Len
          BY <2>3, <3>0, <3>5, <3>7
        <5> QED
          BY <3>6, <5>1, Zenon
      <4>2. It3Symbols(e, data, q + 1, 0)
        BY <3>4, <3>6, <4>1, Nothing DEF It3Symbols, Pulses4, s
      <4>3. q + 1 \in 0..31 /\ 0 \in 0..3 /\ k + 1 = 2 + 4 * (q + 1) + 0 /\ ~(k + 1 >= 130)
        BY <2>3, <2>12, <3>7
      <4> QED
        BY <4>2, <4>3 DEF It3At, e
    <3>8. CASE q = 31
      <4>1. ~e.sync
        <5>1. ~(Len(s) < It3Len)
          BY <3>0, <3>5, <3>8
        <5> QED
          BY <3>6, <5>1, Zenon
      <4>2. e.s = data
        <5>1. q + 1 = Len(data) /\ ~(Len(data) > It3Len)
          BY <1>3, <3>0, <3>8
        <5>2. First(data, Len(data), It3Len) = data
          BY <1>3, <3>0, <5>1, FirstAll
        <5> QED
          BY <3>4, <3>6, <5>1, <5>2 DEF s
      <4>3. ~(k + 1 < 130)
        BY <2>3, <2>12, <3>8
      <4> QED
        BY <4>1, <4>2, <4>3 DEF It3At, e
    <3> QED
      BY <2>3, <3>7, <3>8
  <2> QED
    BY <2>3, <2>11, <2>12
<1> QED
  BY <1>4, <1>5, <1>6

\* At the gap that ends the train the Intertechno V3 frame is reported.
LEMMA It3Report ==
  ASSUME NEW f, f.kind = "IT_V3", f.data \in Word(32, {"0", "1"}), It3At(it3, f.data, 131)
  PROVE  Reported(f) \in Reports
<1> DEFINE d == f.data
<1>1. it3.s = d
  <2>1. 131 >= 130
    OBVIOUS
  <2> QED
    BY <2>1 DEF It3At
<1>2. Len(d) = It3Len /\ It3Len \in Nat
  BY Capacities DEF Word
<1>3. Reported(f) = <<"is", d>>
  BY DEF Reported
<1>4. Len(it3.s) >= It3Len
  <2>1. Len(it3.s) = It3Len
    BY <1>1, <1>2, Zenon
  <2> QED
    BY <1>2, <2>1
<1>5. <<"is", it3.s>> \in Reports
  BY <1>4, InReports
<1> QED
  BY <1>1, <1>3, <1>5

-----------------------------------------------------------------------------
(* Gaps.                                                                    *)

\* A frame that is reported, by its kind.
Shaped(f) ==
    \/ f.kind = "FS20" /\ f.data \in Seq(Word(8, Bit)) /\ Len(f.data) >= 4
    \/ f.kind = "IT_V1" /\ f.data \in Seq({"0", "1", "F"}) /\ Len(f.data) = 12
    \/ f.kind = "IT_V3" /\ f.data \in Word(32, {"0", "1"})
    \/ f.kind = "HMS" /\ f.data \in Seq(Word(4, Bit)) /\ Len(f.data) >= 9 /\ f.data[1][1] = 1

\* The frames that a receiver can report are of these shapes.
LEMMA ReportableShaped ==
  ASSUME NEW f \in FrameTypes, Reportable(f)
  PROVE  Shaped(f)
<1>0. It1Len = 12
  BY Capacities
<1>1. CASE f \in [kind : {"FS20", "FHT"}, data : Seq(Word(8, Bit))]
  <2>1. f.data \in Seq(Word(8, Bit)) /\ f.kind \in {"FS20", "FHT"}
    BY <1>1
  <2> QED
    BY <2>1 DEF Reportable, Shaped
<1>2. CASE f \in [kind : {"HMS", "Oregon"}, data : Seq(Word(4, Bit))]
  <2>1. f.data \in Seq(Word(4, Bit)) /\ f.kind \in {"HMS", "Oregon"}
    BY <1>2
  <2> QED
    BY <2>1 DEF Reportable, Shaped
<1>3. CASE f \in [kind : {"IT_V1"}, data : Seq({"0", "1", "F"})]
  <2>1. f.data \in Seq({"0", "1", "F"}) /\ f.kind = "IT_V1"
    BY <1>3
  <2> QED
    BY <1>0, <2>1 DEF Reportable, Shaped
<1>4. CASE f \in [kind : {"IT_V3"}, data : Word(32, {"0", "1"})]
  <2>1. f.data \in Word(32, {"0", "1"}) /\ f.kind = "IT_V3"
    BY <1>4
  <2> QED
    BY <2>1 DEF Shaped
<1> QED
  BY <1>1, <1>2, <1>3, <1>4, Zenon DEF FrameTypes

\* A pulse that the decoders take, and one that ends a repetition.
Plain(d) == d \in Int /\ 300 <= d /\ d <= 1260
Gap(d) == d \in Int /\ 9300 <= d /\ d <= 13020

\* A train of n pulses of which the last is a gap.
Gapped(t, n) ==
    /\ Len(t) = n
    /\ Gap(t[n][1])
    /\ \A i \in 1..(n - 1) : Plain(t[i][1])

\* An FS20 train ends in its only gap.
LEMMA FsGapped ==
  ASSUME NEW bytes \in Seq(Word(8, Bit))
  PROVE  Gapped(cc1101_send_raw_slowrf(bytes), 52 + 18 * Len(bytes))
<1> DEFINE n == Len(bytes)
<1> DEFINE L == 26 + 9 * n
<1> DEFINE t == cc1101_send_raw_slowrf(bytes)
<1> DEFINE bits == Fs20Bits(bytes)
<1>1. n \in Nat /\ L \in Nat /\ L >= 26 /\ 52 + 18 * n = 2 * L
  OBVIOUS
<1>2. bits \in Seq(Bit) /\ Len(bits) = L
  BY FsBits
<1> HIDE DEF L
<1>3. FsPulses(t, bits, L)
  <2>1. L = 26 + 9 * Len(bytes)
    BY DEF L
  <2> QED
    BY <2>1, FsTrain, Zenon
<1> HIDE DEF t, bits
<1>4. Len(t) = 2 * L /\ t[2 * L] = <<10400, 1>>
  BY <1>3 DEF FsPulses
<1>5. ASSUME NEW b \in Bit PROVE Plain(Half(b))
  BY DEF Plain, Half, Bit
<1>6. ASSUME NEW i \in 1..(2 * L - 1) PROVE Plain(t[i][1])
  <2> DEFINE m == (i - 1) \div 2
  <2>1. m \in 0..(L - 1) /\ (i = 2 * m + 1 \/ (i = 2 * m + 2 /\ m \in 0..(L - 2)))
    BY <1>1
  <2> HIDE DEF m
  <2>2. bits[m + 1] \in Bit
    <3>1. m + 1 \in 1..Len(bits)
      BY <1>1, <1>2, <2>1
    <3> QED
      BY <1>2, <3>1, SymbolsOf
  <2>3. t[i][1] = Half(bits[m + 1])
    <3>1. CASE i = 2 * m + 1
      BY <1>3, <2>1, <3>1 DEF FsPulses
    <3>2. CASE i = 2 * m + 2 /\ m \in 0..(L - 2)
      BY <1>3, <3>2 DEF FsPulses
    <3> QED
      BY <2>1, <3>1, <3>2
  <2> QED
    BY <1>5, <2>2, <2>3
<1>7. Gapped(t, 2 * L)
  BY <1>4, <1>6 DEF Gapped, Gap
<1> QED
  BY <1>1, <1>7 DEF t, n

\* Every position is one of four.
LEMMA InFours ==
  ASSUME NEW i \in Nat
  PROVE  \E q \in Nat : \E j \in 1..4 : i + 1 = 4 * q + j
<1> DEFINE a == i \div 2
<1>1. a \in Nat /\ (i = 2 * a \/ i = 2 * a + 1)
  OBVIOUS
<1> HIDE DEF a
<1> DEFINE q == a \div 2
<1>2. q \in Nat /\ (a = 2 * q \/ a = 2 * q + 1)
  BY <1>1
<1> HIDE DEF q
<1>3. i + 1 = 4 * q + 1 \/ i + 1 = 4 * q + 2 \/ i + 1 = 4 * q + 3 \/ i + 1 = 4 * q + 4
  BY <1>1, <1>2
<1>4. \E j \in 1..4 : i + 1 = 4 * q + j
  BY <1>3
<1> QED
  BY <1>2, <1>4

\* An HMS train ends in its only gap.
LEMMA HmsGapped ==
  ASSUME NEW nibs \in Seq(Word(4, Bit))
  PROVE  Gapped(cc1101_send_hms(nibs), 32 + 8 * Len(nibs))
<1> DEFINE n == Len(nibs)
<1> DEFINE t == cc1101_send_hms(nibs)
<1> DEFINE N == 32 + 8 * n
<1>1. n \in Nat /\ N = 32 + 8 * n /\ N \in Nat
  OBVIOUS
<1>2. HmsPreamble(t) /\ HmsMarks(t, nibs, n) /\ HmsSpaces(t, n)
  BY HmsTrain, Zenon
<1> HIDE DEF t, N
<1>3. Len(t) = N /\ t[N] = <<10400, 1>>
  BY <1>1, <1>2 DEF HmsSpaces
<1>4. ASSUME NEW b \in Bit PROVE Plain(High(b))
  BY DEF Plain, High, Bit
<1>5. ASSUME NEW i \in 1..(N - 1) PROVE Plain(t[i][1])
  <2> DEFINE m == (i - 1) \div 2
  <2>1. m \in 0..(15 + 4 * n) /\ (i = 2 * m + 1 \/ (i = 2 * m + 2 /\ m \in 0..(14 + 4 * n)))
    BY <1>1
  <2> HIDE DEF m
  <2>2. CASE i = 2 * m + 2 /\ m \in 0..(14 + 4 * n)
    BY <1>2, <2>2 DEF HmsSpaces, Plain
  <2>3. CASE i = 2 * m + 1 /\ m < 16
    <3>1. m \in 0..15
      BY <2>1, <2>3
    <3>2. t[i] = <<400, 0>>
      BY <1>2, <2>3, <3>1 DEF HmsPreamble
    <3> QED
      BY <3>2 DEF Plain
  <2>4. CASE i = 2 * m + 1 /\ m >= 16
    <3>a. m - 16 \in Nat /\ (m - 16) + 1 = m - 15
      BY <2>1, <2>4
    <3>b. PICK q \in Nat : \E j \in 1..4 : (m - 16) + 1 = 4 * q + j
      BY <3>a, InFours, Zenon
    <3>c. PICK j \in 1..4 : (m - 16) + 1 = 4 * q + j
      BY <3>b
    <3>1. q \in 0..(n - 1) /\ j \in 1..4 /\ i = 32 + 8 * q + 2 * j - 1
      BY <1>1, <2>1, <2>4, <3>a, <3>c
    <3>2. t[i] = <<High(nibs[q + 1][j]), 0>>
      BY <1>2, <3>1 DEF HmsMarks
    <3>3. nibs[q + 1][j] \in Bit
      <4>1. q + 1 \in 1..Len(nibs)
        BY <1>1, <3>1
      <4>2. nibs[q + 1] \in Word(4, Bit)
        BY <4>1, SymbolsOf
      <4> QED
        BY <3>1, <4>2 DEF Word
    <3> QED
      BY <1>4, <3>2, <3>3
  <2> QED
    BY <2>1, <2>2, <2>3, <2>4
<1>6. Gapped(t, N)
  BY <1>3, <1>5 DEF Gapped, Gap
<1> QED
  BY <1>6 DEF t, n, N

\* The pulses of an Intertechno V1 symbol are no gaps.
LEMMA ItV1Plain ==
  ASSUME NEW c \in {"0", "1", "F"}, NEW j \in 1..4
  PROVE  Plain(ItV1Bit[c][j][1])
<1>1. ItV1Bit[c][j][1] = 420 \/ ItV1Bit[c][j][1] = 1260
  <2>1. j = 1 \/ j = 2 \/ j = 3 \/ j = 4
    OBVIOUS
  <2> QED
    BY <2>1, ItV1Code
<1> QED
  BY <1>1 DEF Plain

\* The pulses of an Intertechno V3 symbol are no gaps.
LEMMA ItV3Plain ==
  ASSUME NEW c \in {"0", "1"}, NEW j \in 1..4
  PROVE  Plain(ItV3Bit[c][j][1])
<1>1. ItV3Bit[c][j][1] = 300 \/ ItV3Bit[c][j][1] = 900
  <2>1. j = 1 \/ j = 2 \/ j = 3 \/ j = 4
    OBVIOUS
  <2> QED
    BY <2>1, ItV3Code
<1> QED
  BY <1>1 DEF Plain

\* An Intertechno V1 train ends in its only gap.
LEMMA It1Gapped ==
  ASSUME NEW data \in Seq({"0", "1", "F"}), Len(data) = 12
  PROVE  Gapped(cc1101_send_it_v1(data), 50)
<1> DEFINE t == cc1101_send_it_v1(data)
<1>1. Coded4(t, 0, data, ItV1Bit, Len(data)) /\ It1End(t, Len(data))
  BY It1Train, Zenon
<1> HIDE DEF t
<1>2. Coded4(t, 0, data, ItV1Bit, 12) /\ Len(t) = 50 /\ t[49] = <<420, 0>> /\ t[50] = <<13020, 1>>
  <2>1. 4 * 12 + 2 = 50 /\ 4 * 12 + 1 = 49
    OBVIOUS
  <2> QED
    BY <1>1, <2>1 DEF It1End
<1>3. ASSUME NEW i \in 1..49 PROVE Plain(t[i][1])
  <2>1. CASE i = 49
    BY <1>2, <2>1 DEF Plain
  <2>2. CASE i < 49
    <3>a. i - 1 \in Nat /\ (i - 1) + 1 = i
      OBVIOUS
    <3>b. PICK q \in Nat : \E j \in 1..4 : (i - 1) + 1 = 4 * q + j
      BY <3>a, InFours, Zenon
    <3>c. PICK j \in 1..4 : (i - 1) + 1 = 4 * q + j
      BY <3>b
    <3>1. q \in 0..(12 - 1) /\ j \in 1..4 /\ i = 0 + 4 * q + j
      BY <2>2, <3>a, <3>c
    <3>2. t[i] = ItV1Bit[data[q + 1]][j]
      <4>1. t[0 + 4 * q + j] = ItV1Bit[data[q + 1]][j]
        <5>1. Coded4(t, 0, data, ItV1Bit, 12) /\ q \in 0..(12 - 1) /\ j \in 1..4
          BY <1>2, <3>1
        <5> QED
          BY <5>1 DEF Coded4
      <4> QED
        BY <3>1, <4>1
    <3>3. data[q + 1] \in {"0", "1", "F"}
      <4>1. q + 1 \in 1..Len(data)
        BY <3>1
      <4> QED
        BY <4>1, SymbolsOf
    <3> QED
      BY <3>1, <3>2, <3>3, ItV1Plain
  <2> QED
    BY <2>1, <2>2
<1>4. Gapped(t, 50)
  BY <1>2, <1>3 DEF Gapped, Gap
<1> QED
  BY <1>4 DEF t

\* Of Intertechno V3 the second pulse is a gap as well.
PlainBetween(t, n) == \A i \in 1..(n - 1) : i # 2 => Plain(t[i][1])
GappedTwice(t) ==
    /\ Len(t) = 132
    /\ Gap(t[132][1])
    /\ t[2][1] = 9300
    /\ PlainBetween(t, Len(t))

\* An Intertechno V3 train has a gap in front of the data and one behind.
LEMMA It3Gapped ==
  ASSUME NEW data \in Word(32, {"0", "1"})
  PROVE  GappedTwice(cc1101_send_it_v3(data))
<1> DEFINE t == cc1101_send_it_v3(data)
<1>1. Coded4(t, 2, data, ItV3Bit, 32) /\ It3Ends(t)
  BY It3Train, Zenon
<1>2. data \in Seq({"0", "1"}) /\ Len(data) = 32
  BY DEF Word
<1> HIDE DEF t
<1>3. ASSUME NEW i \in 1..131, i # 2 PROVE Plain(t[i][1])
  <2>1. CASE i = 1 \/ i = 131
    BY <1>1, <2>1 DEF Plain, It3Ends
  <2>2. CASE i > 2 /\ i < 131
    <3>a. i - 3 \in Nat /\ (i - 3) + 1 = i - 2
      BY <2>2
    <3>b. PICK q \in Nat : \E j \in 1..4 : (i - 3) + 1 = 4 * q + j
      BY <3>a, InFours, Zenon
    <3>c. PICK j \in 1..4 : (i - 3) + 1 = 4 * q + j
      BY <3>b
    <3>1. q \in 0..(32 - 1) /\ j \in 1..4 /\ i = 2 + 4 * q + j
      BY <2>2, <3>a, <3>c
    <3>2. t[i] = ItV3Bit[data[q + 1]][j]
      BY <1>1, <3>1 DEF Coded4
    <3>3. data[q + 1] \in {"0", "1"}
      <4>1. q + 1 \in 1..Len(data)
        BY <1>2, <3>1
      <4> QED
        BY <1>2, <4>1, SymbolsOf
    <3> QED
      BY <3>1, <3>2, <3>3, ItV3Plain
  <2> QED
    BY <1>3, <2>1, <2>2
<1>4. Len(t) = 132 /\ Gap(t[132][1]) /\ t[2][1] = 9300
  BY <1>1 DEF It3Ends, Gap
<1>5. ASSUME NEW i \in 1..(Len(t) - 1), i # 2 PROVE Plain(t[i][1])
  <2>1. i \in 1..131
    BY <1>4
  <2> QED
    BY <1>3, <1>5, <2>1
<1>6. GappedTwice(t)
  <2>1. PlainBetween(t, Len(t))
    BY <1>5, Zenon DEF PlainBetween
  <2> QED
    BY <1>4, <2>1 DEF GappedTwice
<1> QED
  BY <1>6 DEF t

-----------------------------------------------------------------------------
(* All protocols.                                                           *)

\* What slowrf_task does with either, stretched.
LEMMA PlainDecoded ==
  ASSUME NEW p, NEW d, Plain(d), Near(p[1], d), Decode(p)
  PROVE  data_pulse(p[1], p[2])
<1> DEFINE x == p[1]
<1>1. x \in Int /\ 251 <= x /\ x <= 1309
  BY DEF Near, Plain
<1> HIDE DEF x
<1>2. Queued(x) /\ ~(x > SYNC_MIN)
  BY <1>1 DEF Queued, Longest, SYNC_MIN
<1>3. sync_gap(x) \/ data_pulse(x, p[2])
  BY <1>2, Zenon DEF Decode, x
<1>4. ~sync_gap(x)
  BY <1>2, SMT DEF sync_gap
<1> QED
  BY <1>3, <1>4, Zenon DEF x

\* A gap, stretched, is queued and resets the decoders.
LEMMA GapDecoded ==
  ASSUME NEW p, NEW d, Gap(d), Near(p[1], d), Decode(p)
  PROVE  sync_gap(p[1])
<1> DEFINE x == p[1]
<1>1. x \in Int /\ 9251 <= x /\ x <= 13069
  BY DEF Near, Gap
<1> HIDE DEF x
<1>2. Queued(x) /\ ~(x <= SYNC_MIN)
  BY <1>1 DEF Queued, Longest, SYNC_MIN
<1>3. sync_gap(x) \/ data_pulse(x, p[2])
  BY <1>2, Zenon DEF Decode, x
<1>4. ~data_pulse(x, p[2])
  BY <1>2, Zenon DEF data_pulse
<1> QED
  BY <1>3, <1>4, Zenon DEF x

\* The decoder that is meant has followed k pulses of a repetition.
Follows(f, k, fs20, sensor, itv1, itv3) ==
    /\ f.kind = "FS20" => FsAt(fs20, f.data, k)
    /\ f.kind = "HMS" => HmsAt(sensor, f.data, k)
    /\ f.kind = "IT_V1" => It1At(itv1, f.data, k)
    /\ f.kind = "IT_V3" => It3At(itv3, f.data, k)

\* A gap resets the decoders (slowrf.c 406-421).
LEMMA GapResets ==
  ASSUME NEW d, sync_gap(d)
  PROVE  fs' = reset_fs20 /\ hms' = reset_hms(hms) /\ it1' = reset_itv1
BY DEF sync_gap

\* The gap of the repetition before is where it begins.
LEMMA FollowsStart ==
  ASSUME NEW f, Shaped(f), NEW p, Near(p[1], Train(f)[Len(Train(f))][1]), Decode(p)
  PROVE  Follows(f, 0, fs', hms', it1', it3') /\ Queued(p[1])
<1> DEFINE g == Train(f)[Len(Train(f))][1]
<1>1. Gap(g)
  <2>1. CASE f.kind = "FS20" /\ f.data \in Seq(Word(8, Bit))
    <3>1. Train(f) = cc1101_send_raw_slowrf(f.data)
      BY <2>1 DEF Train
    <3> QED
      BY <2>1, <3>1, FsGapped, Zenon DEF Gapped
  <2>2. CASE f.kind = "HMS" /\ f.data \in Seq(Word(4, Bit))
    <3>1. Train(f) = cc1101_send_hms(f.data)
      BY <2>2 DEF Train
    <3> QED
      BY <2>2, <3>1, HmsGapped, Zenon DEF Gapped
  <2>3. CASE f.kind = "IT_V1" /\ f.data \in Seq({"0", "1", "F"}) /\ Len(f.data) = 12
    <3>1. Train(f) = cc1101_send_it_v1(f.data)
      BY <2>3 DEF Train
    <3> QED
      BY <2>3, <3>1, It1Gapped, Zenon DEF Gapped
  <2>4. CASE f.kind = "IT_V3" /\ f.data \in Word(32, {"0", "1"})
    <3>1. Train(f) = cc1101_send_it_v3(f.data)
      BY <2>4 DEF Train
    <3>2. GappedTwice(Train(f))
      BY <2>4, <3>1, It3Gapped, Zenon
    <3> QED
      BY <3>2, SMT DEF GappedTwice
  <2> QED
    BY <2>1, <2>2, <2>3, <2>4, Zenon DEF Shaped
<1>2. Near(p[1], g)
  OBVIOUS
<1> HIDE DEF g
<1>3. sync_gap(p[1])
  BY <1>1, <1>2, GapDecoded, Zenon
<1>4. fs' = reset_fs20 /\ hms' = reset_hms(hms) /\ it1' = reset_itv1
  BY <1>3, GapResets, Zenon
<1>5. Queued(p[1])
  <2>1. p[1] \in Int /\ 9251 <= p[1] /\ p[1] <= 13069
    BY <1>1, <1>2 DEF Near, Gap
  <2> QED
    BY <2>1 DEF Queued, Longest
<1>6. f.kind = "FS20" => FsAt(fs', f.data, 0)
  BY <1>4, FsStart, Zenon
<1>7. f.kind = "HMS" => HmsAt(hms', f.data, 0)
  BY <1>4, HmsStart, Zenon
<1>8. f.kind = "IT_V1" => It1At(it1', f.data, 0)
  <2> SUFFICES ASSUME f.kind = "IT_V1" PROVE It1At(it1', f.data, 0)
    OBVIOUS
  <2>1. f.data \in Seq({"0", "1", "F"})
    BY DEF Shaped
  <2> QED
    BY <1>4, <2>1, It1Start, Zenon
<1>9. It3At(it3', f.data, 0)
  <2>1. 0 \in Nat /\ 0 < 2
    OBVIOUS
  <2> QED
    BY <2>1, It3Before
<1> QED
  BY <1>5, <1>6, <1>7, <1>8, <1>9, Zenon DEF Follows

\* Every pulse of it takes the decoder one step on.
LEMMA FsFollows ==
  ASSUME NEW f, f.kind = "FS20", f.data \in Seq(Word(8, Bit)), DecTypeOK, NEW k \in Nat,
         k + 1 < Len(Train(f)), FsAt(fs, f.data, k), NEW p,
         Near(p[1], Train(f)[k + 1][1]), Decode(p)
  PROVE  FsAt(fs', f.data, k + 1)
<1> DEFINE t == cc1101_send_raw_slowrf(f.data)
<1> DEFINE n == Len(f.data)
<1>1. Train(f) = t
  BY DEF Train
<1>2. Gapped(t, 52 + 18 * n) /\ n \in Nat
  BY FsGapped
<1> HIDE DEF t
<1>3. k + 1 < 52 + 18 * n /\ k + 1 \in 1..(52 + 18 * n - 1) /\ k < 51 + 18 * n
  <2>1. Len(t) = 52 + 18 * n /\ k + 1 < Len(t) /\ n \in Nat
    BY <1>1, <1>2 DEF Gapped
  <2> HIDE DEF n
  <2> QED
    BY <2>1
<1>4. Plain(t[k + 1][1])
  BY <1>2, <1>3 DEF Gapped
<1>5. data_pulse(p[1], p[2])
  BY <1>1, <1>4, PlainDecoded
<1>6. fs' = fs20_pulse(fs, p[1]) /\ fs \in fs20_dec_t
  BY <1>5 DEF data_pulse, DecTypeOK
<1>7. Near(p[1], cc1101_send_raw_slowrf(f.data)[k + 1][1])
  BY <1>1 DEF t
<1> QED
  BY <1>3, <1>6, <1>7, FsStep DEF n

\* The same of HMS.
LEMMA HmsFollows ==
  ASSUME NEW f, f.kind = "HMS", f.data \in Seq(Word(4, Bit)), f.data[1][1] = 1, DecTypeOK,
         NEW k \in Nat, k + 1 < Len(Train(f)), HmsAt(hms, f.data, k), NEW p,
         Near(p[1], Train(f)[k + 1][1]), p[2] = Train(f)[k + 1][2], Decode(p)
  PROVE  HmsAt(hms', f.data, k + 1)
<1> DEFINE t == cc1101_send_hms(f.data)
<1> DEFINE n == Len(f.data)
<1>1. Train(f) = t
  BY DEF Train
<1>2. Gapped(t, 32 + 8 * n) /\ n \in Nat
  BY HmsGapped
<1> HIDE DEF t
<1>3. k + 1 \in 1..(32 + 8 * n - 1) /\ k < 31 + 8 * n
  <2>1. Len(t) = 32 + 8 * n /\ k + 1 < Len(t) /\ n \in Nat
    BY <1>1, <1>2 DEF Gapped
  <2> HIDE DEF n
  <2> QED
    BY <2>1
<1>4. Plain(t[k + 1][1])
  BY <1>2, <1>3 DEF Gapped
<1>5. data_pulse(p[1], p[2])
  BY <1>1, <1>4, PlainDecoded
<1>6. hms' = hms_pulse(hms, p[1], p[2]) /\ hms \in hms_dec_t
  BY <1>5 DEF data_pulse, DecTypeOK
<1>7. Near(p[1], cc1101_send_hms(f.data)[k + 1][1]) /\ p[2] = cc1101_send_hms(f.data)[k + 1][2]
  BY <1>1 DEF t
<1> QED
  BY <1>3, <1>6, <1>7, HmsStep DEF n

\* The same of Intertechno V1.
LEMMA It1Follows ==
  ASSUME NEW f, f.kind = "IT_V1", f.data \in Seq({"0", "1", "F"}), Len(f.data) = 12, DecTypeOK,
         NEW k \in Nat, k + 1 < Len(Train(f)), It1At(it1, f.data, k), NEW p,
         Near(p[1], Train(f)[k + 1][1]), Decode(p)
  PROVE  It1At(it1', f.data, k + 1)
<1> DEFINE t == cc1101_send_it_v1(f.data)
<1>1. Train(f) = t
  BY DEF Train
<1>2. Gapped(t, 50)
  BY It1Gapped
<1> HIDE DEF t
<1>3. k + 1 \in 1..(50 - 1) /\ k < 49
  <2>1. Len(t) = 50 /\ k + 1 < Len(t)
    BY <1>1, <1>2 DEF Gapped
  <2> QED
    BY <2>1
<1>4. Plain(t[k + 1][1])
  BY <1>2, <1>3 DEF Gapped
<1>5. data_pulse(p[1], p[2])
  BY <1>1, <1>4, PlainDecoded
<1>6. it1' = itv1_pulse(it1, p[1]) /\ it1 \in itv1_dec_t
  BY <1>5 DEF data_pulse, DecTypeOK
<1>7. Near(p[1], cc1101_send_it_v1(f.data)[k + 1][1])
  BY <1>1 DEF t
<1> QED
  BY <1>3, <1>6, <1>7, It1Step

\* The same of Intertechno V3, the gap in front of the data included.
LEMMA It3Follows ==
  ASSUME NEW f, f.kind = "IT_V3", f.data \in Word(32, {"0", "1"}), DecTypeOK,
         NEW k \in Nat, k + 1 < Len(Train(f)), It3At(it3, f.data, k), NEW p,
         Near(p[1], Train(f)[k + 1][1]), Decode(p)
  PROVE  It3At(it3', f.data, k + 1)
<1> DEFINE t == cc1101_send_it_v3(f.data)
<1>1. Train(f) = t
  BY DEF Train
<1>2. GappedTwice(t)
  BY It3Gapped
<1> HIDE DEF t
<1> DEFINE n == Len(t)
<1>a. n = 132 /\ k + 1 < n /\ PlainBetween(t, n)
  BY <1>1, <1>2 DEF GappedTwice
<1> HIDE DEF n
<1>3. k + 1 \in 1..(n - 1) /\ k < 131
  BY <1>a
<1>4. CASE k = 1
  <2>1. Near(p[1], 9300) /\ k + 1 = 2
    BY <1>1, <1>2, <1>4 DEF GappedTwice
  <2>2. Gap(9300)
    BY DEF Gap
  <2>3. sync_gap(p[1])
    BY <2>1, <2>2, GapDecoded
  <2> DEFINE x == p[1]
  <2> DEFINE sync == x \in 8001..10999
  <2>4. sync
    <3>1. Near(x, 9300)
      BY <2>1
    <3> HIDE DEF x
    <3>2. x \in Int /\ 9251 <= x /\ x <= 9349
      BY <3>1 DEF Near
    <3> QED
      BY <3>2
  <2>5. it3' = [reset_itv3 EXCEPT !.sync = sync] /\ sync = TRUE
    BY <2>3, <2>4 DEF sync_gap
  <2> HIDE DEF sync
  <2>6. it3' = [reset_itv3 EXCEPT !.sync = TRUE]
    BY <2>5
  <2>7. It3At(it3', f.data, 2)
    BY <2>6, It3Start, Zenon
  <2> QED
    BY <2>1, <2>7
<1>5. CASE k # 1
  <2>1. k + 1 # 2
    BY <1>5
  <2>2. Plain(t[k + 1][1])
    BY <1>3, <1>a, <2>1, Zenon DEF PlainBetween
  <2>3. data_pulse(p[1], p[2])
    BY <1>1, <2>2, PlainDecoded
  <2>4. it3' = itv3_pulse(it3, p[1]) /\ it3 \in itv3_dec_t
    BY <2>3 DEF data_pulse, DecTypeOK
  <2>5. Near(p[1], cc1101_send_it_v3(f.data)[k + 1][1])
    BY <1>1 DEF t
  <2> QED
    BY <1>3, <1>5, <2>4, <2>5, It3Step
<1> QED
  BY <1>4, <1>5

\* Whatever the protocol, the decoder follows one pulse further.
LEMMA FollowsStep ==
  ASSUME NEW f, Shaped(f), DecTypeOK, NEW k \in Nat, k + 1 < Len(Train(f)),
         Follows(f, k, fs, hms, it1, it3), NEW p,
         Near(p[1], Train(f)[k + 1][1]), p[2] = Train(f)[k + 1][2], Decode(p)
  PROVE  Follows(f, k + 1, fs', hms', it1', it3')
<1>1. CASE f.kind = "FS20" /\ f.data \in Seq(Word(8, Bit))
  <2>1. FsAt(fs, f.data, k)
    BY <1>1 DEF Follows
  <2>2. FsAt(fs', f.data, k + 1)
    BY <1>1, <2>1, FsFollows
  <2> QED
    BY <1>1, <2>2 DEF Follows
<1>2. CASE f.kind = "HMS" /\ f.data \in Seq(Word(4, Bit)) /\ f.data[1][1] = 1
  <2>1. HmsAt(hms, f.data, k)
    BY <1>2 DEF Follows
  <2>2. HmsAt(hms', f.data, k + 1)
    BY <1>2, <2>1, HmsFollows
  <2> QED
    BY <1>2, <2>2 DEF Follows
<1>3. CASE f.kind = "IT_V1" /\ f.data \in Seq({"0", "1", "F"}) /\ Len(f.data) = 12
  <2>1. It1At(it1, f.data, k)
    BY <1>3 DEF Follows
  <2>2. It1At(it1', f.data, k + 1)
    BY <1>3, <2>1, It1Follows
  <2> QED
    BY <1>3, <2>2 DEF Follows
<1>4. CASE f.kind = "IT_V3" /\ f.data \in Word(32, {"0", "1"})
  <2>1. It3At(it3, f.data, k)
    BY <1>4 DEF Follows
  <2>2. It3At(it3', f.data, k + 1)
    BY <1>4, <2>1, It3Follows
  <2> QED
    BY <1>4, <2>2 DEF Follows
<1> QED
  BY <1>1, <1>2, <1>3, <1>4, Zenon DEF Shaped

\* At the gap that ends it the frame is reported.
LEMMA FollowsReport ==
  ASSUME NEW f, Shaped(f), NEW k \in Nat, k + 1 = Len(Train(f)), Follows(f, k, fs, hms, it1, it3)
  PROVE  Reported(f) \in Reports
<1>1. CASE f.kind = "FS20" /\ f.data \in Seq(Word(8, Bit)) /\ Len(f.data) >= 4
  <2> DEFINE n == Len(f.data)
  <2>1. Train(f) = cc1101_send_raw_slowrf(f.data)
    BY <1>1 DEF Train
  <2>2. Len(Train(f)) = 52 + 18 * n /\ n \in Nat
    BY <1>1, <2>1, FsGapped DEF Gapped
  <2> HIDE DEF n
  <2>3. k = 51 + 18 * n
    BY <2>2
  <2>4. FsAt(fs, f.data, 51 + 18 * Len(f.data))
    BY <1>1, <2>3 DEF Follows, n
  <2> QED
    BY <1>1, <2>4, FsReport
<1>2. CASE f.kind = "HMS" /\ f.data \in Seq(Word(4, Bit)) /\ Len(f.data) >= 9
  <2> DEFINE n == Len(f.data)
  <2>1. Train(f) = cc1101_send_hms(f.data)
    BY <1>2 DEF Train
  <2>2. Len(Train(f)) = 32 + 8 * n /\ n \in Nat
    BY <1>2, <2>1, HmsGapped DEF Gapped
  <2> HIDE DEF n
  <2>3. k = 31 + 8 * n
    BY <2>2
  <2>4. HmsAt(hms, f.data, 31 + 8 * Len(f.data))
    BY <1>2, <2>3 DEF Follows, n
  <2> QED
    BY <1>2, <2>4, HmsReport
<1>3. CASE f.kind = "IT_V1" /\ f.data \in Seq({"0", "1", "F"}) /\ Len(f.data) = 12
  <2>1. Train(f) = cc1101_send_it_v1(f.data)
    BY <1>3 DEF Train
  <2>2. Len(Train(f)) = 50
    BY <1>3, <2>1, It1Gapped DEF Gapped
  <2>3. k = 49
    BY <2>2
  <2>4. It1At(it1, f.data, 49)
    BY <1>3, <2>3 DEF Follows
  <2> QED
    BY <1>3, <2>4, It1Report
<1>4. CASE f.kind = "IT_V3" /\ f.data \in Word(32, {"0", "1"})
  <2>1. Train(f) = cc1101_send_it_v3(f.data)
    BY <1>4 DEF Train
  <2>2. Len(Train(f)) = 132
    BY <1>4, <2>1, It3Gapped DEF GappedTwice
  <2>3. k = 131
    BY <2>2
  <2>4. It3At(it3, f.data, 131)
    BY <1>4, <2>3 DEF Follows
  <2> QED
    BY <1>4, <2>4, It3Report
<1> QED
  BY <1>1, <1>2, <1>3, <1>4, Zenon DEF Shaped

-----------------------------------------------------------------------------
(* The loop.                                                                *)

\* Silence is not a frame.
LEMMA NotIdle == Idle \notin FrameTypes /\ ~Reportable(Idle)
<1>1. Idle.kind = "none"
  BY DEF Idle
<1>2. \A f \in FrameTypes : f.kind \in {"FS20", "FHT", "HMS", "Oregon", "IT_V1", "IT_V3"}
  BY DEF FrameTypes
<1> HIDE DEF Idle
<1> QED
  BY <1>1, <1>2 DEF Reportable

\* The pulse to come is pulse k + 1 of the frame, in either repetition.
LEMMA PulseHeard ==
  ASSUME OnAir, frame # Idle, NEW k \in Nat, k < RepLen, pos = k \/ pos = RepLen + k
  PROVE  /\ Near(Pulse[1], Train(frame)[k + 1][1])
         /\ Pulse[2] = Train(frame)[k + 1][2]
<1> DEFINE r == Repetition[frame][offset]
<1> DEFINE t == Train(frame)
<1>1. frame \in AllFrames /\ offset \in Offsets
  BY DEF OnAir
<1>2. r \in Seq(Step) /\ Heard(r, t)
  BY <1>1, RepetitionHeard, Zenon
<1>3. RepLen = Len(r) /\ Pulse = r[1 + (pos % RepLen)]
  BY DEF RepLen, Pulse
<1> HIDE DEF r, t
<1> DEFINE n == RepLen
<1>4. n \in Nat /\ n = Len(r) /\ Len(t) = n /\ k < n /\ (pos = k \/ pos = n + k)
  BY <1>2, <1>3 DEF Heard
<1>5. Pulse = r[1 + (pos % n)]
  BY <1>3
<1> HIDE DEF n
<1>6. pos % n = k
  BY <1>4
<1>7. 1 + (pos % n) = k + 1 /\ k + 1 \in 1..Len(t)
  BY <1>4, <1>6
<1>8. r[k + 1][2] = t[k + 1][2] /\ Near(r[k + 1][1], t[k + 1][1])
  BY <1>2, <1>7 DEF Heard
<1> QED
  BY <1>5, <1>7, <1>8 DEF t

\* Stretching leaves the number of pulses alone.
LEMMA RepLenIs ==
  ASSUME OnAir, frame # Idle
  PROVE  RepLen = Len(Train(frame)) /\ RepLen \in Nat
<1>1. frame \in AllFrames /\ offset \in Offsets
  BY DEF OnAir
<1>2. Repetition[frame][offset] \in Seq(Step) /\ Heard(Repetition[frame][offset], Train(frame))
  BY <1>1, RepetitionHeard, Zenon
<1>3. RepLen = Len(Repetition[frame][offset])
  BY DEF RepLen
<1> QED
  BY <1>2, <1>3 DEF Heard

\* A reportable frame on the air is of one of the four shapes.
LEMMA OnAirShaped ==
  ASSUME OnAir, frame # Idle, Reportable(frame)
  PROVE  Shaped(frame)
BY FramesTyped, ReportableShaped DEF OnAir

\* Once the gap behind the first repetition was heard, the decoder of the
\* frame's protocol follows the second one, pulse by pulse.
InStep ==
    /\ gapHeard \in BOOLEAN
    /\ gapHeard => frame # Idle /\ RepLen <= pos
    /\ gapHeard /\ Reportable(frame) /\ pos < 2 * RepLen
         => Follows(frame, pos - RepLen, fs, hms, it1, it3)

\* A pulse heard keeps the decoder in step: the gap at the end of the first
\* repetition puts it there, whatever it has heard before.
LEMMA InStepHear ==
  ASSUME OnAir, DecTypeOK, InStep, Hear
  PROVE  InStep'
<1> DEFINE n == RepLen
<1>1. /\ frame # Idle /\ pos < 2 * n /\ Decode(Pulse) /\ pos' = pos + 1
      /\ gapHeard' = (gapHeard \/ (pos + 1 = n /\ Queued(Pulse[1])))
      /\ frame' = frame /\ offset' = offset
  BY DEF Hear, Sending
<1>2. n = Len(Train(frame)) /\ n \in Nat /\ pos \in Nat
  BY <1>1, RepLenIs DEF OnAir
<1>3. RepLen' = n
  BY <1>1 DEF RepLen
<1> HIDE DEF n
<1>4. gapHeard' \in BOOLEAN
  BY <1>1, Zenon DEF InStep
<1>5. gapHeard' => n <= pos'
  <2>1. ASSUME gapHeard PROVE n <= pos'
    <3>1. n <= pos
      BY <2>1 DEF InStep, n
    <3> QED
      BY <1>1, <1>2, <3>1
  <2>2. ASSUME pos + 1 = n PROVE n <= pos'
    BY <1>1, <1>2, <2>2
  <2> QED
    BY <1>1, <2>1, <2>2, Zenon
<1>6. ASSUME gapHeard', Reportable(frame), pos' < 2 * n
      PROVE  Follows(frame, pos' - n, fs', hms', it1', it3')
  <2>0. Shaped(frame)
    BY <1>1, <1>6, OnAirShaped
  <2>1. CASE gapHeard
    <3> DEFINE k == pos - n
    <3>1. n <= pos
      BY <2>1 DEF InStep, n
    <3>2. k \in Nat /\ k < n /\ pos = n + k /\ k + 1 < n /\ pos' - n = k + 1
      BY <1>1, <1>2, <1>6, <3>1
    <3>3. Follows(frame, k, fs, hms, it1, it3)
      BY <1>1, <1>6, <2>1 DEF InStep, n
    <3> HIDE DEF k
    <3>4. /\ Near(Pulse[1], Train(frame)[k + 1][1])
          /\ Pulse[2] = Train(frame)[k + 1][2]
      BY <1>1, <3>2, PulseHeard DEF n
    <3>5. Follows(frame, k + 1, fs', hms', it1', it3')
      BY <1>1, <1>2, <2>0, <3>2, <3>3, <3>4, FollowsStep
    <3> QED
      BY <3>2, <3>5
  <2>2. CASE ~gapHeard
    <3>1. pos + 1 = n
      BY <1>1, <1>6, <2>2
    <3>2. pos < n /\ pos' - n = 0
      BY <1>1, <1>2, <3>1
    <3>3. Near(Pulse[1], Train(frame)[pos + 1][1])
      BY <1>1, <1>2, <3>2, PulseHeard DEF n
    <3>4. Near(Pulse[1], Train(frame)[Len(Train(frame))][1])
      BY <1>2, <3>1, <3>3
    <3>5. Follows(frame, 0, fs', hms', it1', it3')
      BY <1>1, <2>0, <3>4, FollowsStart
    <3> QED
      BY <3>2, <3>5
  <2> QED
    BY <2>1, <2>2
<1> QED
  BY <1>1, <1>3, <1>4, <1>5, <1>6 DEF InStep

\* So does every step; a pulse is lost only before that gap.
LEMMA InStepPreserved == OnAir /\ DecTypeOK /\ InStep /\ [LoopNext]_loopVars => InStep'
<1> SUFFICES ASSUME OnAir, DecTypeOK, InStep, [LoopNext]_loopVars PROVE InStep'
  OBVIOUS
<1>1. CASE Transmit \/ Bridge \/ HearNoise
  <2>1. frame = Idle /\ gapHeard' = gapHeard
    BY <1>1, Zenon DEF Transmit, Bridge, HearNoise
  <2>2. ~gapHeard /\ gapHeard' = FALSE
    BY <2>1, Zenon DEF InStep
  <2> QED
    BY <2>2, Zenon DEF InStep
<1>2. CASE Hear
  BY <1>2, InStepHear
<1>3. CASE Lose
  <2>1. frame # Idle /\ pos < RepLen /\ gapHeard' = gapHeard
    BY <1>3, Zenon DEF Lose, Sending
  <2>2. RepLen \in Nat /\ pos \in Nat
    BY <2>1, RepLenIs DEF OnAir
  <2>3. ~gapHeard /\ gapHeard' = FALSE
    <3>1. gapHeard => RepLen <= pos
      BY Zenon DEF InStep
    <3>2. ~(RepLen <= pos)
      BY <2>1, <2>2
    <3> QED
      BY <2>1, <3>1, <3>2, Zenon DEF InStep
  <2> QED
    BY <2>3, Zenon DEF InStep
<1>4. CASE Silence \/ UNCHANGED loopVars
  <2>1. /\ fs' = fs /\ hms' = hms /\ it1' = it1 /\ it3' = it3
        /\ frame' = frame /\ offset' = offset /\ pos' = pos /\ gapHeard' = gapHeard
    BY <1>4, Zenon DEF Silence, loopVars, airVars, decVars
  <2>2. RepLen' = RepLen
    BY <2>1, Zenon DEF RepLen
  <2> QED
    BY <2>1, <2>2, Zenon DEF InStep
<1> QED
  BY <1>1, <1>2, <1>3, <1>4, Zenon DEF LoopNext

\* A decoder in step reports the frame at the end of the second repetition.
LEMMA InStepReports == OnAir /\ InStep => RoundTrip
<1> SUFFICES ASSUME OnAir, InStep, Reportable(frame), pos + 1 = 2 * RepLen, gapHeard
             PROVE  Reported(frame) \in Reports
  BY Zenon DEF RoundTrip, SecondGap
<1> DEFINE n == RepLen
<1>1. frame # Idle
  BY Zenon DEF InStep
<1>2. n = Len(Train(frame)) /\ n \in Nat /\ pos \in Nat
  BY <1>1, RepLenIs DEF OnAir
<1>3. Shaped(frame)
  BY <1>1, OnAirShaped
<1>4. n <= pos /\ (pos < 2 * n => Follows(frame, pos - n, fs, hms, it1, it3))
  BY Zenon DEF InStep
<1>5. pos + 1 = 2 * n
  OBVIOUS
<1> HIDE DEF n
<1> DEFINE k == pos - n
<1>6. k \in Nat /\ k + 1 = n /\ pos < 2 * n
  BY <1>2, <1>4, <1>5
<1>7. Follows(frame, k, fs, hms, it1, it3)
  BY <1>4, <1>6
<1> HIDE DEF k
<1> QED
  BY <1>2, <1>3, <1>6, <1>7, FollowsReport

\* What one stick sends the other one reports: every FS20 and Intertechno frame
\* that is long enough, and every such HMS frame that begins with a 1 bit,
\* passes from cc1101.c 273-391 through the filter of gpio_isr_handler to the
\* report of slowrf.c 307-405 once a gap has been heard; FS20 cut to the 31
\* digits that are printed, HMS without its last nibble.
THEOREM TrainsReported == LoopSpec => []RoundTrip
<1>1. LoopInit => OnAir /\ InStep
  <2>1. LoopInit => OnAir
    BY DEF LoopInit, OnAir
  <2>2. LoopInit => InStep
    BY Zenon DEF LoopInit, InStep
  <2> QED
    BY <2>1, <2>2
<1>2. LoopSpec => []OnAir
  <2>1. LoopInit => OnAir
    BY <1>1
  <2> QED
    BY <2>1, OnAirPreserved, PTL DEF LoopSpec
<1>3. LoopSpec => []InStep
  BY <1>1, <1>2, InStepPreserved, LoopTyped, PTL DEF LoopSpec
<1> QED
  BY <1>2, <1>3, InStepReports, PTL

\* The frame on the air, if any, was made of the command on record.
Commanded ==
    command # <<>> => \E c \in CommandsTo :
        command = <<c>> /\ (frame = Idle \/ frame \in FramesOf(c))

\* The command on record changes with the frame only.
LEMMA CommandedPreserved == Commanded /\ [LoopNext]_loopVars => Commanded'
<1> SUFFICES ASSUME Commanded, [LoopNext]_loopVars PROVE Commanded'
  OBVIOUS
<1>1. CASE Transmit
  BY <1>1, Zenon DEF Transmit, Commanded
<1>2. CASE Bridge
  <2>1. PICK c \in CommandsTo : command' = <<c>> /\ (frame' \in FramesOf(c) \/ frame' = frame)
    BY <1>2, Zenon DEF Bridge
  <2>2. frame = Idle
    BY <1>2, Zenon DEF Bridge
  <2> QED
    BY <2>1, <2>2, Zenon DEF Commanded
<1>3. CASE Hear \/ Lose \/ HearNoise \/ Silence \/ UNCHANGED loopVars
  <2>1. frame' = frame /\ command' = command
    BY <1>3, Zenon DEF Hear, Lose, HearNoise, Silence, loopVars, airVars
  <2> QED
    BY <2>1, Zenon DEF Commanded
<1> QED
  BY <1>1, <1>2, <1>3, Zenon DEF LoopNext

\* What is reported of a commanded frame is an event of the device commanded.
LEMMA CommandedHeard == Commanded /\ RoundTrip => SwitchAddressed
<1> SUFFICES ASSUME Commanded, RoundTrip, command # <<>>, SecondGap, gapHeard
             PROVE  LET c == command[1] IN
                    Told(c.device, IF c.device.proto = "FS20" THEN {c.value} ELSE {0, 1})
  BY Zenon DEF SwitchAddressed
<1>1. PICK c \in CommandsTo : command = <<c>> /\ frame \in FramesOf(c)
  BY Zenon DEF Commanded, SecondGap
<1>2. command[1] = c
  BY <1>1
<1>3. AnswersTo(frame, c)
  BY <1>1, CommandFrames, Zenon
<1>4. Reported(frame) \in Reports
  BY <1>3, Zenon DEF AnswersTo, RoundTrip
<1>5. Told(c.device, IF c.device.proto = "FS20" THEN {c.value} ELSE {0, 1})
  BY <1>3, <1>4, Zenon DEF AnswersTo, Told
<1> QED
  BY <1>2, <1>5, Zenon

\* A frame that matter_bridge_command_cb makes of the id of a switch is heard
\* as an event of that very switch, for FS20 with the value commanded, for
\* every switch that can be heard, every noise and every pulse lost before the
\* first gap.
THEOREM CommandsHeard == LoopSpec => []SwitchAddressed
<1>1. LoopInit => Commanded
  BY DEF LoopInit, Commanded
<1>2. LoopSpec => []Commanded
  BY <1>1, CommandedPreserved, PTL DEF LoopSpec
<1> QED
  BY <1>2, TrainsReported, CommandedHeard, PTL
=============================================================================
