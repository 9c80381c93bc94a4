-------------------------- MODULE DutyCycleProofs ---------------------------
(***************************************************************************)
(* Proofs about the duty-cycle monitor: types and the announced rest for   *)
(* any number of tasks; the bounds of the account and of the hour for the  *)
(* one sending task of the serial profile, whatever the limits, the        *)
(* durations and the changes of band.                                      *)
(***************************************************************************)
EXTENDS DutyCycle, WellFoundedInduction, TLAPS

\* The argument of a call, or the 0 of an idle task, is a number.
LEMMA DurationNat == TypeOK => \A t \in Tasks : dur[t] \in Nat
<1>1. \A d \in Durations \cup {0} : d \in Nat
  BY DurationsAssumption
<1> QED
  BY <1>1 DEF TypeOK

\* An addition to one cell of the history keeps its type.
LEMMA HistoryType ==
  ASSUME NEW f \in [BOOLEAN -> [Times -> Nat]],
         NEW b \in BOOLEAN, NEW i \in Times, NEW d \in Nat
  PROVE  [f EXCEPT ![b][i] = @ + d] \in [BOOLEAN -> [Times -> Nat]]
<1>1. f[b] \in [Times -> Nat]
  OBVIOUS
<1>2. [f[b] EXCEPT ![i] = @ + d] \in [Times -> Nat]
  BY <1>1, SMT
<1>3. [f EXCEPT ![b] = [f[b] EXCEPT ![i] = f[b][i] + d]]
        \in [BOOLEAN -> [Times -> Nat]]
  BY <1>2, Zenon
<1> QED
  BY <1>3

\* A return clears the locals, which keeps their types.
LEMMA ReturnTypes ==
  ASSUME TypeOK, NEW t \in Tasks, Return(t)
  PROVE  /\ pc' \in [Tasks -> Labels]
         /\ dur' \in [Tasks -> Durations \cup {0}]
         /\ band' \in [Tasks -> BOOLEAN]
         /\ now' \in [Tasks -> 0..MaxTime]
         /\ sum' \in [Tasks -> Nat]
<1>1. pc' \in [Tasks -> Labels]
  BY DEF TypeOK, Return, Goto, Labels
<1>2. dur' \in [Tasks -> Durations \cup {0}]
  BY DEF TypeOK, Return
<1>3. band' \in [Tasks -> BOOLEAN]
  BY Zenon DEF TypeOK, Return
<1>4. now' \in [Tasks -> 0..MaxTime]
  BY BoundsAssumption DEF TypeOK, Return
<1>5. sum' \in [Tasks -> Nat]
  BY DEF TypeOK, Return
<1> QED
  BY <1>1, <1>2, <1>3, <1>4, <1>5

\* Every step keeps the types.
LEMMA TypePreserved == TypeOK /\ [Next]_vars => TypeOK'
<1> SUFFICES ASSUME TypeOK, [Next]_vars PROVE TypeOK'
  OBVIOUS
<1>1. ASSUME NEW t \in Tasks, add_tx_enter(t) PROVE TypeOK'
  BY <1>1 DEF add_tx_enter, TypeOK, Labels, Goto, account
<1>2. ASSUME NEW t \in Tasks, add_tx_window(t) PROVE TypeOK'
  <2>1. airtime' \in Nat
    BY <1>2 DEF add_tx_window, TypeOK
  <2>2. pc' \in [Tasks -> Labels]
    <3>1. pc \in [Tasks -> Labels]
      BY DEF TypeOK
    <3>2. \E l \in Labels : pc' = [pc EXCEPT ![t] = l]
      BY <1>2, Zenon DEF add_tx_window, Goto, Labels
    <3> QED
      BY <3>1, <3>2
  <2>3. UNCHANGED <<dur, band, now, sum, last, is433, clock, started, onAir>>
    BY <1>2 DEF add_tx_window, locals
  <2> QED
    BY <2>1, <2>2, <2>3 DEF TypeOK
<1>3. ASSUME NEW t \in Tasks, add_tx_stamp(t) PROVE TypeOK'
  BY <1>3 DEF add_tx_stamp, TypeOK, Labels, Goto, locals
<1>4. ASSUME NEW t \in Tasks, add_tx_check(t) PROVE TypeOK'
  <2>1. UNCHANGED <<airtime, last, is433, clock, started, onAir>>
    BY <1>4 DEF add_tx_check, account
  <2>2. CASE Return(t)
    BY <2>1, <2>2, ReturnTypes DEF TypeOK
  <2>3. CASE ~Return(t)
    <3>1. /\ sum' = [sum EXCEPT ![t] = airtime + dur[t]]
          /\ Goto(t, "add")
          /\ UNCHANGED <<dur, band, now>>
      BY <1>4, <2>3 DEF add_tx_check
    <3>2. airtime + dur[t] \in Nat
      BY DurationNat DEF TypeOK
    <3>3. sum' \in [Tasks -> Nat]
      BY <3>1, <3>2 DEF TypeOK
    <3>4. pc' \in [Tasks -> Labels]
      BY <3>1 DEF TypeOK, Goto, Labels
    <3> QED
      BY <2>1, <3>1, <3>3, <3>4 DEF TypeOK
  <2> QED
    BY <2>2, <2>3
<1>5. ASSUME NEW t \in Tasks, add_tx_add(t) PROVE TypeOK'
  <2>1. UNCHANGED <<last, is433, clock, started>>
    BY <1>5 DEF add_tx_add
  <2>2. Return(t)
    BY <1>5 DEF add_tx_add
  <2>3. dur[t] \in Nat /\ sum[t] \in Nat /\ airtime \in Nat
    BY DurationNat DEF TypeOK
  <2>4. airtime' \in Nat
    BY <1>5, <2>3 DEF add_tx_add
  <2>5. onAir' \in [BOOLEAN -> [Times -> Nat]]
    <3>1. band[t] \in BOOLEAN
      BY Zenon DEF TypeOK
    <3>2. now[t] \in Times
      BY DEF TypeOK, Times
    <3>3. onAir \in [BOOLEAN -> [Times -> Nat]]
      BY DEF TypeOK
    <3>4. onAir' = [onAir EXCEPT ![band[t]][now[t]] = @ + dur[t]]
      BY <1>5 DEF add_tx_add
    <3> QED
      BY <2>3, <3>1, <3>2, <3>3, <3>4, HistoryType
  <2> QED
    BY <2>1, <2>2, <2>4, <2>5, ReturnTypes DEF TypeOK
<1>6. CASE duty_cycle_init
  BY <1>6 DEF duty_cycle_init, TypeOK, locals
<1>7. CASE set_band
  BY <1>7 DEF set_band, TypeOK, account, locals
<1>8. CASE Tick
  BY <1>8, BoundsAssumption DEF Tick, TypeOK, account, locals
<1>9. CASE UNCHANGED vars
  BY <1>9 DEF vars, TypeOK
<1> QED
  BY <1>1, <1>2, <1>3, <1>4, <1>5, <1>6, <1>7, <1>8, <1>9 DEF Next

\* The state of the monitor and the locals of its callers keep their types,
\* for any number of tasks.
THEOREM TypeCorrect == Spec => []TypeOK
<1>1. Init => TypeOK
  <2> SUFFICES ASSUME Init PROVE TypeOK
    OBVIOUS
  <2>1. airtime \in Nat /\ last \in 0..MaxTime /\ clock \in 0..MaxTime
    BY BoundsAssumption DEF Init
  <2>2. is433 \in BOOLEAN /\ started \in BOOLEAN /\ band \in [Tasks -> BOOLEAN]
    BY DEF Init
  <2>3. pc \in [Tasks -> Labels] /\ dur \in [Tasks -> Durations \cup {0}]
    BY DEF Init, Labels
  <2>4. now \in [Tasks -> 0..MaxTime] /\ sum \in [Tasks -> Nat]
    BY BoundsAssumption DEF Init
  <2>5. onAir \in [BOOLEAN -> [Times -> Nat]]
    BY DEF Init
  <2> QED
    BY <2>1, <2>2, <2>3, <2>4, <2>5 DEF TypeOK
<1> QED
  BY <1>1, TypePreserved, PTL DEF Spec

\* With one task every step keeps the bound: between the check of line 28
\* and the addition of line 33 nobody else adds.
LEMMA BoundPreserved ==
  ASSUME NEW s, Tasks = {s}
  PROVE  TypeOK /\ AccountBounded /\ CheckedFits /\ [Next]_vars
           => AccountBounded' /\ CheckedFits'
<1> SUFFICES ASSUME TypeOK, AccountBounded, CheckedFits, [Next]_vars
             PROVE  AccountBounded' /\ CheckedFits'
  OBVIOUS
<1> DEFINE Goal == AccountBounded' /\ CheckedFits'
<1>d. \A t \in Tasks : dur[t] \in Nat
  BY DurationNat
<1> USE <1>d, LimitAssumption, LimitOrder
        DEF TypeOK, AccountBounded, CheckedFits, Limit, Goto, Return, account,
            locals
<1>1. ASSUME NEW t \in Tasks, add_tx_enter(t) PROVE Goal
  BY <1>1 DEF add_tx_enter
<1>2. ASSUME NEW t \in Tasks, add_tx_window(t) PROVE Goal
  BY <1>2 DEF add_tx_window, Expired
<1>3. ASSUME NEW t \in Tasks, add_tx_stamp(t) PROVE Goal
  BY <1>3 DEF add_tx_stamp
<1>4. ASSUME NEW t \in Tasks, add_tx_check(t) PROVE Goal
  BY <1>4 DEF add_tx_check
<1>5. ASSUME NEW t \in Tasks, add_tx_add(t) PROVE Goal
  BY <1>5 DEF add_tx_add
<1>6. CASE duty_cycle_init
  BY <1>6 DEF duty_cycle_init
<1>7. CASE set_band
  BY <1>7 DEF set_band
<1>8. CASE Tick
  BY <1>8 DEF Tick
<1>9. CASE UNCHANGED vars
  BY <1>9 DEF vars
<1> HIDE DEF Goal
<1> QED
  BY <1>1, <1>2, <1>3, <1>4, <1>5, <1>6, <1>7, <1>8, <1>9 DEF Next, Goal

\* The account of a stick with one sending task never exceeds the larger
\* limit, although line 33 adds without looking at the limit again.
THEOREM AccountStaysBounded ==
  ASSUME NEW s, Tasks = {s}
  PROVE  Spec => []AccountBounded
<1>1. Init => AccountBounded /\ CheckedFits
  BY LimitAssumption DEF Init, AccountBounded, CheckedFits
<1>2. TypeOK /\ AccountBounded /\ CheckedFits /\ [Next]_vars
        => AccountBounded' /\ CheckedFits'
  BY BoundPreserved
<1> QED
  BY <1>1, <1>2, TypeCorrect, PTL DEF Spec

-----------------------------------------------------------------------------
(* Sums of the history.                                                     *)

\* Induction: a set of numbers that has 0 and the successor of each of its
\* members has them all, since another one would have a least exception.
LEMMA Induction ==
  ASSUME NEW S, 0 \in S, \A n \in Nat : n \in S => n + 1 \in S
  PROVE  \A n \in Nat : n \in S
<1> DEFINE R == {ss \in Nat \X Nat : ss[1] < ss[2]}
<1> DEFINE E == Nat \ S
<1> SUFFICES ASSUME E # {} PROVE FALSE
  OBVIOUS
<1>1. IsWellFoundedOn(R, Nat)
  BY NatLessThanWellFounded, Zenon DEF OpToRel
<1>2. E \subseteq Nat
  OBVIOUS
<1>3. PICK i \in E : \A j \in E : ~(<<j, i>> \in R)
  <2> HIDE DEF R, E
  <2> QED
    BY <1>1, <1>2, WFMin, Zenon
<1>4. i # 0 /\ i \in Nat /\ i - 1 \in Nat /\ (i - 1) + 1 = i
  OBVIOUS
<1>5. ~(i - 1 \in E)
  <2>1. <<i - 1, i>> \in R
    BY <1>4
  <2> QED
    BY <1>3, <2>1, Zenon
<1>6. i - 1 \in S
  BY <1>4, <1>5
<1>7. (i - 1) + 1 \in S
  BY <1>4, <1>6
<1> QED
  BY <1>4, <1>7

\* The recursive function of Before exists.
LEMMA TotalExists ==
  ASSUME NEW h \in [Times -> Nat]
  PROVE  \E g \in [0..(MaxTime + 1) -> Nat] :
            g = [n \in 0..(MaxTime + 1) |-> IF n = 0 THEN 0 ELSE g[n - 1] + h[n - 1]]
<1> USE BoundsAssumption DEF Times
<1> DEFINE Sums(g, m) == \A n \in 0..m : g[n] = IF n = 0 THEN 0 ELSE g[n - 1] + h[n - 1]
<1> DEFINE S == {m \in Nat : m <= MaxTime + 1 => \E g \in [0..(MaxTime + 1) -> Nat] : Sums(g, m)}
<1>1. 0 \in S
  <2>1. [n \in 0..(MaxTime + 1) |-> 0] \in [0..(MaxTime + 1) -> Nat]
    OBVIOUS
  <2>2. Sums([n \in 0..(MaxTime + 1) |-> 0], 0)
    OBVIOUS
  <2> QED
    BY <2>1, <2>2
<1>2. ASSUME NEW m \in Nat, m \in S PROVE m + 1 \in S
  <2> SUFFICES ASSUME m + 1 <= MaxTime + 1
               PROVE  \E g \in [0..(MaxTime + 1) -> Nat] : Sums(g, m + 1)
    OBVIOUS
  <2>1. PICK g \in [0..(MaxTime + 1) -> Nat] : Sums(g, m)
    <3>1. m <= MaxTime + 1
      OBVIOUS
    <3> HIDE DEF Sums
    <3> QED
      BY <1>2, <3>1, Zenon
  <2> DEFINE k == [g EXCEPT ![m + 1] = g[m] + h[m]]
  <2>2. h[m] \in Nat /\ g[m] \in Nat
    OBVIOUS
  <2>3. k \in [0..(MaxTime + 1) -> Nat]
    BY <2>2
  <2>4. ASSUME NEW n \in 0..(m + 1) PROVE k[n] = IF n = 0 THEN 0 ELSE k[n - 1] + h[n - 1]
    <3>1. CASE n = m + 1
      BY <3>1
    <3>2. CASE n # m + 1
      BY <2>1, <3>2
    <3> QED
      BY <3>1, <3>2
  <2>5. Sums(k, m + 1)
    BY <2>4
  <2> QED
    BY <2>3, <2>5
<1>3. MaxTime + 1 \in S
  <2> HIDE DEF S
  <2> QED
    BY <1>1, <1>2, Induction
<1>4. PICK g \in [0..(MaxTime + 1) -> Nat] : Sums(g, MaxTime + 1)
  <2>1. MaxTime + 1 <= MaxTime + 1
    OBVIOUS
  <2> HIDE DEF Sums
  <2> QED
    BY <1>3, <2>1, Zenon
<1>5. g = [n \in 0..(MaxTime + 1) |-> IF n = 0 THEN 0 ELSE g[n - 1] + h[n - 1]]
  BY <1>4
<1> QED
  BY <1>5

\* Before counts up the history.
LEMMA BeforeSums ==
  ASSUME NEW h \in [Times -> Nat]
  PROVE  /\ Before(h) \in [0..(MaxTime + 1) -> Nat]
         /\ Before(h)[0] = 0
         /\ \A n \in Times : Before(h)[n + 1] = Before(h)[n] + h[n]
<1> DEFINE Eq(g) == g = [n \in 0..(MaxTime + 1) |-> IF n = 0 THEN 0 ELSE g[n - 1] + h[n - 1]]
<1>1. Before(h) = CHOOSE g : Eq(g)
  BY DEF Before
<1>2. \E g : Eq(g)
  BY TotalExists
<1>3. Eq(Before(h))
  <2> HIDE DEF Eq
  <2> QED
    BY <1>1, <1>2, Zenon
<1> DEFINE g == Before(h)
<1>4. ASSUME NEW k, Eq(k)
      PROVE  /\ \A n \in 0..(MaxTime + 1) : k[n] = IF n = 0 THEN 0 ELSE k[n - 1] + h[n - 1]
             /\ k = [n \in 0..(MaxTime + 1) |-> k[n]]
  BY <1>4
<1> HIDE DEF Eq
<1>a. \A n \in 0..(MaxTime + 1) : g[n] = IF n = 0 THEN 0 ELSE g[n - 1] + h[n - 1]
  BY <1>3, <1>4, Zenon
<1>5. g = [n \in 0..(MaxTime + 1) |-> g[n]]
  BY <1>3, <1>4, Zenon
<1> HIDE DEF g
<1>6. g[0] = 0
  BY <1>a, BoundsAssumption
<1>7. \A n \in Times : g[n + 1] = g[n] + h[n]
  <2> SUFFICES ASSUME NEW n \in Times PROVE g[n + 1] = g[n] + h[n]
    OBVIOUS
  <2>1. n + 1 \in 0..(MaxTime + 1) /\ n + 1 # 0 /\ (n + 1) - 1 = n
    BY BoundsAssumption DEF Times
  <2> QED
    BY <1>a, <2>1
<1> DEFINE S == {n \in Nat : n <= MaxTime + 1 => g[n] \in Nat}
<1>8. \A n \in Nat : n \in S
  <2>1. 0 \in S
    BY <1>6
  <2>2. ASSUME NEW n \in Nat, n \in S PROVE n + 1 \in S
    BY <1>7, <2>2, BoundsAssumption DEF Times
  <2> HIDE DEF S
  <2> QED
    BY <2>1, <2>2, Induction
<1>9. g \in [0..(MaxTime + 1) -> Nat]
  BY <1>5, <1>8, BoundsAssumption
<1> QED
  BY <1>6, <1>7, <1>9 DEF g

\* The sums grow with time.
LEMMA BeforeGrows ==
  ASSUME NEW h \in [Times -> Nat], NEW m \in 0..(MaxTime + 1), NEW n \in m..(MaxTime + 1)
  PROVE  Before(h)[m] <= Before(h)[n]
<1> DEFINE g == Before(h)
<1> DEFINE S == {k \in Nat : k \in m..(MaxTime + 1) => g[m] <= g[k]}
<1>1. /\ g \in [0..(MaxTime + 1) -> Nat]
      /\ \A k \in Times : g[k + 1] = g[k] + h[k]
  BY BeforeSums
<1> HIDE DEF g
<1> USE BoundsAssumption DEF Times
<1>2. 0 \in S
  BY <1>1
<1>3. ASSUME NEW k \in Nat, k \in S PROVE k + 1 \in S
  <2> SUFFICES ASSUME k + 1 \in m..(MaxTime + 1) PROVE g[m] <= g[k + 1]
    OBVIOUS
  <2>1. CASE k + 1 = m
    BY <1>1, <2>1
  <2>2. CASE k + 1 # m
    <3>1. k \in m..(MaxTime + 1) /\ k \in Times
      BY <2>2
    <3>2. g[m] <= g[k]
      BY <1>3, <3>1
    <3>3. g[m] \in Nat /\ g[k] \in Nat /\ h[k] \in Nat /\ g[k + 1] = g[k] + h[k]
      BY <1>1, <3>1
    <3> QED
      BY <3>2, <3>3
  <2> QED
    BY <2>1, <2>2
<1>4. n \in S
  <2> HIDE DEF S
  <2>1. \A j \in Nat : j \in S
    BY <1>2, <1>3, Induction, Zenon
  <2>2. n \in Nat
    OBVIOUS
  <2> QED
    BY <2>1, <2>2
<1> QED
  BY <1>4 DEF g

\* An addition at time i counts in the sums after i.
LEMMA BeforeAdds ==
  ASSUME NEW h \in [Times -> Nat], NEW i \in Times, NEW d \in Nat,
         NEW n \in 0..(MaxTime + 1)
  PROVE  Before([h EXCEPT ![i] = @ + d])[n] = Before(h)[n] + IF i < n THEN d ELSE 0
<1> DEFINE k == [h EXCEPT ![i] = @ + d]
<1> USE BoundsAssumption DEF Times
<1>1. k \in [Times -> Nat]
  OBVIOUS
<1>2. \A m \in Times : k[m] = IF m = i THEN h[m] + d ELSE h[m]
  OBVIOUS
<1> HIDE DEF k
<1> DEFINE f == Before(h)
<1> DEFINE g == Before(k)
<1> DEFINE S == {m \in Nat : m <= MaxTime + 1 => g[m] = f[m] + IF i < m THEN d ELSE 0}
<1>3. /\ f \in [0..(MaxTime + 1) -> Nat] /\ f[0] = 0
      /\ \A m \in Times : f[m + 1] = f[m] + h[m]
  BY BeforeSums
<1>4. /\ g \in [0..(MaxTime + 1) -> Nat] /\ g[0] = 0
      /\ \A m \in Times : g[m + 1] = g[m] + k[m]
  BY <1>1, BeforeSums
<1> HIDE DEF f, g
<1>5. 0 \in S
  BY <1>3, <1>4
<1>6. ASSUME NEW m \in Nat, m \in S PROVE m + 1 \in S
  <2> SUFFICES ASSUME m + 1 <= MaxTime + 1
               PROVE  g[m + 1] = f[m + 1] + IF i < m + 1 THEN d ELSE 0
    OBVIOUS
  <2>1. m \in Times /\ h[m] \in Nat /\ f[m] \in Nat
    BY <1>3
  <2>2. g[m] = f[m] + IF i < m THEN d ELSE 0
    BY <1>6
  <2>3. g[m + 1] = g[m] + k[m] /\ f[m + 1] = f[m] + h[m]
    BY <1>3, <1>4, <2>1
  <2>4. k[m] = IF m = i THEN h[m] + d ELSE h[m]
    BY <1>2, <2>1
  <2> QED
    BY <2>1, <2>2, <2>3, <2>4
<1>7. n \in S
  <2> HIDE DEF S
  <2>1. \A j \in Nat : j \in S
    BY <1>5, <1>6, Induction, Zenon
  <2>2. n \in Nat
    OBVIOUS
  <2> QED
    BY <2>1, <2>2
<1> QED
  BY <1>7 DEF f, g, k

\* Nothing is added up while nothing is sent.
LEMMA BeforeRests ==
  ASSUME NEW h \in [Times -> Nat], NEW m \in 0..(MaxTime + 1),
         \A i \in Times : m <= i => h[i] = 0,
         NEW n \in m..(MaxTime + 1)
  PROVE  Before(h)[n] = Before(h)[m]
<1> DEFINE g == Before(h)
<1> DEFINE S == {k \in Nat : k \in m..(MaxTime + 1) => g[k] = g[m]}
<1>1. /\ g \in [0..(MaxTime + 1) -> Nat]
      /\ \A k \in Times : g[k + 1] = g[k] + h[k]
  BY BeforeSums
<1> HIDE DEF g
<1> USE BoundsAssumption DEF Times
<1>2. 0 \in S
  BY <1>1
<1>3. ASSUME NEW k \in Nat, k \in S PROVE k + 1 \in S
  <2> SUFFICES ASSUME k + 1 \in m..(MaxTime + 1), k + 1 # m PROVE g[k + 1] = g[m]
    OBVIOUS
  <2>1. k \in m..(MaxTime + 1) /\ k \in Times /\ h[k] = 0
    OBVIOUS
  <2>2. g[k] = g[m] /\ g[k] \in Nat /\ g[k + 1] = g[k] + h[k]
    BY <1>1, <1>3, <2>1
  <2> QED
    BY <2>1, <2>2
<1>4. n \in S
  <2> HIDE DEF S
  <2>1. \A j \in Nat : j \in S
    BY <1>2, <1>3, Induction, Zenon
  <2>2. n \in Nat
    OBVIOUS
  <2> QED
    BY <2>1, <2>2
<1> QED
  BY <1>4 DEF g

-----------------------------------------------------------------------------
(* The account and the hour, with one task.                                 *)

\* The airtime admitted to band b before time n, and from time e on.
Sum(b, n)   == Before(onAir[b])[n]
Since(b, e) == Sum(b, MaxTime + 1) - Sum(b, e)

\* The account was last cleared at time e, which is the time of the stamp, or
\* the start if it never was: duty_cycle_init then stamps without clearing.
\* It holds what was admitted since, and no band has got more than its limit,
\* neither since e nor in the hour before e.
Cleared(e) ==
    /\ e <= last
    /\ \A b \in BOOLEAN : Since(b, e) <= Limit(b)
    /\ (\A t \in Tasks : pc[t] # "stamp") => Since(TRUE, e) + Since(FALSE, e) <= airtime
    /\ \A b \in BOOLEAN, t0 \in Times :
          t0 < e /\ e <= t0 + Window => Sum(b, e) - Sum(b, t0) <= Limit(b)

\* A call has read the time after the last stamp; past the test of line 23 it
\* is within the hour of the account, past that of line 28 within the limit.
CallOK(t) ==
    /\ pc[t] # "ready" => last <= now[t] /\ now[t] <= clock
    /\ pc[t] = "stamp" => now[t] > last + Window
    /\ pc[t] \in {"check", "add"} => now[t] <= last + Window
    /\ pc[t] = "add" => sum[t] = airtime + dur[t] /\ sum[t] <= Limit(band[t])

\* Nothing was sent after the hour of the account.
Quiet == \A b \in BOOLEAN, i \in Times : last + Window < i => onAir[b][i] = 0

HourInv ==
    /\ last <= clock
    /\ \A t \in Tasks : CallOK(t)
    /\ Quiet
    /\ \E e \in Times : Cleared(e)
    /\ HourWithinTwiceLimit

LEMMA SumsGrow ==
  ASSUME TypeOK, NEW b \in BOOLEAN
  PROVE  /\ \A n \in 0..(MaxTime + 1) : Sum(b, n) \in Nat
         /\ \A n \in 0..(MaxTime + 1), m \in 0..(MaxTime + 1) : m <= n => Sum(b, m) <= Sum(b, n)
<1>1. onAir[b] \in [Times -> Nat]
  BY Zenon DEF TypeOK
<1>2. ASSUME NEW n \in 0..(MaxTime + 1) PROVE Sum(b, n) \in Nat
  BY <1>1, BeforeSums DEF Sum
<1>3. ASSUME NEW n \in 0..(MaxTime + 1), NEW m \in 0..(MaxTime + 1), m <= n
      PROVE  Sum(b, m) <= Sum(b, n)
  <2>1. n \in m..(MaxTime + 1)
    BY <1>3, BoundsAssumption
  <2> QED
    BY <1>1, <2>1, BeforeGrows DEF Sum
<1> QED
  BY <1>2, <1>3

\* Steps that admit nothing leave the sums alone.
LEMMA SumsStay ==
  ASSUME onAir' = onAir
  PROVE  \A b, n : Sum(b, n)' = Sum(b, n)
BY DEF Sum

\* A step that admits adds to one band.
LEMMA SumsAdd ==
  ASSUME TypeOK, NEW c \in BOOLEAN, NEW i \in Times, NEW d \in Nat,
         onAir' = [onAir EXCEPT ![c][i] = @ + d],
         NEW b \in BOOLEAN, NEW n \in 0..(MaxTime + 1)
  PROVE  Sum(b, n)' = Sum(b, n) + IF b = c /\ i < n THEN d ELSE 0
<1>1. onAir \in [BOOLEAN -> [Times -> Nat]] /\ onAir[b] \in [Times -> Nat]
  BY Zenon DEF TypeOK
<1>2. CASE b = c
  <2>1. onAir'[b] = [onAir[b] EXCEPT ![i] = @ + d]
    BY <1>1, <1>2, Zenon
  <2>2. Before([onAir[b] EXCEPT ![i] = @ + d])[n]
          = Before(onAir[b])[n] + IF i < n THEN d ELSE 0
    BY <1>1, BeforeAdds
  <2>3. Sum(b, n)' = Before(onAir'[b])[n]
    BY DEF Sum
  <2> QED
    BY <1>2, <2>1, <2>2, <2>3 DEF Sum
<1>3. CASE b # c
  <2>1. onAir'[b] = onAir[b]
    BY <1>1, <1>3, Zenon
  <2>2. Sum(b, n) \in Nat
    BY SumsGrow
  <2> QED
    BY <1>3, <2>1, <2>2 DEF Sum
<1> QED
  BY <1>2, <1>3

\* Steps that admit nothing and leave the account alone, or clear it.
LEMMA IdleHour ==
  ASSUME TypeOK, HourInv, UNCHANGED <<last, onAir>>, clock <= clock', clock' \in Nat,
         (\A t \in Tasks : pc'[t] # "stamp") =>
             airtime' = airtime /\ \A t \in Tasks : pc[t] # "stamp",
         \A t \in Tasks : CallOK(t)'
  PROVE  HourInv'
<1>1. last' <= clock'
  BY BoundsAssumption DEF HourInv, TypeOK
<1>2. Quiet'
  BY DEF HourInv, Quiet
<1>3. ASSUME NEW e \in Times, Cleared(e) PROVE Cleared(e)'
  BY <1>3, SumsStay DEF Cleared, Since, Limit
<1>4. HourWithinTwiceLimit'
  BY DEF HourInv, HourWithinTwiceLimit, Admitted, Limit
<1> QED
  BY <1>1, <1>2, <1>3, <1>4 DEF HourInv

LEMMA EnterHour ==
  ASSUME NEW s, Tasks = {s}, TypeOK, HourInv, add_tx_enter(s)
  PROVE  HourInv'
<1>1. /\ pc[s] = "ready" /\ pc'[s] = "window" /\ now'[s] = clock
      /\ UNCHANGED <<airtime, last, clock, onAir>>
  BY DEF add_tx_enter, Goto, account, TypeOK
<1>2. CallOK(s)'
  BY <1>1, BoundsAssumption DEF CallOK, HourInv, TypeOK
<1>3. clock <= clock' /\ clock' \in Nat
  BY <1>1, BoundsAssumption DEF TypeOK
<1> QED
  BY <1>1, <1>2, <1>3, IdleHour

LEMMA CheckHour ==
  ASSUME NEW s, Tasks = {s}, TypeOK, HourInv, add_tx_check(s)
  PROVE  HourInv'
<1>1. pc[s] = "check" /\ UNCHANGED <<airtime, last, clock, onAir>>
  BY DEF add_tx_check, account
<1>2. CallOK(s)' /\ pc'[s] # "stamp"
  <2>1. CASE Return(s)
    BY <2>1 DEF Return, Goto, CallOK, TypeOK
  <2>2. CASE ~Return(s)
    <3>1. /\ sum'[s] = airtime + dur[s] /\ pc'[s] = "add" /\ UNCHANGED <<dur, band, now>>
          /\ ~(airtime + dur[s] > Limit(band[s]))
      BY <2>2 DEF add_tx_check, Goto, TypeOK
    <3>2. dur[s] \in Nat /\ airtime \in Nat /\ Limit(band[s]) \in Nat
      BY DurationNat, LimitAssumption DEF TypeOK, Limit
    <3>3. last <= now[s] /\ now[s] <= clock /\ now[s] <= last + Window
      BY <1>1 DEF HourInv, CallOK
    <3>4. airtime + dur[s] <= Limit(band[s])
      BY <3>1, <3>2
    <3> QED
      BY <1>1, <3>1, <3>3, <3>4 DEF CallOK, Limit
  <2> QED
    BY <2>1, <2>2
<1>3. clock <= clock' /\ clock' \in Nat
  BY <1>1, BoundsAssumption DEF TypeOK
<1> QED
  BY <1>1, <1>2, <1>3, IdleHour

LEMMA TickHour ==
  ASSUME TypeOK, HourInv, UNCHANGED <<airtime, last, onAir, pc, dur, band, now, sum>>,
         clock' \in {clock, clock + 1}
  PROVE  HourInv'
<1>1. \A t \in Tasks : CallOK(t)'
  BY BoundsAssumption DEF CallOK, HourInv, TypeOK, Limit
<1>2. clock <= clock' /\ clock' \in Nat
  BY BoundsAssumption DEF TypeOK
<1> QED
  BY <1>1, <1>2, IdleHour

LEMMA WindowHour ==
  ASSUME NEW s, Tasks = {s}, TypeOK, HourInv, add_tx_window(s)
  PROVE  HourInv'
<1>1. pc[s] = "window" /\ UNCHANGED <<last, clock, onAir, dur, band, now, sum>>
  BY DEF add_tx_window, locals
<1>2. last <= now[s] /\ now[s] <= clock /\ now[s] \in Nat /\ last \in Nat
  BY <1>1, BoundsAssumption DEF HourInv, CallOK, TypeOK
<1>3. \/ pc'[s] = "stamp" /\ now[s] > last + Window
      \/ pc'[s] = "check" /\ now[s] <= last + Window /\ airtime' = airtime
  BY <1>2, WindowAssumption DEF add_tx_window, Goto, Expired, TypeOK
<1>4. CallOK(s)'
  BY <1>1, <1>2, <1>3 DEF CallOK
<1>5. clock <= clock' /\ clock' \in Nat
  BY <1>1, BoundsAssumption DEF TypeOK
<1>6. (\A t \in Tasks : pc'[t] # "stamp") =>
         airtime' = airtime /\ \A t \in Tasks : pc[t] # "stamp"
  BY <1>1, <1>3
<1> QED
  BY <1>1, <1>4, <1>5, <1>6, IdleHour

\* A stamp comes more than an hour after the one before it: the hour before it
\* belongs to one account.
LEMMA StampHour ==
  ASSUME NEW s, Tasks = {s}, TypeOK, HourInv, add_tx_stamp(s)
  PROVE  HourInv'
<1> DEFINE n == now[s]
<1>1. /\ pc[s] = "stamp" /\ pc'[s] = "check" /\ last' = n
      /\ UNCHANGED <<airtime, clock, onAir, dur, band, now, sum>>
  BY DEF add_tx_stamp, Goto, locals, TypeOK
<1>2. /\ n > last + Window /\ n <= clock /\ n \in Times /\ last \in Times
      /\ n \in Nat /\ last \in Nat /\ airtime \in Nat /\ MaxTime \in Nat /\ Window \in Nat
  BY <1>1, BoundsAssumption, WindowAssumption DEF HourInv, CallOK, TypeOK, Times
<1> HIDE DEF n
<1>3. last' <= clock' /\ CallOK(s)'
  BY <1>1, <1>2 DEF CallOK, n
<1>4. Quiet'
  BY <1>1, <1>2 DEF HourInv, Quiet, Times
<1>5. HourWithinTwiceLimit'
  BY <1>1 DEF HourInv, HourWithinTwiceLimit, Admitted, Limit
<1>6. PICK e \in Times : Cleared(e)
  BY DEF HourInv
<1>7. ASSUME NEW b \in BOOLEAN PROVE Sum(b, MaxTime + 1) = Sum(b, n)
  <2>1. onAir[b] \in [Times -> Nat]
    BY Zenon DEF TypeOK
  <2>2. \A i \in Times : n <= i => onAir[b][i] = 0
    BY <1>2 DEF HourInv, Quiet, Times
  <2>3. n \in 0..(MaxTime + 1) /\ MaxTime + 1 \in n..(MaxTime + 1)
    BY <1>2 DEF Times
  <2> QED
    BY <2>1, <2>2, <2>3, BeforeRests DEF Sum
<1>8. ASSUME NEW b \in BOOLEAN PROVE Since(b, n) = 0
  <2>1. Sum(b, n) \in Nat
    BY <1>2, SumsGrow DEF Times
  <2> QED
    BY <1>7, <2>1 DEF Since
<1>9. ASSUME NEW b \in BOOLEAN, NEW t0 \in Times, t0 < n, n <= t0 + Window
      PROVE  Sum(b, n) - Sum(b, t0) <= Limit(b)
  <2>1. e <= t0 /\ e \in 0..(MaxTime + 1) /\ t0 \in 0..(MaxTime + 1) /\ MaxTime + 1 \in 0..(MaxTime + 1)
    BY <1>2, <1>6, <1>9 DEF Cleared, Times
  <2>2. Sum(b, e) <= Sum(b, t0) /\ Sum(b, e) \in Nat /\ Sum(b, t0) \in Nat
        /\ Sum(b, MaxTime + 1) \in Nat
    BY <2>1, SumsGrow
  <2>3. Sum(b, MaxTime + 1) - Sum(b, e) <= Limit(b) /\ Limit(b) \in Nat
    BY <1>6, LimitAssumption DEF Cleared, Since, Limit
  <2> QED
    BY <1>7, <2>2, <2>3
<1>10. Cleared(n)'
  <2>1. \A b \in BOOLEAN : Since(b, n)' = 0 /\ Limit(b) \in Nat
    BY <1>1, <1>8, SumsStay, LimitAssumption DEF Since, Limit, n
  <2>2. \A b \in BOOLEAN, t0 \in Times :
           t0 < n' /\ n' <= t0 + Window => Sum(b, n)' - Sum(b, t0)' <= Limit(b)
    BY <1>1, <1>9, SumsStay DEF n
  <2>3. Since(TRUE, n)' + Since(FALSE, n)' <= airtime'
    <3> DEFINE x == Since(TRUE, n)'
    <3> DEFINE y == Since(FALSE, n)'
    <3>1. x = 0 /\ y = 0
      BY <2>1, Zenon
    <3> HIDE DEF x, y
    <3>2. x + y <= airtime'
      BY <1>1, <1>2, <3>1
    <3> QED
      BY <3>2, Zenon DEF x, y
  <2>4. \A b \in BOOLEAN : Since(b, n)' <= Limit(b)
    BY <2>1
  <2>5. n' <= last'
    BY <1>1, <1>2 DEF n
  <2> QED
    BY <2>2, <2>3, <2>4, <2>5 DEF Cleared, Limit
<1>11. n' \in Times
  BY <1>1, <1>2 DEF n
<1> QED
  BY <1>3, <1>4, <1>5, <1>10, <1>11 DEF HourInv

LEMMA StartHour ==
  ASSUME TypeOK, HourInv, duty_cycle_init
  PROVE  HourInv'
<1>1. /\ last' = clock /\ UNCHANGED <<airtime, clock, onAir, pc>>
      /\ \A t \in Tasks : pc[t] = "ready"
  BY DEF duty_cycle_init
<1>2. last \in Nat /\ clock \in Nat /\ last <= clock /\ Window \in Nat /\ MaxTime \in Nat
  BY BoundsAssumption, WindowAssumption DEF TypeOK, HourInv
<1>3. last' <= clock' /\ \A t \in Tasks : CallOK(t)'
  BY <1>1, <1>2 DEF CallOK
<1>4. Quiet'
  BY <1>1, <1>2 DEF HourInv, Quiet, Times
<1>5. HourWithinTwiceLimit'
  BY <1>1 DEF HourInv, HourWithinTwiceLimit, Admitted, Limit
<1>6. ASSUME NEW e \in Times, Cleared(e) PROVE Cleared(e)'
  <2>1. e <= last'
    BY <1>1, <1>2, <1>6 DEF Cleared, Times
  <2> QED
    BY <1>1, <1>6, <2>1, SumsStay DEF Cleared, Since, Limit
<1> QED
  BY <1>3, <1>4, <1>5, <1>6 DEF HourInv

\* The addition of line 33.  An hour that it falls into straddles at most the
\* last clearing of the account.
LEMMA AddHour ==
  ASSUME NEW s, Tasks = {s}, TypeOK, TypeOK', HourInv, add_tx_add(s)
  PROVE  HourInv'
<1> DEFINE n == now[s]
<1> DEFINE c == band[s]
<1> DEFINE d == dur[s]
<1>1. /\ pc[s] = "add" /\ pc'[s] = "ready" /\ airtime' \in {sum[s], airtime + d}
      /\ onAir' = [onAir EXCEPT ![c][n] = @ + d] /\ UNCHANGED <<last, clock>>
  BY DEF add_tx_add, Return, Goto, TypeOK
<1>2. c \in BOOLEAN
  BY Zenon DEF TypeOK
<1>3. /\ n \in Times /\ n \in Nat /\ d \in Nat /\ last \in Nat /\ airtime \in Nat
      /\ MaxTime \in Nat /\ Window \in Nat
  <2>1. d \in Nat
    BY DurationNat
  <2>2. now[s] \in 0..MaxTime /\ last \in 0..MaxTime /\ airtime \in Nat
    BY DEF TypeOK
  <2> QED
    BY <2>1, <2>2, BoundsAssumption, WindowAssumption DEF Times
<1>4. /\ last <= n /\ n <= last + Window /\ airtime' = airtime + d
      /\ airtime + d <= Limit(c)
  BY <1>1 DEF HourInv, CallOK
<1> HIDE DEF n, c, d
<1>5. last' <= clock' /\ \A t \in Tasks : CallOK(t)'
  BY <1>1 DEF HourInv, CallOK
<1>6. Quiet'
  <2> SUFFICES ASSUME NEW b \in BOOLEAN, NEW i \in Times, last + Window < i
               PROVE  onAir'[b][i] = 0
    BY <1>1 DEF Quiet
  <2>1. onAir[b][i] = 0
    BY DEF HourInv, Quiet
  <2>2. i # n
    BY <1>3, <1>4 DEF Times
  <2>3. onAir \in [BOOLEAN -> [Times -> Nat]]
    BY DEF TypeOK
  <2>4. onAir'[b][i] = onAir[b][i]
    <3>1. CASE b = c
      <4>1. onAir'[b] = [onAir[b] EXCEPT ![n] = @ + d]
        BY <1>1, <1>2, <2>3, <3>1, Zenon
      <4>2. onAir[b] \in [Times -> Nat]
        BY <2>3, Zenon
      <4> QED
        BY <2>2, <4>1, <4>2
    <3>2. CASE b # c
      BY <1>1, <1>2, <2>3, <3>2, Zenon
    <3> QED
      BY <3>1, <3>2
  <2> QED
    BY <2>1, <2>4
<1>7. PICK e \in Times : Cleared(e)
  BY DEF HourInv
<1>8. e \in Nat /\ e <= n /\ e \in 0..(MaxTime + 1) /\ n < MaxTime + 1
      /\ MaxTime + 1 \in 0..(MaxTime + 1)
  BY <1>3, <1>4, <1>7 DEF Cleared, Times
<1>9. ASSUME NEW b \in BOOLEAN, NEW k \in 0..(MaxTime + 1)
      PROVE  /\ Sum(b, k)' = Sum(b, k) + IF b = c /\ n < k THEN d ELSE 0
             /\ Sum(b, k) \in Nat /\ Sum(b, k)' \in Nat
  <2>1. Sum(b, k) \in Nat
    BY SumsGrow
  <2>2. Sum(b, k)' = Sum(b, k) + IF b = c /\ n < k THEN d ELSE 0
    BY <1>1, <1>2, <1>3, SumsAdd
  <2> QED
    BY <1>3, <2>1, <2>2
<1>10. ASSUME NEW b \in BOOLEAN
       PROVE  Since(b, e) \in Nat /\ Since(b, e)' = Since(b, e) + IF b = c THEN d ELSE 0
  <2>1. Sum(b, e) <= Sum(b, MaxTime + 1)
    BY <1>8, SumsGrow
  <2>2. Sum(b, e)' = Sum(b, e) /\ Sum(b, e) \in Nat /\ Sum(b, MaxTime + 1) \in Nat
    BY <1>3, <1>8, <1>9
  <2>3. Sum(b, MaxTime + 1)' = Sum(b, MaxTime + 1) + IF b = c THEN d ELSE 0
    BY <1>8, <1>9
  <2> QED
    BY <1>3, <2>1, <2>2, <2>3 DEF Since
<1> DEFINE x == Since(TRUE, e)
<1> DEFINE y == Since(FALSE, e)
<1>11. x + y <= airtime
  BY <1>1, <1>7 DEF Cleared
<1>a. x \in Nat /\ y \in Nat
  BY <1>10, Zenon
<1>b. (c = TRUE => x' = x + d /\ y' = y + 0) /\ (c = FALSE => y' = y + d /\ x' = x + 0)
  BY <1>10, Zenon
<1>12. ASSUME NEW b \in BOOLEAN PROVE Since(b, e)' <= Limit(b)
  <2>1. CASE b = c
    <3>1. Since(b, e) = x \/ Since(b, e) = y
      BY Zenon
    <3>2. Since(b, e)' = Since(b, e) + d /\ Limit(c) \in Nat
      BY <1>10, <2>1, LimitAssumption DEF Limit
    <3> HIDE DEF x, y
    <3>3. Since(b, e) <= airtime /\ Since(b, e) \in Nat
      BY <1>3, <1>11, <1>a, <3>1
    <3> QED
      BY <1>3, <1>4, <2>1, <3>2, <3>3
  <2>2. CASE b # c
    <3>1. Since(b, e)' = Since(b, e)
      BY <1>10, <2>2
    <3> QED
      BY <1>7, <3>1 DEF Cleared
  <2> QED
    BY <2>1, <2>2
<1>13. Since(TRUE, e)' + Since(FALSE, e)' <= airtime'
  <2>1. x' + y' <= airtime'
    <3> HIDE DEF x, y
    <3> QED
      BY <1>2, <1>3, <1>4, <1>11, <1>a, <1>b
  <2> QED
    BY <2>1, Zenon
<1>14. ASSUME NEW b \in BOOLEAN, NEW t0 \in Times, t0 < e, e <= t0 + Window
       PROVE  Sum(b, e)' - Sum(b, t0)' <= Limit(b)
  <2>1. t0 \in 0..(MaxTime + 1) /\ ~(n < t0) /\ ~(n < e)
    BY <1>3, <1>8, <1>14 DEF Times
  <2>2. Sum(b, e)' = Sum(b, e) /\ Sum(b, t0)' = Sum(b, t0)
    BY <1>8, <1>9, <2>1
  <2> QED
    BY <1>7, <1>14, <2>2 DEF Cleared
<1>15. Cleared(e)'
  BY <1>1, <1>7, <1>12, <1>13, <1>14 DEF Cleared, Limit
<1>16. HourWithinTwiceLimit'
  <2> SUFFICES ASSUME NEW b \in BOOLEAN, NEW t0 \in Times
               PROVE  Admitted(b, t0, t0 + Window)' <= 2 * Limit(b)
    BY DEF HourWithinTwiceLimit, Limit
  <2> DEFINE f == IF t0 + Window < MaxTime THEN t0 + Window + 1 ELSE MaxTime + 1
  <2>1. Admitted(b, t0, t0 + Window)' = Sum(b, f)' - Sum(b, t0)'
    BY DEF Admitted, Sum
  <2>2. Sum(b, f) - Sum(b, t0) <= 2 * Limit(b)
    BY DEF HourInv, HourWithinTwiceLimit, Admitted, Sum
  <2>3. f \in 0..(MaxTime + 1) /\ t0 \in 0..(MaxTime + 1) /\ t0 < f /\ f <= t0 + Window + 1
        /\ t0 \in Nat /\ f \in Nat
    BY <1>3 DEF Times
  <2> HIDE DEF f
  <2>4. Limit(b) \in Nat
    BY LimitAssumption DEF Limit
  <2>5. /\ Sum(b, f)' \in Nat /\ Sum(b, t0)' \in Nat /\ Sum(b, e)' \in Nat
        /\ Sum(b, MaxTime + 1)' \in Nat /\ Sum(b, f) \in Nat /\ Sum(b, t0) \in Nat
    BY <1>8, <1>9, <2>3
  <2>6. CASE n < t0 \/ f <= n
    <3>1. Sum(b, f)' - Sum(b, t0)' = Sum(b, f) - Sum(b, t0)
      <4>1. CASE n < t0
        <5>1. n < f
          BY <1>3, <2>3, <4>1
        <5>2. Sum(b, f)' = Sum(b, f) + IF b = c THEN d ELSE 0
          BY <1>9, <2>3, <5>1
        <5>3. Sum(b, t0)' = Sum(b, t0) + IF b = c THEN d ELSE 0
          BY <1>9, <2>3, <4>1
        <5> QED
          BY <1>3, <2>5, <5>2, <5>3
      <4>2. CASE f <= n
        <5>1. ~(n < f) /\ ~(n < t0)
          BY <1>3, <2>3, <4>2
        <5> QED
          BY <1>9, <2>3, <2>5, <5>1
      <4> QED
        BY <2>6, <4>1, <4>2
    <3> QED
      BY <2>1, <2>2, <3>1
  <2>7. CASE t0 <= n /\ n < f
    <3>1. Sum(b, f)' <= Sum(b, MaxTime + 1)'
      <4>1. onAir'[b] \in [Times -> Nat]
        BY Zenon DEF TypeOK
      <4>2. MaxTime + 1 \in f..(MaxTime + 1)
        BY <1>3, <2>3
      <4>3. Before(onAir'[b])[f] <= Before(onAir'[b])[MaxTime + 1]
        BY <2>3, <4>1, <4>2, BeforeGrows
      <4>4. Sum(b, f)' = Before(onAir'[b])[f] /\ Sum(b, MaxTime + 1)' = Before(onAir'[b])[MaxTime + 1]
        BY DEF Sum, f
      <4> QED
        BY <4>3, <4>4
    <3>2. Sum(b, MaxTime + 1)' - Sum(b, e)' <= Limit(b)
      BY <1>12 DEF Since
    <3>3. CASE t0 < e
      <4>1. e <= t0 + Window
        BY <1>3, <1>8, <2>3, <2>7
      <4>2. Sum(b, e)' - Sum(b, t0)' <= Limit(b)
        BY <1>14, <3>3, <4>1
      <4> QED
        BY <2>1, <2>4, <2>5, <3>1, <3>2, <4>2
    <3>4. CASE e <= t0
      <4>1. Sum(b, e)' <= Sum(b, t0)'
        <5>1. onAir'[b] \in [Times -> Nat]
          BY Zenon DEF TypeOK
        <5>2. t0 \in e..(MaxTime + 1)
          BY <1>8, <2>3, <3>4
        <5>3. Before(onAir'[b])[e] <= Before(onAir'[b])[t0]
          BY <1>8, <5>1, <5>2, BeforeGrows
        <5> QED
          BY <5>3 DEF Sum
      <4> QED
        BY <2>1, <2>4, <2>5, <3>1, <3>2, <4>1
    <3> QED
      BY <1>8, <2>3, <3>3, <3>4
  <2> QED
    BY <1>3, <2>3, <2>6, <2>7
<1> QED
  BY <1>5, <1>6, <1>15, <1>16 DEF HourInv

LEMMA HourPreserved ==
  ASSUME NEW s, Tasks = {s}, TypeOK, TypeOK', HourInv, [Next]_vars
  PROVE  HourInv'
<1>1. CASE add_tx_enter(s) \/ add_tx_window(s) \/ add_tx_stamp(s) \/ add_tx_check(s) \/ add_tx_add(s)
  BY <1>1, EnterHour, WindowHour, StampHour, CheckHour, AddHour
<1>2. CASE duty_cycle_init
  BY <1>2, StartHour
<1>3. CASE set_band \/ Tick \/ UNCHANGED vars
  BY <1>3, TickHour DEF set_band, Tick, vars, account, locals
<1> QED
  BY <1>1, <1>2, <1>3 DEF Next

LEMMA HourInit == Init => HourInv
<1> SUFFICES ASSUME Init PROVE HourInv
  OBVIOUS
<1>1. /\ airtime = 0 /\ last = 0 /\ clock = 0 /\ \A t \in Tasks : pc[t] = "ready"
      /\ onAir = [b \in BOOLEAN |-> [i \in Times |-> 0]]
  BY DEF Init
<1>2. ASSUME NEW b \in BOOLEAN, NEW n \in 0..(MaxTime + 1) PROVE Sum(b, n) = 0
  <2>1. onAir[b] = [i \in Times |-> 0]
    BY <1>1, Zenon
  <2>2. onAir[b] \in [Times -> Nat] /\ \A i \in Times : onAir[b][i] = 0
    BY <2>1
  <2>3. 0 \in 0..(MaxTime + 1) /\ n \in 0..(MaxTime + 1)
    BY BoundsAssumption
  <2>4. Before(onAir[b])[n] = Before(onAir[b])[0] /\ Before(onAir[b])[0] = 0
    BY <2>2, <2>3, BeforeRests, BeforeSums
  <2> QED
    BY <2>4 DEF Sum
<1>3. ASSUME NEW b \in BOOLEAN PROVE Limit(b) \in Nat /\ Since(b, 0) = 0
  BY <1>2, LimitAssumption, BoundsAssumption DEF Since, Limit
<1>4. Quiet
  <2>1. ASSUME NEW b \in BOOLEAN, NEW i \in Times PROVE onAir[b][i] = 0
    BY <1>1, Zenon
  <2> QED
    BY <2>1 DEF Quiet
<1>5. Cleared(0)
  <2>1. Since(TRUE, 0) + Since(FALSE, 0) <= airtime
    <3> DEFINE x == Since(TRUE, 0)
    <3> DEFINE y == Since(FALSE, 0)
    <3>1. x = 0 /\ y = 0
      BY <1>3, Zenon
    <3> HIDE DEF x, y
    <3>2. x + y <= airtime
      BY <1>1, <3>1
    <3> QED
      BY <3>2, Zenon DEF x, y
  <2>2. \A b \in BOOLEAN : Since(b, 0) <= Limit(b)
    BY <1>3
  <2>3. ~\E t0 \in Times : t0 < 0
    BY BoundsAssumption DEF Times
  <2>4. 0 <= last
    BY <1>1
  <2> QED
    BY <2>1, <2>2, <2>3, <2>4, Zenon DEF Cleared
<1>6. HourWithinTwiceLimit
  <2> SUFFICES ASSUME NEW b \in BOOLEAN, NEW t0 \in Times
               PROVE  Admitted(b, t0, t0 + Window) <= 2 * Limit(b)
    BY DEF HourWithinTwiceLimit
  <2> DEFINE f == IF t0 + Window < MaxTime THEN t0 + Window + 1 ELSE MaxTime + 1
  <2>1. f \in 0..(MaxTime + 1) /\ t0 \in 0..(MaxTime + 1)
    BY BoundsAssumption, WindowAssumption DEF Times
  <2>2. Admitted(b, t0, t0 + Window) = Sum(b, f) - Sum(b, t0)
    BY DEF Admitted, Sum
  <2> HIDE DEF f
  <2> QED
    BY <1>2, <1>3, <2>1, <2>2
<1>7. 0 \in Times
  BY BoundsAssumption DEF Times
<1> QED
  BY <1>1, <1>4, <1>5, <1>6, <1>7 DEF HourInv, CallOK

LEMMA HourInvariant ==
  ASSUME NEW s, Tasks = {s}
  PROVE  Spec => []HourInv
<1>1. TypeOK /\ TypeOK' /\ HourInv /\ [Next]_vars => HourInv'
  BY HourPreserved
<1> QED
  BY <1>1, HourInit, TypeCorrect, PTL DEF Spec

\* In any hour the one sending task gets at most twice the limit of a band out
\* of the monitor, whatever the durations, the limits, the changes of band and
\* the moment of duty_cycle_init (culfw_duty_cycle.c 6-40).
THEOREM HourBounded ==
  ASSUME NEW s, Tasks = {s}
  PROVE  Spec => []HourWithinTwiceLimit
<1>1. HourInv => HourWithinTwiceLimit
  BY DEF HourInv
<1> QED
  BY <1>1, HourInvariant, PTL

\* And between calls the account forgets nothing that was admitted since its
\* stamp, on either band.
THEOREM AccountHoldsAll ==
  ASSUME NEW s, Tasks = {s}
  PROVE  Spec => []AccountComplete
<1>1. TypeOK /\ HourInv => AccountComplete
  <2> SUFFICES ASSUME TypeOK, HourInv, \A t \in Tasks : pc[t] = "ready"
               PROVE  Admitted(TRUE, last, MaxTime) + Admitted(FALSE, last, MaxTime) <= airtime
    BY DEF AccountComplete
  <2>1. PICK e \in Times : Cleared(e)
    BY DEF HourInv
  <2>2. ASSUME NEW b \in BOOLEAN
        PROVE  /\ Admitted(b, last, MaxTime) = Since(b, last) /\ Since(b, last) \in Nat
               /\ Since(b, e) \in Nat /\ Since(b, last) <= Since(b, e)
    <3>1. /\ e \in 0..(MaxTime + 1) /\ last \in 0..(MaxTime + 1) /\ e <= last
          /\ MaxTime + 1 \in 0..(MaxTime + 1) /\ last <= MaxTime + 1 /\ e <= MaxTime + 1
      BY <2>1, BoundsAssumption DEF Cleared, TypeOK, Times
    <3>2. /\ Sum(b, e) \in Nat /\ Sum(b, last) \in Nat /\ Sum(b, MaxTime + 1) \in Nat
          /\ Sum(b, e) <= Sum(b, last) /\ Sum(b, last) <= Sum(b, MaxTime + 1)
      BY <3>1, SumsGrow
    <3>3. Admitted(b, last, MaxTime) = Since(b, last)
      BY BoundsAssumption DEF Admitted, Since, Sum
    <3> QED
      BY <3>2, <3>3 DEF Since
  <2>3. Since(TRUE, e) + Since(FALSE, e) <= airtime
    BY <2>1 DEF Cleared
  <2> DEFINE x == Admitted(TRUE, last, MaxTime)
  <2> DEFINE y == Admitted(FALSE, last, MaxTime)
  <2> DEFINE u == Since(TRUE, e)
  <2> DEFINE v == Since(FALSE, e)
  <2>4. x \in Nat /\ y \in Nat /\ u \in Nat /\ v \in Nat /\ x <= u /\ y <= v /\ u + v <= airtime
    BY <2>2, <2>3, Zenon
  <2>5. airtime \in Nat
    BY DEF TypeOK
  <2> HIDE DEF x, y, u, v
  <2>6. x + y <= airtime
    BY <2>4, <2>5
  <2> QED
    BY <2>6, Zenon DEF x, y
<1> QED
  BY <1>1, HourInvariant, TypeCorrect, PTL

\* A call has a duration until it returns.
Asked == \A t \in Tasks : pc[t] # "ready" => dur[t] \in Durations

LEMMA AskedInvariant == Spec => []Asked
<1>1. Init => Asked
  BY DEF Init, Asked
<1>2. TypeOK /\ Asked /\ [Next]_vars => Asked'
  <2> SUFFICES ASSUME TypeOK, Asked, [Next]_vars, NEW u \in Tasks, pc'[u] # "ready"
               PROVE  dur'[u] \in Durations
    BY DEF Asked
  <2> USE DEF Asked, TypeOK, Goto
  <2>1. ASSUME NEW t \in Tasks, add_tx_enter(t) PROVE dur'[u] \in Durations
    BY <2>1 DEF add_tx_enter
  <2>2. ASSUME NEW t \in Tasks, add_tx_window(t) \/ add_tx_stamp(t) PROVE dur'[u] \in Durations
    BY <2>2 DEF add_tx_window, add_tx_stamp, locals
  <2>3. ASSUME NEW t \in Tasks, add_tx_check(t) \/ add_tx_add(t) PROVE dur'[u] \in Durations
    BY <2>3 DEF add_tx_check, add_tx_add, Return
  <2>4. CASE duty_cycle_init \/ set_band \/ Tick \/ UNCHANGED vars
    BY <2>4 DEF duty_cycle_init, set_band, Tick, locals, vars
  <2> QED
    BY <2>1, <2>2, <2>3, <2>4 DEF Next
<1> QED
  BY <1>1, <1>2, TypeCorrect, PTL DEF Spec

\* The monitor grants a send exactly what command V announces as remaining, for
\* any number of tasks (culfw_duty_cycle.c 28-31 against 35-40).
THEOREM RemainingGranted == Spec => RemainingHonest
<1> DEFINE Honest == \A t \in Tasks : pc[t] = "check" /\ pc'[t] # "check" /\ band[t] = is433 =>
                        (pc'[t] = "add" <=> dur[t] <= Remaining)
<1>1. TypeOK /\ Asked /\ [Next]_vars => [Honest]_vars
  <2> SUFFICES ASSUME TypeOK, Asked, Next, NEW t \in Tasks,
                      pc[t] = "check", pc'[t] # "check", band[t] = is433
               PROVE  pc'[t] = "add" <=> dur[t] <= Remaining
    BY DEF Honest
  <2>1. add_tx_check(t)
    BY DEF Next, add_tx_enter, add_tx_window, add_tx_stamp, add_tx_check, add_tx_add, Return, Goto,
           duty_cycle_init, set_band, Tick, TypeOK
  <2>2. dur[t] \in Nat \ {0} /\ airtime \in Nat /\ Limit(is433) \in Nat
    BY DurationsAssumption, LimitAssumption DEF TypeOK, Asked, Limit
  <2>3. pc'[t] = IF airtime + dur[t] > Limit(is433) THEN "ready" ELSE "add"
    BY <2>1 DEF add_tx_check, Return, Goto, TypeOK
  <2>4. dur[t] <= Remaining <=> ~(airtime + dur[t] > Limit(is433))
    BY <2>2 DEF Remaining
  <2> QED
    BY <2>3, <2>4
<1> QED
  BY <1>1, TypeCorrect, AskedInvariant, PTL DEF Spec, RemainingHonest

=============================================================================
