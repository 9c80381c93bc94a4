------------------------- MODULE RollingCodeProofs --------------------------
(***************************************************************************)
(* Proofs about the rolling codes, for any number of tasks and whatever    *)
(* the size of the code space: types, and that the blind obeys every frame *)
(* as long as no code is taken out of turn.                                *)
(***************************************************************************)
EXTENDS RollingCode, TLAPS

\* The code that is k ahead of a, without remainders.
Plus(a, k) == IF a + k < CodeModulus THEN a + k ELSE a + k - CodeModulus

LEMMA Remainder == \A n \in Int : n % CodeModulus \in Codes
BY ModulusAssumption DEF Codes

LEMMA Successor == \A c \in Codes : (c + 1) % CodeModulus = Plus(c, 1)
<1> SUFFICES ASSUME NEW c \in Codes PROVE (c + 1) % CodeModulus = Plus(c, 1)
  OBVIOUS
<1>1. CodeModulus \in Nat /\ CodeModulus > 1 /\ c \in Int /\ 0 <= c /\ c < CodeModulus
  BY ModulusAssumption DEF Codes
<1>2. CASE c + 1 < CodeModulus
  BY <1>1, <1>2, Z3 DEF Plus
<1>3. CASE c + 1 = CodeModulus
  BY <1>1, <1>3, Z3 DEF Plus
<1> QED
  BY <1>1, <1>2, <1>3

LEMMA Distance ==
  ASSUME NEW a \in Codes, NEW k \in 1..(CodeModulus - 1)
  PROVE  (Plus(a, k) - a) % CodeModulus = k
<1>1. /\ CodeModulus \in Nat /\ CodeModulus > 1
      /\ a \in Int /\ k \in Int /\ k >= 1 /\ k < CodeModulus
  BY ModulusAssumption DEF Codes
<1>2. CASE a + k < CodeModulus
  <2>1. k % CodeModulus = k
    BY <1>1, Z3
  <2> QED
    BY <1>1, <1>2, <2>1 DEF Plus
<1>3. CASE a + k >= CodeModulus
  <2>1. (k - CodeModulus) % CodeModulus = k
    BY <1>1, Z3
  <2> QED
    BY <1>1, <1>3, <2>1 DEF Plus
<1> QED
  BY <1>1, <1>2, <1>3

-----------------------------------------------------------------------------
(* Types.                                                                   *)

\* Every step keeps the types.
LEMMA TypePreserved == TypeOK /\ [Next]_vars => TypeOK'
<1> SUFFICES ASSUME TypeOK, [Next]_vars PROVE TypeOK'
  OBVIOUS
<1> USE ModulusAssumption, SkipsAssumption
<1>0. 0 \in Codes /\ 1 \in Codes /\ 0 \in 0..MaxSkips
  BY DEF Codes
<1>1. ASSUME NEW t \in Tasks, get_code(t) PROVE TypeOK'
  <2>1. raced' \in BOOLEAN
    BY <1>1, Zenon DEF TypeOK, get_code, OutOfTurn
  <2> QED
    BY <1>0, <1>1, <2>1 DEF TypeOK, get_code, Goto
<1>2. ASSUME NEW t \in Tasks, inc_code(t) PROVE TypeOK'
  <2>1. (code[t] + 1) % CodeModulus \in Codes
    BY Remainder DEF TypeOK, Codes
  <2> QED
    BY <1>2, <2>1 DEF TypeOK, inc_code, Goto
<1>3. ASSUME NEW t \in Tasks, miss(t) PROVE TypeOK'
  BY <1>0, <1>3 DEF TypeOK, miss, Goto
<1>4. ASSUME NEW t \in Tasks, hear(t) PROVE TypeOK'
  <2>1. obeyed' \in BOOLEAN
    BY <1>4, Zenon DEF TypeOK, hear, Ahead
  <2> QED
    BY <1>0, <1>4, <2>1 DEF TypeOK, hear, Goto
<1>5. ASSUME NEW t \in Tasks, erase(t) PROVE TypeOK'
  BY <1>0, <1>5 DEF TypeOK, erase, Goto
<1>b. ASSUME NEW c \in Codes \cup {NoCode}, Boot(c) PROVE TypeOK'
  BY <1>0, <1>b DEF TypeOK, Boot
<1>6. ASSUME NEW t \in Tasks, restart(t) PROVE TypeOK'
  BY <1>b, <1>6 DEF TypeOK, restart
<1>7. ASSUME NEW button \in BOOLEAN, PowerLoss(button) PROVE TypeOK'
  BY <1>b, <1>7 DEF TypeOK, PowerLoss
<1>8. CASE UNCHANGED vars
  BY <1>8 DEF TypeOK, vars
<1> QED
  BY <1>1, <1>2, <1>3, <1>4, <1>5, <1>6, <1>7, <1>8 DEF Next

\* The codes, the counter in NVS and what the blind knows keep their types,
\* however many tasks take codes (rolling_code.c 8-20): the counter stays
\* within its 16 bits.
THEOREM TypeCorrect == Spec => []TypeOK
<1>1. Init => TypeOK
  <2> SUFFICES ASSUME Init PROVE TypeOK
    OBVIOUS
  <2>1. ready \in BOOLEAN /\ obeyed \in BOOLEAN /\ raced \in BOOLEAN
    BY DEF Init
  <2> QED
    BY <2>1, ModulusAssumption, SkipsAssumption DEF Init, TypeOK, Codes
<1> QED
  BY <1>1, TypePreserved, PTL DEF Spec

-----------------------------------------------------------------------------
(* The blind obeys.                                                         *)

\* c is ahead of the last code received by one to n.
Within(c, n) == \E k \in 1..n : c = Plus(last, k)

\* While codes are taken in turn at most one is under way.  The counter is
\* ahead of the blind by no more than the codes taken since, and so is a code
\* on its way; once its successor is stored the counter is just ahead of it.
\* An erased stick has no counter, and what the blind hears of the last frame
\* under way does not matter to the restart.
InTurn ==
    /\ obeyed
    /\ \A t, u \in Tasks : UnderWay(t) /\ UnderWay(u) => t = u
    /\ ~ready => stored = NoCode
    /\ ready /\ last # NoCode => stored # NoCode /\ Within(stored, skips + 1)
    /\ \A t \in Tasks : UnderWay(t) /\ last # NoCode => Within(code[t], skips)
    /\ \A t \in Tasks : pc[t] = "send" /\ ready => stored = Plus(code[t], 1)

SyncInv == ~raced => InTurn

LEMMA SyncPreserved ==
  ASSUME TypeOK, SyncInv, [Next]_vars
  PROVE  SyncInv'
<1> SUFFICES ASSUME ~raced' PROVE InTurn'
  BY DEF SyncInv
<1> USE ModulusAssumption, SkipsAssumption
<1>r. ~raced
  BY DEF Next, get_code, inc_code, miss, hear, erase, restart, PowerLoss, Boot, vars
<1>i. InTurn
  BY <1>r DEF SyncInv
<1>0. /\ \A t \in Tasks : code[t] \in Codes /\ code[t] # NoCode
      /\ skips \in Nat /\ skips <= MaxSkips /\ last \in Codes \cup {NoCode}
      /\ pc \in [Tasks -> {"idle", "store", "send", "erased"}]
  BY DEF TypeOK, Codes, NoCode
<1>1. ASSUME NEW t \in Tasks, get_code(t) PROVE InTurn'
  <2>1. ready /\ pc[t] = "idle" /\ \A u \in Tasks : ~UnderWay(u)
    BY <1>1 DEF get_code, OutOfTurn, UnderWay
  <2>2. /\ skips' = skips + 1 /\ code'[t] = (IF stored = NoCode THEN 1 ELSE stored)
        /\ pc' = [pc EXCEPT ![t] = "store"] /\ UNCHANGED <<stored, ready, last, obeyed>>
    BY <1>1, <2>1 DEF get_code, Goto, TypeOK
  <2>3. \A u \in Tasks : UnderWay(u)' => u = t /\ pc'[u] = "store"
    BY <1>0, <2>1, <2>2 DEF UnderWay
  <2>4. ASSUME last # NoCode
        PROVE  Within(stored, skips + 1)' /\ Within(code[t], skips)' /\ stored # NoCode
    <3>1. PICK k \in 1..(skips + 1) : stored = Plus(last, k)
      BY <1>i, <2>1, <2>4 DEF InTurn, Within
    <3>2. stored # NoCode
      BY <1>i, <2>1, <2>4 DEF InTurn
    <3>3. k \in 1..skips' /\ k \in 1..(skips' + 1) /\ code'[t] = stored
      BY <1>0, <2>2, <3>1, <3>2
    <3> QED
      BY <2>2, <3>1, <3>2, <3>3 DEF Within, Plus
  <2>5. /\ obeyed' /\ ready'
        /\ last' # NoCode => stored' # NoCode /\ Within(stored, skips + 1)'
    BY <1>i, <2>1, <2>2, <2>4 DEF InTurn
  <2>6. \A u \in Tasks : UnderWay(u)' /\ last' # NoCode => Within(code[u], skips)'
    BY <2>2, <2>3, <2>4
  <2>7. \A u \in Tasks : pc'[u] # "send"
    BY <2>3 DEF UnderWay
  <2> QED
    BY <2>3, <2>5, <2>6, <2>7 DEF InTurn
<1>2. ASSUME NEW t \in Tasks, inc_code(t) PROVE InTurn'
  <2>1. /\ pc[t] = "store" /\ pc' = [pc EXCEPT ![t] = "send"]
        /\ stored' = (IF ready THEN Plus(code[t], 1) ELSE stored)
        /\ UNCHANGED <<ready, code, last, skips, obeyed>>
    BY <1>0, <1>2, Successor DEF inc_code, Goto
  <2>2. \A u \in Tasks : UnderWay(u)' => u = t
    BY <1>0, <1>i, <2>1 DEF UnderWay, InTurn
  <2>3. ready => stored' # NoCode
    BY <1>0, <2>1 DEF Plus, Codes, NoCode
  <2>4. ASSUME last # NoCode PROVE Within(code[t], skips)
    BY <1>i, <2>1, <2>4 DEF InTurn, UnderWay
  <2>5. ASSUME last # NoCode, ready PROVE Within(stored, skips + 1)'
    <3>1. PICK k \in 1..skips : code[t] = Plus(last, k)
      BY <2>4, <2>5 DEF Within
    <3>2. k + 1 \in 1..(skips + 1) /\ k + 1 <= CodeModulus
      BY <1>0, <3>1
    <3>3. Plus(Plus(last, k), 1) = Plus(last, k + 1)
      BY <1>0, <2>5, <3>1, <3>2 DEF Plus, Codes, NoCode
    <3> QED
      BY <2>1, <2>5, <3>1, <3>2, <3>3 DEF Within, Plus
  <2>6. last # NoCode => Within(code[t], skips)'
    BY <2>1, <2>4 DEF Within, Plus
  <2>7. ready => stored' = Plus(code[t], 1)'
    BY <2>1 DEF Plus
  <2>8. /\ ~ready' => stored' = NoCode
        /\ ready' /\ last' # NoCode => stored' # NoCode /\ Within(stored, skips + 1)'
    BY <1>i, <2>1, <2>3, <2>5 DEF InTurn
  <2> QED
    BY <1>i, <2>1, <2>2, <2>6, <2>7, <2>8 DEF InTurn, UnderWay
<1>3. ASSUME NEW t \in Tasks, miss(t) PROVE InTurn'
  <2>1. /\ pc[t] = "send" /\ pc' = [pc EXCEPT ![t] = "idle"]
        /\ UNCHANGED <<stored, ready, last, skips, obeyed>>
    BY <1>3 DEF miss, Goto
  <2>2. \A u \in Tasks : ~UnderWay(u)' /\ pc'[u] # "send"
    BY <1>0, <1>i, <2>1 DEF UnderWay, InTurn
  <2> QED
    BY <1>i, <2>1, <2>2 DEF InTurn, Within, Plus
<1>4. ASSUME NEW t \in Tasks, hear(t) PROVE InTurn'
  <2>1. /\ pc[t] = "send" /\ pc' = [pc EXCEPT ![t] = "idle"] /\ last' = code[t] /\ skips' = 0
        /\ obeyed' = (obeyed /\ Ahead(code[t], last)) /\ UNCHANGED <<stored, ready>>
    BY <1>4 DEF hear, Goto
  <2>2. Ahead(code[t], last)
    <3>1. CASE last = NoCode
      BY <3>1 DEF Ahead
    <3>2. CASE last # NoCode
      <4>1. PICK k \in 1..skips : code[t] = Plus(last, k)
        BY <1>i, <2>1, <3>2 DEF InTurn, Within, UnderWay
      <4>2. k \in 1..(CodeModulus \div 2) /\ k \in 1..(CodeModulus - 1)
        BY <1>0, <4>1
      <4>3. (Plus(last, k) - last) % CodeModulus = k
        BY <1>0, <3>2, <4>2, Distance
      <4> QED
        BY <4>1, <4>2, <4>3 DEF Ahead
    <3> QED
      BY <3>1, <3>2
  <2>3. \A u \in Tasks : ~UnderWay(u)' /\ pc'[u] # "send"
    BY <1>0, <1>i, <2>1 DEF UnderWay, InTurn
  <2>4. ready => stored # NoCode /\ Within(stored, skips + 1)'
    <3> SUFFICES ASSUME ready PROVE stored # NoCode /\ Within(stored, skips + 1)'
      OBVIOUS
    <3>1. stored = Plus(code[t], 1) /\ 1 \in 1..(skips' + 1)
      BY <1>i, <2>1 DEF InTurn
    <3> QED
      BY <1>0, <2>1, <3>1 DEF Within, Plus, Codes, NoCode
  <2>5. ~ready' => stored' = NoCode
    BY <1>i, <2>1 DEF InTurn
  <2>6. obeyed'
    BY <1>i, <2>1, <2>2 DEF InTurn
  <2> QED
    BY <2>1, <2>3, <2>4, <2>5, <2>6 DEF InTurn
<1>5. ASSUME NEW t \in Tasks, erase(t) PROVE InTurn'
  <2>1. /\ pc' = [pc EXCEPT ![t] = "erased"] /\ stored' = NoCode /\ ~ready'
        /\ UNCHANGED <<code, last, skips, obeyed>>
    BY <1>5 DEF erase, Goto
  <2>2. \A u \in Tasks : UnderWay(u)' => UnderWay(u)
    BY <1>0, <2>1 DEF UnderWay
  <2> QED
    BY <1>i, <2>1, <2>2 DEF InTurn, Within, Plus
<1>b. ASSUME NEW c, c = NoCode \/ c = stored, Boot(c) PROVE InTurn'
  <2>1. /\ stored' = c /\ ready' /\ \A u \in Tasks : ~UnderWay(u)' /\ pc'[u] # "send"
        /\ last' = (IF c = NoCode THEN NoCode ELSE last)
        /\ skips' = (IF c = NoCode THEN 0 ELSE skips) /\ UNCHANGED obeyed
    BY <1>b DEF Boot, UnderWay
  <2>2. CASE c = NoCode
    BY <1>i, <2>1, <2>2 DEF InTurn
  <2>3. CASE c # NoCode
    BY <1>b, <1>i, <2>1, <2>3 DEF InTurn, Within, Plus
  <2> QED
    BY <2>2, <2>3
<1>6. ASSUME NEW t \in Tasks, restart(t) PROVE InTurn'
  BY <1>b, <1>6 DEF restart
<1>7. ASSUME NEW button \in BOOLEAN, PowerLoss(button) PROVE InTurn'
  BY <1>b, <1>7 DEF PowerLoss
<1>8. CASE UNCHANGED vars
  BY <1>8, <1>i DEF InTurn, UnderWay, Within, Plus, vars
<1> QED
  BY <1>1, <1>2, <1>3, <1>4, <1>5, <1>6, <1>7, <1>8 DEF Next

\* However many tasks take codes, the blind obeys every frame that it hears
\* unless one was taken out of turn: for any size of the code space, however
\* many codes, up to half of it, are lost to refused frames and power
\* failures, and wherever command e erases the counter (rolling_code.c 8-26).
THEOREM BlindObeys == Spec => []ObeyedInTurn
<1>1. Init => SyncInv
  BY DEF Init, SyncInv, InTurn, UnderWay
<1>2. TypeOK /\ SyncInv /\ [Next]_vars => SyncInv'
  BY SyncPreserved
<1>3. SyncInv => ObeyedInTurn
  BY DEF SyncInv, InTurn, ObeyedInTurn
<1> QED
  BY <1>1, <1>2, <1>3, TypeCorrect, PTL DEF Spec

=============================================================================
