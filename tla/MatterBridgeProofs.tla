------------------------- MODULE MatterBridgeProofs -------------------------
(***************************************************************************)
(* Proofs about the bridge.  For any number of tasks that report events,    *)
(* before, during and after the initialisation: device_count stays within  *)
(* device_table, and the state keeps its type.  And for any number of      *)
(* reporting and commanding tasks and of restarts: as long as devices are  *)
(* registered in turn, the table is consistent and a command reaches the   *)
(* device its endpoint stands for.                                         *)
(***************************************************************************)
EXTENDS MatterBridge, FiniteSetTheorems, WellFoundedInduction, TLAPS

\* The tasks that have an endpoint and have not counted it.
Uncounted == {t \in Tasks : pc[t] = "increment" \/ (pc[t] = "count" /\ ep[t] # Failed)}

\* Every device counted, and every one about to be, has an endpoint of its
\* own, and there are not more endpoints than the SDK grants.  A task that
\* has read device_count adds one to a value that may be old; it is small
\* enough, since what was counted meanwhile is no longer among Uncounted.
CountInv ==
    /\ count \in Nat /\ created \in Nat
    /\ pc \in [Tasks -> Labels] /\ seen \in [Tasks -> Nat] /\ DOMAIN ep = Tasks
    /\ created <= SdkEndpoints
    /\ count + Cardinality(Uncounted) <= created
    /\ \A t \in Tasks : pc[t] = "increment" => seen[t] + Cardinality(Uncounted) <= created

\* Uncounted is a finite set.
LEMMA UncountedFinite ==
  ASSUME IsFiniteSet(Tasks)
  PROVE  IsFiniteSet(Uncounted) /\ Cardinality(Uncounted) \in Nat
<1>1. Uncounted \subseteq Tasks
  BY DEF Uncounted
<1> QED
  BY <1>1, FS_Subset, FS_CardinalityType

\* A step that creates and counts nothing.
LEMMA QuietStep ==
  ASSUME IsFiniteSet(Tasks), CountInv,
         count' = count, created' = created,
         pc' \in [Tasks -> Labels], seen' \in [Tasks -> Nat], DOMAIN ep' = Tasks,
         Uncounted' \subseteq Uncounted,
         \A u \in Tasks : pc'[u] = "increment" =>
             \/ pc[u] = "increment" /\ seen'[u] = seen[u]
             \/ seen'[u] = count
  PROVE  CountInv'
<1>1. /\ IsFiniteSet(Uncounted) /\ Cardinality(Uncounted) \in Nat
      /\ IsFiniteSet(Uncounted') /\ Cardinality(Uncounted') \in Nat
      /\ Cardinality(Uncounted') <= Cardinality(Uncounted)
  BY UncountedFinite, FS_Subset, FS_CardinalityType
<1> QED
  BY <1>1 DEF CountInv

\* So is one that leaves the labels of counting alone, or leaves them.
LEMMA QuietTask ==
  ASSUME IsFiniteSet(Tasks), CountInv, NEW t \in Tasks, NEW l \in Labels \ {"count", "increment"},
         pc' = [pc EXCEPT ![t] = l],
         DOMAIN ep' = Tasks, \A u \in Tasks \ {t} : ep'[u] = ep[u],
         UNCHANGED <<count, created, seen>>
  PROVE  CountInv'
<1>1. pc' \in [Tasks -> Labels] /\ seen' \in [Tasks -> Nat]
  BY DEF CountInv
<1>2. pc'[t] = l /\ \A u \in Tasks \ {t} : pc'[u] = pc[u]
  BY DEF CountInv
<1>3. Uncounted' \subseteq Uncounted
  BY <1>2 DEF Uncounted, Failed
<1>4. \A u \in Tasks : pc'[u] = "increment" => pc[u] = "increment" /\ seen'[u] = seen[u]
  BY <1>2
<1> QED
  BY <1>1, <1>3, <1>4, QuietStep

LEMMA CountPreserved ==
  ASSUME IsFiniteSet(Tasks), CountInv, [Next]_vars
  PROVE  CountInv'
<1>0. /\ DOMAIN ep = Tasks /\ pc \in [Tasks -> Labels]
      /\ IsFiniteSet(Uncounted) /\ Cardinality(Uncounted) \in Nat
  BY UncountedFinite DEF CountInv
<1>1. ASSUME NEW t \in Tasks, report_event(t) \/ register(t) \/ update_attribute(t)
                                \/ simulate_command(t) \/ command_cb(t) \/ transmit(t)
      PROVE CountInv'
  <2>1. \E l \in Labels \ {"count", "increment"} : pc' = [pc EXCEPT ![t] = l]
    BY <1>1 DEF report_event, register, update_attribute, simulate_command, command_cb,
                transmit, Done, Goto, Labels
  <2>2. DOMAIN ep' = Tasks /\ \A u \in Tasks \ {t} : ep'[u] = ep[u]
    BY <1>0, <1>1 DEF report_event, register, update_attribute, simulate_command, command_cb,
                      transmit, Done
  <2>3. UNCHANGED <<count, created, seen>>
    BY <1>1 DEF report_event, register, update_attribute, simulate_command, command_cb,
                transmit, sdk
  <2> QED
    BY <2>1, <2>2, <2>3, QuietTask
<1>2. ASSUME NEW t \in Tasks, create_endpoint(t) PROVE CountInv'
  <2>1. /\ pc[t] = "create" /\ pc' = [pc EXCEPT ![t] = "count"]
        /\ UNCHANGED <<count, seen>>
    BY <1>2 DEF create_endpoint, Goto
  <2>2. /\ pc' \in [Tasks -> Labels] /\ pc'[t] = "count"
        /\ \A u \in Tasks \ {t} : pc'[u] = pc[u]
    BY <1>0, <2>1 DEF Labels
  <2>3. DOMAIN ep' = Tasks /\ \A u \in Tasks \ {t} : ep'[u] = ep[u]
    BY <1>0, <1>2 DEF create_endpoint
  <2>4. CASE created' = created /\ ep'[t] = Failed
    <3>1. Uncounted' \subseteq Uncounted
      BY <2>2, <2>3, <2>4 DEF Uncounted, Failed
    <3> QED
      BY <2>1, <2>2, <2>3, <2>4, <3>1, QuietStep DEF CountInv
  <2>5. CASE created' = created + 1 /\ created < SdkEndpoints
    <3>1. Uncounted' \subseteq Uncounted \cup {t}
      BY <2>2, <2>3 DEF Uncounted, Failed
    <3>2. /\ IsFiniteSet(Uncounted \cup {t})
          /\ Cardinality(Uncounted \cup {t}) <= Cardinality(Uncounted) + 1
          /\ Cardinality(Uncounted \cup {t}) \in Nat
      <4>1. /\ IsFiniteSet(Uncounted \cup {t})
            /\ Cardinality(Uncounted \cup {t}) =
                 IF t \in Uncounted THEN Cardinality(Uncounted) ELSE Cardinality(Uncounted) + 1
        BY <1>0, FS_AddElement, Zenon
      <4> QED
        BY <1>0, <4>1
    <3>3. Cardinality(Uncounted') \in Nat /\ Cardinality(Uncounted') <= Cardinality(Uncounted) + 1
      BY <1>0, <3>1, <3>2, FS_Subset, FS_CardinalityType
    <3> QED
      BY <1>0, <2>1, <2>2, <2>3, <2>5, <3>3, SizeAssumption DEF CountInv
  <2>6. created \in Nat
    BY DEF CountInv
  <2> QED
    BY <1>0, <1>2, <2>4, <2>5, <2>6, SizeAssumption DEF create_endpoint, sdk
<1>3. ASSUME NEW t \in Tasks, count_device(t) PROVE CountInv'
  <2>1. CASE ep[t] # Failed
    <3>1. /\ pc[t] = "count" /\ pc' = [pc EXCEPT ![t] = "increment"]
          /\ seen' = [seen EXCEPT ![t] = count] /\ UNCHANGED <<count, created, ep>>
      BY <1>3, <2>1 DEF count_device, Goto, sdk
    <3>2. /\ pc' \in [Tasks -> Labels] /\ seen' \in [Tasks -> Nat]
          /\ \A u \in Tasks \ {t} : pc'[u] = pc[u] /\ seen'[u] = seen[u]
          /\ seen'[t] = count
      BY <3>1 DEF CountInv, Labels
    <3>3. Uncounted' \subseteq Uncounted
      BY <2>1, <3>1, <3>2 DEF Uncounted, Failed
    <3> QED
      BY <1>0, <3>1, <3>2, <3>3, QuietStep
  <2>2. CASE ep[t] = Failed
    <3>1. /\ pc' = [pc EXCEPT ![t] = "idle"] /\ ep' = [ep EXCEPT ![t] = 0]
          /\ UNCHANGED <<count, created, seen>>
      BY <1>3, <2>2 DEF count_device, Done, Goto, sdk
    <3>2. "idle" \in Labels \ {"count", "increment"}
      BY DEF Labels
    <3>3. DOMAIN ep' = Tasks /\ \A u \in Tasks \ {t} : ep'[u] = ep[u]
      BY <1>0, <3>1
    <3> QED
      BY <3>1, <3>2, <3>3, QuietTask
  <2> QED
    BY <2>1, <2>2
<1>4. ASSUME NEW t \in Tasks, increment(t) PROVE CountInv'
  <2>1. /\ pc[t] = "increment" /\ pc' = [pc EXCEPT ![t] = "update"]
        /\ seen' = [seen EXCEPT ![t] = 0] /\ count' = seen[t] + 1
        /\ UNCHANGED <<created, ep>>
    BY <1>4 DEF increment, Goto, sdk
  <2>2. /\ pc' \in [Tasks -> Labels] /\ seen' \in [Tasks -> Nat] /\ pc'[t] = "update"
        /\ \A u \in Tasks \ {t} : pc'[u] = pc[u] /\ seen'[u] = seen[u]
    BY <2>1 DEF CountInv, Labels
  <2>3. Uncounted' = Uncounted \ {t} /\ t \in Uncounted
    BY <2>1, <2>2 DEF Uncounted, Failed
  <2>4. Cardinality(Uncounted') = Cardinality(Uncounted) - 1 /\ Cardinality(Uncounted') \in Nat
    BY <1>0, <2>3, FS_RemoveElement, FS_CardinalityType
  <2> QED
    BY <1>0, <2>1, <2>2, <2>4 DEF CountInv
<1>5. CASE UNCHANGED <<count, created, pc, ep, seen>>
  BY <1>5 DEF CountInv, Uncounted, Failed
<1>6. init_memset \/ init_node \/ init_start \/ register_command_cb \/ UNCHANGED vars
        => UNCHANGED <<count, created, pc, ep, seen>>
  BY DEF init_memset, init_node, init_start, register_command_cb, vars, sdk
<1>7. CASE Restart
  <2>1. Uncounted' = {}
    BY <1>7 DEF Restart, Uncounted
  <2> QED
    BY <1>7, <2>1, FS_EmptySet, SizeAssumption DEF Restart, CountInv, Labels
<1> QED
  BY <1>1, <1>2, <1>3, <1>4, <1>5, <1>6, <1>7 DEF Next

\* device_count never leaves device_table (matter_bridge.c 197-207), although
\* any number of tasks register devices at once and none holds a lock, as
\* long as the SDK grants no more endpoints than there are rows.
THEOREM CountStaysBounded ==
  ASSUME IsFiniteSet(Tasks), SdkEndpoints <= MAX_ENDPOINTS
  PROVE  Spec => []CountBounded
<1>1. Init => CountInv
  <2> SUFFICES ASSUME Init PROVE CountInv
    OBVIOUS
  <2>1. Uncounted = {}
    BY DEF Init, Uncounted
  <2> QED
    BY <2>1, FS_EmptySet, SizeAssumption DEF Init, CountInv, Labels
<1>2. CountInv /\ [Next]_vars => CountInv'
  BY CountPreserved
<1>3. CountInv => CountBounded
  BY UncountedFinite, SizeAssumption DEF CountInv, CountBounded
<1> QED
  BY <1>1, <1>2, <1>3, PTL DEF Spec

-----------------------------------------------------------------------------
(* Type correctness.                                                       *)

\* A nonempty set of numbers has a least element, which First returns.
LEMMA FirstIsLeast ==
  ASSUME NEW S \in SUBSET Nat, S # {}
  PROVE  First(S) \in S /\ \A j \in S : First(S) <= j
<1> DEFINE R == {ss \in Nat \X Nat : ss[1] < ss[2]}
<1>1. IsWellFoundedOn(R, Nat)
  BY NatLessThanWellFounded, Zenon DEF OpToRel
<1>2. \E i \in S : \A j \in S : <<j, i>> \notin R
  <2> HIDE DEF R
  <2> QED
    BY <1>1, WFMin, Zenon
<1>3. PICK i \in S : \A j \in S : <<j, i>> \notin R
  BY <1>2, Zenon
<1>4. ASSUME NEW j \in S PROVE i <= j
  <2>1. i \in Nat /\ j \in Nat /\ <<j, i>> \notin R
    BY <1>3
  <2>2. ~(j < i)
    BY <2>1
  <2> QED
    BY <2>1, <2>2
<1> QED
  BY <1>4 DEF First

\* A task that holds a row holds one of the table, and a task that translates
\* a command has the number of an endpoint, not the SDK's error.
LocalsFit ==
    \A t \in Tasks :
        /\ pc[t] \in {"create", "count", "increment", "update", "transmit"} => row[t] \in Rows
        /\ pc[t] \in {"command", "transmit"} => ep[t] # Failed

\* What the loops over the counted rows find is a row of the table.
LEMMA FoundRow ==
  ASSUME TypeOK, CountBounded
  PROVE  /\ \A d \in Devices : RowsOf(d) # {} => First(RowsOf(d)) \in RowsOf(d)
         /\ \A e : RowsAt(e) # {} => First(RowsAt(e)) \in RowsAt(e)
         /\ \A d \in Devices : RowsOf(d) \subseteq Rows
         /\ \A e : RowsAt(e) \subseteq Rows
<1>1. 0..(count - 1) \subseteq Rows /\ 0..(count - 1) \subseteq Nat
  BY SizeAssumption DEF TypeOK, CountBounded, Rows
<1>2. \A d : RowsOf(d) \subseteq 0..(count - 1)
  BY DEF RowsOf
<1>3. \A e : RowsAt(e) \subseteq 0..(count - 1)
  BY DEF RowsAt
<1>4. ASSUME NEW S, S \subseteq 0..(count - 1), S # {} PROVE First(S) \in S
  BY <1>1, <1>4, FirstIsLeast
<1> QED
  BY <1>1, <1>2, <1>3, <1>4, Zenon

LEMMA TypePreserved ==
  ASSUME TypeOK, LocalsFit, CountBounded, [Next]_vars
  PROVE  TypeOK' /\ LocalsFit'
<1>0. Failed \in Nat /\ Failed \notin Eps /\ 0 \in Eps /\ Eps \subseteq Nat
  BY EpAssumption DEF Failed, Eps
<1>a. raced' \in BOOLEAN
  <2>0. raced \in BOOLEAN
    BY DEF TypeOK
  <2>1. ASSUME NEW t \in Tasks, report_event(t) PROVE raced' \in BOOLEAN
    <3>1. raced' = raced \/ raced' = (raced \/ OutOfTurn(t))
      BY <2>1, Zenon DEF report_event
    <3> QED
      BY <2>0, <3>1, Zenon
  <2>2. ASSUME UNCHANGED raced PROVE raced' \in BOOLEAN
    BY <2>0, <2>2, Zenon
  <2>3. (\E t \in Tasks : report_event(t)) \/ UNCHANGED raced
    BY Zenon DEF Next, vars, register, create_endpoint, count_device, increment,
       update_attribute, simulate_command, command_cb, transmit, init_memset,
       init_node, init_start, register_command_cb, Restart
  <2> QED
    BY <2>1, <2>2, <2>3, Zenon
<1> USE <1>0, <1>a DEF TypeOK, LocalsFit, Labels
<1> HIDE DEF Failed, Eps
<1>1. ASSUME NEW t \in Tasks, report_event(t) PROVE TypeOK' /\ LocalsFit'
  <2>1. PICK d \in Devices :
         /\ dev' = [dev EXCEPT ![t] = d]
         /\ \/ /\ RowsOf(d) # {}
               /\ row' = [row EXCEPT ![t] = First(RowsOf(d))] /\ Goto(t, "update")
               /\ UNCHANGED raced
            \/ /\ RowsOf(d) = {} /\ UNCHANGED row /\ Goto(t, "register")
               /\ raced' = (raced \/ OutOfTurn(t))
    BY <1>1 DEF report_event
  <2>2. RowsOf(d) # {} => First(RowsOf(d)) \in Rows
    BY FoundRow
  <2> QED
    BY <1>1, <2>1, <2>2 DEF report_event, Goto, sdk
<1>2. ASSUME NEW t \in Tasks, register(t) PROVE TypeOK' /\ LocalsFit'
  <2>1. CASE count >= MAX_ENDPOINTS
    <3>1. Done(t) /\ UNCHANGED <<table, count, boot, sdk, seen, sentTo, madeFor>>
      BY <1>2, <2>1 DEF register
    <3> QED
      BY <3>1 DEF Done, Goto, sdk
  <2>2. CASE ~(count >= MAX_ENDPOINTS)
    <3>1. count \in Rows
      BY <2>2, SizeAssumption DEF Rows
    <3> QED
      <4>1. /\ row' = [row EXCEPT ![t] = count]
            /\ table' = [table EXCEPT ![count].id = dev[t]]
            /\ pc' = [pc EXCEPT ![t] = "create"]
            /\ UNCHANGED <<dev, ep, count, boot, nextEp, storedEp, created, seen, sentTo, madeFor>>
        BY <1>2, <2>2 DEF register, Goto, sdk
      <4> QED
        BY <3>1, <4>1
  <2> QED
    BY <2>1, <2>2
<1>3. ASSUME NEW t \in Tasks, create_endpoint(t) PROVE TypeOK' /\ LocalsFit'
  <2>1. CASE ~Node \/ dev[t] \in Untyped \/ created >= SdkEndpoints
    BY <1>3, <2>1 DEF create_endpoint, Goto, sdk
  <2>2. CASE ~(~Node \/ dev[t] \in Untyped \/ created >= SdkEndpoints)
    <3>1. nextEp \in Eps
      BY <1>3, <2>2, EpAssumption DEF create_endpoint, Eps
    <3> QED
      BY <1>3, <2>2, <3>1 DEF create_endpoint, Goto
  <2> QED
    BY <2>1, <2>2
<1>4. ASSUME NEW t \in Tasks, count_device(t) PROVE TypeOK' /\ LocalsFit'
  <2>1. /\ table' = [table EXCEPT ![row[t]].ep = ep[t]]
        /\ UNCHANGED <<count, boot, nextEp, storedEp, created, sentTo, madeFor>>
    BY <1>4 DEF count_device, sdk
  <2>2. CASE ep[t] # Failed
    <3>1. /\ pc[t] = "count" /\ pc' = [pc EXCEPT ![t] = "increment"]
          /\ seen' = [seen EXCEPT ![t] = count] /\ UNCHANGED <<dev, row, ep>>
      BY <1>4, <2>2 DEF count_device, Goto
    <3> QED
      BY <2>1, <3>1
  <2>3. CASE ep[t] = Failed
    <3>1. Done(t) /\ UNCHANGED seen
      BY <1>4, <2>3 DEF count_device
    <3> QED
      BY <2>1, <3>1 DEF Done, Goto
  <2> QED
    BY <2>2, <2>3
<1>5. ASSUME NEW t \in Tasks, increment(t) PROVE TypeOK' /\ LocalsFit'
  BY <1>5 DEF increment, Goto, sdk
<1>6. ASSUME NEW t \in Tasks, update_attribute(t) PROVE TypeOK' /\ LocalsFit'
  BY <1>6 DEF update_attribute, Done, Goto, sdk
<1>7. ASSUME NEW t \in Tasks, simulate_command(t) PROVE TypeOK' /\ LocalsFit'
  BY <1>7 DEF simulate_command, Goto, sdk
<1>8. ASSUME NEW t \in Tasks, command_cb(t) PROVE TypeOK' /\ LocalsFit'
  <2>1. RowsAt(ep[t]) # {} => First(RowsAt(ep[t])) \in Rows
    BY FoundRow
  <2> QED
    BY <1>8, <2>1 DEF command_cb, Done, Goto, sdk
<1>9. ASSUME NEW t \in Tasks, transmit(t) PROVE TypeOK' /\ LocalsFit'
  BY <1>9 DEF transmit, Done, Goto, sdk
<1>10. CASE init_memset \/ init_node \/ init_start \/ register_command_cb
  BY <1>10 DEF init_memset, init_node, init_start, register_command_cb, sdk, Stages, Zeroed
<1>11. CASE Restart
  BY <1>11 DEF Restart, Stages, Zeroed
<1>12. CASE UNCHANGED vars
  BY <1>12 DEF vars
<1> QED
  BY <1>1, <1>2, <1>3, <1>4, <1>5, <1>6, <1>7, <1>8, <1>9, <1>10, <1>11, <1>12 DEF Next

LEMMA InitTyped == Init => TypeOK /\ LocalsFit
<1>1. Init => raced \in BOOLEAN
  BY Zenon DEF Init
<1> QED
  BY <1>1, EpAssumption DEF Init, TypeOK, LocalsFit, Labels, Stages, Zeroed, Eps

\* The table, the locals of every task and what is transmitted keep their
\* types, although any number of tasks register devices at once without a
\* lock: the loops of matter_bridge_report_event and matter_bridge_command_cb
\* find rows of the table only, because device_count never leaves it.
THEOREM BridgeTyped ==
  ASSUME IsFiniteSet(Tasks), SdkEndpoints <= MAX_ENDPOINTS
  PROVE  Spec => []TypeOK
<1>1. Init => TypeOK /\ LocalsFit
  BY InitTyped
<1>2. TypeOK /\ LocalsFit /\ CountBounded /\ [Next]_vars => TypeOK' /\ LocalsFit'
  BY TypePreserved
<1>3. Spec => []CountBounded
  BY CountStaysBounded
<1> QED
  BY <1>1, <1>2, <1>3, PTL DEF Spec

-----------------------------------------------------------------------------
(* Registrations in turn.                                                  *)

\* No two tasks are registering devices.
OneAtATime == \A t, u \in Tasks : Registering(t) /\ Registering(u) => t = u

\* Until the SDK is started no task works on the table.  The SDK's
\* next number is beyond every number it ever gave away, since it is read
\* back from NVS, and the numbers 0 and 1 are never given to a device.
BootInv ==
    /\ boot = "start" => nextEp = 2
    /\ storedEp = 0 \/ storedEp >= 2
    /\ Started => nextEp = storedEp /\ storedEp # 0
    /\ madeFor[0] = NoDevice
    /\ \A e \in Eps : madeFor[e] # NoDevice => e < storedEp
    /\ ~Started => count = 0 /\ \A t \in Tasks : pc[t] = "idle"

\* A device of no counted row.
Fresh(d) == d \in Devices /\ RowsOf(d) = {}

\* What a task knows at its label.  The one that registers a device works on
\* the first row that does not count, and its device, and then its endpoint,
\* is in no row that counts.  The one that transmits has found its endpoint
\* in a row that counts.
TaskOK(t) ==
    /\ pc[t] = "register" => Fresh(dev[t])
    /\ pc[t] \in {"create", "count", "increment"} =>
          /\ Fresh(dev[t])
          /\ row[t] = count /\ count < MAX_ENDPOINTS
          /\ table[count].id = dev[t]
    /\ pc[t] \in {"count", "increment"} /\ ep[t] # Failed =>
          madeFor[ep[t]] = dev[t] /\ RowsAt(ep[t]) = {}
    /\ pc[t] = "increment" =>
          ep[t] # Failed /\ table[count].ep = ep[t] /\ seen[t] = count
    /\ pc[t] = "transmit" => row[t] < count /\ table[row[t]].ep = ep[t]

\* Every counted row has an endpoint, not the SDK's error.
WholeRows == \A i \in 0..(count - 1) : table[i].ep \in Eps

\* The last command went to a device, if there was one.
SentInv == sentTo.ep = 0 \/ madeFor[sentTo.ep] # NoDevice

BridgeInv ==
    /\ TypeOK /\ LocalsFit /\ CountBounded
    /\ OneAtATime
    /\ BootInv
    /\ WholeRows
    /\ TableConsistent
    /\ \A t \in Tasks : TaskOK(t)
    /\ SentInv
    /\ CommandReachesDevice

\* The rows that count are rows of the table.
LEMMA CountedRows ==
  ASSUME BridgeInv
  PROVE  0..(count - 1) \subseteq Rows /\ 0..(count - 1) \subseteq Nat /\ count \in Nat
  BY SizeAssumption DEF BridgeInv, TypeOK, CountBounded, Rows

\* A task is not disturbed by a step of another: the one that registers is
\* the only one that writes the table, and it leaves the rows that count alone.
LEMMA OthersKeep ==
  ASSUME BridgeInv,
         NEW t \in Tasks, NEW u \in Tasks, u # t,
         pc'[u] = pc[u], dev'[u] = dev[u], row'[u] = row[u], ep'[u] = ep[u], seen'[u] = seen[u],
         \/ UNCHANGED <<table, count, madeFor>>
         \/ /\ Registering(t)
            /\ count' \in Nat /\ count <= count'
            /\ \A i \in 0..(count - 1) : table'[i] = table[i]
  PROVE  TaskOK(u)'
<1>1. CASE UNCHANGED <<table, count, madeFor>>
  BY <1>1 DEF BridgeInv, TaskOK, Fresh, RowsOf, RowsAt, Failed
<1>2. CASE /\ Registering(t)
           /\ count' \in Nat /\ count <= count'
           /\ \A i \in 0..(count - 1) : table'[i] = table[i]
  <2>1. pc[u] \notin {"register", "create", "count", "increment"}
    BY <1>2 DEF BridgeInv, OneAtATime, Registering
  <2>2. pc[u] = "transmit" => row[u] \in 0..(count - 1) /\ table[row[u]].ep = ep[u]
    BY CountedRows DEF BridgeInv, TaskOK, TypeOK, Rows
  <2>3. pc[u] = "transmit" => row[u] < count' /\ table'[row[u]].ep = ep[u]
    BY <1>2, <2>2, CountedRows
  <2> QED
    BY <2>1, <2>3 DEF TaskOK
<1> QED
  BY <1>1, <1>2

\* A step of task t that changes locals of t only.
LEMMA LocalStep ==
  ASSUME BridgeInv, TypeOK', LocalsFit', OneAtATime',
         NEW t \in Tasks, Started,
         UNCHANGED <<table, count, boot, nextEp, storedEp, sentTo, madeFor>>,
         \A u \in Tasks \ {t} : /\ pc'[u] = pc[u] /\ dev'[u] = dev[u] /\ row'[u] = row[u]
                                /\ ep'[u] = ep[u] /\ seen'[u] = seen[u],
         TaskOK(t)'
  PROVE  BridgeInv'
<1>1. \A u \in Tasks : TaskOK(u)'
  BY OthersKeep
<1>2. CountBounded' /\ WholeRows' /\ TableConsistent' /\ SentInv' /\ CommandReachesDevice'
  BY DEF BridgeInv, CountBounded, WholeRows, TableConsistent, SentInv, CommandReachesDevice, Eps
<1>3. BootInv'
  BY DEF BridgeInv, BootInv, Started, Eps
<1> QED
  BY <1>1, <1>2, <1>3 DEF BridgeInv

\* A task that is not idle runs after the start of the SDK.
LEMMA BusyAfterBoot ==
  ASSUME BridgeInv, NEW t \in Tasks, pc[t] # "idle"
  PROVE  Started /\ nextEp = storedEp /\ storedEp >= 2
  BY DEF BridgeInv, BootInv

LEMMA ReportKeeps ==
  ASSUME BridgeInv, TypeOK', LocalsFit', OneAtATime', ~raced',
         NEW t \in Tasks, report_event(t)
  PROVE  BridgeInv'
<1>1. PICK d \in Devices :
       /\ dev' = [dev EXCEPT ![t] = d]
       /\ \/ /\ RowsOf(d) # {}
             /\ row' = [row EXCEPT ![t] = First(RowsOf(d))] /\ Goto(t, "update")
             /\ UNCHANGED raced
          \/ /\ RowsOf(d) = {} /\ UNCHANGED row /\ Goto(t, "register")
             /\ raced' = (raced \/ OutOfTurn(t))
  BY DEF report_event
<1>2. UNCHANGED <<table, count, boot, nextEp, storedEp, ep, seen, sentTo, madeFor>>
  BY DEF report_event, sdk
<1>6. Started
  <2>1. CASE RowsOf(d) # {}
    <3>1. count # 0
      BY <2>1 DEF RowsOf
    <3> QED
      BY <3>1 DEF BridgeInv, BootInv
  <2>2. CASE RowsOf(d) = {}
    BY <1>1, <2>2 DEF OutOfTurn
  <2> QED
    BY <2>1, <2>2
<1>3. \A u \in Tasks \ {t} : /\ pc'[u] = pc[u] /\ dev'[u] = dev[u] /\ row'[u] = row[u]
                             /\ ep'[u] = ep[u] /\ seen'[u] = seen[u]
  BY <1>1, <1>2 DEF BridgeInv, TypeOK, Goto
<1>4. pc'[t] = "update" \/ (pc'[t] = "register" /\ dev'[t] = d /\ RowsOf(d) = {})
  BY <1>1 DEF BridgeInv, TypeOK, Goto
<1>5. TaskOK(t)'
  BY <1>2, <1>4 DEF TaskOK, Fresh, RowsOf
<1> QED
  BY <1>2, <1>3, <1>5, <1>6, LocalStep

LEMMA UpdateKeeps ==
  ASSUME BridgeInv, TypeOK', LocalsFit', OneAtATime',
         NEW t \in Tasks, update_attribute(t)
  PROVE  BridgeInv'
<1>1. /\ pc[t] = "update"
      /\ UNCHANGED <<table, count, boot, nextEp, storedEp, seen, sentTo, madeFor>>
  BY DEF update_attribute, sdk
<1>2. \A u \in Tasks \ {t} : /\ pc'[u] = pc[u] /\ dev'[u] = dev[u] /\ row'[u] = row[u]
                             /\ ep'[u] = ep[u] /\ seen'[u] = seen[u]
  BY <1>1 DEF BridgeInv, TypeOK, update_attribute, Done, Goto
<1>3. pc'[t] \in {"idle", "command"}
  BY DEF BridgeInv, TypeOK, update_attribute, Done, Goto
<1>4. TaskOK(t)'
  BY <1>3 DEF TaskOK
<1> QED
  BY <1>1, <1>2, <1>4, BusyAfterBoot, LocalStep

LEMMA SimulateKeeps ==
  ASSUME BridgeInv, TypeOK', LocalsFit', OneAtATime',
         NEW t \in Tasks, simulate_command(t)
  PROVE  BridgeInv'
<1>1. /\ Started
      /\ UNCHANGED <<table, count, boot, nextEp, storedEp, dev, row, seen, sentTo, madeFor>>
  BY DEF simulate_command, sdk, Callback, Started
<1>2. \A u \in Tasks \ {t} : /\ pc'[u] = pc[u] /\ dev'[u] = dev[u] /\ row'[u] = row[u]
                             /\ ep'[u] = ep[u] /\ seen'[u] = seen[u]
  BY <1>1 DEF BridgeInv, TypeOK, simulate_command, Goto
<1>3. pc'[t] = "command"
  BY DEF BridgeInv, TypeOK, simulate_command, Goto
<1>4. TaskOK(t)'
  BY <1>3 DEF TaskOK
<1> QED
  BY <1>1, <1>2, <1>4, LocalStep

LEMMA CommandKeeps ==
  ASSUME BridgeInv, TypeOK', LocalsFit', OneAtATime',
         NEW t \in Tasks, command_cb(t)
  PROVE  BridgeInv'
<1>1. /\ pc[t] = "command"
      /\ UNCHANGED <<table, count, boot, nextEp, storedEp, seen, sentTo, madeFor>>
  BY DEF command_cb, sdk
<1>2. \A u \in Tasks \ {t} : /\ pc'[u] = pc[u] /\ dev'[u] = dev[u] /\ row'[u] = row[u]
                             /\ ep'[u] = ep[u] /\ seen'[u] = seen[u]
  BY <1>1 DEF BridgeInv, TypeOK, command_cb, Done, Goto
<1>3. CASE RowsAt(ep[t]) = {}
  <2>1. pc'[t] = "idle"
    BY <1>3 DEF BridgeInv, TypeOK, command_cb, Done, Goto
  <2>2. TaskOK(t)'
    BY <2>1 DEF TaskOK
  <2> QED
    BY <1>1, <1>2, <2>2, BusyAfterBoot, LocalStep
<1>4. CASE RowsAt(ep[t]) # {}
  <2>1. pc'[t] = "transmit" /\ ep'[t] = ep[t] /\ row'[t] = First(RowsAt(ep[t]))
    BY <1>4 DEF BridgeInv, TypeOK, command_cb, Goto
  <2>2. First(RowsAt(ep[t])) \in RowsAt(ep[t])
    BY <1>4, FoundRow DEF BridgeInv
  <2>3. row'[t] < count /\ table[row'[t]].ep = ep'[t]
    BY <2>1, <2>2, CountedRows DEF RowsAt
  <2>4. TaskOK(t)'
    BY <1>1, <2>1, <2>3 DEF TaskOK
  <2> QED
    BY <1>1, <1>2, <2>4, BusyAfterBoot, LocalStep
<1> QED
  BY <1>3, <1>4

\* The row found holds the device that the endpoint was created for, whatever
\* was registered since it was found.
LEMMA TransmitKeeps ==
  ASSUME BridgeInv, TypeOK', LocalsFit', OneAtATime',
         NEW t \in Tasks, transmit(t)
  PROVE  BridgeInv'
<1>1. /\ pc[t] = "transmit" /\ pc' = [pc EXCEPT ![t] = "idle"]
      /\ sentTo' = [ep |-> ep[t], id |-> table[row[t]].id]
      /\ UNCHANGED <<table, count, boot, nextEp, storedEp, seen, madeFor>>
  BY DEF transmit, Done, Goto, sdk
<1>2. \A u \in Tasks \ {t} : /\ pc'[u] = pc[u] /\ dev'[u] = dev[u] /\ row'[u] = row[u]
                             /\ ep'[u] = ep[u] /\ seen'[u] = seen[u]
  BY <1>1 DEF BridgeInv, TypeOK, transmit, Done, Goto
<1>3. TaskOK(t)'
  <2>1. pc'[t] = "idle"
    BY <1>1 DEF BridgeInv, TypeOK
  <2> QED
    BY <2>1 DEF TaskOK
<1>4. \A u \in Tasks : TaskOK(u)'
  BY <1>1, <1>2, <1>3, OthersKeep
<1>5. row[t] \in 0..(count - 1) /\ table[row[t]].ep = ep[t]
  BY <1>1, CountedRows DEF BridgeInv, TaskOK, TypeOK, Rows
<1>6. madeFor[ep[t]] = table[row[t]].id /\ table[row[t]].id # NoDevice
  BY <1>5 DEF BridgeInv, TableConsistent
<1>7. SentInv' /\ CommandReachesDevice'
  BY <1>1, <1>6 DEF SentInv, CommandReachesDevice
<1>8. CountBounded' /\ WholeRows' /\ TableConsistent'
  BY <1>1 DEF BridgeInv, CountBounded, WholeRows, TableConsistent, Eps
<1>9. BootInv'
  BY <1>1, BusyAfterBoot DEF BridgeInv, BootInv, Started, Eps
<1> QED
  BY <1>4, <1>7, <1>8, <1>9 DEF BridgeInv

LEMMA RegisterKeeps ==
  ASSUME BridgeInv, TypeOK', LocalsFit', OneAtATime',
         NEW t \in Tasks, register(t)
  PROVE  BridgeInv'
<1>1. /\ pc[t] = "register" /\ Registering(t)
      /\ UNCHANGED <<count, boot, nextEp, storedEp, seen, sentTo, madeFor>>
  BY DEF register, sdk, Registering
<1>2. \A u \in Tasks \ {t} : /\ pc'[u] = pc[u] /\ dev'[u] = dev[u] /\ row'[u] = row[u]
                             /\ ep'[u] = ep[u] /\ seen'[u] = seen[u]
  BY <1>1 DEF BridgeInv, TypeOK, register, Done, Goto
<1>3. CASE count >= MAX_ENDPOINTS
  <2>1. pc'[t] = "idle" /\ table' = table
    BY <1>3 DEF BridgeInv, TypeOK, register, Done, Goto
  <2>2. TaskOK(t)'
    BY <1>1, <2>1 DEF TaskOK
  <2> QED
    BY <1>1, <1>2, <2>1, <2>2, BusyAfterBoot, LocalStep
<1>4. CASE ~(count >= MAX_ENDPOINTS)
  <2>1. /\ row' = [row EXCEPT ![t] = count]
        /\ table' = [table EXCEPT ![count].id = dev[t]]
        /\ pc' = [pc EXCEPT ![t] = "create"]
        /\ UNCHANGED <<dev, ep>>
    BY <1>4 DEF register, Goto
  <2>2. count \in Rows /\ count < MAX_ENDPOINTS
    BY <1>4, SizeAssumption DEF BridgeInv, TypeOK, Rows
  <2>3. \A i \in 0..(count - 1) : table'[i] = table[i]
    BY <2>1, CountedRows DEF BridgeInv, TypeOK
  <2>4. table'[count].id = dev[t] /\ row'[t] = count /\ pc'[t] = "create"
    BY <2>1, <2>2 DEF BridgeInv, TypeOK
  <2>5. TaskOK(t)'
    <3>1. Fresh(dev[t])
      BY <1>1 DEF BridgeInv, TaskOK
    <3>2. Fresh(dev[t])'
      BY <1>1, <2>1, <2>3, <3>1 DEF Fresh, RowsOf
    <3> QED
      BY <1>1, <2>1, <2>2, <2>4, <3>2 DEF TaskOK
  <2>6. \A u \in Tasks : TaskOK(u)'
    BY <1>1, <1>2, <2>3, <2>5, CountedRows, OthersKeep
  <2>7. CountBounded' /\ WholeRows' /\ TableConsistent' /\ SentInv' /\ CommandReachesDevice'
    BY <1>1, <2>3 DEF BridgeInv, CountBounded, WholeRows, TableConsistent, SentInv,
                      CommandReachesDevice, Eps
  <2>8. BootInv'
    BY <1>1, BusyAfterBoot DEF BridgeInv, BootInv, Started, Eps
  <2> QED
    BY <2>6, <2>7, <2>8 DEF BridgeInv
<1> QED
  BY <1>3, <1>4

\* The number that the SDK gives away is in no row and was never given away.
LEMMA CreateKeeps ==
  ASSUME BridgeInv, TypeOK', LocalsFit', OneAtATime',
         NEW t \in Tasks, create_endpoint(t)
  PROVE  BridgeInv'
<1>1. /\ pc[t] = "create" /\ pc' = [pc EXCEPT ![t] = "count"] /\ Registering(t)
      /\ UNCHANGED <<table, count, boot, dev, row, seen, sentTo>>
  BY DEF create_endpoint, Goto, Registering
<1>2. \A u \in Tasks \ {t} : /\ pc'[u] = pc[u] /\ dev'[u] = dev[u] /\ row'[u] = row[u]
                             /\ ep'[u] = ep[u] /\ seen'[u] = seen[u]
  BY <1>1 DEF BridgeInv, TypeOK, create_endpoint
<1>3. pc'[t] = "count"
  BY <1>1 DEF BridgeInv, TypeOK
<1>4. /\ Fresh(dev[t]) /\ Fresh(dev[t])' /\ dev[t] \in Devices
      /\ row[t] = count /\ count < MAX_ENDPOINTS /\ table[count].id = dev[t]
  BY <1>1 DEF BridgeInv, TaskOK, Fresh, RowsOf
<1>5. CASE ~Node \/ dev[t] \in Untyped \/ created >= SdkEndpoints
  <2>1. ep'[t] = Failed /\ UNCHANGED <<nextEp, storedEp, madeFor>>
    BY <1>5 DEF create_endpoint, BridgeInv, TypeOK, sdk
  <2>2. TaskOK(t)'
    <3>1. Failed' = Failed
      BY DEF Failed
    <3> QED
      BY <1>1, <1>3, <1>4, <2>1, <3>1 DEF TaskOK
  <2> QED
    BY <1>1, <1>2, <2>1, <2>2, BusyAfterBoot, LocalStep
<1>6. CASE ~(~Node \/ dev[t] \in Untyped \/ created >= SdkEndpoints)
  <2>1. Started /\ nextEp = storedEp /\ storedEp >= 2
    BY <1>1, BusyAfterBoot
  <2>2. /\ nextEp <= MaxEp /\ nextEp \in Nat /\ nextEp \in Eps
        /\ ep' = [ep EXCEPT ![t] = nextEp]
        /\ nextEp' = nextEp + 1 /\ storedEp' = nextEp + 1
        /\ madeFor' = [madeFor EXCEPT ![nextEp] = dev[t]]
    BY <1>6, <2>1, EpAssumption DEF create_endpoint, BridgeInv, TypeOK, Eps
  <2>3. ep'[t] = nextEp /\ madeFor'[nextEp] = dev[t] /\ dev[t] # NoDevice
    BY <1>4, <2>2, NoDeviceAssumption DEF BridgeInv, TypeOK
  <2>4. \A e \in Eps : e # nextEp => madeFor'[e] = madeFor[e]
    BY <2>2 DEF BridgeInv, TypeOK
  <2>5. \A i \in 0..(count - 1) :
          table[i].ep \in Eps /\ table[i].ep # nextEp /\ madeFor'[table[i].ep] = table[i].id
    <3> TAKE i \in 0..(count - 1)
    <3>1. table[i].ep \in Eps /\ madeFor[table[i].ep] = table[i].id /\ table[i].id # NoDevice
      BY DEF BridgeInv, WholeRows, TableConsistent
    <3>2. table[i].ep < storedEp
      BY <3>1 DEF BridgeInv, BootInv
    <3>3. table[i].ep \in Nat
      BY <3>1 DEF Eps
    <3> QED
      BY <2>1, <2>2, <2>4, <3>1, <3>2, <3>3
  <2>6. TaskOK(t)'
    <3>1. madeFor'[ep'[t]] = dev'[t] /\ RowsAt(ep[t])' = {}
      BY <1>1, <2>3, <2>5 DEF RowsAt
    <3> QED
      BY <1>1, <1>3, <1>4, <3>1 DEF TaskOK
  <2>7. \A u \in Tasks : TaskOK(u)'
    BY <1>1, <1>2, <2>6, CountedRows, OthersKeep
  <2>8. CountBounded' /\ WholeRows' /\ TableConsistent'
    BY <1>1, <2>5 DEF BridgeInv, CountBounded, WholeRows, TableConsistent, Eps
  <2>9. SentInv' /\ CommandReachesDevice'
    <3>1. sentTo.ep \in Eps /\ sentTo.ep \in Nat
      BY DEF BridgeInv, TypeOK, Eps
    <3>2. sentTo.ep # nextEp
      BY <2>1, <2>2, <3>1 DEF BridgeInv, SentInv, BootInv
    <3>3. madeFor'[sentTo.ep] = madeFor[sentTo.ep]
      BY <2>4, <3>1, <3>2
    <3> QED
      BY <1>1, <3>3 DEF BridgeInv, SentInv, CommandReachesDevice
  <2>10. BootInv'
    <3>1. 0 \in Eps /\ 0 # nextEp /\ madeFor'[0] = NoDevice
      BY <2>1, <2>2, <2>4, EpAssumption DEF BridgeInv, BootInv, Eps
    <3>2. ASSUME NEW e \in Eps, madeFor'[e] # NoDevice PROVE e < storedEp'
      <4>1. e \in Nat
        BY DEF Eps
      <4>2. CASE e = nextEp
        BY <2>2, <4>1, <4>2
      <4>3. CASE e # nextEp
        <5>1. madeFor[e] # NoDevice
          BY <2>4, <3>2, <4>3
        <5>2. e < storedEp
          BY <5>1 DEF BridgeInv, BootInv
        <5> QED
          BY <2>1, <2>2, <4>1, <5>2
      <4> QED
        BY <4>2, <4>3
    <3> QED
      BY <1>1, <2>1, <2>2, <3>1, <3>2 DEF BootInv, Started, Eps
  <2> QED
    BY <2>7, <2>8, <2>9, <2>10 DEF BridgeInv
<1> QED
  BY <1>5, <1>6

LEMMA CountKeeps ==
  ASSUME BridgeInv, TypeOK', LocalsFit', OneAtATime',
         NEW t \in Tasks, count_device(t)
  PROVE  BridgeInv'
<1>1. /\ pc[t] = "count" /\ Registering(t)
      /\ table' = [table EXCEPT ![row[t]].ep = ep[t]]
      /\ UNCHANGED <<count, boot, nextEp, storedEp, sentTo, madeFor>>
  BY DEF count_device, sdk, Registering
<1>2. \A u \in Tasks \ {t} : /\ pc'[u] = pc[u] /\ dev'[u] = dev[u] /\ row'[u] = row[u]
                             /\ ep'[u] = ep[u] /\ seen'[u] = seen[u]
  BY <1>1 DEF BridgeInv, TypeOK, count_device, Done, Goto
<1>3. /\ Fresh(dev[t]) /\ row[t] = count /\ count < MAX_ENDPOINTS /\ table[count].id = dev[t]
      /\ ep[t] # Failed => madeFor[ep[t]] = dev[t] /\ RowsAt(ep[t]) = {}
  BY <1>1 DEF BridgeInv, TaskOK
<1>4. count \in Rows
  BY <1>3, CountedRows, SizeAssumption DEF Rows
<1>5. \A i \in 0..(count - 1) : table'[i] = table[i]
  BY <1>1, <1>3, CountedRows DEF BridgeInv, TypeOK
<1>6. table'[count].id = dev[t] /\ table'[count].ep = ep[t]
  BY <1>1, <1>3, <1>4 DEF BridgeInv, TypeOK
<1>7. CountBounded' /\ WholeRows' /\ TableConsistent' /\ SentInv' /\ CommandReachesDevice'
  <2>1. WholeRows' /\ TableConsistent'
    <3>1. count' = count /\ madeFor' = madeFor
      BY <1>1
    <3> QED
      BY <1>5, <3>1 DEF BridgeInv, WholeRows, TableConsistent, Eps
  <2> QED
    BY <1>1, <2>1 DEF BridgeInv, CountBounded, SentInv, CommandReachesDevice
<1>8. BootInv'
  BY <1>1, BusyAfterBoot DEF BridgeInv, BootInv, Started, Eps
<1>9. TaskOK(t)'
  <2>1. CASE ep[t] # Failed
    <3>1. pc'[t] = "increment" /\ seen'[t] = count /\ UNCHANGED <<dev, row, ep>>
      BY <2>1 DEF count_device, Goto, BridgeInv, TypeOK
    <3>2. Fresh(dev[t])' /\ RowsAt(ep[t])' = {}
      BY <1>1, <1>3, <1>5, <2>1, <3>1 DEF Fresh, RowsOf, RowsAt
    <3>3. Failed' = Failed
      BY DEF Failed
    <3> QED
      BY <1>1, <1>3, <1>6, <2>1, <3>1, <3>2, <3>3 DEF TaskOK
  <2>2. CASE ep[t] = Failed
    <3>1. pc'[t] = "idle"
      BY <2>2 DEF count_device, Done, Goto, BridgeInv, TypeOK
    <3> QED
      BY <3>1 DEF TaskOK
  <2> QED
    BY <2>1, <2>2
<1>10. \A u \in Tasks : TaskOK(u)'
  BY <1>1, <1>2, <1>5, <1>9, CountedRows, OthersKeep
<1> QED
  BY <1>7, <1>8, <1>10 DEF BridgeInv

\* The row that starts to count is whole and differs from the others.
LEMMA IncrementKeeps ==
  ASSUME BridgeInv, TypeOK', LocalsFit', OneAtATime',
         NEW t \in Tasks, increment(t)
  PROVE  BridgeInv'
<1>1. /\ pc[t] = "increment" /\ Registering(t)
      /\ seen[t] = count /\ count' = count + 1 /\ pc'[t] = "update"
      /\ UNCHANGED <<table, boot, nextEp, storedEp, dev, row, ep, sentTo, madeFor>>
  BY DEF increment, Goto, sdk, BridgeInv, TaskOK, TypeOK, Registering
<1>2. \A u \in Tasks \ {t} : /\ pc'[u] = pc[u] /\ dev'[u] = dev[u] /\ row'[u] = row[u]
                             /\ ep'[u] = ep[u] /\ seen'[u] = seen[u]
  BY <1>1 DEF BridgeInv, TypeOK, increment, Goto
<1>3. /\ dev[t] \in Devices /\ RowsOf(dev[t]) = {} /\ RowsAt(ep[t]) = {}
      /\ count < MAX_ENDPOINTS /\ table[count].id = dev[t] /\ table[count].ep = ep[t]
      /\ madeFor[ep[t]] = dev[t] /\ ep[t] # Failed
  BY <1>1 DEF BridgeInv, TaskOK, Fresh
<1>4. dev[t] # NoDevice /\ ep[t] \in Eps
  BY <1>3, NoDeviceAssumption DEF BridgeInv, TypeOK
<1>5. \A i \in 0..(count - 1) : table[i].id # dev[t] /\ table[i].ep # ep[t]
  BY <1>3 DEF RowsOf, RowsAt
<1>6. 0..(count' - 1) = 0..(count - 1) \cup {count} /\ count' \in Nat /\ count <= count'
  BY <1>1, CountedRows
<1>7. WholeRows' /\ TableConsistent'
  BY <1>1, <1>3, <1>4, <1>5, <1>6 DEF BridgeInv, WholeRows, TableConsistent, Eps
<1>8. CountBounded' /\ SentInv' /\ CommandReachesDevice'
  BY <1>1, <1>3, CountedRows, SizeAssumption
  DEF BridgeInv, CountBounded, SentInv, CommandReachesDevice
<1>9. BootInv'
  BY <1>1, BusyAfterBoot DEF BridgeInv, BootInv, Started, Eps
<1>10. TaskOK(t)'
  BY <1>1 DEF TaskOK
<1>11. \A u \in Tasks : TaskOK(u)'
  BY <1>1, <1>2, <1>6, <1>10, OthersKeep
<1> QED
  BY <1>7, <1>8, <1>9, <1>11 DEF BridgeInv

\* Registering the callback of commands changes nothing but the stage.
LEMMA CallbackKeeps ==
  ASSUME BridgeInv, TypeOK', LocalsFit', OneAtATime', register_command_cb
  PROVE  BridgeInv'
<1>1. /\ boot = "callback" /\ boot' = "done"
      /\ UNCHANGED <<table, count, nextEp, storedEp, pc, dev, row, ep, seen, sentTo, madeFor>>
  BY DEF register_command_cb, sdk
<1>2. \A t \in Tasks : TaskOK(t)'
  BY <1>1 DEF BridgeInv, TaskOK, Fresh, RowsOf, RowsAt, Failed
<1>3. CountBounded' /\ WholeRows' /\ TableConsistent' /\ SentInv' /\ CommandReachesDevice'
  BY <1>1 DEF BridgeInv, CountBounded, WholeRows, TableConsistent, SentInv,
              CommandReachesDevice, Eps
<1>4. BootInv'
  BY <1>1 DEF BridgeInv, BootInv, Started, Eps
<1> QED
  BY <1>2, <1>3, <1>4 DEF BridgeInv

\* Before the SDK is started no row counts and no task works.
LEMMA BootKeeps ==
  ASSUME BridgeInv, TypeOK', LocalsFit', OneAtATime',
         init_memset \/ init_node \/ init_start \/ Restart
  PROVE  BridgeInv'
<1>1. UNCHANGED <<sentTo, madeFor>>
  BY DEF init_memset, init_node, init_start, Restart
<1>2. count' = 0 /\ \A t \in Tasks : pc'[t] = "idle"
  BY DEF BridgeInv, BootInv, Started, init_memset, init_node, init_start, Restart
<1>3. CountBounded' /\ WholeRows' /\ TableConsistent' /\ \A t \in Tasks : TaskOK(t)'
  <2>1. CountBounded'
    BY <1>2, SizeAssumption DEF CountBounded
  <2>2. WholeRows' /\ TableConsistent'
    BY <1>2 DEF WholeRows, TableConsistent
  <2>3. \A t \in Tasks : TaskOK(t)'
    BY <1>2 DEF TaskOK
  <2> QED
    BY <2>1, <2>2, <2>3
<1>4. SentInv' /\ CommandReachesDevice'
  BY <1>1 DEF BridgeInv, SentInv, CommandReachesDevice
<1>5. BootInv'
  <2>1. /\ nextEp \in Nat /\ storedEp \in Nat /\ (storedEp = 0 \/ storedEp >= 2)
        /\ madeFor[0] = NoDevice /\ \A e \in Eps : madeFor[e] # NoDevice => e < storedEp
    BY DEF BridgeInv, TypeOK, BootInv
  <2>2. CASE init_memset \/ Restart
    BY <1>1, <1>2, <2>1, <2>2 DEF init_memset, Restart, BootInv, Started, Eps, sdk
  <2>3. CASE init_node
    BY <1>1, <1>2, <2>1, <2>3 DEF init_node, BootInv, Started, Eps
  <2>4. CASE init_start
    <3>1. boot = "start" /\ nextEp = 2 /\ boot' = "callback" /\ nextEp' = storedEp'
          /\ storedEp' = (IF storedEp = 0 THEN 2 ELSE storedEp)
      BY <2>4 DEF init_start, BridgeInv, BootInv
    <3>2. storedEp >= 2 \/ storedEp = 0
      BY DEF BridgeInv, BootInv
    <3> QED
      BY <1>1, <1>2, <2>1, <3>1, <3>2 DEF BootInv, Started, Eps
  <2> QED
    BY <2>2, <2>3, <2>4
<1> QED
  BY <1>3, <1>4, <1>5 DEF BridgeInv

\* A registration that begins in turn is the only one.
LEMMA TurnKept ==
  ASSUME TypeOK, OneAtATime, [Next]_vars, ~raced'
  PROVE  OneAtATime'
<1>0. pc \in [Tasks -> Labels]
  BY DEF TypeOK
<1>1. ASSUME NEW t \in Tasks, report_event(t) PROVE OneAtATime'
  <2>1. \/ pc' = [pc EXCEPT ![t] = "update"]
        \/ pc' = [pc EXCEPT ![t] = "register"] /\ \A u \in Tasks \ {t} : ~Registering(u)
    BY <1>1 DEF report_event, Goto, OutOfTurn
  <2> QED
    BY <1>0, <2>1 DEF OneAtATime, Registering
<1>2. ASSUME NEW t \in Tasks, NEW l \in Labels, pc' = [pc EXCEPT ![t] = l],
             Registering(t) \/ l \notin {"register", "create", "count", "increment"}
      PROVE  OneAtATime'
  BY <1>0, <1>2 DEF OneAtATime, Registering
<1>3. ASSUME NEW t \in Tasks,
             register(t) \/ create_endpoint(t) \/ count_device(t) \/ increment(t)
      PROVE  OneAtATime'
  <2>1. Registering(t) /\ \E l \in Labels : pc' = [pc EXCEPT ![t] = l]
    BY <1>3 DEF register, create_endpoint, count_device, increment, Done, Goto, Registering,
                Labels
  <2> QED
    BY <1>2, <2>1
<1>4. ASSUME NEW t \in Tasks,
             update_attribute(t) \/ simulate_command(t) \/ command_cb(t) \/ transmit(t)
      PROVE  OneAtATime'
  <2>1. \E l \in {"idle", "command", "transmit"} : pc' = [pc EXCEPT ![t] = l]
    BY <1>4 DEF update_attribute, simulate_command, command_cb, transmit, Done, Goto
  <2> QED
    BY <1>2, <2>1 DEF Labels
<1>5. CASE Restart
  BY <1>5 DEF Restart, OneAtATime, Registering
<1>6. CASE UNCHANGED pc
  BY <1>6 DEF OneAtATime, Registering
<1>7. init_memset \/ init_node \/ init_start \/ register_command_cb \/ UNCHANGED vars
        => UNCHANGED pc
  BY DEF init_memset, init_node, init_start, register_command_cb, vars
<1> QED
  BY <1>1, <1>3, <1>4, <1>5, <1>6, <1>7 DEF Next

LEMMA BridgePreserved ==
  ASSUME BridgeInv, [Next]_vars, ~raced'
  PROVE  BridgeInv'
<1>1. TypeOK' /\ LocalsFit' /\ OneAtATime'
  BY TypePreserved, TurnKept DEF BridgeInv
<1>2. ASSUME NEW t \in Tasks,
             \/ report_event(t) \/ register(t) \/ create_endpoint(t)
             \/ count_device(t) \/ increment(t) \/ update_attribute(t)
             \/ simulate_command(t) \/ command_cb(t) \/ transmit(t)
      PROVE  BridgeInv'
  BY <1>1, <1>2, ReportKeeps, RegisterKeeps, CreateKeeps, CountKeeps, IncrementKeeps,
     UpdateKeeps, SimulateKeeps, CommandKeeps, TransmitKeeps, Zenon
<1>3. CASE init_memset \/ init_node \/ init_start \/ register_command_cb \/ Restart
  BY <1>1, <1>3, BootKeeps, CallbackKeeps
<1>4. CASE UNCHANGED vars
  <2>1. \A t \in Tasks : TaskOK(t)'
    BY <1>4 DEF vars, BridgeInv, TaskOK, Fresh, RowsOf, RowsAt, Failed
  <2>2. CountBounded' /\ WholeRows' /\ TableConsistent' /\ SentInv' /\ CommandReachesDevice'
    BY <1>4 DEF vars, BridgeInv, CountBounded, WholeRows, TableConsistent, SentInv,
                CommandReachesDevice, Eps
  <2>3. BootInv'
    BY <1>4 DEF vars, BridgeInv, BootInv, Started, Eps
  <2> QED
    BY <1>1, <2>1, <2>2, <2>3 DEF BridgeInv
<1> QED
  BY <1>2, <1>3, <1>4, Zenon DEF Next

LEMMA BridgeInductive == Spec => [](~raced => BridgeInv)
<1>1. Init => BridgeInv
  <2> SUFFICES ASSUME Init PROVE BridgeInv
    OBVIOUS
  <2>1. TypeOK /\ LocalsFit
    BY InitTyped
  <2>2. CountBounded /\ WholeRows /\ TableConsistent
    BY SizeAssumption DEF Init, CountBounded, WholeRows, TableConsistent
  <2>3. OneAtATime /\ \A t \in Tasks : TaskOK(t)
    BY DEF Init, TaskOK, OneAtATime, Registering
  <2>4. BootInv /\ SentInv /\ CommandReachesDevice
    BY EpAssumption DEF Init, BootInv, SentInv, CommandReachesDevice, Started, Eps
  <2> QED
    BY <2>1, <2>2, <2>3, <2>4 DEF BridgeInv
<1>2. (~raced => BridgeInv) /\ [Next]_vars => (~raced => BridgeInv)'
  <2> SUFFICES ASSUME ~raced => BridgeInv, [Next]_vars, ~raced' PROVE BridgeInv'
    OBVIOUS
  <2>1. ~raced
    BY DEF Next, report_event, register, create_endpoint, count_device, increment,
           update_attribute, simulate_command, command_cb, transmit, init_memset, init_node,
           init_start, register_command_cb, Restart, vars
  <2> QED
    BY <2>1, BridgePreserved
<1> QED
  BY <1>1, <1>2, PTL DEF Spec

\* However many tasks report events, and from whatever moment on: unless a
\* registration began while another was under way or before the start of the
\* SDK, every row that counts is whole and differs from the others in device
\* and endpoint, for any number of devices, rows, commanding tasks and
\* restarts, and whatever number of endpoints the SDK grants
\* (matter_bridge.c 182-217).
THEOREM TableStaysConsistent == Spec => []ConsistentUnlessRaced
<1>1. (~raced => BridgeInv) => ConsistentUnlessRaced
  BY DEF BridgeInv, ConsistentUnlessRaced
<1> QED
  BY <1>1, BridgeInductive, PTL

\* And so long a command goes to the device that its endpoint was created for,
\* although rows are added between the look-up in matter_bridge_command_cb and
\* the transmission, and although the number may be from before a restart
\* (matter_bridge.c 27-52).
THEOREM CommandsReachDevices == Spec => []ReachedUnlessRaced
<1>1. (~raced => BridgeInv) => ReachedUnlessRaced
  BY DEF BridgeInv, ReachedUnlessRaced
<1> QED
  BY <1>1, BridgeInductive, PTL

=============================================================================
