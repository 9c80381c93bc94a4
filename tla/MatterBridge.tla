---------------------------- MODULE MatterBridge ----------------------------
(***************************************************************************)
(* The Matter bridge (src/main/matter_bridge.c) on top of the SDK wrapper  *)
(* (src/main/matter_interface.cpp): RF events register devices in          *)
(* device_table and create Matter endpoints; commands to an endpoint are   *)
(* translated back to the RF device in the table.  Neither device_table    *)
(* nor device_count is guarded by a lock, and matter_interface_create_     *)
(* endpoint blocks on the USB port and on the CHIP lock in the middle of a *)
(* registration.  app_main initialises the bridge last, while the other    *)
(* tasks are running.                                                      *)
(*                                                                         *)
(* A device stands for its rf_id with protocol and type; which frame is    *)
(* sent to it is left out.  The Matter SDK is external: it numbers the     *)
(* endpoints upwards, keeps the next number in NVS once it is started, and *)
(* calls back before it updates an on/off attribute.                       *)
(***************************************************************************)
EXTENDS Naturals, FiniteSets

CONSTANTS
    Reporters,      \* tasks that report events: slowrf_task; console with MT, MA
    Commanders,     \* tasks that command endpoints: CHIP task; console with MC
    Devices,        \* the rf_ids that are heard
    Switches,       \* those of them with an on/off attribute
    Untyped,        \* those whose type no endpoint exists for (command MA)
    NoDevice,       \* the empty rf_id
    MAX_ENDPOINTS,  \* rows of device_table: 20 in the code
    SdkEndpoints,   \* endpoints the SDK lets the bridge create per boot: 14
    EarlyEvents,    \* TRUE: RF events arrive before matter_bridge_init is over
    MayRestart,     \* TRUE: the stick may restart
    MaxEp           \* bound of the endpoint numbers

ASSUME NoDeviceAssumption == NoDevice \notin Devices
ASSUME SwitchAssumption == Switches \subseteq Devices
ASSUME UntypedAssumption == Untyped \subseteq Devices \ Switches
ASSUME SizeAssumption == MAX_ENDPOINTS \in Nat /\ SdkEndpoints \in Nat
ASSUME EpAssumption == MaxEp \in Nat
ASSUME FlagAssumption == EarlyEvents \in BOOLEAN /\ MayRestart \in BOOLEAN

Tasks == Reporters \cup Commanders

VARIABLES
    table,     \* device_table: rf_id and matter_ep_id of each row
    count,     \* device_count
    boot,      \* how far app_main is in matter_bridge_init
    nextEp,    \* SDK: min_unused_endpoint_id
    storedEp,  \* SDK: the same in NVS, 0 when there is none
    created,   \* SDK: number of endpoints created for devices since boot
    pc, dev, row, ep,  \* per task: label and locals
    seen,      \* per task: the value of device_count it is incrementing
    sentTo,    \* history: last command transmitted, by endpoint and device
    madeFor,   \* history: the device each endpoint number was created for
    raced      \* history: a registration began out of turn, see OutOfTurn

sdk    == <<nextEp, storedEp, created>>
vars   == <<table, count, boot, nextEp, storedEp, created, pc, dev, row, ep,
            seen, sentTo, madeFor, raced>>

Rows   == 0..(MAX_ENDPOINTS - 1)
Eps    == 0..MaxEp
Failed == MaxEp + 1      \* 0xFFFF
Labels == {"idle", "register", "create", "count", "increment", "update", "command", "transmit"}
Stages == {"memset", "node", "start", "callback", "done"}

TypeOK ==
    /\ table \in [Rows -> [id : Devices \cup {NoDevice}, ep : Eps \cup {Failed}]]
    /\ count \in Nat
    /\ boot \in Stages
    /\ nextEp \in Nat
    /\ storedEp \in Nat
    /\ created \in Nat
    /\ pc \in [Tasks -> Labels]
    /\ dev \in [Tasks -> Devices \cup {NoDevice}]
    /\ row \in [Tasks -> Rows \cup {0}]
    /\ ep \in [Tasks -> Eps \cup {Failed}]
    /\ seen \in [Tasks -> Nat]
    /\ sentTo \in [ep : Eps, id : Devices \cup {NoDevice}]
    /\ madeFor \in [Eps -> Devices \cup {NoDevice}]
    /\ raced \in BOOLEAN

Zeroed == [i \in Rows |-> [id |-> NoDevice, ep |-> 0]]

Node == boot \notin {"memset", "node"}   \* node::get() is not null
Started == boot \in {"callback", "done"} \* esp_matter::start() has returned
Callback == boot = "done"                \* cmd_cb is set

\* The counted rows of a device and of an endpoint; the loops stop at the
\* first one.
RowsOf(d) == {i \in 0..(count - 1) : table[i].id = d}
RowsAt(e) == {i \in 0..(count - 1) : table[i].ep = e}
First(S)  == CHOOSE i \in S : \A j \in S : i <= j

-----------------------------------------------------------------------------

Goto(t, l) == pc' = [pc EXCEPT ![t] = l]

Done(t) ==
    /\ Goto(t, "idle")
    /\ dev' = [dev EXCEPT ![t] = NoDevice]
    /\ row' = [row EXCEPT ![t] = 0]
    /\ ep'  = [ep EXCEPT ![t] = 0]

\* A device is between the look-up that did not find it and its row's being
\* counted.
Registering(t) == pc[t] \in {"register", "create", "count", "increment"}

\* t registers while another task does, or before the SDK is started.
OutOfTurn(t) == ~Started \/ \E u \in Tasks \ {t} : Registering(u)

\* Mutant of report_event: known devices are not looked up.
report_event_NoLookup(t) ==
    /\ t \in Reporters
    /\ pc[t] = "idle"
    /\ EarlyEvents \/ boot = "done"
    /\ \E d \in Devices : dev' = [dev EXCEPT ![t] = d]
    /\ Goto(t, "register")
    /\ raced' = (raced \/ OutOfTurn(t))
    /\ UNCHANGED <<table, count, boot, sdk, row, ep, seen, sentTo, madeFor>>

\* matter_bridge_report_event, part 1: the device is looked up.
report_event(t) ==
    /\ t \in Reporters
    /\ pc[t] = "idle"
    /\ EarlyEvents \/ boot = "done"
    /\ \E d \in Devices :
         /\ dev' = [dev EXCEPT ![t] = d]
         /\ \/ /\ RowsOf(d) # {}
               /\ row' = [row EXCEPT ![t] = First(RowsOf(d))]
               /\ Goto(t, "update")
               /\ UNCHANGED raced
            \/ /\ RowsOf(d) = {}
               /\ Goto(t, "register")
               /\ raced' = (raced \/ OutOfTurn(t))
               /\ UNCHANGED row
    /\ UNCHANGED <<table, count, boot, sdk, ep, seen, sentTo, madeFor>>

\* Mutant of register: off by one in the test for a full table.
register_OffByOne(t) ==
    /\ pc[t] = "register"
    /\ IF count > MAX_ENDPOINTS
         THEN Done(t) /\ UNCHANGED table
         ELSE /\ row' = [row EXCEPT ![t] = count]
              /\ table' = [table EXCEPT ![count].id = dev[t]]
              /\ Goto(t, "create")
              /\ UNCHANGED <<dev, ep>>
    /\ UNCHANGED <<count, boot, sdk, seen, sentTo, madeFor, raced>>

\* Part 2: an unknown device gets the next row, if there is one.
register(t) ==
    /\ pc[t] = "register"
    /\ IF count >= MAX_ENDPOINTS
         THEN Done(t) /\ UNCHANGED table
         ELSE /\ row' = [row EXCEPT ![t] = count]
              /\ table' = [table EXCEPT ![count].id = dev[t]]
              /\ Goto(t, "create")
              /\ UNCHANGED <<dev, ep>>
    /\ UNCHANGED <<count, boot, sdk, seen, sentTo, madeFor, raced>>

\* Mutant of create_endpoint: the SDK does not count what it has created.
create_endpoint_Uncounted(t) ==
    /\ pc[t] = "create"
    /\ IF ~Node \/ dev[t] \in Untyped \/ created >= SdkEndpoints
         THEN ep' = [ep EXCEPT ![t] = Failed] /\ UNCHANGED <<sdk, madeFor>>
         ELSE /\ nextEp <= MaxEp
              /\ ep' = [ep EXCEPT ![t] = nextEp]
              /\ nextEp' = nextEp + 1
              /\ storedEp' = IF Started THEN nextEp + 1 ELSE storedEp
              /\ UNCHANGED created
              /\ madeFor' = [madeFor EXCEPT ![nextEp] = dev[t]]
    /\ Goto(t, "count")
    /\ UNCHANGED <<table, count, boot, dev, row, seen, sentTo, raced>>

\* matter_interface_create_endpoint, with the SDK's endpoint::create.
create_endpoint(t) ==
    /\ pc[t] = "create"
    /\ IF ~Node \/ dev[t] \in Untyped \/ created >= SdkEndpoints
         THEN ep' = [ep EXCEPT ![t] = Failed] /\ UNCHANGED <<sdk, madeFor>>
         ELSE /\ nextEp <= MaxEp
              /\ ep' = [ep EXCEPT ![t] = nextEp]
              /\ nextEp' = nextEp + 1
              /\ storedEp' = IF Started THEN nextEp + 1 ELSE storedEp
              /\ created' = created + 1
              /\ madeFor' = [madeFor EXCEPT ![nextEp] = dev[t]]
    /\ Goto(t, "count")
    /\ UNCHANGED <<table, count, boot, dev, row, seen, sentTo, raced>>

\* Back in matter_bridge_report_event: the row counts if the endpoint exists.
count_device(t) ==
    /\ pc[t] = "count"
    /\ table' = [table EXCEPT ![row[t]].ep = ep[t]]
    /\ IF ep[t] # Failed
         THEN /\ seen' = [seen EXCEPT ![t] = count]
              /\ Goto(t, "increment")
              /\ UNCHANGED <<dev, row, ep>>
         ELSE Done(t) /\ UNCHANGED seen
    /\ UNCHANGED <<count, boot, sdk, sentTo, madeFor, raced>>

\* device_count++ is a load and a store; a task of higher priority may have
\* registered a device in between.
increment(t) ==
    /\ pc[t] = "increment"
    /\ count' = seen[t] + 1
    /\ seen' = [seen EXCEPT ![t] = 0]
    /\ Goto(t, "update")
    /\ UNCHANGED <<table, boot, sdk, dev, row, ep, sentTo, madeFor, raced>>

\* Part 3: matter_interface_update_attribute.  The SDK calls
\* app_attribute_update_cb before it updates an on/off attribute, and that
\* runs the command callback for the device just heard, in this task.
update_attribute(t) ==
    /\ pc[t] = "update"
    /\ IF dev[t] \in Switches /\ Callback /\ table[row[t]].ep # Failed
         THEN /\ ep' = [ep EXCEPT ![t] = table[row[t]].ep]
              /\ dev' = [dev EXCEPT ![t] = NoDevice]
              /\ row' = [row EXCEPT ![t] = 0]
              /\ Goto(t, "command")
         ELSE Done(t)
    /\ UNCHANGED <<table, count, boot, sdk, seen, sentTo, madeFor, raced>>

\* A controller writes an attribute, or command MC names an endpoint.
simulate_command(t) ==
    /\ t \in Commanders
    /\ pc[t] = "idle"
    /\ Callback
    /\ \E e \in Eps : ep' = [ep EXCEPT ![t] = e]
    /\ Goto(t, "command")
    /\ UNCHANGED <<table, count, boot, sdk, dev, row, seen, sentTo, madeFor, raced>>

\* matter_bridge_command_cb: the row is looked up...
command_cb(t) ==
    /\ pc[t] = "command"
    /\ IF RowsAt(ep[t]) = {}
         THEN Done(t)
         ELSE /\ row' = [row EXCEPT ![t] = First(RowsAt(ep[t]))]
              /\ Goto(t, "transmit")
              /\ UNCHANGED <<dev, ep>>
    /\ UNCHANGED <<table, count, boot, sdk, seen, sentTo, madeFor, raced>>

\* Mutant of transmit: the row used is the latest, not the one looked up.
transmit_Latest(t) ==
    /\ pc[t] = "transmit"
    /\ sentTo' = [ep |-> ep[t], id |-> table[count - 1].id]
    /\ Done(t)
    /\ UNCHANGED <<table, count, boot, sdk, seen, madeFor, raced>>

\* ... and the rf_id found there is transmitted to.
transmit(t) ==
    /\ pc[t] = "transmit"
    /\ sentTo' = [ep |-> ep[t], id |-> table[row[t]].id]
    /\ Done(t)
    /\ UNCHANGED <<table, count, boot, sdk, seen, madeFor, raced>>

-----------------------------------------------------------------------------
(* matter_bridge_init in app_main, and the restart.                         *)

init_memset ==
    /\ boot = "memset"
    /\ table' = Zeroed
    /\ boot' = "node"
    /\ UNCHANGED <<count, sdk, pc, dev, row, ep, seen, sentTo, madeFor, raced>>

\* node::create and aggregator::create take the numbers 0 and 1.
init_node ==
    /\ boot = "node"
    /\ nextEp' = 2
    /\ boot' = "start"
    /\ UNCHANGED <<table, count, storedEp, created, pc, dev, row, ep, seen, sentTo, madeFor, raced>>

\* esp_matter::start reads the next number from NVS, or stores its own.
init_start ==
    /\ boot = "start"
    /\ nextEp' = IF storedEp = 0 THEN nextEp ELSE storedEp
    /\ storedEp' = nextEp'
    /\ boot' = "callback"
    /\ UNCHANGED <<table, count, created, pc, dev, row, ep, seen, sentTo, madeFor, raced>>

register_command_cb ==
    /\ boot = "callback"
    /\ boot' = "done"
    /\ UNCHANGED <<table, count, sdk, pc, dev, row, ep, seen, sentTo, madeFor, raced>>

\* Everything but NVS is lost.
Restart ==
    /\ MayRestart
    /\ table' = Zeroed
    /\ count' = 0
    /\ boot' = "memset"
    /\ nextEp' = 0
    /\ created' = 0
    /\ pc' = [t \in Tasks |-> "idle"]
    /\ dev' = [t \in Tasks |-> NoDevice]
    /\ row' = [t \in Tasks |-> 0]
    /\ ep' = [t \in Tasks |-> 0]
    /\ seen' = [t \in Tasks |-> 0]
    /\ UNCHANGED <<storedEp, sentTo, madeFor, raced>>

Init ==
    /\ table = Zeroed
    /\ count = 0
    /\ boot = "memset"
    /\ nextEp = 0
    /\ storedEp = 0
    /\ created = 0
    /\ pc = [t \in Tasks |-> "idle"]
    /\ dev = [t \in Tasks |-> NoDevice]
    /\ row = [t \in Tasks |-> 0]
    /\ ep = [t \in Tasks |-> 0]
    /\ seen = [t \in Tasks |-> 0]
    /\ sentTo = [ep |-> 0, id |-> NoDevice]
    /\ madeFor = [e \in Eps |-> NoDevice]
    /\ raced = FALSE

Next ==
    \/ \E t \in Tasks :
          \/ report_event(t)
          \/ register(t)
          \/ create_endpoint(t)
          \/ count_device(t)
          \/ increment(t)
          \/ update_attribute(t)
          \/ simulate_command(t)
          \/ command_cb(t)
          \/ transmit(t)
    \/ init_memset
    \/ init_node
    \/ init_start
    \/ register_command_cb
    \/ Restart

Spec == Init /\ [][Next]_vars

-----------------------------------------------------------------------------
(* Properties.                                                              *)

\* device_count stays within device_table, so no loop over the table reads
\* past its end, even when several tasks register at once: each increment
\* stands for an endpoint, and the SDK grants fewer endpoints than rows.
CountBounded == count <= MAX_ENDPOINTS

\* Every counted row is whole and the rows are told apart: a device, an
\* endpoint that was created for this very device, and no other row with
\* either of them.  MEMORY.md has it that locking the SDK rules out races of
\* the bridge; device_table has no lock, and is cleared by matter_bridge_init
\* after slowrf_task has been started.
TableConsistent ==
    \A i \in 0..(count - 1) :
        /\ table[i].id # NoDevice
        /\ madeFor[table[i].ep] = table[i].id
        /\ \A j \in 0..(count - 1) :
              i # j => table[i].id # table[j].id /\ table[i].ep # table[j].ep

\* A command is transmitted to the device its endpoint was created for, even
\* when the controller knows the endpoint from before a restart and rows are
\* being added while the command is translated.  Holds with one reporting
\* task and no events before matter_bridge_init is over.
CommandReachesDevice == madeFor[sentTo.ep] = sentTo.id

\* With any number of reporting tasks and events from the start on, the table
\* is consistent as long as no registration began while another was under way
\* or before the SDK was started: a full table, endpoints that could not be
\* created, commands, restarts and events of known devices do no harm.
ConsistentUnlessRaced == ~raced => TableConsistent

\* And so long every command reaches the device of its endpoint.
ReachedUnlessRaced == ~raced => CommandReachesDevice

\* MEMORY.md: a physical device is always given the same Matter endpoint.
SameEndpoint ==
    \A e, f \in Eps : madeFor[e] = madeFor[f] /\ madeFor[e] # NoDevice => e = f

=============================================================================
