--------------------------- MODULE Administration ---------------------------
(***************************************************************************)
(* What an administrator or an owner may change while a car charges        *)
(* (modules/admin, modules/users).  AdminService and UserService run       *)
(* Serializable transactions; the routes of iotAdminRoutes and the start   *)
(* of a session run Read Committed ones that lock their rows first.        *)
(*                                                                         *)
(* PostgreSQL orders the Serializable transactions among themselves, so    *)
(* one of them at a time is enough.  It reads the snapshot taken by its    *)
(* first statement, before it waits for a lock, and fails if a row it      *)
(* writes was written since; a row that was only locked is no reason to    *)
(* fail.  A transaction that locks first is one action.                    *)
(*                                                                         *)
(* One user, vehicle, station, device and bay.                             *)
(***************************************************************************)
EXTENDS Integers, FiniteSets

CONSTANTS
    Keys,        \* idempotency keys of the routes
    MaxApplied,  \* bound: operations of the routes
    NoChange     \* nothing under way

VARIABLES
    userStatus,      \* User.status
    session,      \* a session is open
    hardware,     \* [home: the device is the station's, primary, bay: the bay exists]
    used,         \* there has been a session
    changed,      \* history: what has changed since the session began
    applied,      \* history: how often a route has been carried out
    change,       \* the Serializable transaction under way
    fault,        \* Fault.status: "NONE", "OPEN", "ACKNOWLEDGED" or "RESOLVED"
    acknowledging,\* the fault an acknowledgement has read
    audit         \* idempotency key and operation of the routes' AuditLog rows

admin == <<userStatus, session, hardware, used, changed, applied, change, fault, acknowledging, audit>>

Operations == {"deactivate", "activate", "station", "primary", "bay", "create bay", "delete bay",
               "device", "move device", "vehicle", "delete vehicle"}
Routes == {"thresholds", "relay", "assignment"}
Things == {"station", "device", "bay", "vehicle", "thresholds", "relay"}

RowOf(op) ==
    CASE op \in {"deactivate", "activate"} -> "User"
      [] op \in {"station", "primary"} -> "Station"
      [] op \in {"device", "move device"} -> "Device"
      [] op \in {"vehicle", "delete vehicle"} -> "Vehicle"
      [] OTHER -> "Bay"

Init ==
    /\ userStatus = "ACTIVE" /\ session = FALSE /\ fault = "NONE"
    /\ hardware = [home |-> TRUE, primary |-> TRUE, bay |-> TRUE]
    /\ used = FALSE /\ changed = {} /\ applied = 0 /\ change = NoChange
    /\ acknowledging = "NONE" /\ audit = {}

\* Another transaction has written a row the Serializable one may want to write.
Wrote(row) ==
    change' = IF change = NoChange THEN change ELSE [change EXCEPT !.written = @ \cup {row}]

\* The composite foreign keys, checked at commit.
Hierarchy(h) == (h.primary => h.home) /\ (h.bay => h.primary)

Edit(thing) == changed' = IF session THEN changed \cup {thing} ELSE changed

-----------------------------------------------------------------------------
(* A session begins and ends *)

\* Mutant of Start: the row of the bay is only locked.
StartUnwritten ==
    /\ userStatus = "ACTIVE" /\ ~session /\ hardware.bay /\ fault \in {"NONE", "RESOLVED"}
    /\ session' = TRUE /\ used' = TRUE /\ changed' = {}
    /\ UNCHANGED <<userStatus, hardware, applied, fault, acknowledging, audit, change>>

\* start(): it locks User, Device, Station, Tariff and Bay, and writes the Bay alone.
Start ==
    /\ userStatus = "ACTIVE" /\ ~session /\ hardware.bay /\ fault \in {"NONE", "RESOLVED"}
    /\ session' = TRUE /\ used' = TRUE /\ changed' = {}
    /\ Wrote("Bay")
    /\ UNCHANGED <<userStatus, hardware, applied, fault, acknowledging, audit>>

Finish ==
    /\ session /\ session' = FALSE
    /\ Wrote("Bay")
    /\ UNCHANGED <<userStatus, hardware, used, changed, applied, fault, acknowledging, audit>>

RaiseFault ==
    /\ fault \in {"NONE", "RESOLVED"} /\ fault' = "OPEN"
    /\ Wrote("Bay")
    /\ UNCHANGED <<userStatus, session, hardware, used, changed, applied, acknowledging, audit>>

-----------------------------------------------------------------------------
(* AdminService.changeUser, AdminService.mutate, UserService.mutateVehicle *)

Begin(op) ==
    /\ change = NoChange
    /\ change' = [op |-> op, active |-> session, hardware |-> hardware, written |-> {}]
    /\ UNCHANGED <<userStatus, session, hardware, used, changed, applied, fault, acknowledging, audit>>

\* A session is looked for in the snapshot; an account may always be activated.
Refused == change.active /\ change.op \notin {"activate", "create bay"}

\* What was a session's is kept by its foreign keys.
Deletable == ~used

Applied(op) ==
    LET h == change.hardware
    IN  CASE op \in {"deactivate", "activate"} ->
                 /\ userStatus' = IF op = "activate" THEN "ACTIVE" ELSE "BLOCKED"
                 /\ UNCHANGED <<hardware, changed>>
          [] op \in Things -> Edit(op) /\ (op = "bay" => h.bay) /\ UNCHANGED <<userStatus, hardware>>
          [] op = "primary" ->
                 /\ ~h.bay /\ (h.primary \/ h.home)
                 /\ hardware' = [hardware EXCEPT !.primary = ~h.primary]
                 /\ UNCHANGED <<userStatus, changed>>
          [] op = "move device" ->
                 /\ ~h.bay /\ ~h.primary
                 /\ hardware' = [hardware EXCEPT !.home = ~h.home]
                 /\ UNCHANGED <<userStatus, changed>>
          [] op = "create bay" ->
                 /\ ~h.bay /\ h.home /\ h.primary
                 /\ hardware' = [hardware EXCEPT !.bay = TRUE] /\ UNCHANGED <<userStatus, changed>>
          [] op = "delete bay" ->
                 /\ h.bay /\ Deletable
                 /\ hardware' = [hardware EXCEPT !.bay = FALSE] /\ UNCHANGED <<userStatus, changed>>
          [] op = "delete vehicle" -> Deletable /\ Edit("vehicle") /\ UNCHANGED <<userStatus, hardware>>

\* It commits, or fails for any of the reasons above.
Commit ==
    /\ change # NoChange /\ ~Refused /\ RowOf(change.op) \notin change.written
    /\ Applied(change.op) /\ Hierarchy(hardware')
    /\ change' = NoChange
    /\ UNCHANGED <<session, used, applied, fault, acknowledging, audit>>

RollBack ==
    /\ change # NoChange /\ change' = NoChange
    /\ UNCHANGED <<userStatus, session, hardware, used, changed, applied, fault, acknowledging, audit>>

-----------------------------------------------------------------------------
(* iotAdminRoutes: idempotent by key, one administrator at a time *)

\* Mutant of Fresh: the audit log is not looked at.
FreshUnchecked(key) == key \in Keys

\* A key that was used returns what it returned, or a conflict.
Fresh(key) == \A record \in audit : record.key # key

Record(key, op) ==
    /\ applied < MaxApplied /\ applied' = applied + 1
    /\ audit' = audit \cup {[key |-> key, op |-> op]}

\* Thresholds of the device and the channel of the bay, under the lock of the device.
Configure(key, op) ==
    /\ Fresh(key) /\ Record(key, op)
    /\ ~session /\ (op = "relay" => hardware.bay)
    /\ Edit(op) /\ Wrote(IF op = "relay" THEN "Bay" ELSE "Device")
    /\ UNCHANGED <<userStatus, session, hardware, used, fault, acknowledging>>

Assign(key) ==
    /\ Fresh(key) /\ Record(key, "assignment")
    /\ ~session /\ ~hardware.bay /\ ~hardware.primary
    /\ hardware' = [hardware EXCEPT !.home = ~@]
    /\ Wrote("Device")
    /\ UNCHANGED <<userStatus, session, used, changed, fault, acknowledging>>

\* The acknowledgement reads the fault without a lock, and writes it later.
ReadFault ==
    /\ acknowledging = "NONE" /\ fault \in {"OPEN", "ACKNOWLEDGED"}
    /\ acknowledging' = fault
    /\ UNCHANGED <<userStatus, session, hardware, used, changed, applied, change, fault, audit>>

Acknowledge ==
    /\ acknowledging # "NONE" /\ acknowledging' = "NONE"
    /\ fault' = IF acknowledging = "OPEN" THEN "ACKNOWLEDGED" ELSE fault
    /\ UNCHANGED <<userStatus, session, hardware, used, changed, applied, change, audit>>

Resolve ==
    /\ fault # "NONE" /\ ~session /\ fault' = "RESOLVED"
    /\ UNCHANGED <<userStatus, session, hardware, used, changed, applied, change, acknowledging, audit>>

Next ==
    \/ Start \/ Finish \/ RaiseFault
    \/ (\E op \in Operations : Begin(op)) \/ Commit \/ RollBack
    \/ \E key \in Keys : Assign(key) \/ \E op \in {"thresholds", "relay"} : Configure(key, op)
    \/ ReadFault \/ Acknowledge \/ Resolve

Spec == Init /\ [][Next]_admin

-----------------------------------------------------------------------------
\* While a car charges, its bay, the channel of its relay and the limits of its device
\* are those its session began with, however the transactions interleave.
HardwareStands == session => changed \cap {"bay", "relay", "thresholds"} = {}

\* A request that is sent again is not carried out again.
AppliedOnce == applied <= Cardinality({record.key : record \in audit})

\* service.ts: "An operator must stop and reconcile physical charging before account
\* deactivation."  So no session is open on an account that is not active.
DeactivationWaits == userStatus # "ACTIVE" => ~session
=============================================================================
