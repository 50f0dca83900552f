--------------------------- MODULE ChargingSystem ---------------------------
(***************************************************************************)
(* The charging engine and one controller of the firmware's make, joined   *)
(* by the broker.  The engine's device is no longer free: it answers and   *)
(* reports what DeviceFirmware publishes, in that order, through the       *)
(* ingress and its inbox.  What is under way may be resent, delayed, or    *)
(* lost with a connection, either side may restart, and a message that     *)
(* waited too long is dropped by the ingress.                              *)
(***************************************************************************)
EXTENDS ChargingEngine, Sequences

CONSTANTS None, Backlog, Leftover

\* The controller drives one bay; ids of maintenance commands are not those of sessions.
ASSUME SystemAssumption ==
    /\ \E b \in Bays : Bays = {b}
    /\ None \notin Sessions /\ {"TEST", "RESTART"} \cap Sessions = {}
    /\ Leftover \subseteq Nat

VARIABLES relay, active, energy, saved, limit, completed, last, pendingFinal, alarm, link,
          downlink, uplink, now,
          inbox,    \* DeviceInbox rows, oldest first
          started   \* history: the relay has been switched on for a session

Fw == INSTANCE DeviceFirmware

controller == <<relay, active, energy, saved, limit, completed, last, pendingFinal, alarm, link,
                downlink, uplink, now>>

system == <<vars, controller, inbox, started>>

SystemInit ==
    /\ Init /\ Fw!Init
    /\ inbox = <<>> /\ started = [s \in Sessions |-> FALSE]

Parked == UNCHANGED <<controller, inbox, started>>

-----------------------------------------------------------------------------
(* Commands go down *)

Room == Len(downlink) < Backlog

\* dispatch() publishes what is pending every two seconds until it expires.
Publish(s, k) ==
    /\ command[s][k].status = "PENDING" /\ command[s][k].age = 0 /\ Room
    /\ \/ Dispatch(s, k)
       \/ command[s][k].sent /\ UNCHANGED vars
    /\ downlink' = IF link = "up"
                   THEN Append(downlink, [id |-> <<s, k>>, session |-> s,
                                          type |-> IF k = 0 THEN "START" ELSE "STOP",
                                          limit |-> MaxEnergyOf(session[s].reserved)])
                   ELSE downlink

\* An administrator's TEST or RESTART: refused while the controller has a session.
Maintain(d, type) ==
    /\ device[d] = "ONLINE" /\ link = "up" /\ downlink = <<>>
    /\ \A s \in Sessions : Open(s) => DeviceOf[session[s].bay] # d
    /\ downlink' = <<[id |-> <<type, 0>>, session |-> None, type |-> type, limit |-> 0]>>
    /\ UNCHANGED vars

\* The controller reads the next command; its clock agrees with the backend's.
Expired(c) ==
    \E s \in Sessions : \E k \in CommandIds : c.id = <<s, k>> /\ command[s][k].age > 0

Obey ==
    /\ downlink # <<>>
    /\ LET c == Head(downlink)
       IN  \E plug \in BOOLEAN : Fw!Obey(c, Expired(c), plug)
    /\ started' = [s \in Sessions |-> started[s] \/ (active' = s /\ active # s)]
    /\ UNCHANGED <<vars, inbox>>

-----------------------------------------------------------------------------
(* Messages come up: the ingress first, then the engine from the inbox *)

Unchanged == UNCHANGED <<relay, active, energy, saved, limit, completed, last, pendingFinal,
                         alarm, link, downlink, now, started>>

\* Which message the ingress turns away: one that was under way for too long.
Ingest(d, b, stale) ==
    LET m == Head(uplink)
    IN  /\ uplink # <<>> /\ Len(inbox) < Backlog
        /\ uplink' = Tail(uplink)
        /\ \/ /\ stale /\ m.kind # "status"
              /\ inbox' = inbox /\ UNCHANGED vars
           \/ /\ ~stale /\ m.kind = "status" /\ inbox' = inbox
              /\ IF m.online THEN Heartbeat(d) ELSE LastWill(d)
           \/ /\ ~stale /\ m.kind \in {"ack", "event"} /\ inbox' = Append(inbox, m)
              /\ Heartbeat(d)
           \/ /\ ~stale /\ m.kind = "reading" /\ inbox' = Append(inbox, m)
              /\ \E plug \in BOOLEAN : Report(b, plug, TRUE, m.alarm \/ m.relay)
        /\ Unchanged

Answered(m) ==
    \E s \in Sessions, k \in CommandIds :
        /\ m.id = <<s, k>>
        /\ \/ k = 0 /\ ~m.accepted /\ ~m.relay /\ ~m.metered /\ StartRefused(s)
           \/ k = 0 /\ m.accepted /\ m.relay /\ StartAccepted(s)
           \/ k = 0 /\ StartUnclear(s, m.accepted, m.relay, m.metered)
           \/ StopAnswered(s, k, m.accepted)

NoAnswerDue(m) ==
    /\ handling = NoOne
    /\ \A s \in Sessions, k \in CommandIds : m.id = <<s, k>> => ~Answerable(s, k)
    /\ UNCHANGED vars

\* What is wrong with a reading on its face; the plug and the limits are the engine's.
Unsafe(m) == m.alarm \/ (m.session = None /\ m.relay)
Names(m, s) == m.session = s
Stray(m, s) == Open(s) /\ ~Names(m, s) /\ (m.relay \/ session[s].status = "CHARGING")

Applied(m, b) ==
    \/ \E s \in Sessions :
        \/ Stray(m, s) /\ StrayReading(s, m.session # None, m.relay, m.alarm, TRUE)
        \/ /\ Names(m, s)
           /\ \/ ImplausibleReading(s, m.energy, m.at, m.final, FALSE, m.alarm)
              \/ \E trouble \in Troubles \ {"offline"} :
                  /\ (trouble = "unsafe") <=> m.alarm
                  /\ \/ RunningReading(s, m.energy, m.at, m.relay, m.final, trouble)
                     \/ m.final /\ FinalReading(s, m.energy, m.at, trouble)
    \/ /\ \A s \in Sessions :
              /\ ~Stray(m, s)
              /\ Names(m, s) => ~Open(s) \/ ~InOrder(s, m.at, m.final)
       /\ IF Unsafe(m) THEN IgnoredReading(b) ELSE handling = NoOne /\ UNCHANGED vars

\* drain(): the oldest row, deleted once it is handled.
Handle1(b) ==
    LET m == Head(inbox)
    IN  /\ inbox # <<>>
        /\ \/ /\ m.kind = "ack" /\ (Answered(m) \/ NoAnswerDue(m)) /\ inbox' = Tail(inbox)
           \/ /\ m.kind = "event" /\ HandleFault(b, "event") /\ inbox' = inbox
           \/ /\ m.kind = "event" /\ EventStop(b, "SAFETY_FAULT") /\ inbox' = Tail(inbox)
           \/ /\ m.kind = "reading" /\ Unsafe(m) /\ HandleFault(b, "telemetry") /\ inbox' = inbox
           \/ /\ m.kind = "reading" /\ Applied(m, b) /\ inbox' = Tail(inbox)
        /\ Unchanged /\ UNCHANGED uplink

-----------------------------------------------------------------------------
(* The steps of the two sides on their own *)

Backend ==
    /\ \/ \E s \in Sessions : (\E b \in Bays : Start(s, b)) \/ StopRequest(s) \/ Reconcile(s)
       \/ SweepLists \/ SweepRows \/ TimeOuts \/ Restart \/ Clock
       \/ \E b \in Bays : ResolveFault(b)
    /\ Parked

Controller == Fw!Run /\ UNCHANGED <<vars, inbox, started>>

SystemNext ==
    \/ Backend \/ Controller \/ Obey
    \/ /\ \/ \E s \in Sessions, k \in CommandIds : Publish(s, k)
          \/ \E b \in Bays, type \in {"TEST", "RESTART"} : Maintain(DeviceOf[b], type)
       /\ UNCHANGED <<relay, active, energy, saved, limit, completed, last, pendingFinal, alarm,
                      link, uplink, now, inbox, started>>
    \/ \E b \in Bays, stale \in BOOLEAN : Ingest(DeviceOf[b], b, stale)
    \/ \E b \in Bays : Handle1(b)

SystemSpec == SystemInit /\ [][SystemNext]_system

-----------------------------------------------------------------------------
\* Power flows only on credit that is held: whatever is resent, refused, lost or
\* restarted, the relay is on only for the open session that its START named.
PowerIsPaidFor == relay => active \in Sessions /\ hold[active] = "HELD"

\* The condition under which that holds for any number of sessions (the run of Replayed
\* shows what happens without): once a second session has been started, a command the
\* controller reads, other than the one it answered last, is of no settled session.
ReadsCurrent ==
    [][Obey => LET c == Head(downlink)
               IN  c.session \in Sessions =>
                       \/ Open(c.session) \/ c.id = last.id
                       \/ \A s \in Sessions : session[s].status # "NONE" => s = c.session]_system

Contract == INSTANCE RelayContract WITH
    on <- IF relay THEN active ELSE None,
    used <- {s \in Sessions : started[s]}

\* MQTT-PROTOCOL.md: "Never reset delivered energy or re-energize a completed session
\* when START is replayed".  Whatever the broker loses, delays or repeats, and whenever
\* power fails, the relay is on once for a session and for one session at a time.
KeepsRelayContract == Contract!Spec

\* MQTT-PROTOCOL.md: "Never reset delivered energy or re-energize a completed session
\* when START is replayed".  So power is never on for a session that has been settled.
CompletedStaysOff == relay => ~session[active].completed

\* MQTT-PROTOCOL.md: "Preserve and resend the final meter record on
\* reconnect/reconciliation".  So while a session that has run is not settled, its
\* final record is with the device or on its way.
FinalIsPreserved ==
    \A s \in Sessions :
        started[s] /\ Open(s) /\ active # s =>
            \/ \E i \in 1..Len(uplink) : uplink[i].kind = "reading" /\ uplink[i].final
            \/ \E i \in 1..Len(inbox) : inbox[i].kind = "reading" /\ inbox[i].final
=============================================================================
