-------------------------- MODULE SimulatedDevice --------------------------
(***************************************************************************)
(* The simulated controller (modules/simulator): SimulatedDevice.command() *)
(* and step(), and the MQTT client around them, which runs one piece of    *)
(* work at a time, so that each is one action.                             *)
(*                                                                         *)
(* What it emits while the broker is not connected is dropped.  heard is   *)
(* what the backend was last told of the current session.                  *)
(***************************************************************************)
EXTENDS Integers

CONSTANTS
    Sessions, NoSession,
    Commands,     \* the identifiers of the commands the backend may send
    Scenarios,    \* the scenarios explored
    MaxEnergy,    \* the energy a START authorises
    MaxTicks      \* bound: what is counted of the ticks of a session

VARIABLES
    scenario, sessionId, sessions, seen, relayOn, metered, ticks,
    plugged, full, faults, finished,
    connection,   \* "up", "down", or "paused" by the timeout scenario
    heard

sim == <<scenario, sessionId, sessions, seen, relayOn, metered, ticks, plugged, full, faults,
         finished, connection, heard>>

NothingTold == [session |-> NoSession, relay |-> FALSE, energy |-> 0, final |-> FALSE]

Init ==
    /\ scenario \in Scenarios
    /\ sessionId = NoSession /\ sessions = {} /\ seen = {} /\ relayOn = FALSE
    /\ metered = 0 /\ ticks = 0 /\ plugged = FALSE /\ full = FALSE /\ faults = FALSE
    /\ finished = FALSE /\ connection = "down" /\ heard = NothingTold

\* sample(): the state after the step it ends, if the broker is there.
Sample ==
    heard' = IF connection = "up"
             THEN [session |-> sessionId', relay |-> relayOn', energy |-> metered',
                   final |-> finished']
             ELSE heard

-----------------------------------------------------------------------------
(* command() *)

\* Mutant of Startable: a session the simulator has run may start again.
StartableAgain(s) ==
    /\ scenario # "command-failure"
    /\ plugged /\ ~relayOn /\ (sessionId = NoSession \/ finished)

Startable(s) ==
    /\ scenario # "command-failure"
    /\ plugged /\ ~relayOn /\ (sessionId = NoSession \/ finished)
    /\ s \notin sessions

\* A duplicate of an accepted command, or a refused one, is only answered.
Answered(c, accepted) ==
    /\ connection = "up"
    /\ seen' = IF accepted THEN seen \cup {c} ELSE seen
    /\ IF finished' THEN Sample ELSE UNCHANGED heard
    /\ UNCHANGED <<scenario, plugged, full, faults, connection>>

Start(c, s) ==
    /\ c \notin seen /\ Startable(s)
    /\ sessionId' = s /\ sessions' = sessions \cup {s}
    /\ metered' = 0 /\ ticks' = 0 /\ finished' = FALSE /\ relayOn' = TRUE
    /\ Answered(c, TRUE)

\* Mutant of Stop: the relay is cut and the session is not marked finished.
StopUnfinished(c, s) ==
    /\ c \notin seen /\ s = sessionId
    /\ relayOn' = FALSE /\ UNCHANGED <<sessionId, sessions, metered, ticks, finished>>
    /\ Answered(c, TRUE)

\* The session may be null on both sides.
Stop(c, s) ==
    /\ c \notin seen /\ s = sessionId
    /\ relayOn' = FALSE /\ finished' = TRUE
    /\ UNCHANGED <<sessionId, sessions, metered, ticks>>
    /\ Answered(c, TRUE)

\* TEST and RESTART change nothing; refusals and duplicates neither.
Answer(c, accepted) ==
    /\ c \in seen \/ accepted => ~relayOn
    /\ UNCHANGED <<sessionId, sessions, relayOn, metered, ticks, finished>>
    /\ Answered(c, accepted)

Command(c) ==
    \/ \E s \in Sessions : Start(c, s)
    \/ \E s \in Sessions \cup {NoSession} : Stop(c, s)
    \/ \E accepted \in BOOLEAN : Answer(c, accepted)

-----------------------------------------------------------------------------
(* step() *)

\* What the scenario does to a session at its fourth and twelfth tick.
Unplugs == scenario = "unplug" /\ ticks' = 4
Fills == (scenario = "battery-full" /\ ticks' = 4) \/ (scenario = "normal" /\ ticks' >= MaxTicks)
Fails == scenario \in {"sensor-fault", "emergency-stop"} /\ ticks' = 4

\* Nothing is metered while the relay is off; overtime is the duration running out.
Idle ==
    /\ ~relayOn
    /\ plugged' = (plugged \/ sessionId = NoSession)
    /\ UNCHANGED <<relayOn, finished, metered, ticks, full, faults>>

Ends(overtime) == metered' = MaxEnergy \/ overtime \/ ~plugged' \/ full' \/ faults'

Charge(overtime) ==
    /\ relayOn
    /\ ticks' = IF ticks < MaxTicks THEN ticks + 1 ELSE ticks
    /\ metered' \in {e \in {metered, metered + 1} : e <= MaxEnergy}
    /\ plugged' = (plugged /\ ~Unplugs) /\ full' = (full \/ Fills) /\ faults' = (faults \/ Fails)
    /\ relayOn' = ~Ends(overtime) /\ finished' = Ends(overtime)

\* The timeout scenario cuts the connection and does not reconnect.
Step ==
    /\ Idle \/ \E overtime \in BOOLEAN : Charge(overtime)
    /\ UNCHANGED <<scenario, sessionId, sessions, seen>>
    /\ Sample
    /\ connection' = IF scenario = "timeout" /\ ticks' >= 3 THEN "paused" ELSE connection

-----------------------------------------------------------------------------
(* startSimulator() *)

Connect ==
    /\ connection = "down" /\ connection' = "up"
    /\ heard' = [session |-> sessionId, relay |-> relayOn, energy |-> metered, final |-> finished]
    /\ UNCHANGED <<scenario, sessionId, sessions, seen, relayOn, metered, ticks, plugged, full,
                   faults, finished>>

Disconnect ==
    /\ connection = "up" /\ connection' = "down"
    /\ UNCHANGED <<scenario, sessionId, sessions, seen, relayOn, metered, ticks, plugged, full,
                   faults, finished, heard>>

Next == Step \/ Connect \/ Disconnect \/ \E c \in Commands : Command(c)

Spec == Init /\ [][Next]_sim

-----------------------------------------------------------------------------
\* While the broker is there, the backend has been told how a session ended: power off
\* means a final reading of all it was given, whatever command or scenario ended it.
EndIsReported ==
    connection = "up" /\ sessionId # NoSession /\ ~relayOn =>
        heard = [session |-> sessionId, relay |-> FALSE, energy |-> metered, final |-> TRUE]

Contract == INSTANCE RelayContract WITH
    None <- NoSession,
    on <- IF relayOn THEN sessionId ELSE NoSession,
    used <- sessions

\* Whatever is sent again, refused or cut off, power is on once for a session.
KeepsRelayContract == Contract!Spec
=============================================================================
