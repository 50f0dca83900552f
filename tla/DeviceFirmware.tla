--------------------------- MODULE DeviceFirmware ---------------------------
(***************************************************************************)
(* The ESP32 firmware that drives one relay (hardware/heliobay/main.cpp):  *)
(* the commands it obeys, the safety trips, what it keeps over a power     *)
(* loss, and what it publishes.  Every handler of loop() is one action.    *)
(*                                                                         *)
(* uplink holds what the broker has taken and the backend has not yet, in  *)
(* order; downlink what the broker still has to deliver, which a clean     *)
(* MQTT session forgets when the connection goes.  A connection is "up",   *)
(* "broken" while the firmware has not noticed, or "down".  A QoS 1        *)
(* publish succeeds once the broker has answered, so none succeeds on a    *)
(* broken link.  Periodic status messages are left out: a reading tells    *)
(* the backend the same.                                                   *)
(***************************************************************************)
EXTENDS Integers, Sequences

CONSTANTS
    None,      \* no session, no command
    MaxAt,     \* bound: the device clock runs from 1 to MaxAt
    Leftover,  \* the energies a session before the first may have left in flash
    Backlog    \* bound: messages under way before the device says more

VARIABLES
    relay,         \* relayOn
    active,        \* sessionId: the session it has not reported finished
    energy,        \* energyMWh of that session
    saved,         \* the energy last written to flash
    limit,         \* authorizedEnergyMWh
    completed,     \* completedSession: the last session it reported finished
    last,          \* lastCommand and the answer it was given
    pendingFinal,  \* a final reading is still to be published
    alarm,         \* fault is not empty
    link, downlink, uplink,
    now            \* what time() says

firmware == <<relay, active, energy, saved, limit, completed, last, pendingFinal, alarm, link,
              downlink, uplink, now>>

NoAnswer == [id |-> <<None, 0>>, accepted |-> FALSE]

Init ==
    /\ relay = FALSE /\ active = None /\ limit = 0
    /\ energy \in Leftover /\ saved = energy
    /\ completed = None /\ last = NoAnswer /\ pendingFinal = FALSE /\ alarm = FALSE
    /\ link = "down" /\ downlink = <<>> /\ uplink = <<>> /\ now = 1

-----------------------------------------------------------------------------
(* What it publishes *)

Online == [kind |-> "status", online |-> TRUE]
Will == [kind |-> "status", online |-> FALSE]
SensorFault == [kind |-> "event"]
Measured(sid, on, metered, final, faulty) ==
    [kind |-> "reading", session |-> sid, relay |-> on, energy |-> metered, at |-> now,
     final |-> final, alarm |-> faulty]
Reading(on, final, faulty) == Measured(active, on, energy, final, faulty)
Ack(id, accepted, on, metered) ==
    [kind |-> "ack", id |-> id, accepted |-> accepted, relay |-> on, metered |-> metered]

Room == Len(uplink) < Backlog

\* Mutant of Forget: the finished session is not written down.
ForgetWithoutTrace(published) ==
    IF published THEN active' = None /\ pendingFinal' = FALSE /\ UNCHANGED completed
    ELSE pendingFinal' = TRUE /\ UNCHANGED <<active, completed>>

\* publishTelemetry(true): once published, the session is finished and forgotten.
Forget(published) ==
    IF published THEN active' = None /\ pendingFinal' = FALSE /\ completed' = active
    ELSE pendingFinal' = TRUE /\ UNCHANGED <<active, completed>>

\* stopCharging(): cut, raise the fault, and finish the session if one runs.
StopCharging(before, after) ==
    /\ relay' = FALSE /\ alarm' = TRUE /\ saved' = energy
    /\ IF active = None THEN pendingFinal' = FALSE /\ UNCHANGED <<active, completed>>
       ELSE Forget(link = "up")
    /\ uplink' = IF link # "up" THEN uplink
                 ELSE uplink \o before
                        \o (IF active = None THEN <<>> ELSE <<Reading(FALSE, TRUE, TRUE)>>)
                        \o after

-----------------------------------------------------------------------------
(* processCommand() *)

\* A command that does not parse, is retained, badly signed or for someone else.
Invalid ==
    /\ link = "up" /\ Room
    /\ StopCharging(<<>>, <<>>)
    /\ UNCHANGED <<energy, limit, last, link, downlink, now>>

Received(c) ==
    /\ downlink # <<>> /\ c = Head(downlink) /\ downlink' = Tail(downlink)
    /\ link = "up" /\ Room
    /\ UNCHANGED <<link, now>>

\* The answer of the last command is repeated, with the relay as it is now.
Repeat(c) ==
    /\ Received(c) /\ c.id = last.id
    /\ uplink' = Append(uplink, Ack(c.id, last.accepted, relay, energy > 0))
    /\ UNCHANGED <<relay, active, energy, saved, limit, completed, last, pendingFinal, alarm>>

Startable(c, plug) == plug /\ active = None /\ c.session # completed

Admissible(c, expired, plug) ==
    /\ ~expired
    /\ CASE c.type = "START" -> Startable(c, plug)
         [] c.type = "STOP"  -> active # None /\ c.session = active
         [] OTHER            -> ~relay /\ active = None

\* Every refusal cuts the relay, whatever session runs.
Reject(c, expired, plug) ==
    /\ Received(c) /\ c.id # last.id /\ ~Admissible(c, expired, plug)
    /\ StopCharging(<<>>, <<Ack(c.id, FALSE, FALSE, energy > 0)>>)
    /\ last' = [id |-> c.id, accepted |-> FALSE]
    /\ UNCHANGED <<energy, limit>>

Accept(c, type, expired, plug) ==
    /\ Received(c) /\ c.type = type /\ c.id # last.id /\ Admissible(c, expired, plug)
    /\ last' = [id |-> c.id, accepted |-> TRUE]

AcceptStart(c, expired, plug) ==
    /\ Accept(c, "START", expired, plug)
    /\ active' = c.session /\ energy' = 0 /\ saved' = 0 /\ limit' = c.limit
    /\ relay' = TRUE /\ alarm' = FALSE
    /\ uplink' = uplink \o <<Ack(c.id, TRUE, TRUE, FALSE),
                             Measured(c.session, TRUE, 0, FALSE, FALSE)>>
    /\ UNCHANGED <<completed, pendingFinal>>

\* STOP and EMERGENCY_STOP are one command here; the second raises the fault.
AcceptStop(c, expired, emergency) ==
    /\ Accept(c, "STOP", expired, FALSE)
    /\ relay' = FALSE /\ saved' = energy /\ alarm' = emergency
    /\ Forget(TRUE)
    /\ uplink' = uplink \o <<Ack(c.id, TRUE, FALSE, energy > 0),
                             Reading(FALSE, TRUE, emergency)>>
    /\ UNCHANGED <<energy, limit>>

AcceptTest(c, expired) ==
    /\ Accept(c, "TEST", expired, FALSE)
    /\ uplink' = Append(uplink, Ack(c.id, TRUE, FALSE, energy > 0))
    /\ UNCHANGED <<relay, active, energy, saved, limit, completed, pendingFinal, alarm>>

-----------------------------------------------------------------------------
(* loop(): measure, trip, report, persist *)

Deliver ==
    /\ relay /\ energy < limit
    /\ energy' = energy + 1
    /\ UNCHANGED <<relay, active, saved, limit, completed, last, pendingFinal, alarm, link,
                   downlink, uplink, now>>

Tick ==
    /\ now < MaxAt /\ now' = now + 1
    /\ UNCHANGED <<relay, active, energy, saved, limit, completed, last, pendingFinal, alarm,
                   link, downlink, uplink>>

Telemetry ==
    /\ link = "up" /\ Room
    /\ uplink' = Append(uplink, Reading(relay, FALSE, alarm))
    /\ UNCHANGED <<relay, active, energy, saved, limit, completed, last, pendingFinal, alarm,
                   link, downlink, now>>

\* safety(): a sensor, voltage or current trip is also sent as an event.
Trip(event) ==
    /\ relay /\ Room
    /\ StopCharging(IF event THEN <<SensorFault>> ELSE <<>>, <<>>)
    /\ UNCHANGED <<energy, limit, last, link, downlink, now>>

\* Every 30 seconds the running session is written to flash.
Persist ==
    /\ active # None /\ saved # energy
    /\ saved' = energy
    /\ UNCHANGED <<relay, active, energy, limit, completed, last, pendingFinal, alarm, link,
                   downlink, uplink, now>>

-----------------------------------------------------------------------------
(* Connections and power *)

\* The broker tells the backend, and forgets what it had for the device.
Break ==
    /\ link = "up" /\ Room
    /\ link' = "broken" /\ downlink' = <<>> /\ uplink' = Append(uplink, Will)
    /\ UNCHANGED <<relay, active, energy, saved, limit, completed, last, pendingFinal, alarm, now>>

NoticeLoss ==
    /\ link = "broken" /\ link' = "down"
    /\ IF relay \/ active # None THEN StopCharging(<<>>, <<>>)
       ELSE UNCHANGED <<relay, active, saved, completed, pendingFinal, alarm, uplink>>
    /\ UNCHANGED <<energy, limit, last, downlink, now>>

\* connectBroker(): the pending final reading goes out before the fault is cleared.
Connect ==
    /\ link = "down" /\ Room
    /\ link' = "up" /\ alarm' = FALSE
    /\ IF active # None
       THEN Forget(TRUE) /\ uplink' = uplink \o <<Online, Reading(FALSE, TRUE, TRUE)>>
       ELSE UNCHANGED <<active, completed, pendingFinal>> /\ uplink' = Append(uplink, Online)
    /\ UNCHANGED <<relay, energy, saved, limit, last, downlink, now>>

\* Mutant of Reboot: the relay keeps its state over the reset.
RebootEnergised ==
    /\ energy' = saved /\ alarm' = FALSE /\ link' = "down" /\ downlink' = <<>>
    /\ pendingFinal' = (pendingFinal \/ active # None)
    /\ UNCHANGED <<relay, active, saved, limit, completed, now>>

\* setup(): the relay is off before anything else, the rest comes from flash.
Reboot ==
    /\ relay' = FALSE
    /\ energy' = saved /\ alarm' = FALSE /\ link' = "down" /\ downlink' = <<>>
    /\ pendingFinal' = (pendingFinal \/ active # None)
    /\ UNCHANGED <<active, saved, limit, completed, now>>

PowerLoss ==
    /\ Room /\ Reboot
    /\ uplink' = IF link = "up" THEN Append(uplink, Will) ELSE uplink
    /\ UNCHANGED last

AcceptRestart(c, expired) ==
    /\ downlink # <<>> /\ c = Head(downlink) /\ link = "up" /\ Room
    /\ c.type = "RESTART" /\ c.id # last.id /\ Admissible(c, expired, FALSE)
    /\ last' = [id |-> c.id, accepted |-> TRUE]
    /\ Reboot
    /\ uplink' = uplink \o <<Ack(c.id, TRUE, FALSE, energy > 0), Will>>

Obey(c, expired, plug) ==
    \/ Repeat(c)
    \/ Reject(c, expired, plug)
    \/ AcceptStart(c, expired, plug)
    \/ \E emergency \in BOOLEAN : AcceptStop(c, expired, emergency)
    \/ AcceptTest(c, expired)
    \/ AcceptRestart(c, expired)

Run ==
    \/ Invalid \/ Deliver \/ Tick \/ Telemetry \/ Persist
    \/ \E event \in BOOLEAN : Trip(event)
    \/ Break \/ NoticeLoss \/ Connect \/ PowerLoss
=============================================================================
