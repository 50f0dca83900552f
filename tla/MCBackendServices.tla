------------------------- MODULE MCBackendServices -------------------------
(***************************************************************************)
(* The services around the charging engine, one of them at a time: which   *)
(* is chosen at the beginning, and the others stay as they begin.          *)
(***************************************************************************)
EXTENDS Integers, TLC

CONSTANTS Sessions, NoSession, Commands, Scenarios, MaxEnergy, MaxTicks,
          MaxSent, MaxClock, BatchSize,
          MaxEvents, MaxQueue, MaxRooms, MaxRetries, NoAccount,
          Keys, MaxApplied, NoChange,
          MaxCounter, FullPower, MaxDuration, MaxNow, MaxReadings,
          Parts, MaxPower, Latency, Interval, Speed, Authorised,
          Kinds, Choices, MaxIntentions, MaxKeys, MaxCalls

\* What the proofs about the services take for granted.
ASSUME SessionAssumption == NoSession \notin Sessions
ASSUME IngressAssumption == BatchSize \in Nat \ {0} /\ MaxClock \in Nat
ASSUME SampleAssumption == FullPower \in Nat /\ MaxDuration \in Nat
ASSUME MarginAssumption ==
    /\ Parts \in Nat \ {0} /\ Authorised \subseteq Nat
    /\ MaxPower \in Nat /\ Latency \in Nat /\ Interval \in Nat /\ Speed \in Nat

VARIABLES which,
    scenario, sessionId, sessions, seen, relayOn, metered, ticks, plugged, full, faults,
    finished, connection, heard,
    sender, carried, row, inboxRows, working, given,
    client, retries, socket, rooms, work, checked, account, token, verified, events, delivered,
    entitled,
    userStatus, session, hardware, used, changed, applied, change, fault, acknowledging, audit,
    now, counter, sequence, readings, lastSequence, latest, recorded, estimated, first, troubles,
    maxEnergy, spent, powered, sinceReading, stopIn,
    kind, draft, issued, intention, call, effects, answers

simulator == <<scenario, sessionId, sessions, seen, relayOn, metered, ticks, plugged, full,
               faults, finished, connection, heard>>
ingress == <<sender, carried, row, inboxRows, working, given>>
realtime == <<client, retries, socket, rooms, work, checked, account, token, verified, events,
              delivered, entitled>>
admin == <<userStatus, session, hardware, used, changed, applied, change, fault, acknowledging, audit>>
energy == <<now, counter, sequence, readings, lastSequence, latest, recorded, estimated, first, troubles>>
margin == <<maxEnergy, spent, powered, sinceReading, stopIn>>
forms == <<kind, draft, issued, intention, call, effects, answers>>

Simulator == INSTANCE SimulatedDevice
Ingress == INSTANCE DeviceIngress
Sockets == INSTANCE Realtime
Admin == INSTANCE Administration
Energy == INSTANCE StationEnergy
Margins == INSTANCE StoppingMargin
Forms == INSTANCE FormRequests

Services == {"simulator", "ingress", "realtime", "admin", "energy", "margin", "forms"}

\* Where a service may begin in several ways, only the one that is chosen does.
Init ==
    /\ which \in Services
    /\ Simulator!Init /\ Ingress!Init /\ Sockets!Init /\ Admin!Init /\ Energy!Init /\ Margins!Init
    /\ Forms!Init
    /\ which # "simulator" => scenario = "normal"
    /\ which # "realtime" => ~account.admin
    /\ which # "margin" => \A e \in Authorised : maxEnergy <= e
    /\ which # "forms" => kind = "start" /\ draft.choice = CHOOSE c \in Choices : TRUE

Next ==
    /\ UNCHANGED which
    /\ \/ which = "simulator" /\ Simulator!Next
          /\ UNCHANGED <<ingress, realtime, admin, energy, margin, forms>>
       \/ which = "ingress" /\ Ingress!Next
          /\ UNCHANGED <<simulator, realtime, admin, energy, margin, forms>>
       \/ which = "realtime" /\ Sockets!Next
          /\ UNCHANGED <<simulator, ingress, admin, energy, margin, forms>>
       \/ which = "admin" /\ Admin!Next
          /\ UNCHANGED <<simulator, ingress, realtime, energy, margin, forms>>
       \/ which = "energy" /\ Energy!Next
          /\ UNCHANGED <<simulator, ingress, realtime, admin, margin, forms>>
       \/ which = "margin" /\ Margins!Next
          /\ UNCHANGED <<simulator, ingress, realtime, admin, energy, forms>>
       \/ which = "forms" /\ Forms!Next
          /\ UNCHANGED <<simulator, ingress, realtime, admin, energy, margin>>

vars == <<which, simulator, ingress, realtime, admin, energy, margin, forms>>

Spec == Init /\ [][Next]_vars

-----------------------------------------------------------------------------
\* The backend hears how a simulated session ended (SimulatedDevice).
EndIsReported == Simulator!EndIsReported

\* The simulator keeps the contract of a relay (RelayContract).
SimulatorKeepsContract == Simulator!KeepsRelayContract

\* The engine sees a device's messages in order (DeviceIngress).
HandledInOrder == Ingress!HandledInOrder

\* No accepted message is lost (DeviceIngress).
NothingIsLost == Ingress!NothingIsLost

\* An event reaches only who was entitled to it (Realtime).
HeardIsDue == Sockets!HeardIsDue

\* The hardware of a session does not change under it (Administration).
HardwareStands == Admin!HardwareStands

\* A repeated request of an administrator is not carried out again (Administration).
AppliedOnce == Admin!AppliedOnce

\* No owner who is blocked has a session open (Administration).
DeactivationWaits == Admin!DeactivationWaits

\* The samples of a station add up to its counter (StationEnergy).
SamplesAddUp == Energy!SamplesAddUp

\* A stop queued at the margin comes in time (StoppingMargin).
WithinAuthorisation == Margins!WithinAuthorisation

\* What a user intends once takes effect once (FormRequests).
OncePerIntention == Forms!OncePerIntention
=============================================================================
