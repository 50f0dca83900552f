-------------------------- MODULE MCChargingSystem --------------------------
(* One bay of one controller, for one session or for two in turn. *)
EXTENDS ChargingSystem, TLC

CONSTANTS u1, d1, b1, s1, s2

OneUser == {u1}
OneDevice == {d1}
OneBay == {b1}
OneSession == {s1}
TwoSessions == {s1, s2}
NoPosting == {}
OwnedByOne == [s \in Sessions |-> u1]
OnOneDevice == [b \in Bays |-> d1]

\* What a sweep has read and not acted on, and quiet or overtime sessions, are
\* explored with a free device by the runs of ChargingEngine.
Calm ==
    /\ sweep = Resting
    /\ \A d \in Devices : device[d] # "QUIET"
    /\ \A s \in Sessions :
        /\ ~session[s].quiet /\ ~session[s].overtime
        /\ \A k \in CommandIds : command[s][k].age < 2

\* The second session comes after the first.  Each is stopped at once, and nothing
\* else goes wrong than that the ingress turns messages away.
InTurn ==
    /\ Calm
    /\ fault = {} /\ handling = NoOne /\ ~alarm /\ energy = 0
    /\ link # "broken" /\ (link = "down" => session[s1].status = "NONE")
    /\ \A s \in Sessions : \A k \in CommandIds : command[s][k].age = 0
    /\ session[s2].status # "NONE" => session[s1].completed
    /\ last.id[1] \in Sessions \cup {None}

\* States alike in all that is still read: not why a session was stopped first, the
\* bay of an open session, the age of an answered command, the flash of an idle device.
SystemView ==
    <<[s \in Sessions |-> <<[session[s] EXCEPT !.reason = (@ = "none"), !.cost = 0], hold[s],
                            [k \in CommandIds |->
                                LET c == command[s][k]
                                IN  IF c.status = "PENDING" THEN c ELSE [c EXCEPT !.age = 0]]>>],
      [b \in Bays |-> IF OpenOn(b) = {} THEN bay[b] ELSE "IN_USE"], device, fault, handling,
      relay, active, IF active = None THEN energy > 0 ELSE <<energy, saved>>,
      completed, IF last.id[1] \in Sessions THEN last ELSE {}, alarm, link,
      downlink, uplink, inbox, started>>
=============================================================================
