--------------------------- MODULE RelayContract ---------------------------
(***************************************************************************)
(* What a controller promises of its relay (MQTT-PROTOCOL.md, "Never reset *)
(* delivered energy or re-energize a completed session when START is       *)
(* replayed"): power is on for one session at a time, and for a session    *)
(* once.  The firmware and the simulator both have to keep it.             *)
(***************************************************************************)
CONSTANTS Sessions, None

VARIABLES on,    \* the session power is on for
          used   \* the sessions it has been on for

Init == on = None /\ used = {}

Energise(s) ==
    /\ on = None /\ s \notin used
    /\ on' = s /\ used' = used \cup {s}

Cut == on' = None /\ UNCHANGED used

Next == Cut \/ \E s \in Sessions : Energise(s)

Spec == Init /\ [][Next]_<<on, used>>
=============================================================================
