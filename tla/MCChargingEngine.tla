-------------------------- MODULE MCChargingEngine --------------------------
(* Small instances of ChargingEngine for TLC. *)
EXTENDS ChargingEngine, TLC

CONSTANTS u1, d1, b1, b2, s1, s2, p1

OneUser == {u1}
OneDevice == {d1}
OneBay == {b1}
TwoBays == {b1, b2}
OneSession == {s1}
TwoSessions == {s1, s2}
OnePosting == {p1}
NoPosting == {}

AllOwnedByOne == [s \in Sessions |-> u1]
(***************************************************************************)
(* Two states are alike for TLC when they differ only in what is no longer  *)
(* read: the status of a bay with an open session, which closing the        *)
(* session overwrites, the age of a command whose answer has come and that  *)
(* no sweep looks at, the commands of a settled session, and whether a      *)
(* device that is not online is quiet or known to be offline.               *)
(***************************************************************************)
CommandView(s, k) ==
    LET c == command[s][k]
    IN  IF session[s].completed THEN NoCommand
        ELSE IF c.status = "FAILED" \/ (k = 0 /\ c.status = "ACKNOWLEDGED")
        THEN [c EXCEPT !.age = 0] ELSE c

BayView == [b \in Bays |-> IF OpenOn(b) = {} THEN bay[b] ELSE "IN_USE"]
OnlineView == {d \in Devices : device[d] = "ONLINE"}

EngineView ==
    <<session, [s \in Sessions |-> [k \in CommandIds |-> CommandView(s, k)]],
      BayView, OnlineView, hold, wallet, ledger, fault, handling, sweep>>

AllOnOneDevice == [b \in Bays |-> d1]

\* The runs that follow one session after another forget what a settled session
\* was like: its postings are in the ledger and nothing else of it is read again.
SequenceView ==
    <<[s \in Sessions |-> IF session[s].completed THEN Unused ELSE session[s]],
      [s \in Sessions |-> [k \in CommandIds |-> CommandView(s, k)]],
      BayView, OnlineView, hold, wallet, ledger, fault, handling, sweep>>

\* And nothing is half way in them and no clock runs out: Engine explores that.
Sequential ==
    /\ sweep = Resting /\ handling = NoOne /\ fault = {}
    /\ \A d \in Devices : device[d] = "ONLINE" \/ \A s \in Sessions : session[s] = Unused
    /\ \A s \in Sessions :
        /\ ~session[s].quiet /\ ~session[s].overtime
        /\ \A k \in CommandIds : command[s][k].age = 0

\* The liveness run leaves out the steps that record a fault.  No step that
\* fairness speaks of is one, so no fair behaviour of the rest is lost.
NoFault == fault = {}

\* What happens to a session with a fault, or with a second STOP, is followed up while its
\* meter has counted one energy at one time, and a second STOP while the device is online and has no fault, against
\* the list of sessions that have waited for the first one only.
Retried == \E s \in Sessions : \E k, l \in Stops(s) : k # l

Followed ==
    /\ Retried \/ fault # {} => \A s \in Sessions : session[s].at <= 1 /\ session[s].energy <= 1
    /\ Retried => /\ sweep.loop \in {"none", "waiting"} /\ fault = {}
                  /\ \A d \in Devices : device[d] = "ONLINE"
=============================================================================
