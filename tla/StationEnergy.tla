--------------------------- MODULE StationEnergy ---------------------------
(***************************************************************************)
(* The energy history of a station (recordStationEnergy() of modules/      *)
(* energy): every sampled reading adds the difference to the counter of    *)
(* the latest sample, or the power times the duration where there is no    *)
(* such difference, inside the transaction that accepts the reading.       *)
(*                                                                         *)
(* One of the four counters of a station with one controller, whose clock  *)
(* counts seconds and does not go back.  Readings are lost, repeated or    *)
(* overtake one another; one that is not sampled is as good as lost.       *)
(***************************************************************************)
EXTENDS Integers

CONSTANTS
    MaxCounter,   \* bound: the station's counter
    FullPower,    \* in energy per unit of time
    MaxDuration,  \* what a gap is capped to (300 s)
    MaxNow,       \* bound: time
    MaxReadings   \* bound: readings

VARIABLES
    now, counter,   \* the device: time and its counter
    sequence,       \* and how many readings it has taken
    readings,       \* those readings, which may arrive at any time, once or again
    lastSequence,   \* of the reading accepted last
    latest,         \* the samples with the latest recordedAt
    recorded,       \* the sum of the samples
    estimated,      \* history: the part of it that no counter showed
    first,          \* history: the first sample
    troubles        \* history: "reset" and "missing" counters, a "tie" of samples

energyVars == <<now, counter, sequence, readings, lastSequence, latest, recorded, estimated, first,
                troubles>>

NoCounter == -1
NoSample == [at |-> 0, counter |-> NoCounter, power |-> 0, sequence |-> 0]

Smaller(a, b) == IF a < b THEN a ELSE b
Larger(a, b) == IF a < b THEN b ELSE a

Init ==
    /\ now = 0 /\ counter = 0 /\ sequence = 0 /\ readings = {} /\ lastSequence = 0
    /\ latest = {} /\ recorded = 0 /\ estimated = 0 /\ first = NoSample /\ troubles = {}

\* A second; the counter goes on within it.
Pass ==
    /\ now < MaxNow /\ now' = now + 1
    /\ UNCHANGED <<counter, sequence, readings, lastSequence, latest, recorded, estimated, first, troubles>>

Deliver ==
    /\ counter < MaxCounter /\ counter' = counter + 1
    /\ UNCHANGED <<now, sequence, readings, lastSequence, latest, recorded, estimated, first, troubles>>

\* A reading; a counter may be missing from it, all but one are optional.
Take(power, shown) ==
    /\ sequence < MaxReadings /\ sequence' = sequence + 1
    /\ readings' = readings \cup {[at |-> now, counter |-> IF shown THEN counter ELSE NoCounter,
                                 power |-> power, sequence |-> sequence']}
    /\ UNCHANGED <<now, counter, lastSequence, latest, recorded, estimated, first, troubles>>

\* A controller that restarts counts from nothing.
Reset ==
    /\ counter > 0 /\ counter' = 0 /\ troubles' = troubles \cup {"reset"}
    /\ UNCHANGED <<now, sequence, readings, lastSequence, latest, recorded, estimated, first>>

Duration(r, previous) ==
    IF previous = NoSample THEN 0 ELSE Larger(0, Smaller(MaxDuration, r.at - previous.at))

Counted(r, previous) == previous.counter # NoCounter /\ r.counter >= previous.counter

Estimate(r, previous) == r.power * Duration(r, previous)

\* Mutant of Delta: a counter that nothing precedes is taken at its face value.
DeltaFaceValue(r, previous) ==
    IF Counted(r, previous) THEN r.counter - previous.counter ELSE Larger(0, r.counter)

Delta(r, previous) ==
    IF Counted(r, previous) THEN r.counter - previous.counter ELSE Estimate(r, previous)

Troubles(r) ==
    (IF r.counter = NoCounter THEN {"missing"} ELSE {})
        \cup (IF \E s \in latest : s.at = r.at THEN {"tie"} ELSE {})

\* The ingress turns away what is not newer in the sequence, or older in time; of
\* samples with the same time the query may find any.
Record(r, previous) ==
    /\ r.sequence > lastSequence /\ \A s \in latest : r.at >= s.at
    /\ previous \in latest \/ (latest = {} /\ previous = NoSample)
    /\ lastSequence' = r.sequence
    /\ recorded' = recorded + Delta(r, previous)
    /\ estimated' = IF Counted(r, previous) THEN estimated ELSE estimated + Estimate(r, previous)
    /\ latest' = {s \in latest : s.at = r.at} \cup {r}
    /\ first' = IF latest = {} THEN r ELSE first
    /\ troubles' = troubles \cup Troubles(r)
    /\ UNCHANGED <<now, counter, sequence, readings>>

Next ==
    \/ Pass \/ Deliver \/ Reset
    \/ \E power \in 0..FullPower, shown \in BOOLEAN : Take(power, shown)
    \/ \E r \in readings, previous \in latest \cup {NoSample} : Record(r, previous)

Spec == Init /\ [][Next]_energyVars

-----------------------------------------------------------------------------
\* While the counter is there the samples miss nothing of it, whatever readings are
\* lost or overtaken, and add up to it exactly unless two have the same time; and what
\* is estimated where it is not there counts no moment twice.
SamplesAddUp ==
    \A s \in latest :
        /\ troubles \subseteq {"tie"} => recorded >= s.counter - first.counter
        /\ troubles = {} => recorded = s.counter - first.counter
        /\ estimated <= FullPower * (s.at - first.at)

=============================================================================
