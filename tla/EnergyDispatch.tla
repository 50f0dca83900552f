--------------------------- MODULE EnergyDispatch ---------------------------
(***************************************************************************)
(* The energy of a demo station (lib/energy): at each tick the sun, the    *)
(* battery and the grid supply the vehicles, what is left over is stored,  *)
(* exported or lost, and the interval is recorded in the hours it falls    *)
(* in, while an operator changes the battery's limits or sets its charge.  *)
(*                                                                         *)
(* Time counts in parts of an hour, no longer than the history is kept,    *)
(* and the battery's charge in energy, its capacity being fixed.  The demo *)
(* runs at a speed that the administrator may change before any tick: it   *)
(* multiplies the energies and durations, while the hours are those of the *)
(* clock.  The hours count Slices of a unit of energy, so that each part   *)
(* of an interval has a whole number: the rounding to milliwatt-hours is   *)
(* left out, and so are the costs.                                         *)
(***************************************************************************)
EXTENDS Integers, SequencesExt

CONSTANTS
    MaxPower,       \* of the sun, and of the demand, in a part of an hour
    MaxCharge, MaxDischarge, Auxiliary,
    Capacity,       \* of the battery
    HourLength,
    MaxInterval,    \* what a tick makes up for when the page was not running
    Speeds,         \* of the demo: 1, 10 and 60
    Slices,
    MaxElapsed, MaxTime     \* between two ticks, and in all

VARIABLES
    charge, limits, \* of the battery
    now,            \* the last tick
    history,        \* a row for each hour
    byHand          \* what has been set less what was there (history variable)

vars == <<charge, limits, now, history, byHand>>

Smaller(a, b) == IF a < b THEN a ELSE b
Positive(a) == IF a > 0 THEN a ELSE 0
HourOf(time) == time \div HourLength
HoursKept == 0..HourOf(MaxTime)
EmptyRow == [duration |-> 0, solar |-> 0, ev |-> 0, imported |-> 0, exported |-> 0, battery |-> 0,
             ending |-> 0]

Init ==
    /\ charge \in 0..Capacity /\ limits \in {l \in [min : 0..Capacity, max : 0..Capacity] : l.min < l.max}
    /\ now = 0 /\ byHand = charge
    /\ history = [h \in HoursKept |-> EmptyRow]

-----------------------------------------------------------------------------
\* The energies of an interval, as long as the demo's speed makes it.
Dispatch(input, length) ==
    LET demand == input.demand * length
        solar == input.solar * length
        solarToEv == Smaller(solar, demand)
        auxiliary == Smaller(Auxiliary * length, solar - solarToEv)
        deficit == demand - solarToEv
        discharge == Smaller(Smaller(deficit, MaxDischarge * length), Positive(charge - limits.min))
        imported == IF input.grid THEN deficit - discharge ELSE 0
        surplus == solar - auxiliary - solarToEv
        stored == Smaller(Smaller(surplus, MaxCharge * length), Positive(limits.max - charge))
        exported == IF input.grid /\ input.export THEN surplus - stored ELSE 0
    IN  IF ~input.online \/ length = 0
        THEN [solar |-> 0, ev |-> 0, imported |-> 0, exported |-> 0, battery |-> 0]
        ELSE [solar |-> solar, ev |-> solarToEv + discharge + imported, imported |-> imported,
              exported |-> exported, battery |-> stored - discharge]

\* Mutant of PartIn: all of an interval is recorded in the hour it ends in.
PartAtEnd(h, start, end) == IF HourOf(end) = h THEN end - start ELSE 0

\* How much of an interval falls into an hour.
PartIn(h, start, end) ==
    Smaller(end - start, Positive((h + 1) * HourLength - start))
        - Smaller(end - start, Positive(h * HourLength - start))

\* An hour's charge at its end, or at the end of the interval that is in it.
Recorded(row, h, flow, speed, start, end) ==
    LET part == PartIn(h, start, end)
        share(energy) == energy * part * (Slices \div (end - start))
        after == flow.battery * Positive(end - (h + 1) * HourLength) * (Slices \div (end - start))
    IN  IF start = end
        THEN IF HourOf(end) = h THEN [row EXCEPT !.ending = charge * Slices] ELSE row
        ELSE IF part = 0 THEN row
        ELSE [duration |-> row.duration + part * speed,
              solar |-> row.solar + share(flow.solar), ev |-> row.ev + share(flow.ev),
              imported |-> row.imported + share(flow.imported),
              exported |-> row.exported + share(flow.exported),
              battery |-> row.battery + share(flow.battery),
              ending |-> (charge + flow.battery) * Slices - after]

Advance(input, elapsed, speed) ==
    LET length == Smaller(elapsed, MaxInterval)
        flow == Dispatch(input, length * speed)
    IN  /\ now + elapsed <= MaxTime
        /\ now' = now + elapsed
        /\ charge' = Smaller(Capacity, Positive(charge + flow.battery))
        /\ history' = [h \in HoursKept |-> Recorded(history[h], h, flow, speed, now' - length, now')]
        /\ UNCHANGED <<limits, byHand>>

\* services.energy.configure: the policy is refused without room between its limits.
ConfigurePolicy(min, max) ==
    /\ min < max
    /\ limits' = [min |-> min, max |-> max]
    /\ UNCHANGED <<charge, now, history, byHand>>

\* services.devices.configure: any charge may be set, also beyond the limits.
SetBattery(energy) ==
    /\ byHand' = byHand + energy - charge
    /\ charge' = energy
    /\ UNCHANGED <<limits, now, history>>

\* Those that make a difference.
Inputs ==
    {i \in [solar : 0..MaxPower, demand : 0..MaxPower, online : BOOLEAN, grid : BOOLEAN, export : BOOLEAN] :
        /\ i.export => i.grid
        /\ ~i.online => i.solar + i.demand = 0 /\ ~i.grid}

Next ==
    \/ \E input \in Inputs, elapsed \in 0..MaxElapsed, speed \in Speeds : Advance(input, elapsed, speed)
    \/ \E min, max \in 0..Capacity : ConfigurePolicy(min, max)
    \/ \E energy \in 0..Capacity : SetBattery(energy)

Spec == Init /\ [][Next]_vars

-----------------------------------------------------------------------------
Fastest == CHOOSE s \in Speeds : \A speed \in Speeds : speed <= s

\* The hours explain the battery: what they say it took and gave, with what
\* was set by hand, is its charge; no moment of the clock is in two of them or
\* counted twice, at whatever speed; none gives more than it got; and a charge
\* that nobody sets stays within the battery, with no energy cut off by its ends.
HoursExplainBattery ==
    /\ charge * Slices = byHand * Slices + FoldSet(LAMBDA h, sum : history[h].battery + sum, 0, HoursKept)
    /\ \A h \in HoursKept :
        /\ history[h].duration <= HourLength * Fastest
        /\ history[h].solar + history[h].imported
                >= history[h].ev + history[h].battery + history[h].exported
        /\ history[h].ending \in 0..(Capacity * Slices)
=============================================================================
