--------------------------- MODULE StoppingMargin ---------------------------
(***************************************************************************)
(* Why a session is stopped before its energy is used up: the engine sees  *)
(* the meter once an interval and a stop takes its time to reach the       *)
(* relay, so it stops a margin early (wallets/charging-budget.ts,          *)
(* telemetry() of sessions/engine.ts).  The firmware's own limit is left   *)
(* out: this is what the margin does alone.                                *)
(*                                                                         *)
(* Power is delivered by the unit of time and counted in parts, Parts of   *)
(* them to the unit of energy the meter shows (3600 W ms to the mWh).      *)
(***************************************************************************)
EXTENDS Integers

CONSTANTS
    Parts,
    MaxPower,     \* Bay.maxPowerW
    Latency,      \* stopLatencyMs, from the reading to the relay
    Interval,     \* TELEMETRY_INTERVAL_MS
    Speed,        \* simulationSpeed
    Authorised    \* the energies a session may be authorised for, maxEnergyMWh

VARIABLES
    maxEnergy, spent, powered,
    sinceReading,   \* time since the last reading
    stopIn          \* time until the stop reaches the relay, or Never

budget == <<maxEnergy, spent, powered, sinceReading, stopIn>>

Never == Latency + 1
Metered == spent \div Parts

\* Mutant of Margin: rounded down.
MarginRoundedDown == (MaxPower * (Latency + Interval) * Speed) \div Parts

Margin == (MaxPower * (Latency + Interval) * Speed + Parts - 1) \div Parts

Exhausted == Metered + Margin >= maxEnergy

Init ==
    /\ maxEnergy \in Authorised
    /\ spent = 0 /\ powered = TRUE /\ sinceReading = Interval /\ stopIn = Never

Deliver(power) ==
    /\ powered /\ sinceReading < Interval /\ stopIn > 0
    /\ spent' = spent + power * Speed
    /\ sinceReading' = sinceReading + 1
    /\ stopIn' = IF stopIn = Never THEN Never ELSE stopIn - 1
    /\ UNCHANGED <<maxEnergy, powered>>

\* The meter is read; a stop is queued once.
Read ==
    /\ powered /\ sinceReading = Interval /\ stopIn > 0
    /\ sinceReading' = 0
    /\ stopIn' = IF stopIn = Never /\ Exhausted THEN Latency ELSE stopIn
    /\ UNCHANGED <<maxEnergy, spent, powered>>

Cut ==
    /\ powered /\ stopIn = 0 /\ powered' = FALSE
    /\ UNCHANGED <<maxEnergy, spent, sinceReading, stopIn>>

Next == Read \/ Cut \/ \E power \in 0..MaxPower : Deliver(power)

Spec == Init /\ [][Next]_budget

-----------------------------------------------------------------------------
\* What the first interval can deliver is authorised: chargingBudget() does not check it.
Worthwhile == maxEnergy >= Margin

\* The relay is off before more is delivered than was authorised, to the last part of a
\* unit, however the power varies and wherever the readings fall.
WithinAuthorisation == Worthwhile => spent <= maxEnergy * Parts
=============================================================================
