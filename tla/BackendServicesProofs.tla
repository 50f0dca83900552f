------------------------ MODULE BackendServicesProofs ------------------------
(***************************************************************************)
(* The properties of the services around the engine, for every value of    *)
(* the constants: one inductive invariant a service.                       *)
(***************************************************************************)
EXTENDS MCBackendServices, Integers, Sequences, FiniteSets, FiniteSetTheorems, TLAPS

\* A behaviour of the sum is one of every service in it.
LEMMA EachService ==
    Spec => /\ Simulator!Spec /\ Ingress!Spec /\ Sockets!Spec /\ Admin!Spec
            /\ Energy!Spec /\ Margins!Spec /\ Forms!Spec
<1>1. Init => /\ Simulator!Init /\ Ingress!Init /\ Sockets!Init /\ Admin!Init
              /\ Energy!Init /\ Margins!Init /\ Forms!Init
  BY DEF Init
<1>2. [Next]_vars => /\ [Simulator!Next]_(Simulator!sim) /\ [Ingress!Next]_(Ingress!ingress)
                     /\ [Sockets!Next]_(Sockets!realtime) /\ [Admin!Next]_(Admin!admin)
                     /\ [Energy!Next]_(Energy!energyVars) /\ [Margins!Next]_(Margins!budget)
                     /\ [Forms!Next]_(Forms!vars)
  BY DEF Next, vars, simulator, ingress, realtime, admin, energy, margin, forms,
         Simulator!sim, Ingress!ingress, Sockets!realtime, Admin!admin, Energy!energyVars,
         Margins!budget, Forms!vars
<1> QED
  BY <1>1, <1>2, PTL DEF Spec, Simulator!Spec, Ingress!Spec, Sockets!Spec, Admin!Spec,
                        Energy!Spec, Margins!Spec, Forms!Spec

-----------------------------------------------------------------------------
(* StationEnergy *)

ReadingType == [at : Nat, counter : Nat \cup {Energy!NoCounter}, power : 0..FullPower, sequence : Nat \ {0}]

\* The samples with the latest time are readings, as far as they were accepted; how
\* many there are, and whether the counter is in them, the troubles tell.
SamplesInv ==
    /\ latest \subseteq readings /\ \A s \in latest : s.sequence <= lastSequence
    /\ \A s, t \in latest : s.at = t.at
    /\ "tie" \notin troubles => \A s, t \in latest : s = t
    /\ "missing" \notin troubles => \A s \in latest : s.counter # Energy!NoCounter
    /\ latest = {} => recorded = 0 /\ estimated = 0
    /\ latest # {} =>
          /\ first \in ReadingType /\ \A s \in latest : first.at <= s.at
          /\ "missing" \notin troubles => first.counter # Energy!NoCounter

\* The readings are in the order of the counter unless it was reset.
EnergyInv ==
    /\ now \in Nat /\ counter \in Nat /\ sequence \in Nat /\ lastSequence \in Nat
    /\ recorded \in Int /\ estimated \in Int
    /\ readings \subseteq ReadingType
    /\ \A r \in readings : r.sequence <= sequence
    /\ "reset" \notin troubles =>
          /\ \A r \in readings : r.counter <= counter
          /\ \A r, s \in readings :
                r.sequence < s.sequence /\ s.counter # Energy!NoCounter => r.counter <= s.counter
    /\ SamplesInv
    /\ Energy!SamplesAddUp

LEMMA DeviceKeepsEnergy ==
    ASSUME EnergyInv, Energy!Pass \/ Energy!Deliver \/ Energy!Reset PROVE EnergyInv'
<1>1. UNCHANGED <<sequence, readings, lastSequence, latest, recorded, estimated, first>>
  BY DEF Energy!Pass, Energy!Deliver, Energy!Reset
<1>2. troubles' = troubles \/ (troubles' = troubles \cup {"reset"} /\ "reset" \in troubles')
  BY DEF Energy!Pass, Energy!Deliver, Energy!Reset
<1>3. now' \in Nat /\ counter' \in Nat /\ ("reset" \notin troubles' => counter <= counter')
  BY DEF EnergyInv, Energy!Pass, Energy!Deliver, Energy!Reset
<1>4. SamplesInv'
  BY <1>1, <1>2 DEF EnergyInv, SamplesInv
<1>5. Energy!SamplesAddUp'
  BY <1>1, <1>2 DEF EnergyInv, Energy!SamplesAddUp
<1>6. "reset" \notin troubles' => \A r \in readings' : r.counter <= counter'
  BY <1>1, <1>2, <1>3 DEF EnergyInv, ReadingType, Energy!NoCounter
<1> QED
  BY <1>1, <1>2, <1>3, <1>4, <1>5, <1>6 DEF EnergyInv

LEMMA TakeKeepsEnergy ==
    ASSUME EnergyInv, NEW power \in 0..FullPower, NEW shown \in BOOLEAN, Energy!Take(power, shown)
    PROVE  EnergyInv'
<1> DEFINE r == [at |-> now, counter |-> IF shown THEN counter ELSE Energy!NoCounter,
                 power |-> power, sequence |-> sequence']
<1>1. /\ sequence' = sequence + 1 /\ readings' = readings \cup {r}
      /\ UNCHANGED <<now, counter, lastSequence, latest, recorded, estimated, first, troubles>>
  BY DEF Energy!Take
<1>2. r \in ReadingType /\ r.sequence = sequence + 1
  BY <1>1 DEF EnergyInv, ReadingType
<1>3. r.counter = Energy!NoCounter \/ r.counter = counter
  OBVIOUS
<1> HIDE DEF r
<1>4. SamplesInv' /\ Energy!SamplesAddUp'
  BY <1>1 DEF EnergyInv, SamplesInv, Energy!SamplesAddUp
<1>5. \A s \in readings' : s.sequence <= sequence'
  BY <1>1, <1>2 DEF EnergyInv, ReadingType
<1>6. ASSUME "reset" \notin troubles'
      PROVE  /\ \A s \in readings' : s.counter <= counter'
             /\ \A s, t \in readings' :
                   s.sequence < t.sequence /\ t.counter # Energy!NoCounter => s.counter <= t.counter
  BY <1>1, <1>2, <1>3, <1>6 DEF EnergyInv, ReadingType, Energy!NoCounter
<1> QED
  BY <1>1, <1>2, <1>4, <1>5, <1>6 DEF EnergyInv

LEMMA TimesSum == \A x, y \in Nat : FullPower * x + FullPower * y = FullPower * (x + y)
BY SampleAssumption

LEMMA TimesLess == \A p \in 0..FullPower, d, x \in Nat : d <= x => p * d >= 0 /\ p * d <= FullPower * x
<1> SUFFICES ASSUME NEW p \in 0..FullPower, NEW d \in Nat, NEW x \in Nat, d <= x
             PROVE  p * d >= 0 /\ p * d <= FullPower * x
  OBVIOUS
<1>1. PICK q \in Nat : FullPower = p + q
  <2>1. FullPower \in Nat /\ p \in Nat /\ p <= FullPower
    BY SampleAssumption
  <2>2. FullPower - p \in Nat /\ FullPower = p + (FullPower - p)
    BY <2>1
  <2> QED
    BY <2>2
<1>2. PICK y \in Nat : x = d + y
  BY x - d \in Nat
<1>3. FullPower * x = p * d + p * y + q * d + q * y
  BY <1>1, <1>2
<1>4. p * d \in Nat /\ p * y \in Nat /\ q * d \in Nat /\ q * y \in Nat
  OBVIOUS
<1> QED BY <1>3, <1>4

\* The first sample begins the history.
LEMMA FirstKeepsEnergy ==
    ASSUME EnergyInv, NEW r \in readings, latest = {}, Energy!Record(r, Energy!NoSample)
    PROVE  EnergyInv'
<1>1. /\ latest' = {r} /\ first' = r /\ lastSequence' = r.sequence
      /\ troubles' = troubles \cup Energy!Troubles(r)
      /\ UNCHANGED <<now, counter, sequence, readings>>
  BY DEF Energy!Record
<1>2. ~Energy!Counted(r, Energy!NoSample) /\ Energy!Duration(r, Energy!NoSample) = 0
  BY DEF Energy!Counted, Energy!NoSample, Energy!Duration
<1>3. r \in ReadingType
  BY DEF EnergyInv
<1>4. Energy!Estimate(r, Energy!NoSample) = 0
  BY <1>2, <1>3, SampleAssumption DEF Energy!Estimate, ReadingType
<1>5. recorded' = 0 /\ estimated' = 0
  BY <1>2, <1>4 DEF Energy!Record, Energy!Delta, EnergyInv, SamplesInv
<1>6. r.counter = Energy!NoCounter => "missing" \in troubles'
  BY <1>1 DEF Energy!Troubles
<1>7. SamplesInv'
  BY <1>1, <1>3, <1>5, <1>6 DEF SamplesInv, ReadingType
<1>8. Energy!SamplesAddUp'
  <2>1. r.at - r.at = 0 /\ FullPower * 0 = 0
    BY <1>3, SampleAssumption DEF ReadingType
  <2>2. troubles' \subseteq {"tie"} => r.counter - r.counter = 0
    BY <1>3, <1>6 DEF ReadingType, Energy!NoCounter
  <2> QED
    BY <1>1, <1>5, <2>1, <2>2 DEF Energy!SamplesAddUp
<1> QED
  BY <1>1, <1>3, <1>5, <1>7, <1>8 DEF EnergyInv, ReadingType

\* A sample after another: as long as the counter is there its difference is the right
\* one to the latest of them, and no less than that to any of the same time.
LEMMA NextKeepsEnergy ==
    ASSUME EnergyInv, NEW r \in readings, NEW p \in latest, Energy!Record(r, p) PROVE EnergyInv'
<1> DEFINE Same == {s \in latest : s.at = r.at}
<1>1. /\ latest' = Same \cup {r} /\ first' = first /\ lastSequence' = r.sequence
      /\ r.sequence > lastSequence /\ \A s \in latest : r.at >= s.at
      /\ troubles' = troubles \cup Energy!Troubles(r)
      /\ recorded' = recorded + Energy!Delta(r, p)
      /\ estimated' = IF Energy!Counted(r, p) THEN estimated ELSE estimated + Energy!Estimate(r, p)
      /\ UNCHANGED <<now, counter, sequence, readings>>
  BY DEF Energy!Record
<1>2. r \in ReadingType /\ p \in ReadingType /\ latest \subseteq ReadingType
  BY DEF EnergyInv, SamplesInv
<1>3. first \in ReadingType /\ first.at <= p.at
  BY DEF EnergyInv, SamplesInv
<1>4. Energy!Duration(r, p) \in Nat /\ Energy!Duration(r, p) <= r.at - p.at
  BY <1>1, <1>2, SampleAssumption DEF Energy!Duration, Energy!Larger, Energy!Smaller, ReadingType
<1>5. /\ Energy!Estimate(r, p) \in Nat
      /\ Energy!Estimate(r, p) <= FullPower * (r.at - p.at)
  <2>1. r.power \in 0..FullPower /\ r.at - p.at \in Nat
    BY <1>1, <1>2 DEF ReadingType
  <2>2. r.power * Energy!Duration(r, p) \in Int
    BY <1>4, <2>1
  <2> QED
    BY <1>4, <2>1, <2>2, TimesLess DEF Energy!Estimate
<1>6. Energy!Delta(r, p) \in Int
  BY <1>2, <1>5 DEF Energy!Delta, ReadingType, Energy!NoCounter
<1>7. /\ r.counter = Energy!NoCounter => "missing" \in troubles'
      /\ Same # {} => "tie" \in troubles'
  BY <1>1 DEF Energy!Troubles
<1>8. SamplesInv'
  <2>1. \A s \in latest' : s = r \/ (s \in latest /\ s.at = r.at)
    BY <1>1
  <2>2. latest' \subseteq readings' /\ \A s \in latest' : s.sequence <= lastSequence'
    BY <1>1, <1>2, <2>1 DEF EnergyInv, SamplesInv, ReadingType
  <2>3. "tie" \notin troubles' => latest' = {r}
    BY <1>1, <1>7
  <2>4. "missing" \notin troubles' =>
            /\ "missing" \notin troubles
            /\ \A s \in latest' : s.counter # Energy!NoCounter
    BY <1>1, <1>7, <2>1 DEF EnergyInv, SamplesInv
  <2>5. \A s \in latest' : first.at <= s.at
    BY <1>1, <1>2, <1>3, <2>1 DEF ReadingType
  <2> QED
    BY <1>1, <1>3, <2>1, <2>2, <2>3, <2>4, <2>5 DEF EnergyInv, SamplesInv
<1>9. \A s \in latest' : estimated' <= FullPower * (s.at - first'.at)
  <2>1. \A s \in latest' : s.at = r.at
    BY <1>1
  <2>2. p.at - first.at \in Nat /\ r.at - p.at \in Nat
        /\ (p.at - first.at) + (r.at - p.at) = r.at - first.at
    BY <1>1, <1>2, <1>3 DEF ReadingType
  <2>3. FullPower * (p.at - first.at) + FullPower * (r.at - p.at) = FullPower * (r.at - first.at)
    BY <2>2, TimesSum
  <2>4. estimated <= FullPower * (p.at - first.at)
    BY DEF EnergyInv, Energy!SamplesAddUp
  <2>5. /\ FullPower * (p.at - first.at) \in Int /\ FullPower * (r.at - p.at) \in Nat
        /\ FullPower * (r.at - first.at) \in Int
    BY <2>2, SampleAssumption
  <2>6. estimated' <= FullPower * (r.at - first.at)
    BY <1>1, <1>5, <2>3, <2>4, <2>5 DEF EnergyInv
  <2> QED
    BY <1>1, <2>1, <2>6
<1>10. ASSUME troubles' \subseteq {"tie"}
       PROVE  /\ \A s \in latest' : recorded' >= s.counter - first'.counter
              /\ troubles' = {} => \A s \in latest' : recorded' = s.counter - first'.counter
  <2>1. troubles \subseteq {"tie"} /\ "reset" \notin troubles /\ "missing" \notin troubles
    BY <1>1, <1>10
  <2>2. r.counter \in Nat /\ first.counter \in Nat /\ \A s \in latest : s.counter \in Nat
    BY <1>2, <1>3, <1>7, <1>10, <2>1 DEF EnergyInv, SamplesInv, ReadingType
  <2>3. \A s \in latest : s.counter <= r.counter
    <3>1. \A s \in latest : s \in readings /\ s.sequence < r.sequence
      BY <1>1, <1>2 DEF EnergyInv, SamplesInv, ReadingType
    <3>2. r.counter # Energy!NoCounter
      BY <2>2 DEF Energy!NoCounter
    <3> QED
      BY <2>1, <3>1, <3>2 DEF EnergyInv
  <2>4. Energy!Delta(r, p) = r.counter - p.counter
    BY <2>2, <2>3 DEF Energy!Delta, Energy!Counted, Energy!NoCounter
  <2>5. recorded >= p.counter - first.counter /\ recorded \in Int
    BY <2>1 DEF EnergyInv, Energy!SamplesAddUp
  <2>6. recorded' >= r.counter - first.counter
    BY <1>1, <2>2, <2>4, <2>5
  <2>7. \A s \in latest' : s.counter \in Nat /\ s.counter <= r.counter
    BY <1>1, <2>2, <2>3
  <2>8. recorded' \in Int
    BY <1>1, <1>6, <2>5
  <2>9. ASSUME troubles' = {} PROVE \A s \in latest' : recorded' = s.counter - first.counter
    <3>1. troubles = {} /\ latest' = {r}
      BY <1>1, <1>7, <2>9
    <3>2. recorded = p.counter - first.counter
      BY <3>1 DEF EnergyInv, Energy!SamplesAddUp
    <3> QED
      BY <1>1, <2>2, <2>4, <3>1, <3>2
  <2> QED
    BY <1>1, <2>2, <2>6, <2>7, <2>8, <2>9
<1>11. Energy!SamplesAddUp'
  BY <1>9, <1>10 DEF Energy!SamplesAddUp
<1>12. "reset" \notin troubles' => "reset" \notin troubles
  BY <1>1
<1>13. lastSequence' \in Nat /\ recorded' \in Int /\ estimated' \in Int
  BY <1>1, <1>2, <1>5, <1>6 DEF EnergyInv, ReadingType
<1> QED
  BY <1>1, <1>8, <1>11, <1>12, <1>13 DEF EnergyInv

\* The energy history of a station misses nothing of its counter and agrees with it
\* where no two samples have the same time, whatever readings are lost, repeated or
\* overtaken; and recordStationEnergy() estimates no moment twice (StationEnergy).
THEOREM SamplesOfAStationAddUp == Spec => []SamplesAddUp
<1>1. Energy!Init => EnergyInv
  BY DEF Energy!Init, EnergyInv, SamplesInv, Energy!SamplesAddUp
<1>2. EnergyInv /\ [Energy!Next]_(Energy!energyVars) => EnergyInv'
  <2> SUFFICES ASSUME EnergyInv, [Energy!Next]_(Energy!energyVars) PROVE EnergyInv'
    OBVIOUS
  <2>1. CASE Energy!Pass \/ Energy!Deliver \/ Energy!Reset
    BY <2>1, DeviceKeepsEnergy
  <2>2. CASE \E power \in 0..FullPower, shown \in BOOLEAN : Energy!Take(power, shown)
    BY <2>2, TakeKeepsEnergy
  <2>3. CASE \E r \in readings, p \in latest \cup {Energy!NoSample} : Energy!Record(r, p)
    <3>1. PICK r \in readings, p \in latest \cup {Energy!NoSample} : Energy!Record(r, p)
      BY <2>3
    <3>2. CASE p \in latest
      BY <3>1, <3>2, NextKeepsEnergy
    <3>3. CASE p \notin latest
      BY <3>1, <3>3, FirstKeepsEnergy DEF Energy!Record
    <3> QED
      BY <3>2, <3>3
  <2>4. CASE UNCHANGED Energy!energyVars
    BY <2>4 DEF EnergyInv, SamplesInv, Energy!energyVars, Energy!SamplesAddUp
  <2> QED
    BY <2>1, <2>2, <2>3, <2>4 DEF Energy!Next
<1>3. EnergyInv => SamplesAddUp
  BY DEF EnergyInv, SamplesAddUp
<1> QED
  BY <1>1, <1>2, <1>3, EachService, PTL DEF Energy!Spec

-----------------------------------------------------------------------------
(* StoppingMargin *)

\* What a unit of time delivers at most.
Rate == MaxPower * Speed

\* What may still be delivered is authorised: until the next reading and the time its
\* stop takes, or until the stop that is under way arrives.
MarginInv ==
    /\ maxEnergy \in Nat /\ spent \in Nat
    /\ sinceReading \in 0..Interval /\ stopIn \in 0..(Latency + 1)
    /\ Margins!Worthwhile =>
          spent + Rate * (IF stopIn = Margins!Never THEN Latency + Interval - sinceReading ELSE stopIn)
              <= maxEnergy * Parts

LEMMA RateIsNatural == Rate \in Nat /\ \A n \in Nat : Rate * n \in Nat
<1>1. \A m, n \in Nat : m * n \in Nat
  OBVIOUS
<1> QED
  BY <1>1, MarginAssumption DEF Rate

\* The margin covers what an interval and a stop can deliver, rounding included.
LEMMA MarginCovers ==
    Margins!Margin \in Nat /\ Rate * (Latency + Interval) <= Margins!Margin * Parts
<1> DEFINE d == MaxPower * (Latency + Interval) * Speed
<1>1. d = Rate * (Latency + Interval)
  BY MarginAssumption DEF Rate
<1>2. d \in Nat
  BY <1>1, RateIsNatural, MarginAssumption
<1> HIDE DEF d
<1>3. \A p \in Nat \ {0} : (d + p - 1) \div p \in Nat /\ d <= ((d + p - 1) \div p) * p
  BY <1>2
<1> QED
  BY <1>1, <1>3, MarginAssumption DEF Margins!Margin, d

\* While the engine sees a margin left, all of it is left.
LEMMA MarginIsLeft ==
    ASSUME NEW e \in Nat, NEW s \in Nat, NEW m \in Nat, NEW p \in Nat \ {0},
           ~(s \div p + m >= e)
    PROVE  s + m * p <= e * p
<1> DEFINE q == s \div p
<1>1. q \in Nat /\ s < q * p + p
  OBVIOUS
<1> HIDE DEF q
<1>2. \A a, b \in Nat : a <= b => a * p <= b * p
  OBVIOUS
<1>3. (q + 1 + m) * p <= e * p
  BY <1>1, <1>2 DEF q
<1>4. (q + 1 + m) * p = q * p + p + m * p /\ q * p \in Nat /\ m * p \in Nat /\ e * p \in Nat
  BY <1>1
<1> QED
  BY <1>1, <1>3, <1>4

LEMMA DeliverKeepsMargin ==
    ASSUME MarginInv, NEW watts \in 0..MaxPower, Margins!Deliver(watts) PROVE MarginInv'
<1> DEFINE left == IF stopIn = Margins!Never THEN Latency + Interval - sinceReading ELSE stopIn
           d == watts * Speed
           r == Rate
<1>1. left \in Nat /\ left > 0 /\ left' = left - 1
  BY MarginAssumption DEF MarginInv, Margins!Deliver, Margins!Never
<1>2. d \in Nat /\ d <= r
  <2>1. \A a, b, c \in Nat : a <= b => a * c \in Nat /\ a * c <= b * c
    OBVIOUS
  <2> QED
    BY <2>1, MarginAssumption DEF Rate
<1>3. r \in Nat /\ \A n \in Nat : r * n \in Nat
  BY RateIsNatural
<1>4. \A n \in Nat : n > 0 => r * (n - 1) = r * n - r
  BY <1>3
<1>5. spent' = spent + d /\ maxEnergy' = maxEnergy
  BY DEF Margins!Deliver
<1>6. maxEnergy * Parts \in Nat
  BY MarginAssumption DEF MarginInv
<1>7. Margins!Worthwhile' = Margins!Worthwhile
  BY <1>5 DEF Margins!Worthwhile
<1>8. Margins!Worthwhile => spent + r * left <= maxEnergy * Parts
  BY DEF MarginInv
<1>9. spent \in Nat
  BY DEF MarginInv
<1> DEFINE n == left
<1> HIDE DEF n, d, r
<1>10. Margins!Worthwhile' => spent' + r * (n - 1) <= maxEnergy' * Parts
  BY <1>1, <1>2, <1>3, <1>4, <1>5, <1>6, <1>7, <1>8, <1>9 DEF n
<1>11. /\ maxEnergy' \in Nat /\ spent' \in Nat
       /\ sinceReading' \in 0..Interval /\ stopIn' \in 0..(Latency + 1)
  BY <1>2, <1>5, <1>9, MarginAssumption DEF MarginInv, Margins!Deliver, Margins!Never
<1> QED
  BY <1>1, <1>10, <1>11 DEF MarginInv, n, r

LEMMA ReadKeepsMargin ==
    ASSUME MarginInv, Margins!Read PROVE MarginInv'
<1> DEFINE r == Rate
           m == Margins!Margin
<1>1. r \in Nat /\ \A n \in Nat : r * n \in Nat
  BY RateIsNatural
<1>2. m \in Nat /\ r * (Latency + Interval) <= m * Parts
  BY MarginCovers
<1>3. Margins!Worthwhile' = Margins!Worthwhile /\ maxEnergy' = maxEnergy /\ spent' = spent
  BY DEF Margins!Worthwhile, Margins!Read
<1>4. maxEnergy * Parts \in Nat /\ m * Parts \in Nat /\ spent \in Nat
  BY <1>2, MarginAssumption DEF MarginInv
<1>5. stopIn' \in 0..(Latency + 1) /\ sinceReading' = 0 /\ sinceReading = Interval
  BY MarginAssumption DEF MarginInv, Margins!Read
<1> HIDE DEF r, m
<1>6. CASE stopIn = Margins!Never /\ Margins!Exhausted
  <2>1. stopIn' = Latency /\ stopIn' # Margins!Never
    BY <1>6, MarginAssumption DEF Margins!Read, Margins!Never
  <2>2. Margins!Worthwhile => spent + r * Latency <= maxEnergy * Parts
    BY <1>5, <1>6, MarginAssumption DEF MarginInv, r
  <2> QED
    BY <1>3, <1>5, <2>1, <2>2, MarginAssumption DEF MarginInv, r, Margins!Never
<1>7. CASE stopIn = Margins!Never /\ ~Margins!Exhausted
  <2>1. stopIn' = Margins!Never
    BY <1>7 DEF Margins!Read
  <2>2. spent + m * Parts <= maxEnergy * Parts
    BY <1>2, <1>7, MarginIsLeft, MarginAssumption
    DEF MarginInv, Margins!Exhausted, Margins!Metered, m
  <2>3. r * (Latency + Interval) \in Nat
    BY <1>1, MarginAssumption
  <2>4. spent + r * (Latency + Interval) <= maxEnergy * Parts
    BY <1>2, <1>4, <2>2, <2>3
  <2>5. Latency + Interval - 0 = Latency + Interval
    BY MarginAssumption
  <2> QED
    BY <1>3, <1>5, <2>1, <2>4, <2>5, MarginAssumption DEF MarginInv, r, Margins!Never
<1>8. CASE stopIn # Margins!Never
  BY <1>3, <1>5, <1>8, MarginAssumption DEF MarginInv, Margins!Read, Margins!Never
<1> QED
  BY <1>6, <1>7, <1>8

\* A stop that is queued when the engine sees no more than a margin left comes before more
\* is delivered than was authorised, however the power varies and wherever the readings
\* fall (StoppingMargin).
THEOREM NoMoreThanAuthorised == Spec => []WithinAuthorisation
<1>1. Margins!Init => MarginInv
  <2> SUFFICES ASSUME Margins!Init PROVE MarginInv
    OBVIOUS
  <2>1. /\ maxEnergy \in Nat /\ spent = 0 /\ sinceReading = Interval
        /\ stopIn = Latency + 1 /\ stopIn = Margins!Never
    BY MarginAssumption DEF Margins!Init, Margins!Never
  <2>2. \A a, b \in Nat : a <= b => a * Parts <= b * Parts
    BY MarginAssumption
  <2>3. Margins!Worthwhile => Margins!Margin * Parts <= maxEnergy * Parts
    BY <2>1, <2>2, MarginCovers DEF Margins!Worthwhile
  <2>4. Rate * Latency <= Rate * (Latency + Interval)
    <3>1. \A a, b, c \in Nat : a * b <= a * (b + c)
      OBVIOUS
    <3> QED
      BY <3>1, RateIsNatural, MarginAssumption
  <2>5. /\ Rate * Latency \in Nat /\ Rate * (Latency + Interval) \in Nat
        /\ Margins!Margin * Parts \in Nat /\ maxEnergy * Parts \in Nat
    BY <2>1, RateIsNatural, MarginCovers, MarginAssumption
  <2>6. Margins!Worthwhile => 0 + Rate * Latency <= maxEnergy * Parts
    BY <2>3, <2>4, <2>5, MarginCovers
  <2>7. Latency + Interval - Interval = Latency
    BY MarginAssumption
  <2> QED
    BY <2>1, <2>6, <2>7, MarginAssumption DEF MarginInv
<1>2. MarginInv /\ [Margins!Next]_(Margins!budget) => MarginInv'
  <2> SUFFICES ASSUME MarginInv, [Margins!Next]_(Margins!budget) PROVE MarginInv'
    OBVIOUS
  <2>1. CASE \E p \in 0..MaxPower : Margins!Deliver(p)
    BY <2>1, DeliverKeepsMargin
  <2>2. CASE Margins!Read
    BY <2>2, ReadKeepsMargin
  <2>3. CASE Margins!Cut
    BY <2>3 DEF MarginInv, Margins!Cut, Margins!Worthwhile
  <2>4. CASE UNCHANGED Margins!budget
    BY <2>4 DEF MarginInv, Margins!budget, Margins!Worthwhile
  <2> QED
    BY <2>1, <2>2, <2>3, <2>4 DEF Margins!Next
<1>3. MarginInv => WithinAuthorisation
  <2> SUFFICES ASSUME MarginInv, Margins!Worthwhile PROVE spent <= maxEnergy * Parts
    BY DEF WithinAuthorisation, Margins!WithinAuthorisation
  <2> DEFINE left == IF stopIn = Margins!Never THEN Latency + Interval - sinceReading ELSE stopIn
  <2>1. left \in Nat
    BY MarginAssumption DEF MarginInv
  <2>2. Rate * left \in Nat /\ spent \in Nat /\ maxEnergy * Parts \in Nat
        /\ spent + Rate * left <= maxEnergy * Parts
    BY <2>1, RateIsNatural, MarginAssumption DEF MarginInv
  <2> HIDE DEF left
  <2> QED
    BY <2>2
<1> QED
  BY <1>1, <1>2, <1>3, EachService, PTL DEF Margins!Spec

-----------------------------------------------------------------------------
(* SimulatedDevice *)

\* Power is on for a session that has begun and not finished; a session whose power is
\* off has finished.
SimulatorInv ==
    /\ sessionId \in Sessions \cup {NoSession} /\ sessions \subseteq Sessions
    /\ relayOn \in BOOLEAN /\ finished \in BOOLEAN
    /\ relayOn => sessionId # NoSession /\ ~finished
    /\ sessionId # NoSession => sessionId \in sessions /\ (relayOn \/ finished)
    /\ Simulator!EndIsReported

LEMMA CommandKeepsSimulator ==
    ASSUME SimulatorInv, NEW c \in Commands, Simulator!Command(c)
    PROVE  SimulatorInv' /\ (Simulator!Contract!Next \/ UNCHANGED <<sessions, relayOn, sessionId>>)
<1>1. CASE \E s \in Sessions : Simulator!Start(c, s)
  BY <1>1, SessionAssumption
  DEF SimulatorInv, Simulator!Start, Simulator!Startable, Simulator!Answered,
      Simulator!EndIsReported, Simulator!Contract!Next, Simulator!Contract!Energise
<1>2. CASE \E s \in Sessions \cup {NoSession} : Simulator!Stop(c, s)
  BY <1>2
  DEF SimulatorInv, Simulator!Stop, Simulator!Answered, Simulator!Sample,
      Simulator!EndIsReported, Simulator!Contract!Next, Simulator!Contract!Cut
<1>3. CASE \E accepted \in BOOLEAN : Simulator!Answer(c, accepted)
  BY <1>3
  DEF SimulatorInv, Simulator!Answer, Simulator!Answered, Simulator!Sample,
      Simulator!EndIsReported
<1> QED
  BY <1>1, <1>2, <1>3 DEF Simulator!Command

LEMMA StepKeepsSimulator ==
    ASSUME SimulatorInv, Simulator!Step
    PROVE  SimulatorInv' /\ (Simulator!Contract!Next \/ UNCHANGED <<sessions, relayOn, sessionId>>)
<1>1. UNCHANGED <<sessionId, sessions>> /\ (connection' = "up" => connection = "up")
  BY DEF Simulator!Step
<1>2. CASE Simulator!Idle
  <2>1. UNCHANGED <<relayOn, finished, metered>>
    BY <1>2 DEF Simulator!Idle
  <2> QED
    BY <1>1, <2>1 DEF SimulatorInv, Simulator!EndIsReported, Simulator!Step, Simulator!Sample
<1>3. CASE \E overtime \in BOOLEAN : Simulator!Charge(overtime)
  <2>1. /\ relayOn /\ relayOn' \in BOOLEAN /\ finished' = ~relayOn'
    BY <1>3 DEF Simulator!Charge, Simulator!Ends
  <2> QED
    BY <1>1, <2>1 DEF SimulatorInv, Simulator!EndIsReported, Simulator!Step, Simulator!Sample,
                      Simulator!Contract!Next, Simulator!Contract!Cut
<1> QED
  BY <1>2, <1>3 DEF Simulator!Step

LEMMA SimulatorIsInvariant ==
    /\ Simulator!Init => SimulatorInv
    /\ SimulatorInv /\ [Simulator!Next]_(Simulator!sim) =>
          SimulatorInv' /\ (Simulator!Contract!Next \/ UNCHANGED <<sessions, relayOn, sessionId>>)
<1>1. Simulator!Init => SimulatorInv
  BY DEF Simulator!Init, SimulatorInv, Simulator!EndIsReported
<1>2. ASSUME SimulatorInv, [Simulator!Next]_(Simulator!sim)
      PROVE  SimulatorInv' /\ (Simulator!Contract!Next \/ UNCHANGED <<sessions, relayOn, sessionId>>)
  <2>1. CASE Simulator!Step
    BY <1>2, <2>1, StepKeepsSimulator
  <2>2. CASE \E c \in Commands : Simulator!Command(c)
    BY <1>2, <2>2, CommandKeepsSimulator
  <2>3. CASE Simulator!Connect
    BY <1>2, <2>3 DEF SimulatorInv, Simulator!Connect, Simulator!EndIsReported
  <2>4. CASE Simulator!Disconnect
    BY <1>2, <2>4 DEF SimulatorInv, Simulator!Disconnect, Simulator!EndIsReported
  <2>5. CASE UNCHANGED Simulator!sim
    BY <1>2, <2>5 DEF SimulatorInv, Simulator!sim, Simulator!EndIsReported
  <2> QED
    BY <1>2, <2>1, <2>2, <2>3, <2>4, <2>5 DEF Simulator!Next
<1> QED
  BY <1>1, <1>2

\* While the broker is there the backend has heard how a session of the simulator ended,
\* whatever command or scenario ended it (SimulatedDevice).
THEOREM SimulatedEndIsHeard == Spec => []EndIsReported
<1>1. SimulatorInv => EndIsReported
  BY DEF SimulatorInv, EndIsReported
<1> QED
  BY <1>1, SimulatorIsInvariant, EachService, PTL DEF Simulator!Spec

\* The simulator implements the contract of a relay: power is on for one session at a
\* time and for a session once, whatever is sent again, refused or cut off (RelayContract).
THEOREM SimulatorImplementsRelay == Spec => SimulatorKeepsContract
<1>1. Simulator!Init => Simulator!Contract!Init
  BY DEF Simulator!Init, Simulator!Contract!Init
<1>2. UNCHANGED <<sessions, relayOn, sessionId>> =>
          UNCHANGED <<IF relayOn THEN sessionId ELSE NoSession, sessions>>
  OBVIOUS
<1> QED
  BY <1>1, <1>2, SimulatorIsInvariant, EachService, PTL
  DEF Simulator!Spec, SimulatorKeepsContract, Simulator!KeepsRelayContract, Simulator!Contract!Spec

-----------------------------------------------------------------------------
(* DeviceIngress *)

DeviceMessage ==
    [kind : {"status", "telemetry", "ack"}, boot : Nat, seq : Nat, at : Nat, online : BOOLEAN]

\* The message is numbered; it is a reading.
Numbered(m) == ~Ingress!WillMessage(m)
Timed(m) == m.kind = "telemetry"

\* The inbox is in the order of the numbers, its readings in that of the times; it goes on
\* from what the engine has been given, to what the row of the device says.
IngressInv ==
    /\ sender \in [boot : Nat, seq : Nat] /\ carried \subseteq DeviceMessage
    /\ row \in [boot : Nat, seq : Nat, status : {"ONLINE", "OFFLINE"}, at : Nat]
    /\ inboxRows \in Seq(DeviceMessage) /\ working \in 0..Len(inboxRows)
    /\ given.seq \in Nat /\ given.at \in Nat /\ given.seq <= row.seq /\ given.at <= row.at
    /\ \A i \in 1..Len(inboxRows) :
          /\ Numbered(inboxRows[i]) => given.seq <= inboxRows[i].seq /\ inboxRows[i].seq <= row.seq
          /\ Timed(inboxRows[i]) => given.at <= inboxRows[i].at /\ inboxRows[i].at <= row.at
    /\ \A i, j \in 1..Len(inboxRows) : i < j =>
          /\ Numbered(inboxRows[i]) /\ Numbered(inboxRows[j]) => inboxRows[i].seq <= inboxRows[j].seq
          /\ Timed(inboxRows[i]) /\ Timed(inboxRows[j]) => inboxRows[i].at <= inboxRows[j].at
    /\ Ingress!HandledInOrder

\* What the inbox holds stays, or the engine has just been given it.
Kept == \A m \in Ingress!ToSet(inboxRows) \ Ingress!ToSet(inboxRows') : given'.message = m

LEMMA SentKeepsIngress ==
    ASSUME IngressInv, sender' \in [boot : Nat, seq : Nat], carried' \subseteq DeviceMessage,
           UNCHANGED <<row, inboxRows, working, given>>
    PROVE  IngressInv' /\ Kept
BY DEF IngressInv, Kept, Ingress!HandledInOrder

LEMMA SendKeepsIngress ==
    ASSUME IngressInv, NEW k \in {"telemetry", "ack"}, NEW at \in Nat, NEW online \in BOOLEAN,
           Ingress!Send(k, at, online)
    PROVE  IngressInv' /\ Kept
<1> DEFINE m == Ingress!Message(k, sender.boot, sender.seq + 1, at, online)
<1>1. sender.seq + 1 \in Nat /\ sender.boot \in Nat /\ carried \subseteq DeviceMessage
  BY DEF IngressInv
<1>2. m \in DeviceMessage
  BY <1>1 DEF Ingress!Message, DeviceMessage
<1>3. sender' \in [boot : Nat, seq : Nat]
  BY DEF IngressInv, Ingress!Send
<1>4. carried' = carried \cup {m} /\ UNCHANGED <<row, inboxRows, working, given>>
  BY DEF Ingress!Send
<1> HIDE DEF m
<1> QED
  BY <1>1, <1>2, <1>3, <1>4, SentKeepsIngress

LEMMA ReceiveKeepsIngress ==
    ASSUME IngressInv, NEW m \in carried, Ingress!Receive(m)
    PROVE  IngressInv' /\ Kept
<1>1. /\ m \in DeviceMessage /\ carried' \subseteq DeviceMessage
      /\ inboxRows \in Seq(DeviceMessage) /\ inboxRows' = Append(inboxRows, m)
      /\ UNCHANGED <<sender, working, given>>
  BY DEF IngressInv, Ingress!Receive
<1>2. /\ inboxRows' \in Seq(DeviceMessage) /\ Len(inboxRows') = Len(inboxRows) + 1
      /\ \A i \in 1..Len(inboxRows) : inboxRows'[i] = inboxRows[i]
      /\ inboxRows'[Len(inboxRows) + 1] = m /\ Len(inboxRows) \in Nat
  BY <1>1
<1>3. /\ row' \in [boot : Nat, seq : Nat, status : {"ONLINE", "OFFLINE"}, at : Nat]
      /\ row.seq <= row'.seq /\ row.at <= row'.at
      /\ Numbered(m) => m.seq = row'.seq /\ row.seq <= m.seq
      /\ Timed(m) => m.at = row'.at /\ row.at <= m.at
  <2>1. CASE Ingress!ReceiveWill(m)
    BY <1>1, <2>1 DEF IngressInv, Ingress!ReceiveWill, Ingress!WillMessage, Numbered, Timed
  <2>2. CASE Ingress!ReceiveMessage(m)
    BY <1>1, <2>2
    DEF IngressInv, Ingress!ReceiveMessage, Ingress!Fresh, Numbered, Timed, DeviceMessage
  <2> QED
    BY <2>1, <2>2 DEF Ingress!Receive
<1>4. \A i \in 1..Len(inboxRows) : inboxRows[i].seq \in Nat /\ inboxRows[i].at \in Nat
  <2>1. \A i \in 1..Len(inboxRows) : inboxRows[i] \in DeviceMessage
    BY <1>1
  <2> QED
    BY <2>1 DEF DeviceMessage
<1>5. \A i \in 1..Len(inboxRows') :
         /\ Numbered(inboxRows'[i]) => given'.seq <= inboxRows'[i].seq /\ inboxRows'[i].seq <= row'.seq
         /\ Timed(inboxRows'[i]) => given'.at <= inboxRows'[i].at /\ inboxRows'[i].at <= row'.at
  <2> SUFFICES ASSUME NEW i \in 1..Len(inboxRows')
               PROVE  /\ Numbered(inboxRows'[i]) =>
                            given'.seq <= inboxRows'[i].seq /\ inboxRows'[i].seq <= row'.seq
                      /\ Timed(inboxRows'[i]) =>
                            given'.at <= inboxRows'[i].at /\ inboxRows'[i].at <= row'.at
    OBVIOUS
  <2>1. /\ given.seq \in Nat /\ given.at \in Nat /\ row.seq \in Nat /\ row.at \in Nat
        /\ row'.seq \in Nat /\ row'.at \in Nat /\ m.seq \in Nat /\ m.at \in Nat
        /\ given.seq <= row.seq /\ given.at <= row.at /\ given' = given
    BY <1>1, <1>3 DEF IngressInv, DeviceMessage
  <2>2. CASE i \in 1..Len(inboxRows)
    <3>1. /\ Numbered(inboxRows[i]) => given.seq <= inboxRows[i].seq /\ inboxRows[i].seq <= row.seq
          /\ Timed(inboxRows[i]) => given.at <= inboxRows[i].at /\ inboxRows[i].at <= row.at
      BY <2>2 DEF IngressInv
    <3>2. inboxRows'[i] = inboxRows[i] /\ inboxRows[i].seq \in Nat /\ inboxRows[i].at \in Nat
      BY <1>2, <1>4, <2>2
    <3>3. Numbered(inboxRows[i]) => inboxRows[i].seq <= row'.seq
      BY <2>1, <3>1, <3>2, <1>3
    <3>4. Timed(inboxRows[i]) => inboxRows[i].at <= row'.at
      BY <2>1, <3>1, <3>2, <1>3
    <3>5. inboxRows'[i] = inboxRows[i] /\ given' = given
      BY <2>1, <3>2
    <3> QED
      BY <3>1, <3>3, <3>4, <3>5, Zenon
  <2>3. CASE i = Len(inboxRows) + 1
    BY <1>2, <1>3, <2>1, <2>3
  <2> QED
    BY <1>2, <2>2, <2>3
<1>6. \A i, j \in 1..Len(inboxRows') : i < j =>
          /\ Numbered(inboxRows'[i]) /\ Numbered(inboxRows'[j]) => inboxRows'[i].seq <= inboxRows'[j].seq
          /\ Timed(inboxRows'[i]) /\ Timed(inboxRows'[j]) => inboxRows'[i].at <= inboxRows'[j].at
  <2> SUFFICES ASSUME NEW i \in 1..Len(inboxRows'), NEW j \in 1..Len(inboxRows'), i < j
               PROVE  /\ Numbered(inboxRows'[i]) /\ Numbered(inboxRows'[j]) =>
                             inboxRows'[i].seq <= inboxRows'[j].seq
                      /\ Timed(inboxRows'[i]) /\ Timed(inboxRows'[j]) =>
                             inboxRows'[i].at <= inboxRows'[j].at
    OBVIOUS
  <2>1. i \in 1..Len(inboxRows)
    BY <1>2
  <2>2. CASE j \in 1..Len(inboxRows)
    BY <1>2, <2>1, <2>2 DEF IngressInv
  <2>3. CASE j = Len(inboxRows) + 1
    <3>1. /\ Numbered(inboxRows[i]) => inboxRows[i].seq <= row.seq
          /\ Timed(inboxRows[i]) => inboxRows[i].at <= row.at
      BY <2>1 DEF IngressInv
    <3>2. m.seq \in Nat /\ m.at \in Nat /\ row.seq \in Nat /\ row.at \in Nat
      BY <1>1 DEF DeviceMessage, IngressInv
    <3>3. inboxRows'[i] = inboxRows[i] /\ inboxRows'[j] = m
      BY <1>2, <2>1, <2>3
    <3>4. inboxRows[i].seq \in Nat /\ inboxRows[i].at \in Nat
      BY <1>4, <2>1
    <3>5. Numbered(inboxRows[i]) /\ Numbered(m) => inboxRows[i].seq <= m.seq
      BY <1>3, <3>1, <3>2, <3>4
    <3>6. Timed(inboxRows[i]) /\ Timed(m) => inboxRows[i].at <= m.at
      BY <1>3, <3>1, <3>2, <3>4
    <3> QED
      BY <3>3, <3>5, <3>6, Zenon
  <2> QED
    BY <1>2, <2>2, <2>3
<1>7. Kept
  BY <1>2 DEF Kept, Ingress!ToSet
<1>8. working' \in 0..Len(inboxRows') /\ given'.seq <= row'.seq /\ given'.at <= row'.at
  BY <1>1, <1>2, <1>3 DEF IngressInv
<1>9. sender' = sender /\ given' = given /\ Ingress!HandledInOrder'
  BY <1>1 DEF IngressInv, Ingress!HandledInOrder
<1> QED
  BY <1>1, <1>2, <1>3, <1>5, <1>6, <1>7, <1>8, <1>9 DEF IngressInv

\* The oldest row is in order with what the engine was given before.
LEMMA GivenInOrder ==
    ASSUME IngressInv, working > 0, Ingress!Give(Head(inboxRows))
    PROVE  /\ Ingress!HandledInOrder' /\ given'.message = inboxRows[1]
           /\ given'.seq \in Nat /\ given'.at \in Nat
           /\ given'.seq <= row.seq /\ given'.at <= row.at
           /\ \A i \in 1..Len(inboxRows) :
                 /\ Numbered(inboxRows[i]) => given'.seq <= inboxRows[i].seq
                 /\ Timed(inboxRows[i]) => given'.at <= inboxRows[i].at
<1> DEFINE m == inboxRows[1]
<1>1. 1 \in 1..Len(inboxRows) /\ Head(inboxRows) = m /\ m \in DeviceMessage
  BY DEF IngressInv
<1>2. /\ given'.message = m
      /\ given'.seq = IF Numbered(m) THEN m.seq ELSE given.seq
      /\ given'.inOrder = (~Numbered(m) \/ m.seq >= given.seq)
      /\ given'.at = IF Timed(m) THEN m.at ELSE given.at
      /\ given'.inTime = (Timed(m) => m.at >= given.at)
  BY <1>1 DEF Ingress!Give, Numbered, Timed
<1>3. /\ given.seq \in Nat /\ given.at \in Nat /\ row.seq \in Nat /\ row.at \in Nat
      /\ m.seq \in Nat /\ m.at \in Nat /\ given.seq <= row.seq /\ given.at <= row.at
  BY <1>1 DEF IngressInv, DeviceMessage
<1>4. /\ Numbered(m) => given.seq <= m.seq /\ m.seq <= row.seq
      /\ Timed(m) => given.at <= m.at /\ m.at <= row.at
  BY <1>1 DEF IngressInv
<1>5. Ingress!HandledInOrder'
  BY <1>2, <1>3, <1>4 DEF Ingress!HandledInOrder
<1>6. ASSUME NEW i \in 1..Len(inboxRows)
      PROVE  /\ Numbered(inboxRows[i]) => given'.seq <= inboxRows[i].seq
             /\ Timed(inboxRows[i]) => given'.at <= inboxRows[i].at
  <2>1. /\ Numbered(inboxRows[i]) => given.seq <= inboxRows[i].seq
        /\ Timed(inboxRows[i]) => given.at <= inboxRows[i].at
    BY DEF IngressInv
  <2>2. inboxRows[i] \in DeviceMessage
    BY DEF IngressInv
  <2>3. inboxRows[i].seq \in Nat /\ inboxRows[i].at \in Nat
    BY <2>2 DEF DeviceMessage
  <2>4. CASE i = 1
    BY <1>2, <1>3, <2>1, <2>4
  <2>5. CASE i # 1
    <3>1. 1 < i
      BY <2>5
    <3>2. /\ Numbered(m) /\ Numbered(inboxRows[i]) => m.seq <= inboxRows[i].seq
          /\ Timed(m) /\ Timed(inboxRows[i]) => m.at <= inboxRows[i].at
      BY <1>1, <3>1 DEF IngressInv
    <3> QED
      BY <1>2, <2>1, <3>2
  <2> QED
    BY <2>4, <2>5
<1> QED
  BY <1>2, <1>3, <1>4, <1>5, <1>6

LEMMA HandleNextKeepsIngress ==
    ASSUME IngressInv, Ingress!HandleNext PROVE IngressInv' /\ Kept
<1>1. /\ working > 0 /\ Ingress!Give(Head(inboxRows)) /\ inboxRows' = Tail(inboxRows)
      /\ working' = working - 1 /\ UNCHANGED <<sender, carried, row>>
  BY DEF Ingress!HandleNext
<1>2. /\ inboxRows \in Seq(DeviceMessage) /\ inboxRows # <<>>
      /\ inboxRows' \in Seq(DeviceMessage) /\ Len(inboxRows') = Len(inboxRows) - 1
      /\ \A i \in 1..Len(inboxRows') : i + 1 \in 1..Len(inboxRows) /\ inboxRows'[i] = inboxRows[i + 1]
  BY <1>1 DEF IngressInv
<1>3. \A i \in 1..Len(inboxRows) : i # 1 => i - 1 \in 1..Len(inboxRows')
  BY <1>2
<1>4. Kept
  <2> SUFFICES ASSUME NEW i \in 1..Len(inboxRows), inboxRows[i] \notin Ingress!ToSet(inboxRows')
               PROVE  given'.message = inboxRows[i]
    BY <1>2 DEF Kept, Ingress!ToSet
  <2>1. i # 1 => inboxRows'[i - 1] = inboxRows[i] /\ i - 1 \in DOMAIN inboxRows'
    BY <1>2, <1>3
  <2> QED
    BY <1>1, <2>1, GivenInOrder DEF Ingress!ToSet
<1>5. working' \in 0..Len(inboxRows')
  BY <1>1, <1>2 DEF IngressInv
<1>6. \A i \in 1..Len(inboxRows') :
          /\ Numbered(inboxRows'[i]) => given'.seq <= inboxRows'[i].seq /\ inboxRows'[i].seq <= row'.seq
          /\ Timed(inboxRows'[i]) => given'.at <= inboxRows'[i].at /\ inboxRows'[i].at <= row'.at
  BY <1>1, <1>2, GivenInOrder DEF IngressInv
<1>7. \A i, j \in 1..Len(inboxRows') : i < j =>
          /\ Numbered(inboxRows'[i]) /\ Numbered(inboxRows'[j]) => inboxRows'[i].seq <= inboxRows'[j].seq
          /\ Timed(inboxRows'[i]) /\ Timed(inboxRows'[j]) => inboxRows'[i].at <= inboxRows'[j].at
  <2> SUFFICES ASSUME NEW i \in 1..Len(inboxRows'), NEW j \in 1..Len(inboxRows'), i < j
               PROVE  /\ Numbered(inboxRows'[i]) /\ Numbered(inboxRows'[j]) =>
                            inboxRows'[i].seq <= inboxRows'[j].seq
                      /\ Timed(inboxRows'[i]) /\ Timed(inboxRows'[j]) =>
                            inboxRows'[i].at <= inboxRows'[j].at
    OBVIOUS
  <2>1. i + 1 \in 1..Len(inboxRows) /\ j + 1 \in 1..Len(inboxRows) /\ i + 1 < j + 1
    BY <1>2
  <2>2. inboxRows'[i] = inboxRows[i + 1] /\ inboxRows'[j] = inboxRows[j + 1]
    BY <1>2
  <2> DEFINE p == inboxRows[i + 1]
             q == inboxRows[j + 1]
  <2>3. /\ Numbered(p) /\ Numbered(q) => p.seq <= q.seq
        /\ Timed(p) /\ Timed(q) => p.at <= q.at
    BY <2>1 DEF IngressInv
  <2> HIDE DEF p, q
  <2> QED
    BY <2>2, <2>3 DEF p, q
<1> QED
  BY <1>1, <1>2, <1>4, <1>5, <1>6, <1>7, GivenInOrder DEF IngressInv

LEMMA AbandonKeepsIngress ==
    ASSUME IngressInv, Ingress!Abandon PROVE IngressInv' /\ Kept
<1>1. /\ working > 0 /\ working' = 0 /\ UNCHANGED <<sender, carried, row, inboxRows>>
      /\ Ingress!Give(Head(inboxRows)) \/ given' = given
  BY DEF Ingress!Abandon
<1>2. Kept /\ Len(inboxRows) \in Nat
  BY <1>1 DEF Kept, IngressInv
<1>3. CASE Ingress!Give(Head(inboxRows))
  BY <1>1, <1>2, <1>3, GivenInOrder DEF IngressInv
<1>4. CASE given' = given
  BY <1>1, <1>2, <1>4 DEF IngressInv, Ingress!HandledInOrder
<1> QED
  BY <1>1, <1>3, <1>4

LEMMA IngressIsInvariant ==
    /\ Ingress!Init => IngressInv
    /\ IngressInv /\ [Ingress!Next]_(Ingress!ingress) => IngressInv' /\ (Kept \/ UNCHANGED Ingress!ingress)
<1>1. Ingress!Init => IngressInv
  BY DEF Ingress!Init, IngressInv, Ingress!HandledInOrder, Ingress!NoMessage, Ingress!Message
<1>2. ASSUME IngressInv, [Ingress!Next]_(Ingress!ingress)
      PROVE  IngressInv' /\ (Kept \/ UNCHANGED Ingress!ingress)
  <2>1. CASE \E boot \in {1, 2} : Ingress!Connect(boot)
    <3>1. PICK boot \in {1, 2} : Ingress!Connect(boot)
      BY <2>1
    <3>2. sender.seq \in Nat
      BY <1>2 DEF IngressInv
    <3> QED
      BY <1>2, <3>1, <3>2, SentKeepsIngress
      DEF IngressInv, Ingress!Connect, Ingress!Message, DeviceMessage
  <2>2. CASE \/ \E at \in 1..MaxClock, online \in BOOLEAN : Ingress!Send("telemetry", at, online)
             \/ Ingress!Send("ack", 0, TRUE)
    <3>1. \A at \in 1..MaxClock : at \in Nat
      BY IngressAssumption
    <3> QED
      BY <1>2, <2>2, <3>1, SendKeepsIngress
  <2>3. CASE \E m \in carried : Ingress!Receive(m)
    BY <1>2, <2>3, ReceiveKeepsIngress
  <2>4. CASE \E m \in carried : Ingress!Drop(m)
    BY <1>2, <2>4, SentKeepsIngress DEF Ingress!Drop, IngressInv
  <2>5. CASE Ingress!Drain
    <3>1. /\ UNCHANGED <<sender, carried, row, inboxRows, given>>
          /\ working' = IF Len(inboxRows) < BatchSize THEN Len(inboxRows) ELSE BatchSize
      BY <2>5 DEF Ingress!Drain
    <3>2. working' \in 0..Len(inboxRows)
      BY <1>2, <3>1, IngressAssumption DEF IngressInv
    <3> QED
      BY <1>2, <3>1, <3>2 DEF IngressInv, Ingress!HandledInOrder, Kept
  <2>6. CASE Ingress!HandleNext
    BY <1>2, <2>6, HandleNextKeepsIngress
  <2>7. CASE Ingress!Abandon
    BY <1>2, <2>7, AbandonKeepsIngress
  <2>8. CASE UNCHANGED Ingress!ingress
    BY <1>2, <2>8 DEF IngressInv, Ingress!HandledInOrder, Ingress!ingress
  <2> QED
    BY <1>2, <2>1, <2>2, <2>3, <2>4, <2>5, <2>6, <2>7, <2>8 DEF Ingress!Next
<1> QED
  BY <1>1, <1>2

\* The engine sees the messages of a device in the order it numbered them, and its
\* readings in the order of their times, whatever the broker repeats, delays or reorders
\* and wherever a pass over the inbox breaks off (DeviceIngress).
THEOREM EngineSeesMessagesInOrder == Spec => []HandledInOrder
<1>1. IngressInv => HandledInOrder
  BY DEF IngressInv, HandledInOrder
<1> QED
  BY <1>1, IngressIsInvariant, EachService, PTL DEF Ingress!Spec

\* A row leaves the inbox only when the engine has just been given it (DeviceIngress).
THEOREM AcceptedIsHandled == Spec => NothingIsLost
<1>1. IngressInv /\ [Ingress!Next]_(Ingress!ingress) =>
          [\A m \in Ingress!ToSet(inboxRows) \ Ingress!ToSet(inboxRows') :
               given'.message = m]_(Ingress!ingress)
  BY IngressIsInvariant DEF Kept
<1> QED
  BY <1>1, IngressIsInvariant, EachService, PTL
  DEF Ingress!Spec, NothingIsLost, Ingress!NothingIsLost

-----------------------------------------------------------------------------
(* Administration *)

ChangeType == [op : Admin!Operations, active : BOOLEAN, hardware : [home : BOOLEAN, primary : BOOLEAN,
               bay : BOOLEAN], written : SUBSET {"User", "Station", "Device", "Vehicle", "Bay"}]

\* The keys an operation of the routes was carried out under.
KeysUsed == {record.key : record \in audit}

\* A session that runs was there when the change began, or it has written the bay since.
AdminInv ==
    /\ session \in BOOLEAN /\ hardware \in [home : BOOLEAN, primary : BOOLEAN, bay : BOOLEAN]
    /\ change # NoChange =>
          change \in ChangeType /\ (session => change.active \/ "Bay" \in change.written)
    /\ IsFiniteSet(KeysUsed) /\ applied = Cardinality(KeysUsed)
    /\ Admin!HardwareStands

LEMMA WroteIsNoted ==
    ASSUME AdminInv, NEW r \in {"User", "Station", "Device", "Vehicle", "Bay"}, Admin!Wrote(r),
           change' # NoChange
    PROVE  /\ change # NoChange /\ change' \in ChangeType
           /\ change'.active = change.active /\ change'.written = change.written \cup {r}
BY DEF AdminInv, Admin!Wrote, ChangeType

LEMMA CommitKeepsAdmin ==
    ASSUME AdminInv, Admin!Commit PROVE AdminInv'
<1>1. /\ change # NoChange /\ change \in ChangeType /\ change' = NoChange
      /\ UNCHANGED <<session, applied, audit>>
      /\ session => change.active \/ "Bay" \in change.written
  BY DEF AdminInv, Admin!Commit
<1>2. session /\ change.op = "bay" => FALSE
  BY <1>1 DEF Admin!Commit, Admin!Refused, Admin!RowOf
<1>3. changed' = changed \/ \E thing \in {"station", "device", "vehicle", "bay"} :
                                /\ (thing = "bay" => change.op = "bay") /\ Admin!Edit(thing)
  BY <1>1 DEF Admin!Commit, Admin!Applied, Admin!Things, Admin!Operations, ChangeType
<1>4. Admin!HardwareStands'
  BY <1>1, <1>2, <1>3 DEF AdminInv, Admin!HardwareStands, Admin!Edit
<1>5. hardware' \in [home : BOOLEAN, primary : BOOLEAN, bay : BOOLEAN]
  BY <1>1 DEF AdminInv, Admin!Commit, Admin!Applied, Admin!Things, Admin!Operations, ChangeType
<1> QED
  BY <1>1, <1>4, <1>5 DEF AdminInv, KeysUsed

\* A key that is fresh is counted once.
LEMMA RecordCounts ==
    ASSUME AdminInv, NEW key, NEW op, Admin!Fresh(key), Admin!Record(key, op)
    PROVE  IsFiniteSet(KeysUsed') /\ applied' = Cardinality(KeysUsed')
<1>1. audit' = audit \cup {[key |-> key, op |-> op]} /\ applied' = applied + 1
  BY DEF Admin!Record
<1> DEFINE entry == [key |-> key, op |-> op]
<1>2. key \notin KeysUsed
  BY DEF Admin!Fresh, KeysUsed
<1>3. KeysUsed' = KeysUsed \cup {key}
  <2>1. entry.key = key
    OBVIOUS
  <2>2. KeysUsed' = {record.key : record \in audit \cup {entry}}
    BY <1>1 DEF KeysUsed
  <2> HIDE DEF entry
  <2> QED
    BY <2>1, <2>2 DEF KeysUsed
<1> HIDE DEF entry
<1>4. /\ IsFiniteSet(KeysUsed \cup {key})
      /\ Cardinality(KeysUsed \cup {key}) = Cardinality(KeysUsed) + 1
  BY <1>2, FS_AddElement DEF AdminInv
<1> QED
  BY <1>1, <1>3, <1>4 DEF AdminInv

LEMMA RoutesKeepAdmin ==
    ASSUME AdminInv, NEW key,
           Admin!Assign(key) \/ \E op \in {"thresholds", "relay"} : Admin!Configure(key, op)
    PROVE  AdminInv'
<1>1. CASE Admin!Assign(key)
  <2>1. ~session /\ session' = session /\ Admin!Wrote("Device")
    BY <1>1 DEF Admin!Assign
  <2>2. hardware' \in [home : BOOLEAN, primary : BOOLEAN, bay : BOOLEAN]
    BY <1>1 DEF AdminInv, Admin!Assign
  <2>3. change' # NoChange => change' \in ChangeType
    BY <2>1, WroteIsNoted
  <2> QED
    BY <1>1, <2>1, <2>2, <2>3, RecordCounts DEF AdminInv, Admin!Assign, Admin!HardwareStands
<1>2. ASSUME NEW op \in {"thresholds", "relay"}, Admin!Configure(key, op) PROVE AdminInv'
  <2>1. ~session /\ session' = session /\ hardware' = hardware
    BY <1>2 DEF Admin!Configure
  <2>2. change' # NoChange => change' \in ChangeType
    BY <1>2, WroteIsNoted DEF Admin!Configure
  <2> QED
    BY <1>2, <2>1, <2>2, RecordCounts DEF AdminInv, Admin!Configure, Admin!HardwareStands
<1> QED
  BY <1>1, <1>2

LEMMA AdminIsInvariant ==
    /\ Admin!Init => AdminInv
    /\ AdminInv /\ [Admin!Next]_(Admin!admin) => AdminInv'
<1>1. ASSUME Admin!Init PROVE AdminInv
  <2>1. KeysUsed = {} /\ audit = {}
    BY <1>1 DEF Admin!Init, KeysUsed
  <2> QED
    BY <1>1, <2>1, FS_EmptySet DEF Admin!Init, AdminInv, Admin!HardwareStands
<1>2. ASSUME AdminInv, [Admin!Next]_(Admin!admin) PROVE AdminInv'
  <2>1. CASE Admin!Start \/ Admin!Finish \/ Admin!RaiseFault
    <3>1. Admin!Wrote("Bay") /\ UNCHANGED <<hardware, applied, audit>>
      BY <2>1 DEF Admin!Start, Admin!Finish, Admin!RaiseFault
    <3>2. change' # NoChange => change' \in ChangeType /\ "Bay" \in change'.written
      BY <1>2, <3>1, WroteIsNoted
    <3>3. session' \in BOOLEAN /\ Admin!HardwareStands'
      <4>1. CASE Admin!Start
        BY <4>1 DEF Admin!Start, Admin!HardwareStands
      <4>2. CASE Admin!Finish
        BY <4>2 DEF Admin!Finish, Admin!HardwareStands
      <4>3. CASE Admin!RaiseFault
        BY <1>2, <4>3 DEF AdminInv, Admin!RaiseFault, Admin!HardwareStands
      <4> QED
        BY <2>1, <4>1, <4>2, <4>3
    <3> QED
      BY <1>2, <3>1, <3>2, <3>3 DEF AdminInv, KeysUsed
  <2>2. CASE \E op \in Admin!Operations : Admin!Begin(op)
    BY <1>2, <2>2 DEF AdminInv, Admin!Begin, ChangeType, KeysUsed, Admin!HardwareStands
  <2>3. CASE Admin!Commit
    BY <1>2, <2>3, CommitKeepsAdmin
  <2>4. CASE Admin!RollBack
    BY <1>2, <2>4 DEF AdminInv, Admin!RollBack, KeysUsed, Admin!HardwareStands
  <2>5. CASE \E key \in Keys : Admin!Assign(key) \/ \E op \in {"thresholds", "relay"} : Admin!Configure(key, op)
    BY <1>2, <2>5, RoutesKeepAdmin
  <2>6. CASE Admin!ReadFault \/ Admin!Acknowledge \/ Admin!Resolve
    BY <1>2, <2>6
    DEF AdminInv, Admin!ReadFault, Admin!Acknowledge, Admin!Resolve, KeysUsed, Admin!HardwareStands
  <2>7. CASE UNCHANGED Admin!admin
    BY <1>2, <2>7 DEF AdminInv, Admin!admin, KeysUsed, Admin!HardwareStands
  <2> QED
    BY <1>2, <2>1, <2>2, <2>3, <2>4, <2>5, <2>6, <2>7 DEF Admin!Next
<1> QED
  BY <1>1, <1>2

\* The bay, the channel of its relay and the limits of its device are those a session began
\* with, though a change that is under way looked for a session before it began: starting
\* writes the bay, which the change then cannot (Administration).
THEOREM HardwareStaysUnderSession == Spec => []HardwareStands
<1>1. AdminInv => HardwareStands
  BY DEF AdminInv, HardwareStands
<1> QED
  BY <1>1, AdminIsInvariant, EachService, PTL DEF Admin!Spec

\* A request of an administrator that is sent again is not carried out again: there are as
\* many operations as keys they were asked for with (Administration).
THEOREM RepeatedIsNotApplied == Spec => []AppliedOnce
<1>1. AdminInv => AppliedOnce
  <2> SUFFICES ASSUME AdminInv PROVE AppliedOnce
    OBVIOUS
  <2>1. Cardinality(KeysUsed) \in Nat /\ applied = Cardinality(KeysUsed)
    BY FS_CardinalityType DEF AdminInv
  <2>2. AppliedOnce <=> applied <= Cardinality(KeysUsed)
    <3>1. \A S : Admin!Cardinality(S) = Cardinality(S)
      BY DEF Admin!Cardinality, Cardinality
    <3> QED
      BY <3>1 DEF AppliedOnce, Admin!AppliedOnce, KeysUsed
  <2> QED
    BY <2>1, <2>2
<1> QED
  BY <1>1, AdminIsInvariant, EachService, PTL DEF Admin!Spec

-----------------------------------------------------------------------------
(* Realtime *)

AccountType == [active : BOOLEAN, admin : BOOLEAN]

WorkType == [kind : {"subscribe", "unsubscribe"}, room : Sockets!Rooms]
            \cup [kind : {"check", "authenticate"}] \cup [kind : {"event"}, number : Nat]

\* What the account that was read may know of the event at the head of the work, the user
\* has been entitled to.
HeadIsDue ==
    checked # NoAccount =>
        /\ socket = "user" /\ work # <<>> /\ checked \in AccountType /\ checked.active
        /\ Head(work).kind # "authenticate"
        /\ Head(work).kind = "event" /\ Sockets!MayKnow(checked, events[Head(work).number]) =>
               Head(work).number \in entitled

\* An event that waits was published; what the user is entitled to now is noted.
RealtimeInv ==
    /\ account \in AccountType /\ work \in Seq(WorkType) /\ rooms \subseteq Sockets!Rooms
    /\ events \in Seq(Sockets!Subjects) /\ delivered \in Seq(Nat)
    /\ \A i \in 1..Len(work) : work[i].kind = "event" => work[i].number \in 1..Len(events)
    /\ Sockets!Due(account) \subseteq entitled
    /\ HeadIsDue
    /\ Sockets!HeardIsDue

\* An account reads what it may of what it is due.
LEMMA DueIsEntitled ==
    ASSUME RealtimeInv, NEW n \in 1..Len(events), Sockets!MayKnow(account, events[n])
    PROVE  n \in entitled
BY DEF RealtimeInv, Sockets!Due

\* Taking work from the head, or closing, leaves work that was there.
LEMMA LessWork ==
    ASSUME RealtimeInv, \/ work' = work
                        \/ work # <<>> /\ work' = Tail(work)
                        \/ work' = <<>>
    PROVE  /\ work' \in Seq(WorkType)
           /\ \A i \in 1..Len(work') : work'[i].kind = "event" => work'[i].number \in 1..Len(events)
<1>1. work \in Seq(WorkType)
      /\ \A i \in 1..Len(work) : work[i].kind = "event" => work[i].number \in 1..Len(events)
  BY DEF RealtimeInv
<1>2. CASE work # <<>> /\ work' = Tail(work)
  <2>1. /\ work' \in Seq(WorkType)
        /\ \A i \in 1..Len(work') : i + 1 \in 1..Len(work) /\ work'[i] = work[i + 1]
    BY <1>1, <1>2
  <2> QED
    BY <1>1, <2>1
<1>3. CASE work' = <<>>
  BY <1>3
<1> QED
  BY <1>1, <1>2, <1>3

\* An item that is queued leaves the head, or closes the socket.
LEMMA EnqueueKeepsWork ==
    ASSUME RealtimeInv, NEW item \in WorkType, Sockets!Enqueue(item),
           socket' # "closed" => socket' = socket,
           NEW n \in Nat, Len(events) <= n, item.kind = "event" => item.number \in 1..n
    PROVE  /\ work' \in Seq(WorkType) /\ rooms' \subseteq Sockets!Rooms
           /\ \A i \in 1..Len(work') : work'[i].kind = "event" => work'[i].number \in 1..n
           /\ checked' # NoAccount => /\ checked' = checked /\ socket' = socket
                                      /\ work # <<>> => Head(work') = Head(work) /\ work' # <<>>
<1>1. CASE Sockets!Close
  BY <1>1 DEF Sockets!Close
<1>2. CASE work' = Append(work, item) /\ UNCHANGED <<socket, rooms, checked>>
  <2>1. work \in Seq(WorkType) /\ events \in Seq(Sockets!Subjects)
    BY DEF RealtimeInv
  <2>2. /\ work' \in Seq(WorkType) /\ Len(work') = Len(work) + 1 /\ Len(work) \in Nat
        /\ \A i \in 1..Len(work) : work'[i] = work[i]
        /\ work'[Len(work) + 1] = item
        /\ work # <<>> => Head(work') = Head(work) /\ work' # <<>>
    BY <1>2, <2>1
  <2>3. ASSUME NEW i \in 1..Len(work'), work'[i].kind = "event" PROVE work'[i].number \in 1..n
    <3>1. CASE i = Len(work) + 1
      BY <2>2, <2>3, <3>1
    <3>2. CASE i \in 1..Len(work)
      <4>1. Len(events) \in Nat
        BY <2>1
      <4>2. work[i].number \in 1..Len(events)
        BY <2>2, <2>3, <3>2 DEF RealtimeInv
      <4> QED
        BY <2>2, <3>2, <4>1, <4>2
    <3> QED
      BY <2>2, <3>1, <3>2
  <2> QED
    BY <1>2, <2>2, <2>3 DEF RealtimeInv
<1> QED
  BY <1>1, <1>2 DEF Sockets!Enqueue

\* A step that only queues, or closes.
LEMMA QueueKeepsRealtime ==
    ASSUME RealtimeInv, NEW item \in WorkType, item.kind # "event", Sockets!Enqueue(item),
           UNCHANGED <<account, events, delivered, entitled>>
    PROVE  RealtimeInv'
<1>1. events \in Seq(Sockets!Subjects) /\ Len(events) \in Nat
  BY DEF RealtimeInv
<1>2. socket' # "closed" => socket' = socket
  BY DEF Sockets!Enqueue, Sockets!Close
<1>3. /\ work' \in Seq(WorkType) /\ rooms' \subseteq Sockets!Rooms
      /\ \A i \in 1..Len(work') : work'[i].kind = "event" => work'[i].number \in 1..Len(events)
      /\ checked' # NoAccount => /\ checked' = checked /\ socket' = socket
                                 /\ work # <<>> => Head(work') = Head(work) /\ work' # <<>>
  BY <1>1, <1>2, EnqueueKeepsWork
<1>4. HeadIsDue'
  BY <1>3 DEF RealtimeInv, HeadIsDue, Sockets!MayKnow
<1> QED
  BY <1>3, <1>4 DEF RealtimeInv, Sockets!Due, Sockets!MayKnow, Sockets!HeardIsDue

LEMMA PublishKeepsRealtime ==
    ASSUME RealtimeInv, NEW subject \in Sockets!Subjects, Sockets!Publish(subject)
    PROVE  RealtimeInv'
<1> DEFINE n == Len(events) + 1
           item == [kind |-> "event", number |-> n]
<1>1. /\ events \in Seq(Sockets!Subjects) /\ events' = Append(events, subject)
      /\ UNCHANGED <<account, delivered>>
      /\ entitled' = IF Sockets!MayKnow(account, subject) THEN entitled \cup {n} ELSE entitled
  BY DEF RealtimeInv, Sockets!Publish
<1>2. /\ events' \in Seq(Sockets!Subjects) /\ Len(events') = n /\ n \in Nat /\ Len(events) <= n
      /\ \A i \in 1..Len(events) : events'[i] = events[i]
      /\ events'[n] = subject /\ Len(events) \in Nat
  BY <1>1
<1>3. item \in WorkType /\ item.kind = "event" /\ item.number \in 1..n
  BY <1>2 DEF WorkType
<1>4. /\ work' \in Seq(WorkType) /\ rooms' \subseteq Sockets!Rooms
      /\ \A i \in 1..Len(work') : work'[i].kind = "event" => work'[i].number \in 1..n
      /\ checked' # NoAccount => /\ checked' = checked /\ socket' = socket
                                 /\ work # <<>> => Head(work') = Head(work) /\ work' # <<>>
  <2>1. CASE Sockets!Enqueue(item)
    <3>1. socket' # "closed" => socket' = socket
      BY <2>1 DEF Sockets!Enqueue, Sockets!Close
    <3> HIDE DEF n, item
    <3> QED
      BY <1>2, <1>3, <2>1, <3>1, EnqueueKeepsWork
  <2>2. CASE UNCHANGED <<socket, rooms, work, checked>>
    <3>1. \A i \in 1..Len(work) : work[i].kind = "event" => work[i].number \in 1..n
      BY <1>2 DEF RealtimeInv
    <3> QED
      BY <2>2, <3>1 DEF RealtimeInv
  <2> QED
    BY <2>1, <2>2 DEF Sockets!Publish
<1>5. Sockets!Due(account)' \subseteq entitled'
  <2> SUFFICES ASSUME NEW i \in 1..Len(events'), Sockets!MayKnow(account, events'[i])
               PROVE  i \in entitled'
    BY <1>1 DEF Sockets!Due, Sockets!MayKnow
  <2>1. CASE i = n
    BY <1>1, <1>2, <2>1
  <2>2. CASE i \in 1..Len(events)
    BY <1>1, <1>2, <2>2, DueIsEntitled
  <2> QED
    BY <1>2, <2>1, <2>2
<1>6. HeadIsDue'
  <2> SUFFICES ASSUME checked' # NoAccount
               PROVE  /\ socket' = "user" /\ work' # <<>> /\ checked' \in AccountType /\ checked'.active
                      /\ Head(work').kind # "authenticate"
                      /\ Head(work').kind = "event" /\ Sockets!MayKnow(checked', events'[Head(work').number]) =>
                             Head(work').number \in entitled'
    BY DEF HeadIsDue, Sockets!MayKnow
  <2>1. checked' = checked /\ socket' = "user" /\ checked \in AccountType /\ checked.active
        /\ work # <<>> /\ Head(work') = Head(work) /\ work' # <<>> /\ Head(work).kind # "authenticate"
    BY <1>4 DEF RealtimeInv, HeadIsDue
  <2>2. Head(work) = work[1] /\ 1 \in 1..Len(work)
    BY <2>1 DEF RealtimeInv
  <2>3. ASSUME Head(work).kind = "event", Sockets!MayKnow(checked, events'[Head(work).number])
        PROVE  Head(work).number \in entitled'
    <3>1. Head(work).number \in 1..Len(events)
      BY <2>2, <2>3 DEF RealtimeInv
    <3>2. events'[Head(work).number] = events[Head(work).number]
      BY <1>2, <3>1
    <3>3. Head(work).number \in entitled
      BY <2>1, <2>3, <3>2 DEF RealtimeInv, HeadIsDue
    <3> QED
      BY <1>1, <3>3
  <2> QED
    BY <2>1, <2>3
<1>7. Sockets!HeardIsDue'
  BY <1>1 DEF RealtimeInv, Sockets!HeardIsDue
<1> QED
  BY <1>1, <1>2, <1>4, <1>5, <1>6, <1>7 DEF RealtimeInv

\* The account is read: what waits at the head is then due, or it may not be known.
LEMMA CurrentKeepsRealtime ==
    ASSUME RealtimeInv, Sockets!Current PROVE RealtimeInv'
<1>1. /\ socket = "user" /\ work # <<>> /\ Head(work).kind # "authenticate"
      /\ UNCHANGED <<account, events, delivered, entitled>>
  BY DEF Sockets!Current
<1>2. CASE Sockets!Close
  BY <1>1, <1>2, LessWork
  DEF RealtimeInv, HeadIsDue, Sockets!Close, Sockets!Due, Sockets!MayKnow, Sockets!HeardIsDue
<1>3. CASE account.active /\ checked' = account /\ UNCHANGED <<socket, rooms, work>>
  <2>1. Head(work) = work[1] /\ 1 \in 1..Len(work)
    BY <1>1 DEF RealtimeInv
  <2>2. ASSUME Head(work).kind = "event", Sockets!MayKnow(account, events[Head(work).number])
        PROVE  Head(work).number \in entitled
    BY <2>1, <2>2, DueIsEntitled DEF RealtimeInv
  <2>3. HeadIsDue'
    BY <1>1, <1>3, <2>2 DEF RealtimeInv, HeadIsDue, Sockets!MayKnow
  <2> QED
    BY <1>1, <1>3, <2>3 DEF RealtimeInv, Sockets!Due, Sockets!MayKnow, Sockets!HeardIsDue
<1> QED
  BY <1>2, <1>3 DEF Sockets!Current

\* What is allowed to the account that was read, that account may know.
LEMMA AllowedMayKnow ==
    ASSUME NEW acc \in AccountType, acc.active, NEW subject,
           Sockets!Allowed(subject, acc.admin, rooms)
    PROVE  Sockets!MayKnow(acc, subject)
BY DEF Sockets!Allowed, Sockets!MayKnow

LEMMA WorkKeepsRealtime ==
    ASSUME RealtimeInv, Sockets!Work PROVE RealtimeInv'
<1> DEFINE item == Head(work)
<1>1. /\ checked # NoAccount /\ work' = Tail(work) /\ checked' = NoAccount
      /\ UNCHANGED <<account, events>> /\ entitled' = entitled \cup Sockets!Due(account)
  BY DEF Sockets!Work, Sockets!Done
<1>2. /\ work # <<>> /\ checked \in AccountType /\ checked.active
      /\ item.kind = "event" /\ Sockets!MayKnow(checked, events[item.number]) => item.number \in entitled
  BY <1>1 DEF RealtimeInv, HeadIsDue
<1>3. item \in WorkType /\ item = work[1] /\ 1 \in 1..Len(work)
  BY <1>2 DEF RealtimeInv
<1>4. delivered' = delivered \/ /\ delivered' = Append(delivered, item.number)
                                /\ item.number \in entitled /\ item.number \in Nat
  <2>1. CASE item.kind = "event" /\ Sockets!Allowed(events[item.number], checked.admin, rooms)
    <3>1. item.number \in entitled
      BY <1>2, <2>1, AllowedMayKnow
    <3>2. item.number \in 1..Len(events) /\ Len(events) \in Nat
      BY <1>3, <2>1 DEF RealtimeInv
    <3> QED
      BY <2>1, <3>1, <3>2 DEF Sockets!Work
  <2> QED
    BY <2>1 DEF Sockets!Work
<1> HIDE DEF item
<1>5. delivered' \in Seq(Nat) /\ Sockets!HeardIsDue'
  <2>1. delivered \in Seq(Nat) /\ \A i \in 1..Len(delivered) : delivered[i] \in entitled'
    BY <1>1 DEF RealtimeInv, Sockets!HeardIsDue
  <2>2. CASE delivered' = delivered
    BY <2>1, <2>2 DEF Sockets!HeardIsDue
  <2>3. CASE delivered' = Append(delivered, item.number) /\ item.number \in entitled /\ item.number \in Nat
    <3> DEFINE n == item.number
    <3>1. delivered' = Append(delivered, n) /\ n \in Nat /\ n \in entitled'
      BY <1>1, <2>3
    <3> HIDE DEF n
    <3>2. /\ delivered' \in Seq(Nat) /\ Len(delivered') = Len(delivered) + 1 /\ Len(delivered) \in Nat
          /\ \A i \in 1..Len(delivered) : delivered'[i] = delivered[i]
          /\ delivered'[Len(delivered) + 1] = n
      BY <2>1, <3>1
    <3>3. \A i \in 1..Len(delivered') : delivered'[i] \in entitled'
      BY <2>1, <3>1, <3>2
    <3> QED
      BY <3>2, <3>3 DEF Sockets!HeardIsDue
  <2> QED
    BY <1>4, <2>2, <2>3
<1>6. rooms' \subseteq Sockets!Rooms
  <2>1. item.kind = "subscribe" => item.room \in Sockets!Rooms
    BY <1>3 DEF WorkType
  <2> QED
    BY <2>1 DEF RealtimeInv, Sockets!Work, Sockets!Enter, item
<1>7. /\ work' \in Seq(WorkType)
      /\ \A i \in 1..Len(work') : work'[i].kind = "event" => work'[i].number \in 1..Len(events)
  BY <1>1, <1>2, LessWork
<1> QED
  BY <1>1, <1>5, <1>6, <1>7 DEF RealtimeInv, HeadIsDue, Sockets!Due, Sockets!MayKnow

\* Everything else takes work away, closes the socket, or leaves the server alone.
LEMMA RestKeepsRealtime ==
    ASSUME RealtimeInv, UNCHANGED <<account, events, delivered, entitled>>,
           \/ Sockets!Close
           \/ UNCHANGED <<socket, rooms, work, checked>>
           \/ /\ work # <<>> /\ work' = Tail(work) /\ checked' = checked /\ rooms' = rooms
              /\ Head(work).kind = "authenticate"
           \/ rooms' = {} /\ checked' = NoAccount /\ work' = <<[kind |-> "authenticate"]>>
    PROVE  RealtimeInv'
<1>1. /\ Sockets!Due(account)' = Sockets!Due(account) /\ Sockets!HeardIsDue'
  BY DEF RealtimeInv, Sockets!Due, Sockets!MayKnow, Sockets!HeardIsDue
<1>2. /\ work' \in Seq(WorkType)
      /\ \A i \in 1..Len(work') : work'[i].kind = "event" => work'[i].number \in 1..Len(events)
  <2>1. CASE work' = <<[kind |-> "authenticate"]>>
    BY <2>1 DEF WorkType
  <2> QED
    BY <2>1, LessWork DEF Sockets!Close
<1>3. HeadIsDue'
  BY DEF RealtimeInv, HeadIsDue, Sockets!Close, Sockets!MayKnow
<1>4. rooms' \subseteq Sockets!Rooms
  BY DEF RealtimeInv, Sockets!Close
<1> QED
  BY <1>1, <1>2, <1>3, <1>4 DEF RealtimeInv

LEMMA RealtimeIsInvariant ==
    /\ Sockets!Init => RealtimeInv
    /\ RealtimeInv /\ [Sockets!Next]_(Sockets!realtime) => RealtimeInv'
<1>1. Sockets!Init => RealtimeInv
  BY DEF Sockets!Init, RealtimeInv, AccountType, HeadIsDue, Sockets!Due, Sockets!HeardIsDue
<1>2. ASSUME RealtimeInv, [Sockets!Next]_(Sockets!realtime) PROVE RealtimeInv'
  <2>1. CASE \E room \in Sockets!Rooms, verb \in {"subscribe", "unsubscribe"} :
                 Sockets!Message([kind |-> verb, room |-> room])
    <3>1. PICK room \in Sockets!Rooms, verb \in {"subscribe", "unsubscribe"} :
              Sockets!Message([kind |-> verb, room |-> room])
      BY <2>1
    <3> DEFINE item == [kind |-> verb, room |-> room]
    <3>2. item \in WorkType /\ item.kind # "event"
      BY DEF WorkType
    <3>3. Sockets!Enqueue(item) /\ UNCHANGED <<account, events, delivered, entitled>>
      BY <3>1 DEF Sockets!Message
    <3> HIDE DEF item
    <3> QED
      BY <1>2, <3>2, <3>3, QueueKeepsRealtime
  <2>2. CASE Sockets!Heartbeat
    <3> DEFINE item == [kind |-> "check"]
    <3>1. item \in WorkType /\ item.kind # "event"
      BY DEF WorkType
    <3>2. Sockets!Enqueue(item) /\ UNCHANGED <<account, events, delivered, entitled>>
      BY <2>2 DEF Sockets!Heartbeat
    <3> HIDE DEF item
    <3> QED
      BY <1>2, <3>1, <3>2, QueueKeepsRealtime
  <2>3. CASE \E subject \in Sockets!Subjects : Sockets!Publish(subject)
    BY <1>2, <2>3, PublishKeepsRealtime
  <2>4. CASE Sockets!Current
    BY <1>2, <2>4, CurrentKeepsRealtime
  <2>5. CASE Sockets!Work
    BY <1>2, <2>5, WorkKeepsRealtime
  <2>6. CASE Sockets!AuthTimeout \/ Sockets!Drop
    BY <1>2, <2>6, RestKeepsRealtime DEF Sockets!AuthTimeout, Sockets!Drop
  <2>7. CASE Sockets!Authenticate
    <3>1. CASE Sockets!Close
      BY <1>2, <2>7, <3>1, RestKeepsRealtime DEF Sockets!Authenticate
    <3>2. CASE ~Sockets!Close
      <4>1. /\ work # <<>> /\ work' = Tail(work) /\ UNCHANGED <<rooms, checked>>
            /\ Head(work).kind = "authenticate"
            /\ UNCHANGED <<account, events, delivered, entitled>>
        BY <2>7, <3>2 DEF Sockets!Authenticate
      <4> QED
        BY <1>2, <4>1, RestKeepsRealtime
    <3> QED
      BY <3>1, <3>2
  <2>8. CASE Sockets!Refuse
    BY <1>2, <2>8, RestKeepsRealtime DEF Sockets!Refuse
  <2>9. CASE \E again \in BOOLEAN : Sockets!Fetch(again) \/ Sockets!Closed(again) \/ Sockets!Dispose(again)
    BY <1>2, <2>9, RestKeepsRealtime DEF Sockets!Fetch, Sockets!Closed, Sockets!Dispose
  <2>10. CASE Sockets!Open
    BY <1>2, <2>10, RestKeepsRealtime DEF Sockets!Open
  <2>11. CASE Sockets!Welcome \/ Sockets!Clock
    BY <1>2, <2>11, RestKeepsRealtime DEF Sockets!Welcome, Sockets!Clock
  <2>12. CASE \E active, admits \in BOOLEAN : Sockets!Change([active |-> active, admin |-> admits])
    <3>1. PICK acc \in AccountType : Sockets!Change(acc)
      BY <2>12 DEF AccountType
    <3>2. account' = acc /\ entitled' = entitled \cup Sockets!Due(acc)
          /\ UNCHANGED <<socket, rooms, work, checked, events, delivered>>
      BY <3>1 DEF Sockets!Change
    <3>3. Sockets!Due(account)' \subseteq entitled'
      BY <3>2 DEF Sockets!Due, Sockets!MayKnow
    <3> QED
      BY <1>2, <3>2, <3>3 DEF RealtimeInv, HeadIsDue, Sockets!HeardIsDue, Sockets!MayKnow
  <2>13. CASE UNCHANGED Sockets!realtime
    BY <1>2, <2>13, RestKeepsRealtime DEF Sockets!realtime
  <2> QED
    BY <1>2, <2>1, <2>2, <2>3, <2>4, <2>5, <2>6, <2>7, <2>8, <2>9, <2>10, <2>11, <2>12, <2>13
    DEF Sockets!Next
<1> QED
  BY <1>1, <1>2

\* An event reaches a socket only for a user who was entitled to it at some time since it
\* was published, though the account is read before the event is sent, and the rooms and
\* the account may change in between (Realtime).
THEOREM NobodyHearsMore == Spec => []HeardIsDue
<1>1. RealtimeInv => HeardIsDue
  BY DEF RealtimeInv, HeardIsDue
<1> QED
  BY <1>1, RealtimeIsInvariant, EachService, PTL DEF Sockets!Spec

-----------------------------------------------------------------------------
(* FormRequests *)

ChoiceType == Choices \cup {"none"}
DraftType == [key : Nat, choice : ChoiceType, dialog : BOOLEAN, busy : BOOLEAN]
EffectType == [key : Nat, choice : ChoiceType, by : Forms!Calls, usable : BOOLEAN, open : BOOLEAN]
CallType == [at : {"none", "sent", "looked", "done", "refused", "over"}, key : Nat, choice : ChoiceType,
             of : Nat, heard : BOOLEAN, found : SUBSET EffectType]

FormType ==
    /\ draft \in DraftType /\ issued \in Nat /\ intention \in Nat
    /\ call \in [Forms!Calls -> CallType]
    /\ effects \subseteq EffectType /\ answers \subseteq [call : Forms!Calls, effect : EffectType]

Asked(n) == call[n].at # "none"

\* What was done was asked for; what a request was answered with was done for what its
\* user intended, as its user chose it.
DoneAsAsked ==
    /\ \A e \in effects : Asked(e.by) /\ e.key = call[e.by].key
    /\ \A n \in Forms!Calls : \A e \in call[n].found :
          Asked(n) /\ Asked(e.by) /\ call[e.by].of = call[n].of /\ e.choice = call[n].choice
    /\ \A a \in answers : Asked(a.call) /\ Asked(a.effect.by)

\* Every form but that of a reservation makes a key for an intention, and the backend does
\* under a key what it does once.
Keyed ==
    /\ draft.key = issued /\ issued = intention
    /\ \A n \in Forms!Calls : Asked(n) => call[n].key = call[n].of
    /\ \A e, f \in effects : e.key = f.key => e = f

\* A request that has had its effect, or may still have it.
Live(n) == call[n].at \in {"sent", "done"} \/ \E e \in effects : e.by = n

\* A reservation may be changed while its request is on its way, so that keys and intentions
\* part: but no two live requests have either in common, since the form waits for the answer.
Reserved ==
    /\ \A e \in effects : call[e.by].at \in {"done", "over"}
    /\ draft.busy => draft.dialog
    /\ draft.key <= issued
    /\ \A n \in Forms!Calls : call[n].key <= issued /\ call[n].of <= intention
    /\ \A n, m \in Forms!Calls : n # m /\ Live(n) /\ Live(m) =>
          call[n].key # call[m].key /\ call[n].of # call[m].of
    /\ \A n, m \in Forms!Calls : n # m /\ call[n].heard =>
          /\ ~call[m].heard
          /\ Live(m) => call[m].key < draft.key /\ call[m].of < call[n].of
    /\ \A n \in Forms!Calls : call[n].heard => draft.busy
    /\ ~draft.busy => \A m \in Forms!Calls : Live(m) =>
          call[m].key < draft.key /\ call[m].of < intention

FormInv ==
    /\ FormType /\ DoneAsAsked /\ Forms!OncePerIntention
    /\ kind # "reserve" => Keyed
    /\ kind = "reserve" => Reserved

\* What was asked stays as it was asked.
Same(n) == /\ call'[n].key = call[n].key /\ call'[n].choice = call[n].choice
           /\ call'[n].of = call[n].of /\ call'[n].at # "none"

\* A step in which nothing new is done or found.
LEMMA NothingNew ==
    ASSUME FormType, DoneAsAsked, Forms!OncePerIntention, FormType',
           \A n \in Forms!Calls : /\ Asked(n) => Same(n) /\ call'[n].found \subseteq call[n].found
                                  /\ ~Asked(n) => call'[n].found = {},
           \A e \in effects' : \E f \in effects : e.key = f.key /\ e.by = f.by,
           answers' = answers
    PROVE  DoneAsAsked' /\ Forms!OncePerIntention'
<1>1. \A e \in effects' : \E f \in effects :
         e.key = f.key /\ e.by = f.by /\ e.by \in Forms!Calls /\ Asked(e.by) /\ Same(e.by)
  BY DEF FormType, DoneAsAsked, EffectType
<1>2. \A e \in effects' : Asked(e.by)' /\ e.key = call'[e.by].key
  BY <1>1 DEF DoneAsAsked, Asked, Same
<1>3. ASSUME NEW n \in Forms!Calls, NEW e \in call'[n].found
      PROVE  (Asked(n) /\ Asked(e.by) /\ call[e.by].of = call[n].of /\ e.choice = call[n].choice)'
  <2>1. Asked(n) /\ Same(n) /\ e \in call[n].found
    BY <1>3
  <2>2. Asked(e.by) /\ call[e.by].of = call[n].of /\ e.choice = call[n].choice /\ e.by \in Forms!Calls
    BY <2>1 DEF DoneAsAsked, FormType, CallType, EffectType
  <2> QED
    BY <2>1, <2>2 DEF Same, Asked
<1>4. ASSUME NEW a \in answers'
      PROVE  /\ (Asked(a.call) /\ Asked(a.effect.by))'
             /\ call'[a.effect.by].of = call'[a.call].of /\ a.effect.choice = call'[a.call].choice
  <2>1. a.call \in Forms!Calls /\ a.effect.by \in Forms!Calls
    BY DEF FormType, EffectType
  <2>2. Same(a.call) /\ Same(a.effect.by)
    BY <2>1 DEF DoneAsAsked
  <2> QED
    BY <2>1, <2>2 DEF Forms!OncePerIntention, Same, Asked
<1>5. ASSUME NEW e \in effects', NEW f \in effects', call'[e.by].of = call'[f.by].of
      PROVE  e.by = f.by
  BY <1>1, <1>5 DEF Forms!OncePerIntention, Same
<1> QED
  BY <1>2, <1>3, <1>4, <1>5 DEF DoneAsAsked, Forms!OncePerIntention

\* Where the keys stay with the intentions, and nothing new is done, so do the forms.
LEMMA KeyedStays ==
    ASSUME Keyed, draft'.key = issued', issued' = intention',
           \A n \in Forms!Calls : (Asked(n) /\ Same(n)) \/ (Asked(n)' => call'[n].key = call'[n].of),
           \A e, f \in effects' : e.key = f.key => e = f
    PROVE  Keyed'
BY DEF Keyed, Same, Asked

LEMMA RenewedDraft ==
    ASSUME issued \in Nat, NEW f \in DraftType, Forms!Renewed(f)
    PROVE  /\ draft' \in DraftType /\ issued' = issued + 1 /\ draft'.key = issued'
           /\ draft'.dialog = f.dialog /\ draft'.busy = f.busy
BY DEF DraftType, Forms!Renewed

\* The page: no request changes.
LEMMA PageKeepsForms ==
    ASSUME FormInv, NEW c \in ChoiceType,
           Forms!Change(c) \/ Forms!ChangePayment(c) \/ Forms!Drift(c) \/ Forms!Review \/ Forms!Keep
    PROVE  FormInv'
<1>1. UNCHANGED <<kind, call, effects, answers>>
  BY DEF Forms!Change, Forms!ChangePayment, Forms!Drift, Forms!Review, Forms!Keep
<1>2. /\ draft' \in DraftType /\ issued' \in Nat /\ intention' \in Nat
      /\ draft'.busy = draft.busy
      /\ draft.key <= issued => draft.key <= draft'.key /\ draft'.key <= issued'
      /\ issued <= issued' /\ intention <= intention'
      /\ kind = "reserve" /\ draft.busy /\ draft.dialog => draft'.dialog
  <2> USE DEF DraftType
  <2>1. draft \in DraftType /\ issued \in Nat /\ intention \in Nat
    BY DEF FormInv, FormType
  <2>2. CASE Forms!Change(c)
    <3> DEFINE f == [draft EXCEPT !.choice = c]
    <3>1. f \in DraftType /\ f.busy = draft.busy /\ f.key = draft.key /\ f.dialog = draft.dialog
      BY <2>1
    <3> HIDE DEF f
    <3>2. Forms!Renewed(f) \/ (draft' = f /\ issued' = issued)
      BY <2>2 DEF Forms!Change, f
    <3>4. /\ draft' \in DraftType /\ draft'.busy = draft.busy /\ draft'.dialog = draft.dialog
          /\ (draft'.key = draft.key /\ issued' = issued) \/ (draft'.key = issued' /\ issued' = issued + 1)
      BY <2>1, <3>1, <3>2, RenewedDraft
    <3>3. intention' = intention + 1
      BY <2>2 DEF Forms!Change, Forms!NewIntention
    <3> QED
      BY <2>1, <3>3, <3>4
  <2>3. CASE Forms!ChangePayment(c)
    BY <2>1, <2>3 DEF Forms!ChangePayment, Forms!NewIntention
  <2>4. CASE Forms!Drift(c)
    BY <2>1, <2>4 DEF Forms!Drift
  <2>5. CASE Forms!Review
    <3> DEFINE f == [draft EXCEPT !.dialog = TRUE]
    <3>1. f \in DraftType /\ f.busy = draft.busy /\ f.key = draft.key /\ f.dialog = TRUE
      BY <2>1
    <3> HIDE DEF f
    <3>2. Forms!Renewed(f) \/ (draft' = f /\ issued' = issued)
      BY <2>5 DEF Forms!Review, f
    <3>4. /\ draft' \in DraftType /\ draft'.busy = draft.busy /\ draft'.dialog = TRUE
          /\ (draft'.key = draft.key /\ issued' = issued) \/ (draft'.key = issued' /\ issued' = issued + 1)
      BY <2>1, <3>1, <3>2, RenewedDraft
    <3>3. intention' = intention
      BY <2>5 DEF Forms!Review
    <3> QED
      BY <2>1, <3>3, <3>4
  <2>6. CASE Forms!Keep
    <3>1. draft' = [draft EXCEPT !.dialog = FALSE] /\ ~draft.busy /\ UNCHANGED <<issued, intention>>
      BY <2>6 DEF Forms!Keep
    <3>2. draft' \in DraftType /\ draft'.busy = draft.busy /\ draft'.key = draft.key
      BY <2>1, <3>1
    <3> QED
      BY <2>1, <3>1, <3>2
  <2> QED
    BY <2>2, <2>3, <2>4, <2>5, <2>6
<1>3. FormType'
  BY <1>1, <1>2 DEF FormInv, FormType
<1>4. DoneAsAsked' /\ Forms!OncePerIntention'
  BY <1>1 DEF FormInv, DoneAsAsked, Asked, Forms!OncePerIntention
<1>5. ASSUME kind # "reserve" PROVE Keyed'
  <2>1. draft'.key = issued' /\ issued' = intention'
    BY <1>5 DEF FormInv, Keyed, FormType, DraftType, Forms!Change, Forms!ChangePayment, Forms!Drift,
           Forms!Review, Forms!Keep, Forms!Renewed, Forms!NewIntention
  <2> QED
    BY <1>1, <1>5, <2>1 DEF FormInv, Keyed, Asked
<1>6. ASSUME kind = "reserve" PROVE Reserved'
  <2>1. /\ draft'.busy = draft.busy /\ draft.key <= draft'.key /\ draft'.key <= issued'
        /\ issued <= issued' /\ intention <= intention'
        /\ draft.busy => draft'.dialog
    BY <1>2, <1>6 DEF FormInv, Reserved
  <2>2. \A n \in Forms!Calls : call[n].key \in Nat /\ call[n].of \in Nat
    BY DEF FormInv, FormType, CallType
  <2>3. /\ draft.key \in Nat /\ draft'.key \in Nat /\ issued \in Nat /\ issued' \in Nat
        /\ intention \in Nat /\ intention' \in Nat
    BY <1>3 DEF FormInv, FormType, DraftType
  <2>4. \A n \in Forms!Calls : Live(n)' <=> Live(n)
    BY <1>1 DEF Live
  <2>5. Reserved
    BY <1>6 DEF FormInv
  <2> QED
    BY <1>1, <2>1, <2>2, <2>3, <2>4, <2>5 DEF Reserved
<1> QED
  BY <1>1, <1>3, <1>4, <1>5, <1>6 DEF FormInv

LEMMA ConfirmKeepsForms ==
    ASSUME FormInv, NEW n \in Forms!Calls, Forms!Confirm(n) PROVE FormInv'
<1> DEFINE c == [at |-> "sent", key |-> draft.key, choice |-> draft.choice, of |-> intention,
                 heard |-> TRUE, found |-> {}]
<1>1. /\ ~draft.busy /\ call[n] = Forms!NoCall /\ ~Asked(n) /\ call' = [call EXCEPT ![n] = c]
      /\ draft' = [draft EXCEPT !.busy = TRUE]
      /\ UNCHANGED <<kind, issued, intention, effects, answers>>
  BY DEF Forms!Confirm, Forms!NoCall, Asked
<1>2. c \in CallType /\ call \in [Forms!Calls -> CallType] /\ draft \in DraftType
  BY DEF FormInv, FormType, DraftType, CallType
<1>3. /\ c.at = "sent" /\ c.key = draft.key /\ c.of = intention /\ c.heard /\ c.found = {}
  OBVIOUS
<1> HIDE DEF c
<1>4. /\ call' \in [Forms!Calls -> CallType] /\ call'[n] = c
      /\ \A m \in Forms!Calls : m # n => call'[m] = call[m]
  BY <1>1, <1>2
<1>5. /\ draft' \in DraftType /\ draft'.key = draft.key /\ draft'.busy /\ draft'.dialog = draft.dialog
  BY <1>1, <1>2 DEF DraftType
<1>6. FormType'
  BY <1>1, <1>4, <1>5 DEF FormInv, FormType
<1>7. DoneAsAsked' /\ Forms!OncePerIntention'
  <2>1. \A m \in Forms!Calls : /\ Asked(m) => Same(m) /\ call'[m].found \subseteq call[m].found
                               /\ ~Asked(m) => call'[m].found = {}
    BY <1>1, <1>3, <1>4 DEF FormInv, DoneAsAsked, Asked, Same
  <2> QED
    BY <1>1, <1>6, <2>1, NothingNew DEF FormInv
<1>8. ASSUME kind # "reserve" PROVE Keyed'
  <2>1. \A m \in Forms!Calls : (Asked(m) /\ Same(m)) \/ (Asked(m)' => call'[m].key = call'[m].of)
    BY <1>1, <1>3, <1>4, <1>8 DEF FormInv, Keyed, Asked, Same
  <2> QED
    BY <1>1, <1>5, <1>8, <2>1, KeyedStays DEF FormInv, Keyed
<1>9. ASSUME kind = "reserve" PROVE Reserved'
  <2>1. Reserved /\ draft.dialog
    BY <1>9 DEF FormInv, Forms!Confirm, Forms!Reviewed
  <2>2. ~Live(n)
    BY <1>1 DEF Live, FormInv, DoneAsAsked, Asked
  <2>3. \A m \in Forms!Calls : m # n => (Live(m)' <=> Live(m))
    BY <1>1, <1>4 DEF Live
  <2>4. \A m \in Forms!Calls : call[m].key \in Nat /\ call[m].of \in Nat
    BY DEF FormInv, FormType, CallType
  <2>5. draft.key \in Nat /\ issued \in Nat /\ intention \in Nat
    BY DEF FormInv, FormType, DraftType
  <2>6. \A e \in effects : e.by # n /\ e.by \in Forms!Calls
    BY <2>2 DEF Live, FormInv, FormType, EffectType
  <2>7. \A m \in Forms!Calls : Live(m) => call[m].key < draft.key /\ call[m].of < intention
    BY <1>1, <2>1 DEF Reserved
  <2>8. \A m \in Forms!Calls : ~call[m].heard
    BY <1>1, <2>1 DEF Reserved
  <2>9. \A m \in Forms!Calls : call'[m].heard => m = n
    BY <1>4, <2>8
  <2>10. \A m, o \in Forms!Calls : m # o /\ Live(m)' /\ Live(o)' =>
            call'[m].key # call'[o].key /\ call'[m].of # call'[o].of
    <3>1. \A m \in Forms!Calls : m # n /\ Live(m)' =>
             call'[m].key < call'[n].key /\ call'[m].of < call'[n].of
      BY <1>3, <1>4, <2>3, <2>7
    <3>2. \A m, o \in Forms!Calls : m # o /\ m # n /\ o # n /\ Live(m)' /\ Live(o)' =>
            call'[m].key # call'[o].key /\ call'[m].of # call'[o].of
      BY <1>4, <2>1, <2>3 DEF Reserved
    <3>3. \A m \in Forms!Calls : call'[m].key \in Nat /\ call'[m].of \in Nat
      BY <1>4 DEF CallType
    <3> QED
      BY <3>1, <3>2, <3>3
  <2>11. \A m \in Forms!Calls : call'[m].key <= issued' /\ call'[m].of <= intention'
    BY <1>1, <1>3, <1>4, <2>1, <2>5 DEF Reserved
  <2>12. \A m, o \in Forms!Calls : m # o /\ call'[m].heard =>
             /\ ~call'[o].heard
             /\ Live(o)' => call'[o].key < draft'.key /\ call'[o].of < call'[m].of
    BY <1>3, <1>4, <1>5, <2>3, <2>7, <2>9
  <2>13. /\ \A e \in effects' : call'[e.by].at \in {"done", "over"}
         /\ draft'.dialog /\ draft'.key <= issued'
    BY <1>1, <1>4, <1>5, <2>1, <2>6 DEF Reserved
  <2> QED
    BY <1>5, <2>10, <2>11, <2>12, <2>13 DEF Reserved
<1> QED
  BY <1>1, <1>6, <1>7, <1>8, <1>9 DEF FormInv

\* The form has been answered or left: it makes a new key for a new intention.
Reopened ==
    /\ draft'.key = issued' /\ issued' = issued + 1 /\ intention' = intention + 1 /\ ~draft'.busy
    /\ kind = "reserve" => \A m \in Forms!Calls : ~call'[m].heard

\* The form goes on, or may be confirmed again once a request is over without effect.
GoesOn ==
    /\ issued' = issued /\ intention' = intention /\ draft'.key = draft.key
    /\ \/ draft' = draft
       \/ /\ ~draft'.busy
          /\ kind = "reserve" =>
                \E n \in Forms!Calls : call[n].heard /\ ~call'[n].heard /\ ~Live(n)'

\* Requests come to an end, in a step that does nothing new.
LEMMA SettledKeys ==
    ASSUME FormInv, FormType', UNCHANGED <<kind, effects>>,
           \A m \in Forms!Calls :
               /\ call'[m].key = call[m].key /\ call'[m].of = call[m].of
               /\ call'[m].choice = call[m].choice /\ (Asked(m) <=> Asked(m)')
               /\ call'[m].heard => call[m].heard
               /\ call'[m].at \in {"sent", "done"} => call[m].at \in {"sent", "done"}
               /\ call[m].at \in {"done", "over"} => call'[m].at \in {"done", "over"},
           Reopened \/ GoesOn
    PROVE  (kind # "reserve" => Keyed') /\ (kind = "reserve" => Reserved')
<1>1. ASSUME kind # "reserve" PROVE Keyed'
  <2>1. draft'.key = issued' /\ issued' = intention'
    BY <1>1 DEF FormInv, Keyed, Reopened, GoesOn
  <2>2. \A n \in Forms!Calls : (Asked(n) /\ Same(n)) \/ (Asked(n)' => call'[n].key = call'[n].of)
    BY DEF Same, Asked
  <2> QED
    BY <1>1, <2>1, <2>2, KeyedStays DEF FormInv, Keyed
<1>2. ASSUME kind = "reserve" PROVE Reserved'
  <2>1. Reserved
    BY <1>2 DEF FormInv
  <2>2. \A m \in Forms!Calls : Live(m)' => Live(m)
    BY DEF Live
  <2>3. \A m \in Forms!Calls : call[m].key \in Nat /\ call[m].of \in Nat
    BY DEF FormInv, FormType, CallType
  <2>4. draft.key \in Nat /\ issued \in Nat /\ intention \in Nat
    BY DEF FormInv, FormType, DraftType
  <2>5. \A e \in effects' : call'[e.by].at \in {"done", "over"}
    BY <2>1 DEF Reserved, FormInv, FormType, EffectType
  <2>6. \A n, m \in Forms!Calls : n # m /\ Live(n)' /\ Live(m)' =>
            call'[n].key # call'[m].key /\ call'[n].of # call'[m].of
    BY <2>1, <2>2 DEF Reserved
  <2>7. CASE Reopened
    <3>1. \A m \in Forms!Calls : call'[m].key < draft'.key /\ call'[m].of < intention'
      BY <2>1, <2>3, <2>4, <2>7 DEF Reserved, Reopened
    <3>2. /\ \A m \in Forms!Calls : ~call'[m].heard
          /\ ~draft'.busy /\ draft'.key = issued' /\ issued' = issued + 1 /\ intention' = intention + 1
      BY <1>2, <2>7 DEF Reopened
    <3>3. \A m \in Forms!Calls : call'[m].key <= issued' /\ call'[m].of <= intention'
      BY <2>1, <2>3, <2>4, <3>2 DEF Reserved
    <3>4. draft'.key <= issued'
      BY <2>4, <3>2
    <3> QED
      BY <2>5, <2>6, <3>1, <3>2, <3>3, <3>4 DEF Reserved
  <2>8. CASE GoesOn /\ draft' = draft
    BY <2>1, <2>2, <2>5, <2>6, <2>8 DEF Reserved, GoesOn
  <2>9. CASE GoesOn /\ draft' # draft
    <3>1. ~draft'.busy /\ UNCHANGED <<issued, intention>> /\ draft'.key = draft.key
      BY <2>9 DEF GoesOn
    <3>2. PICK n \in Forms!Calls : call[n].heard /\ ~call'[n].heard /\ ~Live(n)'
      BY <1>2, <2>9 DEF GoesOn
    <3>3. \A m \in Forms!Calls : ~call'[m].heard
      BY <2>1, <3>2 DEF Reserved
    <3>4. \A m \in Forms!Calls : Live(m)' => call'[m].key < draft'.key /\ call'[m].of < intention'
      <4> SUFFICES ASSUME NEW m \in Forms!Calls, Live(m)'
                   PROVE  call'[m].key < draft'.key /\ call'[m].of < intention'
        OBVIOUS
      <4>1. m # n /\ Live(m)
        BY <2>2, <3>2
      <4>2. call[m].key < draft.key /\ call[m].of < call[n].of /\ call[n].of <= intention
        BY <2>1, <3>2, <4>1 DEF Reserved
      <4> QED
        BY <2>3, <2>4, <3>1, <4>2
    <3> QED
      BY <2>1, <2>5, <2>6, <3>1, <3>3, <3>4 DEF Reserved
  <2> QED
    BY <2>7, <2>8, <2>9
<1> QED
  BY <1>1, <1>2

\* What an update of one field, or two, leaves as it was.
LEMMA OneAnswer ==
    ASSUME call \in [Forms!Calls -> CallType], NEW n \in Forms!Calls,
           NEW at \in {"sent", "looked", "done", "refused", "over"}, NEW found \in SUBSET EffectType,
           Forms!Answer(n, at, found)
    PROVE  /\ call' \in [Forms!Calls -> CallType]
           /\ \A m \in Forms!Calls : m # n => call'[m] = call[m]
           /\ call'[n].at = at /\ call'[n].found = found
           /\ call'[n].key = call[n].key /\ call'[n].of = call[n].of
           /\ call'[n].choice = call[n].choice /\ call'[n].heard = call[n].heard
<1> DEFINE c == [call[n] EXCEPT !.at = at]
           d == [c EXCEPT !.found = found]
<1>1. c \in CallType /\ c.at = at /\ c.key = call[n].key /\ c.of = call[n].of
      /\ c.choice = call[n].choice /\ c.heard = call[n].heard
  BY DEF CallType
<1>2. call' = [call EXCEPT ![n] = d]
  BY DEF Forms!Answer
<1> HIDE DEF c
<1>3. d \in CallType /\ d.at = at /\ d.key = c.key /\ d.of = c.of
      /\ d.choice = c.choice /\ d.heard = c.heard /\ d.found = found
  BY <1>1 DEF CallType
<1> HIDE DEF d
<1> QED
  BY <1>1, <1>2, <1>3

LEMMA OneOver ==
    ASSUME call \in [Forms!Calls -> CallType], NEW n \in Forms!Calls,
           call' = [call EXCEPT ![n].at = "over", ![n].heard = FALSE]
    PROVE  /\ call' \in [Forms!Calls -> CallType]
           /\ \A m \in Forms!Calls : m # n => call'[m] = call[m]
           /\ call'[n].at = "over" /\ ~call'[n].heard /\ call'[n].found = call[n].found
           /\ call'[n].key = call[n].key /\ call'[n].of = call[n].of
           /\ call'[n].choice = call[n].choice
<1> DEFINE c == [call[n] EXCEPT !.at = "over"]
           d == [c EXCEPT !.heard = FALSE]
<1>1. c \in CallType /\ c.at = "over" /\ c.key = call[n].key /\ c.of = call[n].of
      /\ c.choice = call[n].choice /\ c.found = call[n].found
  BY DEF CallType
<1>2. call' = [call EXCEPT ![n] = d]
  OBVIOUS
<1> HIDE DEF c
<1>3. d \in CallType /\ d.at = c.at /\ d.key = c.key /\ d.of = c.of
      /\ d.choice = c.choice /\ ~d.heard /\ d.found = c.found
  BY <1>1 DEF CallType
<1> HIDE DEF d
<1> QED
  BY <1>1, <1>2, <1>3

\* A request comes to an end, or its form stops listening, and nothing is done.
LEMMA EndsKeepForms ==
    ASSUME FormInv, UNCHANGED <<kind, effects, answers>>,
           draft' \in DraftType, issued' \in Nat, intention' \in Nat,
           call' \in [Forms!Calls -> CallType],
           \A m \in Forms!Calls :
               /\ call'[m].key = call[m].key /\ call'[m].of = call[m].of
               /\ call'[m].choice = call[m].choice /\ (Asked(m) <=> Asked(m)')
               /\ call'[m].found \subseteq call[m].found
               /\ call'[m].heard => call[m].heard
               /\ call'[m].at \in {"sent", "done"} => call[m].at \in {"sent", "done"}
               /\ call[m].at \in {"done", "over"} => call'[m].at \in {"done", "over"},
           Reopened \/ GoesOn
    PROVE  FormInv'
<1>1. FormType'
  BY DEF FormInv, FormType
<1>2. \A n \in Forms!Calls : /\ Asked(n) => Same(n) /\ call'[n].found \subseteq call[n].found
                             /\ ~Asked(n) => call'[n].found = {}
  BY DEF FormInv, DoneAsAsked, Asked, Same
<1>3. DoneAsAsked' /\ Forms!OncePerIntention'
  BY <1>1, <1>2, NothingNew DEF FormInv
<1> QED
  BY <1>1, <1>3, SettledKeys DEF FormInv

LEMMA LeaveKeepsForms ==
    ASSUME FormInv, Forms!Leave PROVE FormInv'
<1> DEFINE f == [draft EXCEPT !.dialog = FALSE, !.busy = FALSE]
<1>1. f \in DraftType /\ ~f.busy
  BY DEF FormInv, FormType, DraftType
<1> HIDE DEF f
<1>2. /\ Forms!Renewed(f) /\ intention' = intention + 1 /\ UNCHANGED <<kind, effects, answers>>
      /\ call' = [n \in Forms!Calls |-> [call[n] EXCEPT !.heard = FALSE]]
  BY DEF Forms!Leave, Forms!NewIntention, f
<1>3. /\ draft' \in DraftType /\ issued' = issued + 1 /\ draft'.key = issued' /\ ~draft'.busy
      /\ issued' \in Nat /\ intention' \in Nat
  BY <1>1, <1>2, RenewedDraft DEF FormInv, FormType
<1>4. call \in [Forms!Calls -> CallType]
  BY DEF FormInv, FormType
<1>5. \A m \in Forms!Calls :
         /\ call'[m] \in CallType /\ ~call'[m].heard /\ call'[m].at = call[m].at
         /\ call'[m].key = call[m].key /\ call'[m].of = call[m].of
         /\ call'[m].choice = call[m].choice /\ call'[m].found = call[m].found
  BY <1>2, <1>4 DEF CallType
<1>6. call' \in [Forms!Calls -> CallType]
  BY <1>2, <1>5
<1> QED
  BY <1>2, <1>3, <1>5, <1>6, EndsKeepForms DEF Reopened, Asked

LEMMA GiveUpKeepsForms ==
    ASSUME FormInv, NEW n \in Forms!Calls, Forms!GiveUp(n) \/ Forms!Lost(n)
    PROVE  FormInv'
<1>1. UNCHANGED <<kind, issued, intention, effects, answers>>
  BY DEF Forms!GiveUp, Forms!Lost
<1>2. call \in [Forms!Calls -> CallType] /\ draft \in DraftType /\ issued \in Nat /\ intention \in Nat
  BY DEF FormInv, FormType
<1>3. CASE Forms!GiveUp(n)
  <2>1. /\ kind # "reserve" /\ call' = [call EXCEPT ![n].heard = FALSE]
        /\ draft' = [draft EXCEPT !.busy = FALSE]
    BY <1>3 DEF Forms!GiveUp
  <2>2. /\ call' \in [Forms!Calls -> CallType]
        /\ \A m \in Forms!Calls : m # n => call'[m] = call[m]
        /\ call'[n].at = call[n].at /\ ~call'[n].heard /\ call'[n].found = call[n].found
        /\ call'[n].key = call[n].key /\ call'[n].of = call[n].of
        /\ call'[n].choice = call[n].choice
    BY <1>2, <2>1 DEF CallType
  <2>3. draft' \in DraftType /\ ~draft'.busy /\ draft'.key = draft.key
    BY <1>2, <2>1 DEF DraftType
  <2>4. GoesOn
    BY <1>1, <2>1, <2>3 DEF GoesOn
  <2> QED
    BY <1>1, <1>2, <2>2, <2>3, <2>4, EndsKeepForms DEF Asked
<1>4. CASE Forms!Lost(n)
  <2>1. call[n].at = "sent" /\ call' = [call EXCEPT ![n].at = "over"] /\ draft' = draft
    BY <1>4 DEF Forms!Lost
  <2>2. /\ call' \in [Forms!Calls -> CallType]
        /\ \A m \in Forms!Calls : m # n => call'[m] = call[m]
        /\ call'[n].at = "over" /\ call'[n].heard = call[n].heard /\ call'[n].found = call[n].found
        /\ call'[n].key = call[n].key /\ call'[n].of = call[n].of
        /\ call'[n].choice = call[n].choice
    BY <1>2, <2>1 DEF CallType
  <2>3. GoesOn
    BY <1>1, <2>1 DEF GoesOn
  <2> QED
    BY <1>1, <1>2, <2>1, <2>2, <2>3, EndsKeepForms DEF Asked
<1> QED
  BY <1>3, <1>4

LEMMA FailKeepsForms ==
    ASSUME FormInv, NEW n \in Forms!Calls, Forms!Refused(n) \/ Forms!NotRefreshed(n)
    PROVE  FormInv'
<1>1. /\ call[n].heard /\ UNCHANGED <<kind, issued, intention, effects, answers>>
      /\ call' = [call EXCEPT ![n].at = "over", ![n].heard = FALSE]
      /\ draft' = [draft EXCEPT !.busy = FALSE]
      /\ call[n].at \in {"refused", "done"} /\ (kind = "reserve" => call[n].at = "refused")
  BY DEF Forms!Refused, Forms!NotRefreshed, Forms!Fail
<1>2. call \in [Forms!Calls -> CallType] /\ draft \in DraftType /\ issued \in Nat /\ intention \in Nat
  BY DEF FormInv, FormType
<1>3. /\ call' \in [Forms!Calls -> CallType]
      /\ \A m \in Forms!Calls : m # n => call'[m] = call[m]
      /\ call'[n].at = "over" /\ ~call'[n].heard /\ call'[n].found = call[n].found
      /\ call'[n].key = call[n].key /\ call'[n].of = call[n].of
      /\ call'[n].choice = call[n].choice
  BY <1>1, <1>2, OneOver
<1>4. draft' \in DraftType /\ ~draft'.busy /\ draft'.key = draft.key
  BY <1>1, <1>2 DEF DraftType
<1>5. kind = "reserve" => ~Live(n)'
  BY <1>1, <1>3 DEF Live, FormInv, Reserved
<1>6. GoesOn
  BY <1>1, <1>3, <1>4, <1>5 DEF GoesOn
<1> QED
  BY <1>1, <1>2, <1>3, <1>4, <1>6, EndsKeepForms DEF Asked

LEMMA RefuseKeepsForms ==
    ASSUME FormInv, NEW n \in Forms!Calls, Forms!TurnedAway(n) \/ Forms!Refuse(n)
    PROVE  FormInv'
<1>1. /\ Forms!Answer(n, "refused", {}) /\ call[n].at \in {"sent", "looked"}
      /\ UNCHANGED <<kind, draft, issued, intention, effects, answers>>
  BY DEF Forms!TurnedAway, Forms!Refuse
<1>2. call \in [Forms!Calls -> CallType] /\ draft \in DraftType /\ issued \in Nat /\ intention \in Nat
  BY DEF FormInv, FormType
<1>3. /\ call' \in [Forms!Calls -> CallType]
      /\ \A m \in Forms!Calls : m # n => call'[m] = call[m]
      /\ call'[n].at = "refused" /\ call'[n].found = {}
      /\ call'[n].key = call[n].key /\ call'[n].of = call[n].of
      /\ call'[n].choice = call[n].choice /\ call'[n].heard = call[n].heard
  BY <1>1, <1>2, OneAnswer
<1>4. GoesOn
  BY <1>1 DEF GoesOn
<1> QED
  BY <1>1, <1>2, <1>3, <1>4, EndsKeepForms DEF Asked

\* A repeated request is answered as before, if it asks for the same.
LEMMA RepeatKeepsForms ==
    ASSUME FormInv, kind # "reserve", NEW n \in Forms!Calls, call[n].at \in {"sent", "looked"},
           NEW e \in Forms!Stored(call[n].key), Forms!Repeat(n, e),
           UNCHANGED <<kind, draft, issued, intention, effects, answers>>
    PROVE  FormInv'
<1>1. call \in [Forms!Calls -> CallType] /\ draft \in DraftType /\ issued \in Nat /\ intention \in Nat
  BY DEF FormInv, FormType
<1>2. e \in effects /\ e.key = call[n].key /\ e \in EffectType /\ Asked(n)
  BY DEF Forms!Stored, FormInv, FormType, Asked
<1>3. CASE Forms!Answer(n, "refused", {})
  <2>1. /\ call' \in [Forms!Calls -> CallType]
        /\ \A m \in Forms!Calls : m # n => call'[m] = call[m]
        /\ call'[n].at = "refused" /\ call'[n].found = {}
        /\ call'[n].key = call[n].key /\ call'[n].of = call[n].of
        /\ call'[n].choice = call[n].choice /\ call'[n].heard = call[n].heard
    BY <1>1, <1>3, OneAnswer
  <2> QED
    BY <1>1, <1>2, <2>1, EndsKeepForms DEF Asked, GoesOn
<1>4. CASE e.choice = call[n].choice /\ Forms!Answer(n, "done", {e})
  <2>1. /\ call' \in [Forms!Calls -> CallType]
        /\ \A m \in Forms!Calls : m # n => call'[m] = call[m]
        /\ call'[n].at = "done" /\ call'[n].found = {e}
        /\ call'[n].key = call[n].key /\ call'[n].of = call[n].of
        /\ call'[n].choice = call[n].choice
    BY <1>1, <1>2, <1>4, OneAnswer
  <2>2. \A m \in Forms!Calls : (Asked(m) <=> Asked(m)') /\ call'[m].key = call[m].key
                               /\ call'[m].of = call[m].of /\ call'[m].choice = call[m].choice
    BY <1>2, <2>1 DEF Asked
  <2>3. Asked(e.by) /\ e.by \in Forms!Calls /\ call[e.by].of = call[n].of
    BY <1>2 DEF FormInv, DoneAsAsked, Keyed, EffectType
  <2>4. FormType'
    BY <2>1 DEF FormInv, FormType
  <2>5. \A f \in effects : f.by \in Forms!Calls
    BY DEF FormInv, FormType, EffectType
  <2>6. \A a \in answers : a.call \in Forms!Calls /\ a.effect.by \in Forms!Calls
    BY DEF FormInv, FormType, EffectType
  <2>7. ASSUME NEW m \in Forms!Calls, NEW f \in call'[m].found
        PROVE  (Asked(m) /\ Asked(f.by) /\ call[f.by].of = call[m].of /\ f.choice = call[m].choice)'
    <3>1. CASE m = n
      BY <1>2, <1>4, <2>1, <2>2, <2>3, <2>7, <3>1
    <3>2. CASE m # n
      <4>1. f \in call[m].found /\ f.by \in Forms!Calls
        BY <2>1, <2>7, <3>2, <1>1 DEF CallType, EffectType
      <4> QED
        BY <2>2, <4>1 DEF FormInv, DoneAsAsked
    <3> QED
      BY <3>1, <3>2
  <2>8. DoneAsAsked'
    <3>1. \A f \in effects' : Asked(f.by)' /\ f.key = call'[f.by].key
      BY <2>2, <2>5 DEF FormInv, DoneAsAsked
    <3>2. \A a \in answers' : Asked(a.call)' /\ Asked(a.effect.by)'
      BY <2>2, <2>6 DEF FormInv, DoneAsAsked
    <3> QED
      BY <2>7, <3>1, <3>2 DEF DoneAsAsked
  <2>9. Forms!OncePerIntention'
    BY <2>2, <2>5, <2>6 DEF FormInv, Forms!OncePerIntention
  <2>10. Keyed'
    BY <2>2, KeyedStays DEF FormInv, Keyed, Same, Asked
  <2> QED
    BY <2>4, <2>8, <2>9, <2>10 DEF FormInv
<1> QED
  BY <1>3, <1>4 DEF Forms!Repeat

LEMMA LookKeepsForms ==
    ASSUME FormInv, NEW n \in Forms!Calls, Forms!Look(n) PROVE FormInv'
<1>1. /\ kind = "start" /\ call[n].at = "sent"
      /\ UNCHANGED <<kind, draft, issued, intention, effects, answers>>
  BY DEF Forms!Look
<1>2. call \in [Forms!Calls -> CallType] /\ draft \in DraftType /\ issued \in Nat /\ intention \in Nat
  BY DEF FormInv, FormType
<1>3. CASE Forms!Answer(n, "looked", {})
  <2>1. /\ call' \in [Forms!Calls -> CallType]
        /\ \A m \in Forms!Calls : m # n => call'[m] = call[m]
        /\ call'[n].at = "looked" /\ call'[n].found = {}
        /\ call'[n].key = call[n].key /\ call'[n].of = call[n].of
        /\ call'[n].choice = call[n].choice /\ call'[n].heard = call[n].heard
    BY <1>2, <1>3, OneAnswer
  <2> QED
    BY <1>1, <1>2, <2>1, EndsKeepForms DEF Asked, GoesOn
<1>4. CASE \E e \in Forms!Stored(call[n].key) : Forms!Repeat(n, e)
  BY <1>1, <1>4, RepeatKeepsForms
<1> QED
  BY <1>3, <1>4 DEF Forms!Look

\* What is done for the first time under its key is done for the first time for its intention.
LEMMA FirstKeepsForms ==
    ASSUME FormInv, NEW n \in Forms!Calls,
           kind = "reserve" => call[n].at = "sent", call[n].at \in {"sent", "looked"},
           Forms!Stored(call[n].key) = {},
           NEW e \in EffectType, e.key = call[n].key, e.choice = call[n].choice, e.by = n,
           effects' = effects \cup {e},
           Forms!Answer(n, "done", {e}) \/ (kind # "reserve" /\ Forms!Answer(n, "refused", {})),
           UNCHANGED <<kind, draft, issued, intention, answers>>
    PROVE  FormInv'
<1>1. call \in [Forms!Calls -> CallType] /\ draft \in DraftType /\ issued \in Nat /\ intention \in Nat
  BY DEF FormInv, FormType
<1>2. Asked(n) /\ \A f \in effects : f.key # e.key /\ f.by \in Forms!Calls
  BY DEF Asked, Forms!Stored, FormInv, FormType, EffectType
<1>3. /\ call' \in [Forms!Calls -> CallType]
      /\ \A m \in Forms!Calls : m # n => call'[m] = call[m]
      /\ call'[n].at \in {"done", "refused"} /\ (kind = "reserve" => call'[n].at = "done")
      /\ call'[n].found \subseteq {e}
      /\ call'[n].key = call[n].key /\ call'[n].of = call[n].of
      /\ call'[n].choice = call[n].choice /\ call'[n].heard = call[n].heard
  BY <1>1, OneAnswer
<1>4. \A m \in Forms!Calls :
         /\ (Asked(m) <=> Asked(m)') /\ call'[m].key = call[m].key /\ call'[m].of = call[m].of
         /\ call'[m].choice = call[m].choice /\ call'[m].heard = call[m].heard
  BY <1>2, <1>3 DEF Asked
<1>5. FormType'
  BY <1>3 DEF FormInv, FormType
<1>6. \A f \in effects : Asked(f.by) /\ f.key = call[f.by].key /\ f.by # n
  BY <1>2 DEF FormInv, DoneAsAsked
<1>7. \A a \in answers : /\ a.call \in Forms!Calls /\ a.effect.by \in Forms!Calls
                         /\ Asked(a.call) /\ Asked(a.effect.by)
  BY DEF FormInv, FormType, EffectType, DoneAsAsked
<1>8. ASSUME NEW m \in Forms!Calls, NEW f \in call'[m].found
      PROVE  (Asked(m) /\ Asked(f.by) /\ call[f.by].of = call[m].of /\ f.choice = call[m].choice)'
  <2>1. CASE m = n
    BY <1>2, <1>3, <1>4, <1>8, <2>1
  <2>2. CASE m # n
    <3>1. f \in call[m].found /\ f.by \in Forms!Calls
      BY <1>1, <1>3, <1>8, <2>2 DEF CallType, EffectType
    <3> QED
      BY <1>4, <3>1 DEF FormInv, DoneAsAsked
  <2> QED
    BY <2>1, <2>2
<1>9. DoneAsAsked'
  <2>1. \A f \in effects' : Asked(f.by)' /\ f.key = call'[f.by].key
    BY <1>2, <1>4, <1>6
  <2>2. \A a \in answers' : Asked(a.call)' /\ Asked(a.effect.by)'
    BY <1>4, <1>7
  <2> QED
    BY <1>8, <2>1, <2>2 DEF DoneAsAsked
\* Nothing was done for this intention before.
<1>10. \A f \in effects : call[f.by].of # call[n].of
  <2>1. CASE kind # "reserve"
    BY <1>2, <1>6, <2>1 DEF FormInv, Keyed
  <2>2. CASE kind = "reserve"
    BY <1>2, <1>6, <2>2 DEF FormInv, Reserved, Live
  <2> QED
    BY <2>1, <2>2
<1>11. Forms!OncePerIntention'
  <2>1. ASSUME NEW f \in effects', NEW g \in effects', call'[f.by].of = call'[g.by].of
        PROVE  f.by = g.by
    BY <1>2, <1>4, <1>10, <2>1 DEF FormInv, Forms!OncePerIntention
  <2>2. ASSUME NEW a \in answers'
        PROVE  call'[a.effect.by].of = call'[a.call].of /\ a.effect.choice = call'[a.call].choice
    BY <1>4, <1>7 DEF FormInv, Forms!OncePerIntention
  <2> QED
    BY <2>1, <2>2 DEF Forms!OncePerIntention
<1>12. ASSUME kind # "reserve" PROVE Keyed'
  <2>1. \A f, g \in effects' : f.key = g.key => f = g
    BY <1>2, <1>12 DEF FormInv, Keyed
  <2> QED
    BY <1>4, <1>12, <2>1, KeyedStays DEF FormInv, Keyed, Same, Asked
<1>13. ASSUME kind = "reserve" PROVE Reserved'
  <2>1. Reserved
    BY <1>13 DEF FormInv
  <2>2. Live(n)
    BY <1>13 DEF Live
  <2>3. \A m \in Forms!Calls : Live(m)' => Live(m)
    BY <1>3, <2>2 DEF Live
  <2>4. \A f \in effects' : call'[f.by].at \in {"done", "over"}
    BY <1>2, <1>3, <1>6, <1>13, <2>1 DEF Reserved
  <2> QED
    BY <1>4, <2>1, <2>3, <2>4 DEF Reserved
<1> QED
  BY <1>5, <1>9, <1>11, <1>12, <1>13 DEF FormInv

LEMMA PerformKeepsForms ==
    ASSUME FormInv, NEW n \in Forms!Calls, Forms!Perform(n) PROVE FormInv'
<1>1. /\ call[n].at \in {"sent", "looked"} /\ (kind = "reserve" => call[n].at = "sent")
      /\ UNCHANGED <<kind, draft, issued, intention, answers>>
  BY DEF Forms!Perform
<1>2. call[n] \in CallType
  BY DEF FormInv, FormType
<1>3. CASE Forms!Stored(call[n].key) # {}
  <2>1. PICK e \in Forms!Stored(call[n].key) : Forms!Repeat(n, e)
    BY <1>3 DEF Forms!Perform
  <2>2. effects' = effects
    BY <1>3 DEF Forms!Perform
  \* A reservation finds nothing under its key: the request that made it would be live.
  <2>3. kind # "reserve"
    <3> SUFFICES ASSUME kind = "reserve" PROVE FALSE
      OBVIOUS
    <3>1. e \in effects /\ e.key = call[n].key /\ e.by \in Forms!Calls
      BY DEF Forms!Stored, FormInv, FormType, EffectType
    <3>2. Live(e.by) /\ Live(n) /\ e.by # n /\ call[e.by].key = call[n].key
      BY <1>1, <3>1 DEF Live, FormInv, DoneAsAsked, Reserved
    <3> QED
      BY <3>1, <3>2 DEF FormInv, Reserved
  <2> QED
    BY <1>1, <2>1, <2>2, <2>3, RepeatKeepsForms
<1>4. CASE Forms!Stored(call[n].key) = {}
  <2>1. PICK usable \in BOOLEAN :
            LET e == [key |-> call[n].key, choice |-> call[n].choice, by |-> n, usable |-> usable, open |-> TRUE]
            IN  /\ kind # "topup" => usable
                /\ effects' = effects \cup {e}
                /\ IF usable THEN Forms!Answer(n, "done", {e}) ELSE Forms!Answer(n, "refused", {})
    BY <1>4 DEF Forms!Perform
  <2> DEFINE e == [key |-> call[n].key, choice |-> call[n].choice, by |-> n, usable |-> usable, open |-> TRUE]
  <2>2. e \in EffectType /\ e.key = call[n].key /\ e.choice = call[n].choice /\ e.by = n
    BY <1>2 DEF CallType, EffectType
  <2>3. /\ effects' = effects \cup {e}
        /\ Forms!Answer(n, "done", {e}) \/ (kind # "reserve" /\ Forms!Answer(n, "refused", {}))
    BY <2>1
  <2> HIDE DEF e
  <2> QED
    BY <1>1, <1>4, <2>2, <2>3, FirstKeepsForms
<1> QED
  BY <1>3, <1>4

LEMMA SucceededKeepsForms ==
    ASSUME FormInv, NEW n \in Forms!Calls, Forms!Succeeded(n) PROVE FormInv'
<1> DEFINE f == [draft EXCEPT !.dialog = FALSE, !.busy = FALSE]
           more == {[call |-> n, effect |-> e] : e \in call[n].found}
<1>1. f \in DraftType /\ ~f.busy
  BY DEF FormInv, FormType, DraftType
<1>2. \A a \in more : a \in [call : Forms!Calls, effect : EffectType]
                      /\ a.call = n /\ a.effect \in call[n].found
  BY DEF FormInv, FormType, CallType
<1> HIDE DEF f, more
<1>3. /\ call[n].heard /\ call[n].at = "done"
      /\ Forms!Renewed(f) /\ intention' = intention + 1 /\ answers' = answers \cup more
      /\ call' = [call EXCEPT ![n].at = "over", ![n].heard = FALSE]
      /\ UNCHANGED <<kind, effects>>
  BY DEF Forms!Succeeded, Forms!NewIntention, f, more
<1>4. call \in [Forms!Calls -> CallType] /\ issued \in Nat /\ intention \in Nat
  BY DEF FormInv, FormType
<1>5. /\ draft' \in DraftType /\ issued' = issued + 1 /\ draft'.key = issued' /\ ~draft'.busy
      /\ issued' \in Nat /\ intention' \in Nat
  BY <1>1, <1>3, <1>4, RenewedDraft
<1>6. /\ call' \in [Forms!Calls -> CallType]
      /\ \A m \in Forms!Calls : m # n => call'[m] = call[m]
      /\ call'[n].at = "over" /\ ~call'[n].heard /\ call'[n].found = call[n].found
      /\ call'[n].key = call[n].key /\ call'[n].of = call[n].of
      /\ call'[n].choice = call[n].choice
  BY <1>3, <1>4, OneOver
<1>7. FormType'
  BY <1>2, <1>3, <1>5, <1>6 DEF FormInv, FormType
<1>8. \A m \in Forms!Calls :
         /\ (Asked(m) <=> Asked(m)') /\ call'[m].key = call[m].key /\ call'[m].of = call[m].of
         /\ call'[m].choice = call[m].choice /\ call'[m].found = call[m].found
  BY <1>3, <1>6 DEF Asked
<1>9. Reopened
  <2>1. kind = "reserve" => \A m \in Forms!Calls : ~call'[m].heard
    BY <1>3, <1>6 DEF FormInv, Reserved
  <2> QED
    BY <1>3, <1>5, <2>1 DEF Reopened
<1>10. (kind # "reserve" => Keyed') /\ (kind = "reserve" => Reserved')
  BY <1>3, <1>6, <1>7, <1>8, <1>9, SettledKeys
<1>11. \A m \in Forms!Calls : \A e \in call[m].found :
          /\ Asked(m) /\ e.by \in Forms!Calls /\ Asked(e.by)
          /\ call[e.by].of = call[m].of /\ e.choice = call[m].choice
  BY <1>4 DEF FormInv, DoneAsAsked, CallType, EffectType
<1>12. \A a \in answers' :
          /\ a.call \in Forms!Calls /\ a.effect.by \in Forms!Calls
          /\ Asked(a.call) /\ Asked(a.effect.by)
          /\ call[a.effect.by].of = call[a.call].of /\ a.effect.choice = call[a.call].choice
  <2>1. \A a \in answers :
          /\ a.call \in Forms!Calls /\ a.effect.by \in Forms!Calls
          /\ Asked(a.call) /\ Asked(a.effect.by)
          /\ call[a.effect.by].of = call[a.call].of /\ a.effect.choice = call[a.call].choice
    BY DEF FormInv, FormType, EffectType, DoneAsAsked, Forms!OncePerIntention
  <2> QED
    BY <1>2, <1>3, <1>11, <2>1
<1>13. \A e \in effects : e.by \in Forms!Calls /\ Asked(e.by) /\ e.key = call[e.by].key
  BY DEF FormInv, FormType, EffectType, DoneAsAsked
<1>14. DoneAsAsked'
  <2>1. \A e \in effects' : Asked(e.by)' /\ e.key = call'[e.by].key
    BY <1>3, <1>8, <1>13
  <2>2. \A m \in Forms!Calls : \A e \in call'[m].found :
           (Asked(m) /\ Asked(e.by) /\ call[e.by].of = call[m].of /\ e.choice = call[m].choice)'
    BY <1>8, <1>11
  <2>3. \A a \in answers' : Asked(a.call)' /\ Asked(a.effect.by)'
    BY <1>8, <1>12
  <2> QED
    BY <2>1, <2>2, <2>3 DEF DoneAsAsked
<1>15. Forms!OncePerIntention'
  <2>1. \A e, g \in effects' : call'[e.by].of = call'[g.by].of => e.by = g.by
    BY <1>3, <1>8, <1>13 DEF FormInv, Forms!OncePerIntention
  <2>2. \A a \in answers' : call'[a.effect.by].of = call'[a.call].of
                            /\ a.effect.choice = call'[a.call].choice
    BY <1>8, <1>12
  <2> QED
    BY <2>1, <2>2 DEF Forms!OncePerIntention
<1> QED
  BY <1>3, <1>7, <1>10, <1>14, <1>15 DEF FormInv

\* A session that ends is the same session.
LEMMA EndKeepsForms ==
    ASSUME FormInv, NEW e \in effects, Forms!End(e) PROVE FormInv'
<1> DEFINE g == [e EXCEPT !.open = FALSE]
<1>1. /\ g \in EffectType /\ g.key = e.key /\ g.by = e.by /\ g.choice = e.choice
  BY DEF FormInv, FormType, EffectType
<1> HIDE DEF g
<1>2. /\ effects' = (effects \ {e}) \cup {g}
      /\ UNCHANGED <<kind, draft, issued, intention, call, answers>>
  BY DEF Forms!End, g
<1>3. FormType'
  BY <1>1, <1>2 DEF FormInv, FormType
<1>4. \A f \in effects' : \E h \in effects : f.key = h.key /\ f.by = h.by
  BY <1>1, <1>2
<1>5. DoneAsAsked' /\ Forms!OncePerIntention'
  <2>1. \A m \in Forms!Calls : /\ Asked(m) => Same(m) /\ call'[m].found \subseteq call[m].found
                               /\ ~Asked(m) => call'[m].found = {}
    BY <1>2 DEF FormInv, DoneAsAsked, Asked, Same
  <2> QED
    BY <1>2, <1>3, <1>4, <2>1, NothingNew DEF FormInv
<1>6. ASSUME kind # "reserve" PROVE Keyed'
  <2>1. \A f, h \in effects' : f.key = h.key => f = h
    BY <1>1, <1>2, <1>6 DEF FormInv, Keyed
  <2> QED
    BY <1>2, <1>6, <2>1, KeyedStays DEF FormInv, Keyed, Asked
<1>7. ASSUME kind = "reserve" PROVE Reserved'
  <2>1. \A m \in Forms!Calls : Live(m)' => Live(m)
    BY <1>2, <1>4 DEF Live
  <2>2. \A f \in effects' : call'[f.by].at \in {"done", "over"}
    BY <1>2, <1>4, <1>7 DEF FormInv, Reserved
  <2> QED
    BY <1>2, <1>7, <2>1, <2>2 DEF FormInv, Reserved
<1> QED
  BY <1>2, <1>3, <1>5, <1>6, <1>7 DEF FormInv

LEMMA FormsAreInvariant ==
    /\ Forms!Init => FormInv
    /\ FormInv /\ [Forms!Next]_(Forms!vars) => FormInv'
<1>1. ASSUME Forms!Init PROVE FormInv
  <2>1. PICK c \in Choices : draft = [key |-> 1, choice |-> c, dialog |-> FALSE, busy |-> FALSE]
    BY <1>1 DEF Forms!Init
  <2>2. draft \in DraftType /\ draft.key = 1 /\ draft.busy = FALSE
    BY <2>1 DEF DraftType, ChoiceType
  <2>3. Forms!NoCall \in CallType /\ Forms!NoCall.at = "none" /\ Forms!NoCall.key = 0
        /\ Forms!NoCall.of = 0 /\ Forms!NoCall.heard = FALSE /\ Forms!NoCall.found = {}
    BY DEF Forms!NoCall, CallType, ChoiceType
  <2>4. /\ call \in [Forms!Calls -> CallType] /\ \A n \in Forms!Calls : call[n] = Forms!NoCall
        /\ issued = 1 /\ intention = 1 /\ effects = {} /\ answers = {}
    BY <1>1, <2>3 DEF Forms!Init
  <2>5. \A n \in Forms!Calls : ~Asked(n) /\ ~Live(n) /\ ~call[n].heard
    BY <2>3, <2>4 DEF Asked, Live
  <2> QED
    BY <2>2, <2>3, <2>4, <2>5
    DEF FormInv, FormType, DoneAsAsked, Forms!OncePerIntention, Keyed, Reserved
<1>2. ASSUME FormInv, [Forms!Next]_(Forms!vars) PROVE FormInv'
  <2>1. CASE \E c \in Choices : Forms!Change(c) \/ Forms!ChangePayment(c) \/ Forms!Drift(c)
    <3>1. Choices \subseteq ChoiceType
      BY DEF ChoiceType
    <3> QED
      BY <1>2, <2>1, <3>1, PageKeepsForms
  <2>2. CASE Forms!Review \/ Forms!Keep
    <3>1. "none" \in ChoiceType
      BY DEF ChoiceType
    <3> QED
      BY <1>2, <2>2, <3>1, PageKeepsForms
  <2>3. CASE Forms!Leave
    BY <1>2, <2>3, LeaveKeepsForms
  <2>4. ASSUME NEW n \in Forms!Calls,
               \/ Forms!Confirm(n) \/ Forms!GiveUp(n) \/ Forms!Lost(n)
               \/ Forms!Refused(n) \/ Forms!NotRefreshed(n) \/ Forms!Succeeded(n)
               \/ Forms!TurnedAway(n) \/ Forms!Refuse(n) \/ Forms!Look(n) \/ Forms!Perform(n)
        PROVE  FormInv'
    BY <1>2, <2>4, ConfirmKeepsForms, GiveUpKeepsForms, FailKeepsForms, SucceededKeepsForms,
       RefuseKeepsForms, LookKeepsForms, PerformKeepsForms
  <2>5. CASE \E e \in effects : Forms!End(e)
    BY <1>2, <2>5, EndKeepsForms
  <2>6. CASE UNCHANGED Forms!vars
    <3>1. UNCHANGED <<kind, draft, issued, intention, call, effects, answers>>
      BY <2>6 DEF Forms!vars
    <3> QED
      BY <1>2, <3>1
      DEF FormInv, FormType, DoneAsAsked, Asked, Forms!OncePerIntention, Keyed, Reserved, Live
  <2> QED
    BY <1>2, <2>1, <2>2, <2>3, <2>4, <2>5, <2>6 DEF Forms!Next
<1> QED
  BY <1>1, <1>2

\* What a user intends once takes effect at most once, though its form is confirmed again,
\* its answers are lost and its requests overtaken; and what the form reports was done for
\* this intention as it was confirmed (FormRequests).
THEOREM IntendedOnceIsDoneOnce == Spec => []OncePerIntention
<1>1. FormInv => OncePerIntention
  BY DEF FormInv, OncePerIntention
<1> QED
  BY <1>1, FormsAreInvariant, EachService, PTL DEF Forms!Spec

=============================================================================
