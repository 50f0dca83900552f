----------------------------- MODULE MCFrontend -----------------------------
(***************************************************************************)
(* The parts of the frontend that keep state of their own, one of them at  *)
(* a time: which is chosen at the beginning, and the others stay as they   *)
(* begin.                                                                  *)
(***************************************************************************)
EXTENDS Integers, FiniteSets, TLC

CONSTANTS Owners, Bays, Requests, OwnerOf, Payments, PayerOf, TopUp, Adjustments, Amounts,
          OpeningCredit, MaxWallet, Tariffs, Unit, Capacity, MaxStep, MaxCommands,
          Bookings, BookerOf, Sample, Rooms, Spare, Prices, Fee, CancellationFee, Hours, MaxTime,
          Expected, Room,
          Accounts, Nobody, MaxChanges, MaxRefreshes, MaxLoads,
          MaxPower, MaxCharge, MaxDischarge, Auxiliary, HourLength, MaxInterval, Speeds, Slices,
          MaxElapsed, LastTick,
          Owner, Admin, Demo, MaxAttempts, MaxLogins

\* What the proofs of FrontendProofs and DemoProofs need to know of them.
ASSUME AttemptsAssumption == MaxAttempts \in Nat
ASSUME CreditAssumption ==
    /\ IsFiniteSet(Requests) /\ IsFiniteSet(Payments)
    /\ OwnerOf \in [Requests -> Owners] /\ PayerOf \in [Payments -> Owners]
    /\ TopUp \in Nat /\ Amounts \subseteq Int /\ OpeningCredit \in Nat /\ MaxWallet \in Nat
    /\ Tariffs \subseteq Nat \ {0} /\ Unit \in Nat \ {0} /\ Capacity \in Nat /\ MaxStep \in Nat
ASSUME BookingAssumption ==
    /\ IsFiniteSet(Bookings) /\ IsFiniteSet(Rooms) /\ Rooms # {} /\ Sample \in Bookings
    /\ "none" \notin Bookings \cup Rooms
    /\ Prices \subseteq Nat /\ Fee \in Nat /\ CancellationFee \in Nat /\ Hours \subseteq Nat
    /\ MaxTime \in Nat /\ Expected \in Nat /\ Room \in Nat /\ MaxStep \in Nat
ASSUME StationAssumption ==
    /\ MaxPower \in Nat /\ MaxCharge \in Nat /\ MaxDischarge \in Nat /\ Auxiliary \in Nat
    /\ Capacity \in Nat /\ MaxElapsed \in Nat /\ LastTick \in Nat
    /\ HourLength \in Nat \ {0} /\ MaxInterval \in Nat /\ Slices \in Nat
    /\ Speeds \subseteq Nat \ {0} /\ \E s \in Speeds : \A speed \in Speeds : speed <= s
    /\ \A length \in 1..MaxInterval : Slices \div length \in Nat /\ length * (Slices \div length) = Slices

VARIABLES which, credit, booked,
    user, generation, handlers, account, shown, loads, refreshSequence, since,
    charge, limits, now, history, byHand,
    demoEnabled, firebase, provider, page, path, away, form, marker, completions,
    redirecting, submitted, logins, attempt, arrived

client == <<user, generation, handlers, account, shown, loads, refreshSequence, since>>
station == <<charge, limits, now, history, byHand>>
signing == <<demoEnabled, firebase, provider, page, path, away, form, marker, completions,
             redirecting, submitted, logins, attempt, arrived>>

\* One owner makes all requests and payments; every booking has its own.
AllByOne == [r \in Requests |-> CHOOSE u \in Owners : TRUE]
PaidByOne == [p \in Payments |-> CHOOSE u \in Owners : TRUE]
EachByItself == [k \in Bookings |-> k]
Down == {-1}

Credit == INSTANCE CreditDemo WITH data <- credit
Booked == INSTANCE BookingDemo WITH data <- booked, OwnerOf <- BookerOf, Bays <- Rooms, Capacity <- Room
Client == INSTANCE ClientSession
Station == INSTANCE EnergyDispatch WITH MaxTime <- LastTick

Signing == INSTANCE SignIn

Parts == {"credit", "booking", "client", "station", "signing"}

\* Where a part may begin in several ways, only the one that is chosen does.
Init ==
    /\ which \in Parts
    /\ Credit!Init /\ Booked!Init /\ Client!Init /\ Station!Init /\ Signing!Init
    /\ which # "booking" => booked.price = 1 /\ booked.receipts = {}
    /\ which # "station" => charge = 0 /\ limits = [min |-> 0, max |-> 1]
    /\ which # "signing" => ~demoEnabled

Next ==
    /\ UNCHANGED which
    /\ \/ which = "credit" /\ Credit!Next /\ UNCHANGED <<booked, client, station, signing>>
       \/ which = "booking" /\ Booked!Next /\ UNCHANGED <<credit, client, station, signing>>
       \/ which = "client" /\ Client!Next /\ UNCHANGED <<credit, booked, station, signing>>
       \/ which = "station" /\ Station!Next /\ UNCHANGED <<credit, booked, client, signing>>
       \/ which = "signing" /\ Signing!Next /\ UNCHANGED <<credit, booked, client, station>>

vars == <<which, credit, booked, client, station, signing>>

Spec == Init /\ [][Next]_vars

-----------------------------------------------------------------------------
N(condition) == IF condition THEN 1 ELSE 0

\* The demo of charging has one trouble at a time: a controller that is
\* offline, was not seen, or does not obey, a station or an account that is
\* off, a bay that is closed or faulty, or an adjustment.
MildCredit ==
    N(~credit.device.online) + N(credit.device.away) + N(credit.device.outcome # "success")
        + N(~credit.station) + N(\E u \in Owners : ~credit.active[u])
        + N(\E b \in Bays : ~credit.bay[b].enabled)
        + N(\E b \in Bays : credit.bay[b].fault \/ credit.bay[b].faults = 1)
        + N(\E e \in credit.ledger : e[1] = "ADJUST") <= 1

Troubles(b) ==
    LET bay == booked.bay[b] IN
    N(~bay.enabled) + N(~bay.online) + N(bay.sensor \/ bay.faults # {}) + N(bay.dry)
        + N(bay.outcome # "success")

\* So has the demo of bookings, or two bookings, or a lower price, or what was
\* booked before; a second bay is there to be booked, not to charge.  Which of
\* the bookings is made first makes no difference.
MildBooking ==
    /\ \A k \in Bookings : booked.booking[k].status # "none" => booked.booking[Sample].status # "none"
    /\ \A k \in Bookings : /\ booked.booking[k].status = "none" => booked.room[k] = Room
                           /\ booked.booking[k].price = 1 => booked.price = 1
    /\ ~booked.bay[Spare].plugged /\ Troubles(Spare) = 0
    /\ \A i \in DOMAIN booked.commands : booked.commands[i].bay # Spare
    /\ (\E k \in Bookings : booked.booking[k].bay = Spare) =>
            /\ \A k \in Bookings : booked.session[k].state = "none"
            /\ \A b \in Rooms : ~booked.bay[b].plugged
    /\ \A b \in Rooms \ {Spare} :
        Troubles(b) + N(~booked.station) + N(booked.price = 1)
            + N(\A k \in Bookings : booked.booking[k].status # "none")
            + N(\E k \in Bookings : booked.booking[k].status # "none" /\ booked.booking[k].price = 0) <= 1

\* Who tries a second time with Google does nothing else.
MildSigning ==
    attempt[MaxAttempts].outcome # "none" =>
        /\ logins = 0 /\ ~provider.demo
        /\ path = "/dashboard" /\ form.role = "owner" /\ form.next = "/dashboard"

\* The battery's limits leave one unit between them; what it began with and what was
\* set by hand since come to a unit at most.
MildStation == byHand \in 0..1 /\ limits.max = limits.min + 1

Mild ==
    /\ which = "credit" => MildCredit
    /\ which = "booking" => MildBooking
    /\ which = "signing" => MildSigning
    /\ which = "station" => MildStation

\* The other parts stay as they began.
Chosen ==
    CASE which = "credit" -> <<which, credit>>
      [] which = "booking" -> <<which, booked>>
      [] which = "client" -> <<which, client>>
      [] which = "station" -> <<which, station>>
      [] which = "signing" -> <<which, signing>>

-----------------------------------------------------------------------------
\* What is on hold can be taken from the balance (CreditDemo).
HoldIsCovered == which = "credit" => Credit!HoldIsCovered

\* What a booking has paid is what it is worth (BookingDemo).
BooksBalance == which = "booking" => Booked!BooksBalance

\* No bay is promised twice (BookingDemo).
NoDoubleBooking == which = "booking" => Booked!NoDoubleBooking

\* The page shows what belongs to its account (ClientSession).
ShownIsOwn == which = "client" => Client!ShownIsOwn

\* The hours of a station explain its battery (EnergyDispatch).
HoursExplainBattery == which = "station" => Station!HoursExplainBattery

\* Who signs in with Google is told what came of it, and let in (SignIn).
AttemptIsAnswered == which = "signing" => Signing!AttemptIsAnswered
=============================================================================
