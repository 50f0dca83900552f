----------------------------- MODULE CreditDemo -----------------------------
(***************************************************************************)
(* The browser demo of prepaid charging (lib/credit): one snapshot of      *)
(* accounts, hardware, sessions and money, changed by the screens'         *)
(* operations and by a tick that answers commands, meters sessions and     *)
(* posts payments.  Each of them is a transaction on the whole snapshot,   *)
(* serialised by a lock (TabStore has what happens without it).            *)
(*                                                                         *)
(* There is one station with one controller, and each owner has one        *)
(* vehicle.  Of times the model keeps the age of a command (0, 1: it is    *)
(* answered from now on, 2: it has expired), whether a submitted payment   *)
(* is due, and whether the controller was seen too long ago.               *)
(***************************************************************************)
EXTENDS Integers, SequencesExt

CONSTANTS
    Owners, Bays,
    Requests,        \* request ids of starts; each names the session it makes
    OwnerOf,         \* and belongs to one owner
    Payments, PayerOf, TopUp,      \* top-ups, who makes them, and of how much
    Adjustments, Amounts,          \* request ids of adjustments, what they may add
    OpeningCredit, MaxWallet,
    Tariffs, Unit,   \* a tariff is the price of Unit
    Capacity,        \* what a vehicle can take
    MaxStep,         \* what a tick can deliver
    MaxCommands      \* bound on the commands that wait for an answer

VARIABLE data        \* the Snapshot in the store

-----------------------------------------------------------------------------
Smaller(a, b) == IF a < b THEN a ELSE b
EnergyCost(energy, tariff) == (energy * tariff + Unit - 1) \div Unit
AffordableEnergy(credit, tariff) == (credit * Unit) \div tariff

NoSession == [state |-> "none", bay |-> "none", energy |-> 0, limit |-> 0, tariff |-> 0,
              reserved |-> 0, cost |-> 0]
Closed(status) == [status |-> status, due |-> 0, outcome |-> "none"]
NoPayment == Closed("none")

Open(d, r) == d.session[r].state \in {"pending", "charging"}
OpenOf(d, u) == {r \in Requests : Open(d, r) /\ OwnerOf[r] = u}
OpenAt(d, b) == {r \in Requests : Open(d, r) /\ d.session[r].bay = b}
ReservedBy(d, u) == FoldSet(LAMBDA r, sum : d.session[r].reserved + sum, 0, OpenOf(d, u))
Available(d, u) ==
    IF d.wallet[u] > ReservedBy(d, u) THEN d.wallet[u] - ReservedBy(d, u) ELSE 0

\* What is left of the commands, in their order.
Without(commands, gone) ==
    LET left[n \in 0..Len(commands)] ==
            IF n = 0 THEN <<>>
            ELSE IF commands[n] \in gone THEN left[n - 1] ELSE Append(left[n - 1], commands[n])
    IN  left[Len(commands)]

Post(d, id, u, amount) ==
    [d EXCEPT !.wallet[u] = @ + amount, !.ledger = @ \cup {id}]

Init ==
    \E tariff \in Tariffs :
        data = [session |-> [r \in Requests |-> NoSession],
                commands |-> <<>>,
                payment |-> [p \in Payments |-> NoPayment],
                wallet |-> [u \in Owners |-> OpeningCredit],
                ledger |-> {},
                bay |-> [b \in Bays |-> [enabled |-> TRUE, plugged |-> FALSE, fault |-> FALSE, faults |-> 0]],
                device |-> [online |-> TRUE, away |-> FALSE, outcome |-> "success"],
                station |-> TRUE,
                active |-> [u \in Owners |-> TRUE],
                room |-> [u \in Owners |-> Capacity],
                tariff |-> tariff]

-----------------------------------------------------------------------------
(* lib/credit/engine.ts. *)

\* Without again, a new start; with it, one that the controller has answered.
ValidStart(d, r, b, again) ==
    LET u == OwnerOf[r] IN
    /\ d.active[u] /\ d.station /\ d.device.online /\ ~d.device.away
    /\ d.bay[b].enabled /\ ~d.bay[b].fault /\ d.bay[b].plugged
    /\ d.room[u] > 0
    /\ (OpenOf(d, u) \cup OpenAt(d, b)) \ {r} = {}
    /\ IF again THEN d.session[r].reserved >= 1 ELSE Available(d, u) >= 1

Started(d, r, b) ==
    [d EXCEPT !.session[r] = [state |-> "pending", bay |-> b, energy |-> 0, cost |-> 0,
                              limit |-> d.room[OwnerOf[r]], tariff |-> d.tariff,
                              reserved |-> Available(d, OwnerOf[r])],
              !.commands = <<[kind |-> "START", of |-> r, age |-> 0, outcome |-> d.device.outcome]>> \o @]

\* It throws when the balance is below the cost: HoldIsCovered says it never is.
Finish(d, r) ==
    IF ~Open(d, r) THEN d
    ELSE LET s == d.session[r]
             cost == Smaller(s.reserved, EnergyCost(s.energy, s.tariff))
         IN [Post(d, <<"DEBIT", r>>, OwnerOf[r], -cost) EXCEPT
                !.session[r] = [@ EXCEPT !.state = "completed", !.cost = cost],
                !.commands = Without(@, {c \in ToSet(@) : c.of = r /\ c.kind = "START"})]

FinishAll(d, sessions) == FoldSet(LAMBDA r, rest : Finish(rest, r), d, sessions)

MayCommand(d, kind, r) ==
    /\ Open(d, r)
    /\ kind # "EMERGENCY_STOP" => \A i \in DOMAIN d.commands : d.commands[i].of # r

Sent(d, kind, r) ==
    [d EXCEPT !.commands = <<[kind |-> kind, of |-> r, age |-> 0, outcome |-> d.device.outcome]>> \o @]

\* The tick goes through the commands that were pending when it began, the
\* newest first, whatever the ones before have done to them.
Answer(d, c) ==
    LET silent == ~d.device.online \/ c.outcome = "timeout"
        done == [d EXCEPT !.commands = Without(@, {c})]
        acknowledged == ~silent /\ c.outcome = "success"
    IN  IF c.age = 0 \/ (silent /\ c.age < 2) THEN d
        ELSE IF c.kind = "START"
             THEN IF acknowledged /\ ValidStart(d, c.of, d.session[c.of].bay, TRUE)
                  THEN [done EXCEPT !.session[c.of].state = "charging"]
                  ELSE Finish(done, c.of)
        ELSE IF c.kind = "STOP" /\ acknowledged THEN Finish(done, c.of) ELSE done

Answered(d) == FoldLeft(Answer, d, d.commands)

\* A payment is failed rather than take the wallet above its maximum.
Posted(d) ==
    LET due == {p \in Payments : /\ d.payment[p].status = "pending" /\ d.payment[p].due = 2
                                 /\ d.payment[p].outcome # "pending"}
        Credit(p, rest) ==
            IF d.payment[p].outcome # "success"
            THEN [rest EXCEPT !.payment[p] = Closed(d.payment[p].outcome)]
            ELSE IF rest.wallet[PayerOf[p]] + TopUp > MaxWallet
                 THEN [rest EXCEPT !.payment[p] = Closed("failed")]
            ELSE [Post(rest, <<"CREDIT", p>>, PayerOf[p], TopUp) EXCEPT !.payment[p] = Closed("verified")]
    IN FoldSet(Credit, d, due)

\* Where charging cannot go on.
Broken(d, r) ==
    LET b == d.bay[d.session[r].bay] IN
    \/ ~d.device.online \/ ~d.station \/ d.device.away
    \/ ~b.plugged \/ b.fault \/ ~b.enabled \/ ~d.active[OwnerOf[r]]
Swept(d) == FinishAll(d, {r \in Requests : Open(d, r) /\ Broken(d, r)})

\* Each session gets something of what the station gives, or nothing when it
\* is dry, and that is a fault where the session still wants any.
Metered(d, supply) ==
    LET Meter(r, rest) ==
            LET s == d.session[r]
                affordable == AffordableEnergy(s.reserved, s.tariff)
                most == Smaller(affordable, s.limit)
                energy == Smaller(s.energy + supply.given[r], most)
                read == [rest EXCEPT !.session[r].energy = energy, !.room[OwnerOf[r]] = s.limit - energy]
            IN  IF energy >= most THEN Finish(read, r)
                ELSE IF supply.dry THEN Finish([read EXCEPT !.bay[s.bay].fault = TRUE], r)
                ELSE read
    IN FoldSet(Meter, d, {r \in Requests : d.session[r].state = "charging"})

Advanced(d, supply) ==
    LET m == Metered(Swept(Answered(Posted(d))), supply)
    IN  [m EXCEPT !.device.away = @ /\ ~d.device.online]

Advance(supply) == data' = Advanced(data, supply)

-----------------------------------------------------------------------------
(* lib/credit/services.ts, in demo mode. *)

Start(r, b) ==
    /\ data.session[r].state = "none" /\ Len(data.commands) < MaxCommands
    /\ ValidStart(data, r, b, FALSE)
    /\ data' = Started(data, r, b)

Stop(r) ==
    /\ Len(data.commands) < MaxCommands
    /\ data.active[OwnerOf[r]] /\ MayCommand(data, "STOP", r)
    /\ data' = Sent(data, "STOP", r)

\* The command itself is for the controller; the session ends and the fault
\* latches at once.
EmergencyStop(r) ==
    /\ Len(data.commands) < MaxCommands /\ MayCommand(data, "EMERGENCY_STOP", r)
    /\ LET b == data.session[r].bay IN
       data' = Sent([Finish(data, r) EXCEPT !.bay[b].fault = TRUE, !.bay[b].faults = 1], "EMERGENCY_STOP", r)

Plug(b, plugged) ==
    data' = IF plugged THEN [data EXCEPT !.bay[b].plugged = TRUE]
            ELSE FinishAll([data EXCEPT !.bay[b].plugged = FALSE], OpenAt(data, b))

InjectFault(b) ==
    data' = FinishAll([data EXCEPT !.bay[b].fault = TRUE, !.bay[b].faults = 1], OpenAt(data, b))

ResolveFault(b) ==
    /\ data.bay[b].faults > 0
    /\ data' = [data EXCEPT !.bay[b].faults = 0, !.bay[b].fault = FALSE]

SaveBay(b, enabled, fault) ==
    LET saved == [data EXCEPT !.bay[b].enabled = enabled, !.bay[b].fault = fault]
    IN  data' = IF enabled /\ ~fault THEN saved ELSE FinishAll(saved, OpenAt(data, b))

SaveStation(online) ==
    data' = IF online THEN [data EXCEPT !.station = TRUE]
            ELSE FinishAll([data EXCEPT !.station = FALSE], Requests)

\* A demo controller is set by hand, and the demo advances at once.
Configure(online, outcome, supply) ==
    data' = Advanced([data EXCEPT !.device.online = online, !.device.outcome = outcome], supply)

Fill(r) ==
    /\ data.session[r].state = "charging"
    /\ data' = Finish([data EXCEPT !.room[OwnerOf[r]] = 0], r)

SaveVehicle(u, room) ==
    /\ data.active[u] /\ OpenOf(data, u) = {}
    /\ data' = [data EXCEPT !.room[u] = room]

SetStatus(u, active) ==
    data' = IF active THEN [data EXCEPT !.active[u] = TRUE]
            ELSE FinishAll([data EXCEPT !.active[u] = FALSE], OpenOf(data, u))

SetTariff(tariff) == data' = [data EXCEPT !.tariff = tariff]

CreatePayment(p) ==
    /\ data.active[PayerOf[p]] /\ data.payment[p].status = "none"
    /\ data' = [data EXCEPT !.payment[p].status = "pending"]

SubmitPayment(p, outcome) ==
    /\ data.active[PayerOf[p]] /\ data.payment[p].status = "pending" /\ data.payment[p].due = 0
    /\ data' = [data EXCEPT !.payment[p] = [@ EXCEPT !.due = 1, !.outcome = outcome]]

\* Mutant of Adjust: credit on hold may be taken.
AdjustBlindly(a, u, amount) ==
    /\ <<"ADJUST", a>> \notin data.ledger
    /\ data.wallet[u] + amount \in 0..MaxWallet
    /\ data' = Post(data, <<"ADJUST", a>>, u, amount)

\* A reversal is an adjustment by what it reverses.
Adjust(a, u, amount) ==
    /\ <<"ADJUST", a>> \notin data.ledger
    /\ Available(data, u) + amount >= 0
    /\ data.wallet[u] + amount <= MaxWallet
    /\ data' = Post(data, <<"ADJUST", a>>, u, amount)

Older(c, long) == [c EXCEPT !.age = IF long THEN 2 ELSE Smaller(@ + 1, 2)]
Later(payment) == [payment EXCEPT !.due = IF @ = 0 THEN 0 ELSE 2]

\* Time passes: a little, or so much that the controller was seen too long ago.
Elapse(long) ==
    data' = [data EXCEPT
        !.commands = [i \in DOMAIN @ |-> Older(@[i], long)],
        !.payment = [p \in Payments |-> Later(@[p])],
        !.device.away = @ \/ long]

Outcomes == {"success", "failure", "timeout"}
\* While no session is open, nothing is given.
Nothing == [given |-> [r \in Requests |-> 0], dry |-> FALSE]
Supplies ==
    IF \A r \in Requests : ~Open(data, r) THEN {Nothing}
    ELSE {[Nothing EXCEPT !.given = given] : given \in [Requests -> 0..MaxStep]}
            \cup {[Nothing EXCEPT !.dry = TRUE]}

Next ==
    \/ \E supply \in Supplies :
        \/ Advance(supply)
        \/ \E online \in BOOLEAN : Configure(online, data.device.outcome, supply)
        \/ \E outcome \in Outcomes : Configure(data.device.online, outcome, supply)
    \/ \E r \in Requests :
        \/ \E b \in Bays : Start(r, b)
        \/ Stop(r) \/ EmergencyStop(r) \/ Fill(r)
    \/ \E b \in Bays :
        \/ InjectFault(b) \/ ResolveFault(b)
        \/ \E plugged \in BOOLEAN : Plug(b, plugged)
        \/ \E enabled, fault \in BOOLEAN : SaveBay(b, enabled, fault)
    \/ \E on \in BOOLEAN : SaveStation(on) \/ Elapse(on) \/ \E u \in Owners : SetStatus(u, on)
    \/ \E u \in Owners :
        \/ \E room \in 0..Capacity : SaveVehicle(u, room)
        \/ \E a \in Adjustments, amount \in Amounts : Adjust(a, u, amount)
    \/ \E tariff \in Tariffs : SetTariff(tariff)
    \/ \E p \in Payments :
        \/ CreatePayment(p)
        \/ \E outcome \in {"success", "failed", "cancelled", "pending"} : SubmitPayment(p, outcome)

Spec == Init /\ [][Next]_data

-----------------------------------------------------------------------------
\* Whatever an owner has on hold can be taken from the balance, so that no
\* settlement throws: administrators, payments and other sessions leave it alone.
HoldIsCovered == \A u \in Owners : ReservedBy(data, u) <= data.wallet[u]
=============================================================================
