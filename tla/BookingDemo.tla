---------------------------- MODULE BookingDemo ----------------------------
(***************************************************************************)
(* The browser demo of reserved charging (lib/demo, lib/platform/demo): an *)
(* owner books a bay for some hours and pays an advance, enters it, and is *)
(* charged through commands to the bay's controller; ending a session      *)
(* settles the booking.  Every operation, and a tick that plays the        *)
(* controllers, is a transaction on one snapshot.                          *)
(*                                                                         *)
(* There is one station whose bays have a controller each, and an owner    *)
(* has one vehicle.  Time counts in hours.  A command has the age 0, 1 (it *)
(* is answered from now on) or 2 (it has expired).  Of the faults the      *)
(* model keeps those that stop a device.                                   *)
(***************************************************************************)
EXTENDS Integers, SequencesExt

CONSTANTS
    Bookings, OwnerOf,      \* request ids of reservations, and who makes them
    Sample,                 \* the one that may be there at the beginning
    Bays,
    Prices, Fee, CancellationFee,
    Hours, MaxTime,         \* how long a booking may be; a bound on time
    Expected,               \* the energy an hour is expected to give
    Capacity,               \* what a vehicle can take
    MaxStep                 \* what a tick can deliver

VARIABLE data               \* the PlatformSnapshot in the store

-----------------------------------------------------------------------------
Bookers == {OwnerOf[k] : k \in Bookings}
Larger(a, b) == IF a > b THEN a ELSE b
Smaller(a, b) == IF a < b THEN a ELSE b

NoBooking == [status |-> "none", bay |-> "none", start |-> 0, hours |-> 0, price |-> 0, advance |-> 0]
NoSession == [state |-> "none", bay |-> "none", energy |-> 0, cost |-> 0]

IdleDevice == [enabled |-> TRUE, online |-> TRUE, plugged |-> FALSE, on |-> FALSE,
               sensor |-> FALSE, dry |-> FALSE, faults |-> {}, outcome |-> "success"]
FaultCodes == {"SENSOR", "EMERGENCY"}

NewCommand(kind, k, b, override, outcome) ==
    [kind |-> kind, of |-> k, bay |-> b, override |-> override, age |-> 0, outcome |-> outcome]

EstimateCost(price, hours) == hours * Expected * price + Fee
Advance(price, hours) == (3 * EstimateCost(price, hours) + 9) \div 10

\* What the demo's owner has booked before: a booking to come, one that was
\* paid in full and charged, one cancelled in time.  They do not say at what
\* price they were made.
Seeds(price, b) ==
    LET booked == [NoBooking EXCEPT !.bay = b, !.hours = 1, !.advance = Advance(price, 1)]
        cost == Expected * price + Fee
    IN  {[booking |-> [booked EXCEPT !.status = "upcoming", !.start = 1],
          session |-> NoSession, paid |-> Advance(price, 1), receipts |-> {"TX"}],
         [booking |-> [booked EXCEPT !.status = "completed", !.advance = cost],
          session |-> [NoSession EXCEPT !.state = "completed", !.energy = Expected, !.cost = cost],
          paid |-> cost, receipts |-> {"TX"}],
         [booking |-> [booked EXCEPT !.status = "cancelled"],
          session |-> NoSession, paid |-> Smaller(Advance(price, 1), Fee), receipts |-> {"TX", "RF"}],
         [booking |-> NoBooking, session |-> NoSession, paid |-> 0, receipts |-> {}]}

Network(price) ==
    [booking |-> [k \in Bookings |-> NoBooking],
     session |-> [k \in Bookings |-> NoSession],
     paid |-> [k \in Bookings |-> 0],    \* payments less refunds
     receipts |-> {},                    \* the ids of both
     commands |-> <<>>,                  \* that are pending, newest first
     bay |-> [b \in Bays |-> IdleDevice],
     station |-> TRUE,
     room |-> [u \in Bookers |-> Capacity],
     review |-> "pending",               \* a refund of the completed booking
     price |-> price,
     now |-> 0]

Init ==
    \E price \in Prices : \E seed \in Seeds(price, CHOOSE b \in Bays : TRUE) :
        data = [Network(price) EXCEPT !.booking[Sample] = seed.booking, !.session[Sample] = seed.session,
                                      !.paid[Sample] = seed.paid,
                                      !.receipts = {<<r, Sample>> : r \in seed.receipts}]

Due(d, k) == d.booking[k].status \in {"upcoming", "charging"}
Active(d, k) == d.session[k].state \notin {"none", "completed"}
ActiveAt(d, b) == {k \in Bookings : Active(d, k) /\ d.session[k].bay = b}
ActiveOf(d, u) == {k \in Bookings : Active(d, k) /\ OwnerOf[k] = u}

\* What is left of the commands, in their order.
Without(commands, gone) ==
    LET left[n \in 0..Len(commands)] ==
            IF n = 0 THEN <<>>
            ELSE IF commands[n] \in gone THEN left[n - 1] ELSE Append(left[n - 1], commands[n])
    IN  left[Len(commands)]

\* Mutant of Pay: whether it has been paid before is not looked at.
PayAgain(d, id, k, amount) == [d EXCEPT !.paid[k] = @ + amount, !.receipts = @ \cup {id}]

Pay(d, id, k, amount) ==
    IF id \in d.receipts THEN d ELSE [d EXCEPT !.paid[k] = @ + amount, !.receipts = @ \cup {id}]

-----------------------------------------------------------------------------
(* lib/services/booking-rules.ts. *)

Overlaps(start, hours, other) ==
    /\ other.status \in {"upcoming", "charging"}
    /\ start < other.start + other.hours /\ start + hours > other.start

InUse(d, b, start, hours, except) ==
    \E k \in Bookings \ {except} : d.booking[k].bay = b /\ Overlaps(start, hours, d.booking[k])

ValidBooking(d, u, start, hours) ==
    /\ d.station /\ d.room[u] > 0 /\ start > d.now
    /\ \A k \in Bookings : OwnerOf[k] = u => ~Overlaps(start, hours, d.booking[k])

FreeBays(d, start, hours) ==
    {b \in Bays : d.bay[b].enabled /\ d.bay[b].online /\ ~InUse(d, b, start, hours, "none")}

\* What a booking loses when it is cancelled in time; those of before, which
\* agreed on no price, agreed on no fee for it either.
Forfeit(bk) == Fee + IF bk.price = 0 THEN 0 ELSE CancellationFee

\* In time, that is an hour before the start.
Refundable(d, k) ==
    IF d.booking[k].start - d.now >= 1
    THEN Larger(0, d.booking[k].advance - Forfeit(d.booking[k])) ELSE 0

-----------------------------------------------------------------------------
(* lib/demo/engine.ts. *)

MayCharge(d, k, override) ==
    LET bk == d.booking[k]
        s == d.session[k]
        b == d.bay[s.bay]
    IN  /\ Active(d, k) /\ Due(d, k) /\ bk.bay = s.bay
        /\ override \/ bk.start + bk.hours >= d.now
        /\ d.station /\ b.online /\ b.enabled /\ b.plugged
        /\ b.faults = {} /\ ~b.sensor /\ ~b.dry
        /\ d.room[OwnerOf[k]] > 0
        /\ ActiveAt(d, s.bay) \cup ActiveOf(d, OwnerOf[k]) = {k}

\* The price that was agreed, or else the station's.
Rate(d, k) == IF d.booking[k].price = 0 THEN d.price ELSE d.booking[k].price

\* What the advance has not covered is paid, and what it has left over returned.
FinishSession(d, k) ==
    IF ~Active(d, k) THEN d
    ELSE LET s == d.session[k]
             cost == s.energy * Rate(d, k) + Fee
         IN [Pay(d, <<"SETTLE", k>>, k, cost - d.booking[k].advance) EXCEPT
                !.session[k] = [@ EXCEPT !.state = "completed", !.cost = cost],
                !.booking[k].status = "completed",
                !.bay[s.bay].on = FALSE]

FinishAll(d, sessions) == FoldSet(LAMBDA k, rest : FinishSession(rest, k), d, sessions)

Become(d, k, from, to) == IF d.session[k].state \in from THEN [d EXCEPT !.session[k].state = to] ELSE d

Pending(d, b) == \E i \in DOMAIN d.commands : d.commands[i].bay = b

\* Whether an idle device takes a command about k's session.
MayIssue(d, kind, k, override) ==
    /\ Active(d, k) /\ ~Pending(d, d.session[k].bay)
    /\ kind = "START" => MayCharge(d, k, override)

\* An administrator's, about no session.
MayRestart(d, b) ==
    /\ \A k \in ActiveAt(d, b) : d.session[k].state \notin {"starting", "charging", "paused"}
    /\ ~Pending(d, b)

Issued(d, b, kind, k, override) ==
    [d EXCEPT !.commands = <<NewCommand(kind, k, b, override, d.bay[b].outcome)>> \o @,
              !.session = IF kind = "START" THEN [@ EXCEPT ![k].state = "starting"] ELSE @]

Done(d, c) ==
    CASE c.kind = "START" -> [d EXCEPT !.session[c.of].state = "charging",
                                       !.booking[c.of].status = "charging", !.bay[c.bay].on = TRUE]
      [] c.kind = "PAUSE" -> [d EXCEPT !.session[c.of].state = "paused", !.bay[c.bay].on = FALSE]
      [] c.kind = "STOP" -> FinishSession(d, c.of)
      [] c.kind = "RESTART" -> [d EXCEPT !.bay[c.bay].on = FALSE]
      [] OTHER -> d

Answer(d, c) ==
    LET silent == c.outcome = "timeout" \/ ~d.bay[c.bay].online
        answered == [d EXCEPT !.commands = Without(@, {c})]
        failed == c.outcome = "failure" \/ (c.kind = "START" /\ ~MayCharge(d, c.of, c.override))
    IN  IF c.age = 0 \/ (silent /\ c.age < 2) THEN d
        ELSE IF ~silent /\ ~failed THEN Done(answered, c)
        ELSE IF c.kind = "RESTART" THEN answered
        ELSE Become(answered, c.of, {"starting"}, "car-detected")

Answered(d) == FoldLeft(Answer, d, d.commands)

\* The session a device works for; an ended one may be back, see Done.
Served(d, b) == CHOOSE k \in ActiveAt(d, b) : TRUE

\* What has happened to a device is noticed by its session.
Watched(d, b) ==
    LET k == Served(d, b)
        off(state) == [d EXCEPT !.session[k].state = state, !.bay[b].on = FALSE]
    IN  IF ActiveAt(d, b) = {} \/ d.session[k].state \in {"waiting", "car-detected"} THEN d
        ELSE IF ~d.bay[b].plugged THEN FinishSession(d, k)
        ELSE IF ~d.bay[b].online \/ ~d.station THEN off("offline")
        ELSE IF ~d.bay[b].enabled THEN FinishSession(d, k)
        ELSE IF d.bay[b].sensor \/ d.bay[b].faults # {} THEN off("fault")
        ELSE d

\* A charging session takes what the tick gives it, up to what its vehicle
\* can take, or until its hours are over.
Metered(d, b, supply) ==
    LET k == Served(d, b)
        energy == Smaller(supply.given, d.room[OwnerOf[k]])
        read == [d EXCEPT !.session[k].energy = @ + energy, !.room[OwnerOf[k]] = @ - energy]
    IN  IF ActiveAt(d, b) = {} \/ d.session[k].state # "charging" \/ ~d.bay[b].on \/ ~d.bay[b].online THEN d
        ELSE IF d.bay[b].dry THEN [d EXCEPT !.session[k].state = "paused", !.bay[b].on = FALSE]
        ELSE IF supply.over \/ read.room[OwnerOf[k]] = 0 THEN FinishSession(read, k) ELSE read

AdvanceEngine(d, supply) ==
    FoldSet(LAMBDA b, rest : Metered(Watched(rest, b), b, supply), Answered(d), Bays)

-----------------------------------------------------------------------------
(* lib/platform/demo.ts. *)

Tick(supply) == data' = AdvanceEngine(data, supply)

Reserve(k, start, hours) ==
    /\ data.booking[k].status = "none"      \* otherwise the booking it made is returned
    /\ ValidBooking(data, OwnerOf[k], start, hours)
    /\ LET advance == Advance(data.price, hours) IN
       \E b \in FreeBays(data, start, hours) :
           data' = [Pay(data, <<"TX", k>>, k, advance) EXCEPT
                        !.booking[k] = [status |-> "upcoming", bay |-> b, start |-> start, hours |-> hours,
                                        price |-> data.price, advance |-> advance]]

Cancelled(d, k) ==
    LET amount == Refundable(d, k) IN
    [(IF amount = 0 THEN d ELSE Pay(d, <<"RF", k>>, k, -amount)) EXCEPT
        !.booking[k].status = "cancelled",
        !.session[k].state = IF @ = "none" THEN "none" ELSE "completed",
        !.commands = Without(@, {c \in ToSet(@) : c.of = k})]

\* The owner, or an administrator who changes a booking.
Cancel(k) == data.booking[k].status = "upcoming" /\ data' = Cancelled(data, k)

Enter(k) ==
    /\ Due(data, k) /\ data.session[k].state = "none"
    /\ ActiveOf(data, OwnerOf[k]) \cup ActiveAt(data, data.booking[k].bay) = {}
    /\ data' = [data EXCEPT !.session[k] = [NoSession EXCEPT !.state = "waiting", !.bay = data.booking[k].bay]]

Presence(k, present) ==
    /\ data.session[k].bay # "none"
    /\ LET moved == Become([data EXCEPT !.bay[data.session[k].bay].plugged = present], k,
                           {"waiting", "car-detected"}, IF present THEN "car-detected" ELSE "waiting")
       IN  data' = IF ~present /\ data.session[k].state \in {"charging", "paused", "starting"}
                   THEN FinishSession(moved, k) ELSE moved

Command(kind, k, override) ==
    /\ MayIssue(data, kind, k, override)
    /\ data' = Issued(data, data.session[k].bay, kind, k, override)

Restart(b) == MayRestart(data, b) /\ data' = Issued(data, b, "RESTART", "none", FALSE)

\* It does not wait for another command, and the session ends at once.
EmergencyStop(k) ==
    /\ Active(data, k)
    /\ LET b == data.session[k].bay
           stopped == FinishSession([data EXCEPT !.commands = Without(@, {c \in ToSet(@) : c.bay = b})], k)
       IN  data' = Issued([stopped EXCEPT !.bay[b].faults = @ \cup {"EMERGENCY"}], b, "EMERGENCY_STOP", k, FALSE)

\* A field of a device is set, and the demo advances at once; what that gives
\* the sessions is left to the tick before or after.
Configure(b, field, value) ==
    LET set == [data EXCEPT !.bay[b][field] = value,
                    !.bay[b].faults = IF field = "sensor" /\ value = TRUE THEN @ \cup {"SENSOR"} ELSE @]
        arrived == FoldSet(LAMBDA k, rest : Become(rest, k, {"waiting"}, "car-detected"), set, ActiveAt(set, b))
    IN  data' = AdvanceEngine(IF field = "plugged" /\ value = TRUE THEN arrived ELSE set, [given |-> 0, over |-> FALSE])

\* The refund that waits for an administrator, of the fee.
ApproveRefund ==
    /\ data.review = "pending" /\ data.session[Sample].state = "completed" /\ data.session[Sample].bay = "none"
    /\ data' = [Pay(data, <<"REVIEW", Sample>>, Sample, -Fee) EXCEPT !.review = "succeeded"]

-----------------------------------------------------------------------------
(* lib/platform/demo-admin.ts. *)

SaveStation(online) ==
    data' = IF online THEN [data EXCEPT !.station = TRUE]
            ELSE FinishAll([data EXCEPT !.station = FALSE], Bookings)

UpdateBay(b, enabled) ==
    data' = IF enabled THEN [data EXCEPT !.bay[b].enabled = TRUE]
            ELSE FinishAll([data EXCEPT !.bay[b].enabled = FALSE], ActiveAt(data, b))

\* Mutant of UpdateBooking: other bookings of the new bay are not looked at.
UpdateBookingAnyway(k, b) ==
    /\ data.booking[k].status = "upcoming" /\ data.bay[b].enabled
    /\ ~Active(data, k)
    /\ data' = [data EXCEPT !.booking[k].bay = b]

UpdateBooking(k, b) ==
    /\ data.booking[k].status = "upcoming" /\ data.bay[b].enabled
    /\ ~InUse(data, b, data.booking[k].start, data.booking[k].hours, k)
    /\ ~Active(data, k)
    /\ data' = [data EXCEPT !.booking[k].bay = b]

ResolveFault(b, fault) ==
    /\ fault \in data.bay[b].faults
    /\ data' = [data EXCEPT !.bay[b].faults = @ \ {fault},
                            !.bay[b].sensor = @ /\ fault # "SENSOR"]

\* Also going back to the price before, which a tab reads from its own copy:
\* it may be any that has been set.
SavePricing(price) == data' = [data EXCEPT !.price = price]

(* lib/services/account.ts. *)
SaveVehicle(u, room) ==
    /\ ActiveOf(data, u) = {}
    /\ data' = [data EXCEPT !.room[u] = room]

Older(c, hours) == [c EXCEPT !.age = IF hours > 0 THEN 2 ELSE Smaller(@ + 1, 2)]

Elapse(hours) ==
    /\ data.now + hours <= MaxTime
    /\ data' = [data EXCEPT !.now = @ + hours, !.commands = [i \in DOMAIN @ |-> Older(@[i], hours)]]

\* While nothing is charged, nothing is taken.
Supplies ==
    IF \E k \in Bookings : data.session[k].state = "charging"
    THEN [given : 0..MaxStep, over : BOOLEAN] ELSE {[given |-> 0, over |-> FALSE]}

Next ==
    \/ \E supply \in Supplies : Tick(supply)
    \/ \E k \in Bookings :
        \/ \E start \in 1..MaxTime, hours \in Hours : Reserve(k, start, hours)
        \/ Cancel(k) \/ Enter(k) \/ EmergencyStop(k)
        \/ \E present \in BOOLEAN : Presence(k, present)
        \/ \E override \in BOOLEAN : Command("START", k, override)
        \/ \E kind \in {"STOP", "PAUSE"} : Command(kind, k, FALSE)
        \/ \E b \in Bays : UpdateBooking(k, b)
    \/ \E b \in Bays :
        \/ Restart(b)
        \/ \E enabled \in BOOLEAN : UpdateBay(b, enabled)
        \/ \E field \in {"online", "plugged", "sensor", "dry"}, value \in BOOLEAN : Configure(b, field, value)
        \/ \E outcome \in {"success", "failure", "timeout"} : Configure(b, "outcome", outcome)
        \/ \E fault \in FaultCodes : ResolveFault(b, fault)
    \/ ApproveRefund
    \/ \E online \in BOOLEAN : SaveStation(online)
    \/ \E price \in Prices : SavePricing(price)
    \/ \E u \in Bookers, room \in 0..Capacity : SaveVehicle(u, room)
    \/ \E hours \in {0, 1} : Elapse(hours)

Spec == Init /\ [][Next]_data

-----------------------------------------------------------------------------
\* The payments of a booking, less its refunds, are what it is worth: its
\* advance until it ends, then what its session cost at the price it was made
\* for, less a refund an administrator has approved; also when a session is
\* ended twice, see Done.  (Of the seeded booking, which agreed on no price,
\* that is not so when the price is another one the second time.)
BooksBalance ==
    \A k \in Bookings :
        LET bk == data.booking[k] IN
        CASE bk.status \in {"upcoming", "charging"} -> data.paid[k] = bk.advance
          [] bk.status = "completed" ->
                bk.price # 0 \/ data.session[k].bay = "none" =>
                    /\ data.paid[k] = data.session[k].cost - IF <<"REVIEW", k>> \in data.receipts THEN Fee ELSE 0
                    /\ bk.price # 0 => data.session[k].cost = data.session[k].energy * bk.price + Fee
          [] bk.status = "cancelled" -> data.paid[k] \in {bk.advance, Smaller(bk.advance, Forfeit(bk))}
          [] OTHER -> data.paid[k] = 0

\* No bay is promised twice for the same hour.
NoDoubleBooking ==
    \A k \in Bookings : Due(data, k) =>
        ~InUse(data, data.booking[k].bay, data.booking[k].start, data.booking[k].hours, k)
=============================================================================
