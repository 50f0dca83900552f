--------------------------- MODULE ChargingEngine ---------------------------
(***************************************************************************)
(* The charging engine of the backend (modules/sessions/engine.ts): how a  *)
(* session is started, stopped, metered, timed out and settled.  Every     *)
(* database transaction of the engine is one action, because it locks the  *)
(* session row first; what the code reads outside a transaction and acts   *)
(* on later is kept in the variables sweep and handling.                   *)
(*                                                                         *)
(* A session is named by its (owner, Idempotency-Key) pair, which the      *)
(* database keeps unique, so OwnerOf is a constant and a repeated start    *)
(* request finds the session it made the first time.  Command 0 of a       *)
(* session is its START, the others are the STOPs in the order of issue.   *)
(*                                                                         *)
(* The device is unconstrained here: it may send any reading, event or     *)
(* acknowledgement the message schema admits, at any time and repeatedly.  *)
(* Clocks are flags: a command's age, a quiet or overtime session, a fresh *)
(* device; time sets them and the engine reads them.                       *)
(***************************************************************************)
EXTENDS Integers, FiniteSetsExt

CONSTANTS
    Users, Devices, Bays, Sessions,
    OwnerOf,        \* the user whose request key a session is
    DeviceOf,       \* the controller a bay is wired to
    Postings,       \* idempotency keys of top-ups and administrator adjustments
    Amounts,        \* the amounts they post
    OpeningCredit,  \* the balance every wallet starts with
    Tariff,         \* price of Unit units of energy (1 kWh = 1 000 000 mWh)
    Unit,
    EnergyCap,      \* MAX_SESSION_ENERGY_MWH
    Margin,         \* what may still flow before a stop takes effect
    Readings,       \* the cumulative energies a device may report
    MaxAt,          \* bound: device timestamps are 1..MaxAt
    MaxStops,       \* bound: STOP commands per session
    NoBay, NoOne

ASSUME EngineAssumption ==
    /\ OwnerOf \in [Sessions -> Users]
    /\ DeviceOf \in [Bays -> Devices]
    /\ Amounts \subseteq Nat \ {0}
    /\ OpeningCredit \in Nat
    /\ Tariff \in Nat \ {0} /\ Unit \in Nat \ {0} /\ EnergyCap \in Nat \ {0}
    /\ Margin \in Nat
    /\ Readings \subseteq Nat
    /\ MaxAt \in Nat \ {0} /\ MaxStops \in Nat \ {0}
    /\ NoBay \notin Bays
    /\ Postings \cap Sessions = {}

VARIABLES
    session,   \* ChargingSession rows
    command,   \* DeviceCommand rows of each session
    hold,      \* CreditReservation status of each session
    wallet,    \* Wallet.balanceMinor of each user
    ledger,    \* WalletLedger rows
    bay,       \* Bay.status; PLUGGED says the last report had the plug in too
    fault,     \* bays with an unresolved Fault row
    device,    \* Device rows: ONLINE, QUIET (not heard of for too long) or OFFLINE
    handling,  \* the message between the two transactions of handle()
    sweep      \* what the running sweep has read and not yet acted on

vars == <<session, command, hold, wallet, ledger, bay, fault, device, handling, sweep>>

-----------------------------------------------------------------------------
(* Session states and the transitions state.ts admits *)

Statuses == {"START_PENDING", "CHARGING", "STOP_PENDING", "INTERRUPTED", "COMPLETED", "FAILED"}

Reasons == {"REQUESTED", "DEVICE_OFFLINE", "SAFETY_FAULT", "LIMIT_REACHED"}

Allowed ==
    [START_PENDING |-> {"CHARGING", "STOP_PENDING", "FAILED", "INTERRUPTED"},
     CHARGING      |-> {"STOP_PENDING", "INTERRUPTED"},
     STOP_PENDING  |-> {"COMPLETED", "FAILED", "INTERRUPTED"},
     INTERRUPTED   |-> {"STOP_PENDING", "COMPLETED", "FAILED"},
     COMPLETED     |-> {},
     FAILED        |-> {}]

\* A refused transition throws and rolls its transaction back.  The model
\* records it as REFUSED, which is no status: TypeOK shows it is never reached.
Transition(from, to) ==
    IF from = to \/ (from \in Statuses /\ to \in Allowed[from]) THEN to ELSE "REFUSED"

-----------------------------------------------------------------------------
(* Money: units.ts and charging-budget.ts *)

CostOf(energy) == (energy * Tariff + Unit - 1) \div Unit
CreditEnergy(reserved) == (reserved * Unit) \div Tariff
MaxEnergyOf(reserved) ==
    IF CreditEnergy(reserved) < EnergyCap THEN CreditEnergy(reserved) ELSE EnergyCap
\* Mutant of CappedCost: the cap forgotten.
CappedCostWithoutCap(energy, reserved) == CostOf(energy)

CappedCost(energy, reserved) == IF CostOf(energy) < reserved THEN CostOf(energy) ELSE reserved

-----------------------------------------------------------------------------
(* Reading the tables *)

Unused == [status |-> "NONE", bay |-> NoBay, reserved |-> 0, energy |-> 0, cost |-> 0,
           at |-> 0, reason |-> "none", recon |-> FALSE, completed |-> FALSE,
           quiet |-> FALSE, overtime |-> FALSE]

\* Mutant of Open: a session that awaits reconciliation counts after it is settled.
OpenByStatus(s) == session[s].status \notin {"NONE", "COMPLETED", "FAILED"}

Open(s) == session[s].status \notin {"NONE", "COMPLETED", "FAILED"} /\ ~session[s].completed

OpenOn(b) == {s \in Sessions : session[s].bay = b /\ Open(s)}

CommandIds == 0..MaxStops
NoCommand == [status |-> "NONE", sent |-> FALSE, age |-> 0]
Issued == [status |-> "PENDING", sent |-> FALSE, age |-> 0]

Stops(s) == {k \in CommandIds \ {0} : command[s][k].status # "NONE"}
LatestStop(s) == CHOOSE k \in Stops(s) : \A j \in Stops(s) : j <= k

\* Mutant of HeldSessions: a hold counts only once the session charges.
HeldSessionsCharging(u) ==
    {s \in Sessions : hold[s] = "HELD" /\ OwnerOf[s] = u /\ session[s].status = "CHARGING"}

HeldSessions(u) == {s \in Sessions : hold[s] = "HELD" /\ OwnerOf[s] = u}
HeldOver(S) == MapThenSumSet(LAMBDA s : session[s].reserved, S)
Held(u) == HeldOver(HeldSessions(u))

Posted(kind, ref) == \E e \in ledger : e.kind = kind /\ e.ref = ref
Entry(kind, ref, u, amount) == [kind |-> kind, ref |-> ref, user |-> u, amount |-> amount]

-----------------------------------------------------------------------------
Resting == [loop |-> "none", rows |-> {}]

Init ==
    /\ session = [s \in Sessions |-> Unused]
    /\ command = [s \in Sessions |-> [k \in CommandIds |-> NoCommand]]
    /\ hold = [s \in Sessions |-> "NONE"]
    /\ wallet = [u \in Users |-> OpeningCredit]
    /\ ledger = {}
    /\ bay = [b \in Bays |-> "AVAILABLE"]
    /\ fault = {}
    /\ device = [d \in Devices |-> "OFFLINE"]
    /\ handling = NoOne
    /\ sweep = Resting

-----------------------------------------------------------------------------
(* start(): reserve everything available and persist the START command *)

\* Mutant of Startable: the owner's other sessions are not looked at.
StartableAgain(s, b) ==
    /\ session[s].status = "NONE"
    /\ device[DeviceOf[b]] = "ONLINE"
    /\ bay[b] = "PLUGGED"
    /\ b \notin fault
    /\ OpenOn(b) = {}

Startable(s, b) ==
    /\ session[s].status = "NONE"
    /\ device[DeviceOf[b]] = "ONLINE"
    /\ bay[b] = "PLUGGED"
    /\ b \notin fault
    /\ OpenOn(b) = {}
    /\ \A t \in Sessions : Open(t) => OwnerOf[t] # OwnerOf[s]

Start(s, b) ==
    LET u == OwnerOf[s]
        reserved == wallet[u] - Held(u)
    IN  /\ Startable(s, b)
        /\ reserved > 0 /\ MaxEnergyOf(reserved) > 0
        /\ session' = [session EXCEPT ![s] =
               [Unused EXCEPT !.status = "START_PENDING", !.bay = b, !.reserved = reserved]]
        /\ hold' = [hold EXCEPT ![s] = "HELD"]
        /\ ledger' = ledger \cup {Entry("RESERVATION", s, u, -reserved)}
        /\ command' = [command EXCEPT ![s][0] = Issued]
        /\ bay' = [bay EXCEPT ![b] = "STARTING"]
        /\ UNCHANGED <<wallet, fault, device, handling, sweep>>

-----------------------------------------------------------------------------
(* queueStop(): only the first stop of a session issues a command.  The     *)
(* operators map the rows as read (and already changed) by the caller's     *)
(* transaction to the rows it writes.  The clock flags of a stopped session *)
(* are dropped: they are read to stop it and for nothing else.              *)

\* Mutant of StopRow: the status is left.
StopRowWithoutStatus(s, row, reason) ==
    IF Stops(s) # {} THEN row
    ELSE [row EXCEPT !.reason = IF @ = "none" THEN reason ELSE @]
\* Mutant of StopRow: a stop that is repeated gives its own reason.
StopRowRenaming(s, row, reason) ==
    IF Stops(s) # {} THEN [row EXCEPT !.reason = reason]
    ELSE [row EXCEPT !.status = Transition(@, "STOP_PENDING"), !.reason = reason,
                     !.quiet = FALSE, !.overtime = FALSE]

StopRow(s, row, reason) ==
    IF Stops(s) # {} THEN row
    ELSE [row EXCEPT !.status = Transition(@, "STOP_PENDING"),
                     !.reason = IF @ = "none" THEN reason ELSE @,
                     !.quiet = FALSE, !.overtime = FALSE]

StopCommand(s, commands) ==
    IF Stops(s) # {} THEN commands ELSE [commands EXCEPT ![1] = Issued]

StopBay(s, status) == IF Stops(s) # {} THEN status ELSE "STOPPING"

QueueStop(s, reason) ==
    /\ session' = [session EXCEPT ![s] = StopRow(s, @, reason)]
    /\ command' = [command EXCEPT ![s] = StopCommand(s, @)]
    /\ bay' = [bay EXCEPT ![session[s].bay] = StopBay(s, @)]

\* A stop asked for by the owner or an administrator, or an emergency stop.
StopRequest(s) ==
    /\ Open(s) /\ Stops(s) = {}
    /\ QueueStop(s, "REQUESTED")
    /\ UNCHANGED <<hold, wallet, ledger, fault, device, handling, sweep>>

\* The administrator's reconcile: a further STOP under a new key.
Reconcile(s) ==
    /\ Open(s) /\ Stops(s) # CommandIds \ {0}
    /\ LET k == CHOOSE i \in CommandIds \ {0} :
                    i \notin Stops(s) /\ \A j \in CommandIds \ {0} : j < i => j \in Stops(s)
       IN  command' = [command EXCEPT ![s][k] = Issued]
    /\ session' = [session EXCEPT ![s].status = Transition(@, "STOP_PENDING"),
                                  ![s].reason = IF @ = "none" THEN "REQUESTED" ELSE @,
                                  ![s].quiet = FALSE, ![s].overtime = FALSE]
    /\ bay' = [bay EXCEPT ![session[s].bay] = "STOPPING"]
    /\ UNCHANGED <<hold, wallet, ledger, fault, device, handling, sweep>>

\* dispatch(): publish a pending command, again and again until it expires.
Dispatch(s, k) ==
    /\ command[s][k].status = "PENDING" /\ command[s][k].age = 0
    /\ ~command[s][k].sent
    /\ command' = [command EXCEPT ![s][k].sent = TRUE]
    /\ UNCHANGED <<session, hold, wallet, ledger, bay, fault, device, handling, sweep>>

-----------------------------------------------------------------------------
(* finish(): close the reservation, debit the metered cost, free the bay    *)

\* Mutant of Outcome: a session found charging is completed directly.
OutcomeDirect(row, failed) ==
    Transition(row.status, IF failed THEN "FAILED"
                           ELSE IF row.recon THEN "INTERRUPTED" ELSE "COMPLETED")

Outcome(row, failed) ==
    LET stopped == IF failed \/ row.status \in {"STOP_PENDING", "INTERRUPTED"} THEN row.status
                   ELSE Transition(row.status, "STOP_PENDING")
    IN  Transition(stopped, IF failed THEN "FAILED"
                            ELSE IF row.recon THEN "INTERRUPTED" ELSE "COMPLETED")

Finish(s, row, energy, failed) ==
    LET u == OwnerOf[s]
        cost == IF failed THEN 0 ELSE CappedCost(energy, row.reserved)
        debit == cost > 0 /\ ~Posted("CHARGING_DEBIT", s)
    IN  /\ hold' = [hold EXCEPT ![s] = IF failed THEN "RELEASED" ELSE "SETTLED"]
        \* postLedger() refuses what would leave less than is still held.
        /\ wallet[u] - (IF debit THEN cost ELSE 0) >= HeldOver(HeldSessions(u) \ {s})
        /\ wallet' = [wallet EXCEPT ![u] = IF debit THEN @ - cost ELSE @]
        /\ ledger' = ledger
               \cup (IF debit THEN {Entry("CHARGING_DEBIT", s, u, -cost)} ELSE {})
               \cup {Entry("RESERVATION_RELEASE", s, u, row.reserved)}
        /\ session' = [session EXCEPT ![s] =
               [row EXCEPT !.status = Outcome(row, failed), !.energy = energy, !.cost = cost,
                           !.completed = TRUE, !.recon = FALSE, !.quiet = FALSE,
                           !.overtime = FALSE,
                           !.reason = IF @ = "none" THEN "SAFETY_FAULT" ELSE @]]

\* Whether the plug is still in is what the last report said: either is possible.
FreeBay(faulty) == IF faulty THEN {"FAULT"} ELSE {"PLUGGED", "AVAILABLE"}

-----------------------------------------------------------------------------
(* acknowledge(): a device's answer to a command it was sent                *)

Answerable(s, k) ==
    /\ handling = NoOne
    /\ Open(s) /\ command[s][k].sent
    /\ command[s][k].status \in {"PENDING", "TIMED_OUT"}

Answer(commands, k, accepted) ==
    [commands EXCEPT ![k].status = IF accepted THEN "ACKNOWLEDGED" ELSE "FAILED"]

Late(s, k) == command[s][k].age > 0 \/ command[s][k].status = "TIMED_OUT"

\* Only an explicit refusal with the relay off and no energy frees the hold.
RefusalProvesIdle(s, accepted, relay, metered) ==
    /\ ~accepted /\ ~relay /\ ~metered
    /\ session[s].energy = 0 /\ session[s].status = "START_PENDING"

\* Mutant of StartConfirmed: a late acceptance counts.
StartConfirmedLate(s, accepted, relay) ==
    accepted /\ relay /\ session[s].status = "START_PENDING"

StartConfirmed(s, accepted, relay) ==
    accepted /\ relay /\ ~Late(s, 0) /\ session[s].status = "START_PENDING"

StartRefused(s) ==
    /\ Answerable(s, 0) /\ RefusalProvesIdle(s, FALSE, FALSE, FALSE)
    /\ Finish(s, [session[s] EXCEPT !.reason = "SAFETY_FAULT"], 0, TRUE)
    /\ command' = [command EXCEPT ![s] = Answer(@, 0, FALSE)]
    /\ \E status \in FreeBay(session[s].bay \in fault) : bay' = [bay EXCEPT ![session[s].bay] = status]
    /\ UNCHANGED <<fault, device, handling, sweep>>

StartAccepted(s) ==
    /\ Answerable(s, 0) /\ StartConfirmed(s, TRUE, TRUE)
    /\ session' = [session EXCEPT ![s].status = Transition(@, "CHARGING"), ![s].quiet = FALSE]
    /\ command' = [command EXCEPT ![s] = Answer(@, 0, TRUE)]
    /\ bay' = [bay EXCEPT ![session[s].bay] = "CHARGING"]
    /\ UNCHANGED <<hold, wallet, ledger, fault, device, handling, sweep>>

\* Any other answer to a START - late, contradictory, or after a stop.
StartUnclear(s, accepted, relay, metered) ==
    /\ Answerable(s, 0)
    /\ ~RefusalProvesIdle(s, accepted, relay, metered) /\ ~StartConfirmed(s, accepted, relay)
    /\ session' = [session EXCEPT ![s] = StopRow(s, @, "SAFETY_FAULT")]
    /\ command' = [command EXCEPT ![s] = StopCommand(s, Answer(@, 0, accepted))]
    /\ bay' = [bay EXCEPT ![session[s].bay] = StopBay(s, @)]
    /\ UNCHANGED <<hold, wallet, ledger, fault, device, handling, sweep>>

\* Mutant of StopAnswered: the acknowledgement of a STOP gives the hold back.
StopAnsweredReleases(s, k, accepted) ==
    /\ k # 0 /\ Answerable(s, k) /\ accepted
    /\ command' = [command EXCEPT ![s] = Answer(@, k, accepted)]
    /\ hold' = [hold EXCEPT ![s] = "RELEASED"]
    /\ UNCHANGED <<session, wallet, ledger, bay, fault, device, handling, sweep>>

\* A STOP acknowledgement settles nothing; a refused STOP needs an operator.
StopAnswered(s, k, accepted) ==
    /\ k # 0 /\ Answerable(s, k)
    /\ command' = [command EXCEPT ![s] = Answer(@, k, accepted)]
    /\ session' = IF accepted THEN session
                  ELSE [session EXCEPT ![s].status = Transition(@, "INTERRUPTED"),
                                       ![s].recon = TRUE]
    /\ UNCHANGED <<hold, wallet, ledger, bay, fault, device, handling, sweep>>

-----------------------------------------------------------------------------
(* handle() and telemetry(): a fault is recorded in a transaction of its    *)
(* own before the reading or event is applied                               *)

HandleFault(b, kind) ==
    /\ handling = NoOne
    /\ fault' = fault \cup {b}
    /\ bay' = [bay EXCEPT ![b] = "FAULT"]
    /\ handling' = [kind |-> kind, bay |-> b]
    /\ UNCHANGED <<session, command, hold, wallet, ledger, device, sweep>>

\* The reading being applied is the one whose fault was recorded, or had none.
Applying(b, faulty) ==
    /\ handling = IF faulty THEN [kind |-> "telemetry", bay |-> b] ELSE NoOne
    /\ handling' = NoOne

\* A reading that names another session, or none, while session s is open.
StrayReading(s, named, relay, unsafe, started) ==
    /\ Open(s)
    /\ Applying(session[s].bay, unsafe \/ (~named /\ relay))
    /\ relay \/ (session[s].status = "CHARGING" /\ started)
    /\ QueueStop(s, "SAFETY_FAULT")
    /\ UNCHANGED <<hold, wallet, ledger, fault, device, sweep>>

\* A reading of no open session, or one taken before the session's last.
IgnoredReading(b) ==
    /\ Applying(b, TRUE)
    /\ UNCHANGED <<session, command, hold, wallet, ledger, bay, fault, device, sweep>>

\* Mutant of InOrder: readings are applied in the order they arrive.
InOrderOfArrival(s, at, final) == TRUE

InOrder(s, at, final) == at > session[s].at \/ (at = session[s].at /\ final)

\* The meter went back, or forward faster than the bay can deliver (surge).
Backwards(s, energy) == energy < session[s].energy

ImplausibleReading(s, energy, at, final, surge, unsafe) ==
    LET b == session[s].bay
    IN  /\ Open(s) /\ Applying(b, unsafe)
        /\ InOrder(s, at, final)
        /\ Backwards(s, energy) \/ (surge /\ energy > session[s].energy)
        /\ fault' = fault \cup {b}
        /\ session' = [session EXCEPT ![s] = StopRow(s, @, "SAFETY_FAULT")]
        /\ command' = [command EXCEPT ![s] = StopCommand(s, @)]
        /\ bay' = [bay EXCEPT ![b] = StopBay(s, "FAULT")]
        /\ UNCHANGED <<hold, wallet, ledger, device, sweep>>

Metered(s, energy, at) ==
    [session[s] EXCEPT !.energy = energy, !.at = at, !.quiet = FALSE,
                       !.cost = CappedCost(energy, session[s].reserved)]

\* Why this reading stops the session; unplugged stands for a full battery too.
StopCause(s, energy, trouble) ==
    CASE trouble = "unsafe"    -> "SAFETY_FAULT"
      [] trouble = "offline"   -> "DEVICE_OFFLINE"
      [] trouble = "unplugged" -> "LIMIT_REACHED"
      [] OTHER -> IF energy + Margin >= MaxEnergyOf(session[s].reserved) \/ session[s].overtime
                  THEN "LIMIT_REACHED" ELSE "none"

\* The row after the limits are looked at: a stop, unless one was recorded.
Judged(s, energy, at, trouble) ==
    LET row == Metered(s, energy, at)
        cause == StopCause(s, energy, trouble)
    IN  IF cause # "none" /\ row.reason = "none" THEN StopRow(s, row, cause) ELSE row

Stopping(s, energy, trouble) ==
    session[s].reason = "none" /\ StopCause(s, energy, trouble) # "none"

RunningReading(s, energy, at, relay, final, trouble) ==
    LET b == session[s].bay
        row == Judged(s, energy, at, trouble)
        dropped == ~relay /\ row.status = "CHARGING" /\ row.reason = "none"
        stop == Stopping(s, energy, trouble) \/ dropped
        status == IF trouble = "unsafe" THEN "FAULT" ELSE bay[b]
    IN  /\ Open(s) /\ Applying(b, trouble = "unsafe")
        /\ ~(final /\ ~relay)
        /\ InOrder(s, at, final) /\ ~Backwards(s, energy)
        /\ session' = [session EXCEPT ![s] =
               IF dropped THEN StopRow(s, row, "SAFETY_FAULT") ELSE row]
        /\ command' = [command EXCEPT ![s] = IF stop THEN StopCommand(s, @) ELSE @]
        /\ bay' = [bay EXCEPT ![b] = IF stop THEN StopBay(s, status) ELSE status]
        /\ fault' = IF trouble = "unsafe" THEN fault \cup {b} ELSE fault
        /\ UNCHANGED <<hold, wallet, ledger, device, sweep>>

\* Signed final metering with the relay off settles the session.
FinalReading(s, energy, at, trouble) ==
    LET b == session[s].bay
        faulty == b \in fault \/ trouble = "unsafe"
    IN  /\ Open(s) /\ Applying(b, trouble = "unsafe")
        /\ InOrder(s, at, TRUE) /\ ~Backwards(s, energy)
        /\ Finish(s, Judged(s, energy, at, trouble), energy, FALSE)
        /\ command' = [command EXCEPT ![s] =
               IF Stopping(s, energy, trouble) THEN StopCommand(s, @) ELSE @]
        /\ \E status \in FreeBay(faulty) : bay' = [bay EXCEPT ![b] = status]
        /\ fault' = IF trouble = "unsafe" THEN fault \cup {b} ELSE fault
        /\ UNCHANGED <<device, sweep>>

\* The second half of an event: stop whatever session is open on the bay.
EventStop(b, reason) ==
    /\ handling = [kind |-> "event", bay |-> b]
    /\ handling' = NoOne
    /\ \/ \E s \in OpenOn(b) : QueueStop(s, reason)
       \/ OpenOn(b) = {} /\ UNCHANGED <<session, command, bay>>
    /\ UNCHANGED <<hold, wallet, ledger, fault, device, sweep>>

-----------------------------------------------------------------------------
(* sweep(): each loop reads its rows first and acts on them one by one.     *)
(* sweep holds what one loop has read and not yet acted on; the order of    *)
(* the loops in a pass is left open.                                        *)

Listed(loop, rows) ==
    /\ sweep = Resting /\ rows # {}
    /\ sweep' = [loop |-> loop, rows |-> rows]
    /\ UNCHANGED <<session, command, hold, wallet, ledger, bay, fault, device, handling>>

\* Row r of the list is dealt with next.
Take(loop, r) ==
    /\ sweep.loop = loop /\ r \in sweep.rows
    /\ sweep' = IF sweep.rows = {r} THEN Resting ELSE [sweep EXCEPT !.rows = @ \ {r}]

SweepDevices == Listed("devices", {d \in Devices : device[d] # "ONLINE"})

\* The device is one of the rows read, whatever it has sent since.  Its sessions
\* are listed in turn, before the next device.
SweepDevice(d) ==
    LET found == {s \in Sessions : /\ Open(s) /\ DeviceOf[session[s].bay] = d
                                   /\ session[s].status # "INTERRUPTED"}
        rest == sweep.rows \ {d}
    IN  /\ sweep.loop = "devices" /\ d \in sweep.rows
        /\ sweep.rows \subseteq Devices
        /\ device' = [device EXCEPT ![d] = "OFFLINE"]
        /\ bay' = [b \in Bays |-> IF DeviceOf[b] = d THEN "OFFLINE" ELSE bay[b]]
        /\ sweep' = IF rest \cup found = {} THEN Resting
                    ELSE [loop |-> "devices", rows |-> rest \cup found]
        /\ UNCHANGED <<session, command, hold, wallet, ledger, fault, handling>>

\* Mutant of Interrupted: the row is interrupted without recording the stop.
InterruptedOnly(s, reason) ==
    [session[s] EXCEPT !.status = Transition(@, "INTERRUPTED"), !.recon = TRUE]

\* The row left by a stop and an interruption in the same transaction.
Interrupted(s, reason) ==
    [StopRow(s, session[s], reason) EXCEPT !.status = Transition(@, "INTERRUPTED"),
                                           !.recon = TRUE]

InterruptOffline(s) ==
    /\ session' = [session EXCEPT ![s] = Interrupted(s, "DEVICE_OFFLINE")]
    /\ bay' = [bay EXCEPT ![session[s].bay] = "OFFLINE"]

SweepSession(s) ==
    /\ Take("devices", s)
    /\ \/ /\ Open(s)
          /\ InterruptOffline(s)
          /\ command' = [command EXCEPT ![s] = StopCommand(s, @)]
       \/ ~Open(s) /\ UNCHANGED <<session, command, bay>>
    /\ UNCHANGED <<hold, wallet, ledger, fault, device, handling>>

\* Mutant of TimeOut: only stops are timed out.
TimeOutOfStops(s, k) ==
    /\ k # 0 /\ command[s][k].status = "PENDING" /\ command[s][k].age > 0
    /\ command' = [command EXCEPT ![s][k].status = "TIMED_OUT"]
    /\ IF Open(s) THEN InterruptOffline(s) ELSE UNCHANGED <<session, bay>>
    /\ UNCHANGED <<hold, wallet, ledger, fault, device, handling, sweep>>

\* timeout(): an expired command that is still pending when its session is locked,
\* so that it makes no difference how long ago the list of them was read.
TimeOut(s, k) ==
    /\ command[s][k].status = "PENDING" /\ command[s][k].age > 0
    /\ LET commands == [command[s] EXCEPT ![k].status = "TIMED_OUT"]
       IN  \/ /\ Open(s)
              /\ InterruptOffline(s)
              /\ command' = [command EXCEPT ![s] = StopCommand(s, commands)]
           \/ /\ ~Open(s)
              /\ command' = [command EXCEPT ![s] = commands]
              /\ UNCHANGED <<session, bay>>
    /\ UNCHANGED <<hold, wallet, ledger, fault, device, handling, sweep>>

\* Mutant of SweepWaiting: a stop that was acknowledged is not waited for.
SweepWaitingUnanswered ==
    Listed("waiting", {s \in Sessions : /\ Open(s) /\ session[s].status = "STOP_PENDING"
                                        /\ Stops(s) # {}
                                        /\ command[s][LatestStop(s)].age = 2
                                        /\ command[s][LatestStop(s)].status = "PENDING"})

SweepWaiting ==
    Listed("waiting", {s \in Sessions : /\ Open(s) /\ session[s].status = "STOP_PENDING"
                                        /\ Stops(s) # {}
                                        /\ command[s][LatestStop(s)].age = 2})

SweepOverdue(s) ==
    /\ Take("waiting", s)
    /\ session' = IF Open(s) /\ session[s].status = "STOP_PENDING"
                  THEN [session EXCEPT ![s].status = Transition(@, "INTERRUPTED"),
                                       ![s].recon = TRUE]
                  ELSE session
    /\ UNCHANGED <<command, hold, wallet, ledger, bay, fault, device, handling>>

\* Mutant of SweepActive: the authorised duration is not looked at.
SweepActiveQuiet ==
    Listed("active", {s \in Sessions : /\ Open(s) /\ session[s].status = "CHARGING"
                                       /\ session[s].quiet})

\* A session listed as quiet is stopped even if it has reported since.
SweepActive ==
    Listed("active", {s \in Sessions : /\ Open(s) /\ session[s].status = "CHARGING"
                                       /\ session[s].quiet \/ session[s].overtime})

SweepStop(s, reason) ==
    /\ Take("active", s)
    /\ reason = "LIMIT_REACHED" => session[s].overtime \/ ~Open(s)
    /\ \/ Open(s) /\ QueueStop(s, reason)
       \/ ~Open(s) /\ UNCHANGED <<session, command, bay>>
    /\ UNCHANGED <<hold, wallet, ledger, fault, device, handling>>

\* The worker restarts, or a step of the sweep throws: what it had read is lost,
\* the rows and the inbox are not.
Restart ==
    /\ sweep # Resting
    /\ sweep' = Resting
    /\ UNCHANGED <<session, command, hold, wallet, ledger, bay, fault, device, handling>>

-----------------------------------------------------------------------------
(* ingress.ts: a message updates the device and bay rows before it is       *)
(* handled                                                                  *)

\* An unsafe report is one with fault codes or, with no session, the relay on.
Report(b, plug, online, unsafe) ==
    LET status == CASE ~online                           -> "OFFLINE"
                    [] online /\ (unsafe \/ b \in fault) -> "FAULT"
                    [] OTHER                             -> IF plug THEN "PLUGGED" ELSE "AVAILABLE"
    IN  /\ device' = [device EXCEPT ![DeviceOf[b]] = IF online THEN "ONLINE" ELSE "OFFLINE"]
        /\ bay' = IF OpenOn(b) = {} THEN [bay EXCEPT ![b] = status] ELSE bay
        /\ UNCHANGED <<session, command, hold, wallet, ledger, fault, handling, sweep>>

\* Any message of the device but a report that says offline.
Heartbeat(d) ==
    /\ device' = [device EXCEPT ![d] = "ONLINE"]
    /\ UNCHANGED <<session, command, hold, wallet, ledger, bay, fault, handling, sweep>>

LastWill(d) ==
    /\ device' = [device EXCEPT ![d] = "OFFLINE"]
    /\ UNCHANGED <<session, command, hold, wallet, ledger, bay, fault, handling, sweep>>

-----------------------------------------------------------------------------
(* Other writers of the same rows *)

\* An administrator clears a fault: not while the controller has a session.
ResolveFault(b) ==
    /\ b \in fault
    /\ \A s \in Sessions : Open(s) => DeviceOf[session[s].bay] # DeviceOf[b]
    /\ fault' = fault \ {b}
    /\ UNCHANGED <<session, command, hold, wallet, ledger, bay, device, handling, sweep>>

\* Mutants of PostExternal: the holds are forgotten, or the key already posted is.
PostExternalOverHolds(u, p, amount) ==
    /\ ~Posted("EXTERNAL", p)
    /\ wallet[u] + amount >= 0
    /\ wallet' = [wallet EXCEPT ![u] = @ + amount]
    /\ ledger' = ledger \cup {Entry("EXTERNAL", p, u, amount)}
    /\ UNCHANGED <<session, command, hold, bay, fault, device, handling, sweep>>
PostExternalTwice(u, p, amount) ==
    /\ wallet[u] + amount >= Held(u) /\ wallet[u] < 9
    /\ wallet' = [wallet EXCEPT ![u] = @ + amount]
    /\ ledger' = ledger \cup {Entry("EXTERNAL", p, u, amount)}
    /\ UNCHANGED <<session, command, hold, bay, fault, device, handling, sweep>>

\* postLedger() for a top-up, a reversal or an adjustment of a wallet.
PostExternal(u, p, amount) ==
    /\ ~Posted("EXTERNAL", p)
    /\ wallet[u] + amount >= Held(u)
    /\ wallet' = [wallet EXCEPT ![u] = @ + amount]
    /\ ledger' = ledger \cup {Entry("EXTERNAL", p, u, amount)}
    /\ UNCHANGED <<session, command, hold, bay, fault, device, handling, sweep>>

-----------------------------------------------------------------------------
(* Time.  Age 1: the acknowledgement timeout has passed; age 2, of a STOP:  *)
(* the offline timeout as well.                                             *)

Expire(s, k) ==
    /\ \/ command[s][k].status = "PENDING" /\ command[s][k].age = 0
       \/ /\ k # 0 /\ command[s][k].age = 1
          /\ command[s][k].status \in {"PENDING", "ACKNOWLEDGED"} /\ Open(s)
       \/ /\ k # 0 /\ command[s][k].age = 0
          /\ command[s][k].status = "ACKNOWLEDGED" /\ Open(s)
    /\ command' = [command EXCEPT ![s][k].age = @ + 1]
    /\ UNCHANGED <<session, hold, wallet, ledger, bay, fault, device, handling, sweep>>

SessionQuiet(s) ==
    /\ Open(s) /\ session[s].status = "CHARGING" /\ ~session[s].quiet
    /\ session' = [session EXCEPT ![s].quiet = TRUE]
    /\ UNCHANGED <<command, hold, wallet, ledger, bay, fault, device, handling, sweep>>

Overtime(s) ==
    /\ Open(s) /\ session[s].reason = "none" /\ ~session[s].overtime
    /\ session' = [session EXCEPT ![s].overtime = TRUE]
    /\ UNCHANGED <<command, hold, wallet, ledger, bay, fault, device, handling, sweep>>

DeviceQuiet(d) ==
    /\ device[d] = "ONLINE"
    /\ device' = [device EXCEPT ![d] = "QUIET"]
    /\ UNCHANGED <<session, command, hold, wallet, ledger, bay, fault, handling, sweep>>

-----------------------------------------------------------------------------
Troubles == {"none", "unsafe", "offline", "unplugged"}

Request ==
    \E s \in Sessions :
        \/ \E b \in Bays : Start(s, b)
        \/ StopRequest(s)
        \/ Reconcile(s)

Acknowledge ==
    \E s \in Sessions :
        \/ StartRefused(s)
        \/ StartAccepted(s)
        \/ \E accepted, relay, metered \in BOOLEAN : StartUnclear(s, accepted, relay, metered)
        \/ \E k \in CommandIds, accepted \in BOOLEAN : StopAnswered(s, k, accepted)

Telemetry ==
    \E s \in Sessions :
        \/ \E named, relay, unsafe, started \in BOOLEAN :
               StrayReading(s, named, relay, unsafe, started)
        \/ \E energy \in Readings, at \in 1..MaxAt :
               \/ \E final, surge, unsafe \in BOOLEAN :
                      ImplausibleReading(s, energy, at, final, surge, unsafe)
               \/ \E relay, final \in BOOLEAN, trouble \in Troubles :
                      RunningReading(s, energy, at, relay, final, trouble)
               \/ \E trouble \in Troubles : FinalReading(s, energy, at, trouble)

Handle ==
    \E b \in Bays :
        \/ \E kind \in {"telemetry", "event"} : HandleFault(b, kind)
        \/ IgnoredReading(b)
        \/ \E reason \in {"REQUESTED", "SAFETY_FAULT"} : EventStop(b, reason)

Dispatches == \E s \in Sessions, k \in CommandIds : Dispatch(s, k)

SweepLists == SweepDevices \/ SweepWaiting \/ SweepActive

SweepRows ==
    \/ \E d \in Devices : SweepDevice(d)
    \/ \E s \in Sessions :
        \/ SweepSession(s)
        \/ SweepOverdue(s)
        \/ \E reason \in {"DEVICE_OFFLINE", "LIMIT_REACHED"} : SweepStop(s, reason)

TimeOuts == \E s \in Sessions, k \in CommandIds : TimeOut(s, k)

Ingress ==
    \/ \E b \in Bays, plug, online, unsafe \in BOOLEAN : Report(b, plug, online, unsafe)
    \/ \E d \in Devices : Heartbeat(d) \/ LastWill(d)

Outside ==
    \/ \E b \in Bays : ResolveFault(b)
    \/ \E u \in Users, p \in Postings, amount \in Amounts :
           PostExternal(u, p, amount) \/ PostExternal(u, p, -amount)

Clock ==
    \/ \E s \in Sessions, k \in CommandIds : Expire(s, k)
    \/ \E s \in Sessions : SessionQuiet(s) \/ Overtime(s)
    \/ \E d \in Devices : DeviceQuiet(d)

Next ==
    \/ Request \/ Acknowledge \/ Telemetry \/ Handle \/ Dispatches
    \/ SweepLists \/ SweepRows \/ TimeOuts \/ Restart \/ Ingress \/ Outside \/ Clock

Spec == Init /\ [][Next]_vars

\* The clock runs; every pass of the worker runs every loop to its end, unless
\* the worker is restarted, which it is not for ever.
Fairness ==
    /\ \A s \in Sessions, k \in CommandIds : WF_vars(Expire(s, k)) /\ WF_vars(TimeOut(s, k))
    /\ SF_vars(SweepDevices) /\ SF_vars(SweepWaiting) /\ SF_vars(SweepActive)
    /\ WF_vars(SweepRows)
    /\ <>[][~Restart]_vars

LiveSpec == Spec /\ Fairness

-----------------------------------------------------------------------------
(* The shape of the state *)

BayStatuses == {"AVAILABLE", "PLUGGED", "STARTING", "CHARGING", "STOPPING", "FAULT", "OFFLINE"}

SessionRow ==
    [status : Statuses \cup {"NONE"}, bay : Bays \cup {NoBay}, reserved : Nat, energy : Nat,
     cost : Nat, at : Nat, reason : Reasons \cup {"none"}, recon : BOOLEAN,
     completed : BOOLEAN, quiet : BOOLEAN, overtime : BOOLEAN]

CommandRow ==
    [status : {"NONE", "PENDING", "ACKNOWLEDGED", "FAILED", "TIMED_OUT"},
     sent : BOOLEAN, age : 0..2]

\* Rows keep their shape; no transition the state machine refuses is attempted,
\* so no handler throws half way and is retried for ever; balances stay above 0.
TypeOK ==
    /\ session \in [Sessions -> SessionRow]
    /\ command \in [Sessions -> [CommandIds -> CommandRow]]
    /\ hold \in [Sessions -> {"NONE", "HELD", "SETTLED", "RELEASED"}]
    /\ wallet \in [Users -> Nat]
    /\ bay \in [Bays -> BayStatuses]
    /\ fault \subseteq Bays
    /\ device \in [Devices -> {"ONLINE", "QUIET", "OFFLINE"}]

-----------------------------------------------------------------------------
(* Safety *)

\* The credit of a session is held exactly while the session is open: neither a
\* rejected start nor any kind of stop gives it back early or keeps it.
HoldWhileOpen == \A s \in Sessions : (hold[s] = "HELD") <=> Open(s)

\* A user and a bay have one unfinished session at a time, whatever sweeps,
\* timeouts and acknowledgements run between two start requests.
OneOpenSession ==
    \A s, t \in Sessions :
        Open(s) /\ Open(t) /\ (OwnerOf[s] = OwnerOf[t] \/ session[s].bay = session[t].bay)
            => s = t

\* A wallet always covers what it has promised: no adjustment, reversal or debit
\* takes credit that a running session was authorised to spend.
BalanceCoversHolds == \A u \in Users : Held(u) <= wallet[u]

\* The balance is what the ledger says it is, so no posting is lost or doubled.
LedgerExplainsBalance ==
    \A u \in Users :
        LET mine == {e \in ledger : e.user = u /\ e.kind \in {"CHARGING_DEBIT", "EXTERNAL"}}
        IN  wallet[u] = OpeningCredit + MapThenSumSet(LAMBDA e : e.amount, mine)

\* Repeated final readings, late answers and timeouts settle a session once: one
\* release, one debit of the metered cost at most, none for a refused start.
Settlement(s) == {e \in ledger : e.ref = s /\ e.kind \in {"CHARGING_DEBIT", "RESERVATION_RELEASE"}}

SettledOnce ==
    \A s \in Sessions :
        LET debit == IF session[s].cost = 0 THEN {}
                     ELSE {Entry("CHARGING_DEBIT", s, OwnerOf[s], -session[s].cost)}
            release == Entry("RESERVATION_RELEASE", s, OwnerOf[s], session[s].reserved)
        IN  /\ Settlement(s) = (IF session[s].completed THEN debit \cup {release} ELSE {})
            /\ session[s].cost <= session[s].reserved
            /\ hold[s] = "RELEASED" => session[s].cost = 0 /\ session[s].status = "FAILED"

\* A session is charging only on an acknowledged START that no STOP has followed.
ChargingIsAuthorised ==
    \A s \in Sessions :
        Open(s) /\ session[s].status = "CHARGING" =>
            command[s][0].status = "ACKNOWLEDGED" /\ Stops(s) = {}

\* An open session has a stop reason exactly when a STOP was issued for it, and
\* one that left START_PENDING and CHARGING has both: whoever gave up on it first.
StopIsPursued ==
    \A s \in Sessions :
        Open(s) =>
            /\ session[s].reason # "none" <=> Stops(s) # {}
            /\ session[s].status \in {"STOP_PENDING", "INTERRUPTED"} <=> Stops(s) # {}
            /\ session[s].status = "INTERRUPTED" => session[s].recon

\* MQTT-PROTOCOL.md says of a reading that it is "valid but electrically unsafe":
\* it triggers a safety stop.  So a session does not go on charging on a bay whose
\* fault has been recorded and handled.
FaultStopsSession ==
    \A s \in Sessions :
        Open(s) /\ session[s].status = "CHARGING" /\ session[s].bay \in fault /\ handling = NoOne
            => Stops(s) # {}

-----------------------------------------------------------------------------
(* What a step may never do *)

\* The first recorded stop reason is the one the receipt shows.
FirstReasonWins ==
    [][\A s \in Sessions : session[s].reason # "none" => session'[s].reason = session[s].reason]_vars

\* Energy, cost and the time of the last reading only grow while metering, and a
\* reading delivered late or twice cannot take back what was counted.
MeterNeverGoesBack ==
    [][\A s \in Sessions : /\ session'[s].energy >= session[s].energy
                           /\ session'[s].cost >= session[s].cost
                           /\ session'[s].at >= session[s].at]_vars

\* A settled session stays as its receipt says, hold and postings included.
ClosedIsFinal ==
    [][\A s \in Sessions :
           session[s].completed =>
               /\ session'[s] = session[s] /\ hold'[s] = hold[s]
               /\ {e \in ledger' : e.ref = s} = {e \in ledger : e.ref = s}]_vars

\* Once stopped, or once its START has expired, a session never charges (again):
\* a late or repeated acknowledgement does not bring it back.
StoppedNeverCharges ==
    [][\A s \in Sessions :
           session[s].status # "CHARGING" /\ session'[s].status = "CHARGING" =>
               Stops(s) = {} /\ command[s][0].age = 0]_vars

-----------------------------------------------------------------------------
(* Liveness *)

\* A start request is answered in the end: charging, refused, stopped or handed
\* to an operator, even if the device never says a word.
StartResolves ==
    \A s \in Sessions :
        session[s].status = "START_PENDING" ~> session[s].status # "START_PENDING"

\* A stop is never left waiting for the device: it settles or asks for an operator.
StopResolves ==
    \A s \in Sessions :
        session[s].status = "STOP_PENDING" ~>
            session[s].completed \/ (session[s].status = "INTERRUPTED" /\ session[s].recon)

\* A session past its authorised duration stops, even if its device is silent.
OvertimeStops ==
    \A s \in Sessions :
        session[s].status = "CHARGING" /\ session[s].overtime ~> session[s].status # "CHARGING"

-----------------------------------------------------------------------------
(* What all this promises about the user's credit *)

Promise == INSTANCE CreditHold WITH
    balance <- wallet,
    phase <- [s \in Sessions |-> CASE hold[s] = "NONE" -> "none"
                                   [] hold[s] = "HELD" -> "open"
                                   [] OTHER            -> "closed"],
    amount <- [s \in Sessions |-> session[s].reserved],
    charged <- [s \in Sessions |-> IF session[s].completed THEN session[s].cost ELSE 0]

\* Every step of the engine, on any interleaving of requests, device messages,
\* sweeps and postings, is a step of the credit contract or leaves it alone.
KeepsCreditPromise == Promise!Spec

=============================================================================
