# HelioBay: TLA+ models, TLC runs and TLAPS proofs

HelioBay sells solar charging of electric vehicles against prepaid credit. A
Node/PostgreSQL backend (`src/backend`) takes top-ups, starts and stops charging
sessions over MQTT and settles them against a wallet; an ESP32 controller
(`src/hardware/heliobay`) switches the relay of one bay; a Next.js frontend
(`src/frontend`) shows it all and can also run a demo of the whole platform in
the browser.

This directory holds TLA+ modules of the parts in which order, failure and
money meet, TLC configurations that check them on small instances, and proofs
that TLAPS checks for every value of the constants. `PROJECT.json` lists the
runs, the lines each definition models, one mutant per property, the hazards
and the theorems. In short: the charging engine, the payment settlement, their
composition with the firmware, the services around them (ingress, realtime,
administration, energy, simulator, forms), the page's session, sign-in and
energy history, and the demos in the browser are modelled, checked and proved:
every safety invariant a run checks is also a theorem.
Five runs are counterexamples to what the repository says of itself (section 8).

| File | Purpose |
| --- | --- |
| `ChargingEngine.tla` | `sessions/engine.ts` with the wallet, commands, inbox handling and worker it runs on |
| `CreditHold.tla` | what the engine promises about credit, without saying how |
| `ChargingEngineProofs.tla` | the engine's inductive invariant and its refinement of `CreditHold` |
| `ChargingEngineControlProofs.tla` | sessions against their commands and postings, what a step may never do, and balances as sums of postings |
| `FiniteSums.tla` | facts about sums over finite sets, and about other folds |
| `MCChargingEngine.tla` | instances, views and constraints; `Engine`, `Sequence`, `Live`, `UnsafeReading` `.cfg` |
| `PaymentSettlement.tla` | `payments/service.ts` and `settlement.ts`: initiation, callbacks, job, expiry, reversal |
| `TopUp.tla` | what a top-up promises, whoever reports on it |
| `PaymentSettlementProofs.tla` | the settlement's inductive invariant and its refinement of `TopUp` |
| `MCPaymentSettlement.tla` | instances; `Settlement.cfg` |
| `RelayContract.tla` | what a controller promises of its relay |
| `DeviceFirmware.tla` | the ESP32 firmware, every handler of `loop()` |
| `ChargingSystem.tla`, `MCChargingSystem.tla` | engine, ingress, broker and firmware joined; `System`, `FinalLost`, `Replayed` `.cfg` |
| `ChargingSystemProofs.tla` | power and credit in the composition, and its refinement of `RelayContract` |
| `SimulatedDevice.tla` | `simulator/` |
| `DeviceIngress.tla` | `iot/ingress.ts`: which messages count, and the inbox |
| `Realtime.tla` | `realtime/` with the browser at the other end of a socket |
| `Administration.tla` | `admin/` and `users/`: edits and routes beside a charging session |
| `StationEnergy.tla` | `energy/service.ts`: the samples of a station |
| `StoppingMargin.tla` | `wallets/charging-budget.ts`: why a stop comes in time |
| `FormRequests.tla` | forms of the frontend that must take effect once |
| `MCBackendServices.tla` | these services, one at a time; `Services`, `Blocked` `.cfg` |
| `BackendServicesProofs.tla` | an inductive invariant of each |
| `CreditDemo.tla`, `TabStore.tla` | `lib/credit` in demo mode, and the store it shares between tabs; `StaleTab.cfg` |
| `BookingDemo.tla` | `lib/demo`, `lib/platform`: reservations and charging |
| `ClientSession.tla` | the page's account and data in API mode |
| `EnergyDispatch.tla` | `lib/energy`: battery, grid and history of a demo station |
| `SignIn.tla` | the sign-in form, Google's redirect, and the guard of the pages |
| `MCFrontend.tla` | these parts, one at a time; `Frontend.cfg` |
| `FrontendProofs.tla` | inductive invariants of the client, the sign-in and the energy history |
| `DemoProofs.tla` | the good snapshots of the two demos, and that every operation stays in them |

Check one with `tlc -config Engine.cfg MCChargingEngine.tla` and
`tlapm ChargingEngineProofs.tla`; `DemoProofs` takes longest, some twelve minutes.

## 1. Inventory

Paths are under `src/backend/src/modules` unless they say otherwise.

**Charging engine** (`sessions/engine.ts`, `state.ts`). State: `ChargingSession`,
`DeviceCommand`, `CreditReservation`, `Bay`, `Fault` rows; in memory only what a
sweep or a message handler has read. Operations: `start`, `queueStop`/`stop`,
`dispatch`, `acknowledge`, `telemetry`, `handle`, `sweep`, `timeout`, `finish`.
Called by HTTP routes, by the ingress's drain (one message at a time) and by the
worker's tick every 500 ms. Hard: six writers of one session row; commands that
time out while answered; a sweep acting on lists read earlier; messages repeated
and reordered; a message handled in two transactions. Correct when a session is
authorised, stopped, metered and settled once, in the right order, and never
left waiting.

**Wallet ledger** (`wallets/ledger.ts`, `units.ts`, `charging-budget.ts`, the
trigger in `prisma/migrations/202609030004_wallet_safety`). State: `Wallet`,
append-only `WalletLedger`. `postLedger` posts once per key and not below the
open reservations. Correct when the balance is the sum of its postings and
covers every hold. The stopping margin of `charging-budget.ts` adds numeric
edges: rounding of cost, energy and latency.

**Payments** (`payments/`, `reconcile-payments.ts`). State:
`PaymentTransaction`, its `TOP_UP` and `REVERSAL` ledger rows. `initiate`,
`get`/`expire`, `completeLocal`, callbacks, `validate`, `reconcile`,
`reconcileBatch`. Each reads the row, calls the gateway and writes, outside a
transaction until the last step. Hard: browser return, IPN, scheduled job, expiry and an
administrator's reversal at the same time; callbacks lost, repeated, or naming
the transaction of another payment; late success after expiry. Correct when money taken is
credited once, only if the gateway says so, and in the end.

**Payment gateway client** (`payments/gateway.ts`). Stateless calls to
SSLCOMMERZ. Fails or answers; parsing is a conversion.

**Device ingress and inbox** (`iot/ingress.ts`, `gateway.ts`, `runtime.ts`).
State: `Device` (sequence, boot id, last seen), `DeviceInbox`, `ProcessedMessage`.
`receive` verifies, orders and stores a message; `drain` hands messages to the
engine and deletes them. Hard: duplicates, reordering, reboots of the device
with a smaller sequence, the last will of an older connection, a crash between
handling and deleting, one failing message holding up the rest.

**Device protocol** (`iot/protocol.ts`). Signatures, canonical JSON, schemas: conversions.

**Device firmware** (`src/hardware/heliobay/src/main.cpp`). State: relay, stored
session, counters, whether a final reading is still to be published. Commands, telemetry, safety cut-off, restart.
Hard: a restart between switching the relay, storing and answering; a stop
repeated after completion; a link that drops during a session.

**Device simulator** (`simulator/`). A stand-in for the firmware used in
development and tests.

**Administration** (`admin/`). Of money: keyed adjustments and reversals. Of
devices: maintenance commands, stop, reconcile, thresholds, faults. Of users and
hardware: guarded edits. Hard: an edit or a deactivation checks for an active
session on a snapshot while `start` commits; a fault is resolved while another is raised.

**Realtime fan-out** (`realtime/`, `src/frontend/components/credit/runtime.tsx`).
State: sockets with their token, rooms and a bounded queue. Hard: the account or
token changes between the check and the send; the queue overflows in a storm.

**Station energy accounting** (`energy/service.ts`). Samples from a controller's
cumulative counter. Hard: counters that restart or go missing, readings lost or late.

**Frontend demo** (`src/frontend/lib/credit`, `lib/demo`, `lib/platform`,
`lib/energy`, `store/`). Reducers over persisted state: credit sessions,
bookings, commands, a battery and its history. Hard: uneven ticks, reloads in
mid-session, several commands for one session, overlapping bookings, tabs that
share one `localStorage`. Correct when what is on hold can be paid, a booking's
payments add up to its price, a bay is booked once, and a tab undoes nothing.

**Frontend session and API client** (`components/shared/providers.tsx`,
`lib/api/client.ts`, `lib/credit/services.ts`, `components/credit/runtime.tsx`).
State: the account, its generation, the data shown. Hard: a user that changes
while requests are under way. Correct when nobody sees somebody else's data.

**Frontend sign-in** (`components/auth`, `lib/firebase`). State: a form, a
marker in `sessionStorage`, a redirect that takes the document away. Hard: mounts that
repeat, documents that come back, a result Firebase tells once.

**Frontend forms** (`components/credit`, `components/stations/booking-form.tsx`).
State: a draft, a key that is kept while an answer may be lost. Hard: retries after
lost answers against new intentions.

**Read models, authentication, HTTP shell, pages.** Reads, request plumbing and
presentation. The older pages (`components/stations`, `components/owner`,
`lib/platform`, `lib/demo`, `lib/realtime/client.ts`) are in the repository
but no route of the app reaches them; `wallets/reservations.ts` has no caller.

How they interact: the owner's request runs `start` in one transaction, which
writes the session, its hold and the START command. The worker publishes
pending commands. The device answers and reports over MQTT; `receive` stores
what it says and `drain` hands it to `handle`, which acknowledges commands,
meters and at the final reading settles. Top-ups and adjustments post to the
same wallets. Changes are announced on an in-process bus to the sockets. Rows
locked in PostgreSQL are the only shared state that is synchronised; everything
read outside a transaction may be stale when used.

The hazards in `PROJECT.json` are this list at the level of lines, with the
properties that cover each, or the reason none does.

## 2. Plan

Done, in this order: the engine with `CreditHold`; the settlement with `TopUp`;
the firmware, its contract and the composed system; the ingress; the stopping
margin; administration beside a session; realtime; energy, the demos, the
client, sign-in and forms.

Then the proofs, in the order of what they say about the system: credit held and
settled (section 3), payments (section 4), sessions against their commands, the
ledger, power against credit in the composition (section 5), the services (section 6), the
frontend and its demos (section 7).

What is left, most important first:

1. Two devices in `ChargingSystem`, and operations left out, listed in section 9.
2. The energy samples of a station with several controllers.

## 3. ChargingEngine

Every transaction of the engine locks the session row before it decides, so one
transaction is one action; what the code reads outside a transaction and uses
later is state of its own.

| Variable | In the code |
| --- | --- |
| `session`, `command`, `hold`, `wallet`, `ledger`, `fault` | the rows; command 0 is the START, the others the STOPs in order of issue |
| `bay` | `Bay.status`. `relayOn` and `plugConnected` are folded in: PLUGGED is AVAILABLE with the plug in and the relay off, which is all `start` asks of them; a bay that is freed may be either |
| `device` | ONLINE, QUIET (`lastSeenAt` too old, not yet swept), OFFLINE |
| `handling` | a message whose fault `handle()` has recorded and whose reading or event it has not yet applied |
| `sweep` | the rows one loop of `sweep()` has read and not yet dealt with |

| Action | Code (engine.ts) |
| --- | --- |
| `Start` | `start` 18-96: guards, hold of everything available, START row |
| `StopRequest`, `Reconcile` | `stop` 118-123 over `queueStop` 97-117; the administrator's reconcile route issues a further STOP |
| `Dispatch` | `dispatch` 124-143; publishing again is a stutter |
| `StartRefused`, `StartAccepted`, `StartUnclear`, `StopAnswered` | the branches of `acknowledge` 167-209 |
| `HandleFault`, `EventStop` | the two transactions of `handle` 279-304 |
| `StrayReading`, `IgnoredReading`, `ImplausibleReading`, `RunningReading`, `FinalReading` | the branches of `telemetry` 210-273, `finish` included |
| `SweepDevices`/`SweepDevice`/`SweepSession`, `TimeOut`, `SweepWaiting`/`SweepOverdue`, `SweepActive`/`SweepStop` | the loops of `sweep` 305-336 and `timeout` 337-350, reading and acting apart |
| `Restart` | a process or pass of the worker ends early: what it read is lost |
| `Report`, `Heartbeat`, `LastWill` | what `iot/ingress.ts` does to the device and bay rows |
| `ResolveFault`, `PostExternal` | administrator and payment writers of the same rows |
| `Expire`, `SessionQuiet`, `Overtime`, `DeviceQuiet` | the clock, as the comparisons the code makes with it |

Simplifications, each a superset of what the code does unless it says otherwise:

- A session is named by its owner and request key, which the database keeps
  unique; a repeated request finds its session and changes nothing.
- The device may say anything the schema admits at any time, repeatedly. The
  link therefore needs no model of loss or duplication here.
- The inbox is drained by one loop, so an answer is not handled between the two
  transactions of another message (`handling = NoOne`), while requests and sweeps
  are. After a crash the message is handled again; recording a fault twice is a stutter.
- The order of a pass's loops is left open, and a session listed as quiet is
  stopped even if it reported since. The rows of one device that the pass updates
  one after another in autocommit statements are updated together.
- TimeOut reads no list: a command that is still pending when it is locked has
  been expired ever since it was listed, so the age of the list cannot matter.
- A clock flag that is read only to stop a session is dropped once it is stopped.
- A refused transition throws in the code. Here it leaves the value REFUSED,
  which is outside the type, so `TypeOK` says no handler is stuck on one.
- Guards about user, vehicle, tariff, station and maintenance status, notification, audit and
  receipt rows, and the acknowledgement of maintenance commands without a
  session are left out.

### Properties and runs

| Run | Instance | What it shows |
| --- | --- | --- |
| `engine` | one session, two STOPs, two energies, two device times | everything that may happen to a session, in every order: `TypeOK`, `HoldWhileOpen`, `SettledOnce`, `ChargingIsAuthorised`, `StopIsPursued`; readings late, repeated and out of order, a second STOP answered or expired in any order with the first: `ClosedIsFinal`, `StoppedNeverCharges`, `MeterNeverGoesBack`, `FirstReasonWins` |
| `sequence` | two sessions of one user on two bays, a posting | one session after and beside another on one wallet: `OneOpenSession`, `BalanceCoversHolds`, `LedgerExplainsBalance`, and `CreditHold` is implemented (`KeepsCreditPromise`) |
| `live` | one session, `LiveSpec` | `StartResolves`, `StopResolves`, `OvertimeStops`, even if the device is silent |
| `unsafe_reading` | one session | the divergence below |

Bounds. `MaxAt` counts device times: with what a session starts from, two are
enough for an old, an equal and a new one. `MaxStops` counts STOPs: the code looks
at none, the first and the latest, so two show a retry (`engine`). Energies 1 and 4 with a
cap of 3 (2 units of credit at 2 per 3) and a margin of 1 give readings below and
above the limit, and a cost that rounds up. One user and one device: sessions of different users touch
no common wallet or bay; the theorems are for any number.

Views and constraints. `EngineView` identifies states that differ in a value
nothing reads any more (an overwritten bay status, the age of an answered
command, the commands of a settled session, quiet against offline);
`SequenceView` also forgets the row of a settled session, whose postings stay in
the ledger. Neither hides anything a property of its run looks at and `live`, where
a view would be unsound, has none. `Sequential` cuts the half-way steps from
`sequence`, which `engine` has; `Followed` cuts from `engine` what a
fault or a second STOP do to a session metered beyond the first time and energy, and leaves a second
STOP to an online device without a fault (the theorems cut nothing); and `NoFault` cuts from `live` the steps that record a
fault: no step named in the fairness condition is one, so each fair behaviour
without a fault is still there in full.

Fairness of `live`. The clock runs (WF of `Expire`). The worker ticks every
500 ms and each pass runs every loop: WF of `TimeOut` and `SweepRows`, and SF of
the three list reads, since a read is disabled while another loop's rows are
being dealt with. Nothing is assumed of the device, the owner or the broker. In
the end the worker is not restarted for ever, without which nobody would do anything.

Divergence found. `FaultStopsSession`: `docs/MQTT-PROTOCOL.md:79` says that valid
but electrically unsafe readings trigger a safety stop. An unsafe reading that
names no session, handled between `start` and the acknowledgement, records a
fault (engine.ts:284-290) but `telemetry` returns without a stop (212-217), and
`acknowledge` then moves the session to CHARGING without looking at the fault (192-195).

### Proofs

`ChargingEngineProofs` assumes `EngineAssumption` only. It proves `TypeCorrect`,
`HoldExactlyWhileOpen`, `OneSessionPerUserAndBay`, `HoldsStayCovered` and
`EngineKeepsCreditPromise` from

    IInv == TypeOK /\ HoldWhileOpen /\ OneOpenSession
            /\ OpenRuns /\ UnusedIsClean /\ DebitIsFinal /\ Covered

The last four make it inductive. `OpenRuns`: an open session has one of the four
statuses the state machine moves between, so no transition is refused.
`UnusedIsClean`: a key not yet used has left nothing behind. `DebitIsFinal`: a
debit posted belongs to a settled session, so settling posts it and does not find
it posted. `Covered`: what an open session reserved is in its wallet; with at
most one per user (`OneOpenSession`) the sum of the holds is that one reservation
(`HeldIsCovered`), which is what lets a settlement pass the check of
`postLedger`.

Nearly every action rewrites the row of one open session without closing it
(lemma `Rewrite`, from `StopRowContinues`, `InterruptedContinues`,
`JudgedContinues`) or leaves the sessions alone (lemma `Apart`). Only `StartStep`,
`FinishStep` and `PostExternalStep` move credit, and they are the steps of
`CreditHold`: `Reserve`, `Close` and `Post`.

`ChargingEngineControlProofs` proves, on top of that, `SettlesOnce`,
`ChargesOnlyAuthorised`, `EveryStopIsPursued`, `FirstReasonStays`, `MeterGrows`,
`ReceiptIsFinal` and `ChargingBeginsInTime` from

    CInv == OpenIsControlled /\ UnusedIsSilent /\ ClosedIsDone /\ SettledOnce

`OpenIsControlled` is its heart: of an open session, the recorded reason, the
status and the STOP commands speak of the same stop, a charging one has an acknowledged
START, and the cost is no more than the meter explains. `StopIsPursued` and
`ChargingIsAuthorised` alone are not inductive, since what a timeout or a second
`queueStop` does depends on whether the row and the commands agree.
`UnusedIsSilent` says a fresh key has no commands, `ClosedIsDone` that a session with a final
status is settled, so that settling happens once. The action
properties follow from one step property, `Orderly`, proved action by action:
each leaves every session alone (`Beside`), rewrites one open row (`Moves`), opens
one (`StartMoves`) or settles one (`FinishMoves`).

Its last part proves `LedgerIsTheBalance`. The balance is
`MapThenSumSet` over the ledger, a recursion in the order `CHOOSE` gives.
`FiniteSums` shows from the least counterexample that such a recursion has
one solution, and that adding a new element adds its summand; `LInv` adds
only that the ledger is finite and its amounts are integers.

## 4. PaymentSettlement

A callback, a lookup and the job each read the payment, call the gateway and
write, with anything else between; `handler` says where each is and what it has
learnt: `mark`, `validate`, `settle` for `validate()` (settlement.ts 6-43),
`lookup`, `read`, `fail`, `expire` for `reconcile()` (44-62). `attempt` is
external: what the gateway knows of each `val_id`, which payment it was made
for, and that a completed attempt stays so. `Reverse` is `admin/wallet-service.ts` 19-43; `Hold`
and `Charge` are charging as `CreditHold` allows it.

Left out: `lastCheckedAt` beyond the order it gives the job, error codes,
receipts and notifications, and the status VERIFIED, which `credited` lists
beside PAID and no code writes. A callback may pair any payment with any `val_id`,
of another payment or another shop.

| Run | Instance | What it shows |
| --- | --- | --- |
| `settlement` | a gateway payment, two attempts of it and one of another shop, one request beside the job; or a local payment | `PaidMatchesLedger`, `PaidIsConfirmed`, `HeldIsCovered`, `TopUp` is implemented, `TakenIsSettled` |
| `services` (part) | a gateway and a local payment together, the provider changed between them | `TopUp` is implemented |

Two attempts allow a failure beside a success and a risky success beside a safe
one, the distinctions `reconcile` makes; two handlers are enough for any pair of
steps to overlap, and the proofs are for any number. A reversal in mid-callback
needs no second payment: `OneAtATime` lets only one of the two begin, and no step
that fairness names begins one. `CHECK_DEADLOCK FALSE`: a finite set of payments can all be done with.

Fairness of `TakenIsSettled`. `docs/SSLCOMMERZ-SANDBOX.md:120` has the job
scheduled about once a minute, taking the payment checked longest ago first: SF
of `Batch(p)`, because it is disabled while the job is at another payment, and
WF of the job's steps. In the end the gateway answers the job, the job is not cut short and the
deployment is one with a gateway (reconcile-payments.ts refuses to run otherwise);
nothing is assumed of callbacks. The job looks back seven days (age 2), so the
property lets go of a payment then.

`PaymentSettlementProofs` assumes `PaymentAssumption` only and proves
`SettlementTypeCorrect`, `StatusMatchesLedger`, `CreditIsConfirmed`,
`ReversalsLeaveHolds` and `SettlementKeepsTopUpPromise`. `IInv` adds
`WorkIsSound` to the invariants: what a handler was told of an attempt is still
true when it acts, because a successful attempt is final, whereas what it read
of the payment may not be. That is why `Settle` and `Fail` must look at the row again; a
`Settle` that does not breaks `PaidMatchesLedger`. Each step either restates
an unsettled payment (`Restate`), leaves payments and wallets alone (`Aside`), or
is a step of `TopUp` (`CreditStep`, `ReviewStep`, `ReverseStep`).

## 5. ChargingSystem: the engine and the firmware

`DeviceFirmware` has one action per handler of `main.cpp`: `Reject`,
`AcceptStart`, `AcceptStop`, `AcceptTest`, `AcceptRestart`, `Repeat` for
`processCommand`; `Invalid` for a message that is not one; `Deliver`, `Trip`,
`Telemetry`, `Persist`, `Tick` for `loop()`; `Break`, `NoticeLoss`, `Connect`,
`PowerLoss` for link and power. `relay`, `active`, `energy`, `limit`,
`completed`, `last`, `pendingFinal` and `alarm` are its globals, `saved` is what
the flash has, written every 30 seconds and at every stop. `StopCharging` is
shared by every trip and refusal, as in the code. An accepted EMERGENCY_STOP is a
STOP that also raises the fault, so that its final reading is unsafe
(`AcceptStop`). The display, the WiFi backoff and
periodic status messages are left out.

`ChargingSystem` EXTENDS the engine and INSTANCEs the firmware. `Publish` sends
what is pending, again and again until it expires; `Obey` has the controller
read the next command; `Ingest` is the ingress on the next message (one that was
too long under way is turned away); `Handle1` gives the oldest inbox row to
the engine's own actions, here with the message's contents where the engine
alone allowed any. The broker keeps the order of a topic, and forgets what it
has for a device whose connection goes.

`RelayContract` says what `docs/MQTT-PROTOCOL.md` asks of a controller: power
for one session at a time, and for a session once. Firmware and simulator both
implement it (`KeepsRelayContract`, `SimulatorKeepsContract`). `PowerIsPaidFor`
relates the two sides: the relay is on only for an open session whose credit is
held. It depends on the engine never settling while the relay may be on, and on
the firmware refusing a START it has completed or that has expired.

With a second session that is not so (run `replayed`, section 8): what is still
pending for a settled session is published again after another session has
taken its place in the controller's memory.

Bounds of `system`, `final_lost` and `replayed`: one session (`replayed` two), one controller, credit and
readings of one unit, `Backlog = 1` message each way before the next is sent (a
handler may add two or three), one device time, one STOP. `Calm` cuts what the
engine's own run explores with a free device: half-way sweeps, quiet or overtime
sessions. `SystemView` forgets what nothing reads: a session's reason beyond
whether it has one, its cost, answered commands' ages, overwritten bay statuses.

What the order of events does here, and no property of a run says is wrong:
a refused START answers with the energy of the session before (main.cpp:66, 97),
so the engine finds the refusal unclear (engine.ts:187-191) and stops the
session instead of failing it; a refusal latches the controller's `fault`
(main.cpp:80-82) until the next accepted START or STOP, or the next connection.

### Proofs

`ChargingSystemProofs` assumes `EngineAssumption` and `SystemAssumption` (one bay to
a controller) and proves, for any number of sessions, STOPs and amounts and
queues of any length:

- `EngineHoldsInSystem`: the engine's invariants with the firmware in place of
  the free device, and that a controller without a link has its relay off.
- `PowerIsAlwaysPaidFor` and `SystemKeepsRelayContract`, on the condition
  `ReadsCurrent`: once a second session has been started, a command the
  controller reads is of an open session, of none, or the one it answered last.
  `replayed` shows why it is needed.
- `OneSessionIsSafe`: with one session the condition always holds, so that both
  hold without it, as in the run `system`.

The firmware's handlers are first summed up in what a step may do (`RunMoves`,
`ObeyMoves`: the session goes on, ends or begins, and every new message tells the
truth about it). The inductive invariant `PaidInv` then says what may be
under way: `PowerInv` (the relay is on for one open session not yet reported
ended), `WaitInv` (commands in the queue are of started sessions, STOPs of sessions being
stopped, and maintenance only waits while no open session was answered), `FinalInv`
(a final reading that will settle a session is of the one completed last),
`RefusalInv` (a refusal that will release a hold is what a repeated START would be
answered again), `UsedInv`, `OnceInv`, and `SpentInv` for a session given up
without having been completed. The settling steps of the engine are the ones
these are for: each must find the relay off.

## 6. The services (`MCBackendServices`)

One run, `services`, explores seven modules that share no state: `which` says
which one runs, chosen at the beginning, and the others stay as they begin. It
is the sum of seven runs, not their product.

**SimulatedDevice.** `command()` and `step()` of every scenario. `EndIsReported`:
while the broker is there, the backend has been told how a session ended.
Twelve ticks are what the scenarios count.

**DeviceIngress.** `Connect` and `Send` number messages, which the broker repeats in any order;
`Receive` is the transaction that compares boot, sequence and time; `Drain`,
`HandleNext` and `Abandon` are the inbox, read in batches, deleted after
handling, with a crash or a failing handler anywhere. `HandledInOrder`: the
engine sees numbered messages in order, a repetition only in place.
`NothingIsLost`: an accepted row leaves only once given to the engine. Four
messages and batches of two give a batch that is full, and one that is cut short.

**Realtime.** Work of a socket is a queue, each piece awaiting the account
before it acts. `HeardIsDue`: an event reaches only who was entitled to it at
some time since it was published. One event, one room and a queue of two are
enough for a message to wait behind another while account, role and token change.

**Administration.** `Serializable` edits take their snapshot with the first
statement and may wait for a lock after; `start` is Read Committed. `Begin`
reads the snapshot, `Commit` or `RollBack` ends it. `HardwareStands`: the bay,
relay and limits under a session do not change (the engine's `start` writes the
Bay row, so an edit of it fails, and the routes lock and look again).
`AppliedOnce`: a repeated key applies nothing twice. `DeactivationWaits` is the
run `blocked`.

**StationEnergy.** One of a station's counters: readings are lost, repeated and
overtake one another, lack the counter, or come from a controller that has
restarted. `lastSequence` and `latest` are what the ingress compares a reading
with: it must be newer in the sequence and not older in time (ingress.ts:60, 73).
Since the firmware's clock counts seconds, `latest` is a set, the samples with
the latest `recordedAt`, and `Record` takes any of them for the previous one, as
`findFirst` may (energy/service.ts:11). `SamplesAddUp`: while the counter is there
and is not reset, the samples miss nothing of it; unless two of them had the same
time they add up to it exactly; and what is estimated from the power where there
is no counter counts no moment twice. Two samples of the same time may count what
was delivered between them twice: for these the property has a bound and no equation
(see section 8). Three readings in two seconds, the counter to 2, a gap capped to one
second: a tie with a reading after it, a missing counter and a reset each occur. One
controller feeds the history here; with several, the previous sample of the
station may be another's, and its counter too. The clock does not go back.

**StoppingMargin.** Power by the unit of time, a reading once an interval, a stop
that takes its latency. `WithinAuthorisation`: never more delivered than
authorised, for every power profile and reading time. The instance has four
parts to a unit, power to 3, interval 3 and latency 2, so that the margin rounds.
An authorisation below the margin is left aside (`Worthwhile`): the first
interval may use it up, and only the firmware's own limit stops that session.

**FormRequests.** Four kinds of form. `Confirm` sends a key, `GiveUp` and `Lost` are
an answer that does not come, `Leave` and `Change` begin another intention; the
backend finds what it did under a key, or refuses. `OncePerIntention`: an intention takes effect
at most once, and what the form reports done was done for it. Three calls, three
keys and two intentions allow a lost answer, its retry and a new intention.

`CHECK_DEADLOCK FALSE` in `services` and `blocked`: bounded messages, calls and
times run out.

### Proofs

`BackendServicesProofs` proves each part's properties for any number of messages,
keys, calls, rooms and ticks, from the named assumptions of `MCBackendServices` on its
constants. `EachService` says a behaviour of the sum is one of the part.

| Theorem | Invariant, and why it is needed |
| --- | --- |
| `SamplesOfAStationAddUp` | `EnergyInv`: readings on their way are in the order of the counter, unless it was reset, and every one of the latest samples is reached by what is recorded |
| `NoMoreThanAuthorised` | `MarginInv`: what may be delivered until the next reading and its stop, or until the stop under way, is still authorised; `MarginCovers` is the rounding |
| `SimulatedEndIsHeard`, `SimulatorImplementsRelay` | `SimulatorInv`: power is on for a session that began and has not finished |
| `EngineSeesMessagesInOrder`, `AcceptedIsHandled` | `IngressInv`: the inbox is sorted, between what the engine was given and what the Device row says |
| `HardwareStaysUnderSession`, `RepeatedIsNotApplied` | `AdminInv`: a session beside a change was there when it began or has written the Bay row since; applied operations are the keys used |
| `NobodyHearsMore` | `RealtimeInv`: what the account is due now is noted, and the head of the queue after its account was read is something noted |
| `IntendedOnceIsDoneOnce` | `FormInv`: what was done was asked so; a form's keys are its intentions (`Keyed`), except that a reservation may be changed while its request is on its way, where no two requests that have had or may have an effect share key or intention (`Reserved`) |

## 7. The frontend (`MCFrontend`, `TabStore`)

`frontend` is again a sum, of five parts. Their operators (`Finish`, `Answered`,
`Metered`, `Swept`, ...) carry the code's names where they translate a function,
and take the snapshot as an argument, as the reducers do. The view `Chosen` leaves out
the parts that do not take part.

**CreditDemo.** Every operation and the tick of `lib/credit`. `HoldIsCovered`:
what an owner has on hold can be taken from the balance, so no settlement
throws. `MildCredit` allows one trouble at a time, an administrator's adjustment among them.

**BookingDemo.** Reservations, charging, commands, hardware, prices and refunds.
`BooksBalance`: a booking's payments less its refunds are its advance until it
ends and the price of its energy after, for every order of commands and answers
(a seeded booking, which agreed on no price, is costed again at the price of the
day, lib/demo/engine.ts:56-68). `NoDoubleBooking`: no
bay has two bookings in one hour. Two bookings of two owners, one bay to charge
on and one to move to, one hour; `MildBooking` keeps the combinations apart
(one trouble, or two bookings, or a second price). The booking that is seeded is also the first of
two, since they differ in nothing else.

**ClientSession.** Changes of user, answers of `/me` in any order, refreshes and
syncs of several requests, a 401 that signs out whoever is signed in now.
`ShownIsOwn`: the page's account becomes Firebase's user, and the page never
shows data of somebody signed in only before its account came. Not said, because
not so: that a user who comes back (A, B, A) sees nothing of B fetched in
between, and that a sync never overwrites a newer refresh (services.ts:98-106).

**EnergyDispatch.** `HoursExplainBattery`: the hours' flows, with what was set by
hand, add up to the battery's charge; no moment of the clock is in two hours or
twice in one, no hour gives more energy than it gets, and the charge at its end is one the
battery can have. The demo runs at a speed that the administrator changes between ticks (engine.ts:84):
energies and durations are multiplied by it and the hours stay those of the clock
(adapter.ts:24-34, 86), so that the row of an hour has up to 60 hours of
`durationMs`; the property bounds it by the hour times the fastest speed.
Intervals of up to two parts cross an hour of two; `Speeds` 1 and 2 stand for 1, 10
and 60, and the theorem is for any. `MildStation` keeps one distance between the limits
and what is set by hand small.

**SignIn.** Forms with a role and destination, the marker of an attempt, several
mounts, documents that go and come back, password and demo. `AttemptIsAnswered`:
an attempt is answered once and truly, the form does not stay locked, and who
came with Google is not sent back. `MildSigning` leaves the second attempt alone.

**TabStore** (run `stale_tab`) has the saved snapshot and each tab's copy, with and
without the lock. `Load` and `FinishLoading` are the two ends of
`hydrateCredits`; only a demo identity survives a reload, and the seed has its
wallet. `SetAccount` is a sign-in or sign-out of a tab that is ready.

`CHECK_DEADLOCK FALSE` in `frontend` and `stale_tab`, for the same reason as above.
None of these modules states liveness: timers and users drive them, and no
answer is promised.

### Proofs

`FrontendProofs` proves three of the parts, and `DemoProofs` the two demos, all
from the assumptions of `MCFrontend`. In `FrontendProofs`:

- `PageShowsItsOwn` from `ClientInv`. Handlers of an older generation and answers that
  come late still run; each was asked with the token of its account or of somebody signed
  in since (`since`), and a handler of the current generation is about Firebase's user.
- `GoogleIsAnswered` from `SigningInv`: `ToldOnce`, an attempt that a marker or a
  form's question may still tell of has not been told of; `NotStuck`, a form
  that is locked has an answer coming or its document is going away; `StaysIn`.
- `HoursExplainTheBattery` from `StationInv`: the charge is what was set by hand and
  the sum of the hours (`FiniteSums` again), no hour has more time than has
  passed of it at the fastest speed, and none gives more than it gets. `PartsFit` shows that the parts
  an interval is divided into add up to it.

In `DemoProofs` the state is one snapshot, and the reducers of the code call each
other on it: a tick answers the commands one after another, then looks at every
bay, and each of these may end a session. The invariant is therefore a set of
snapshots, and there is one lemma per reducer that it stays in the set
(`EndKeepsBooked`, `AnswerKeepsBooked`, `WatchedKeepsBooked`, `MeteredKeepsBooked`, ...),
composed as the code composes them. What goes over a list or a set is a
recursive function or a fold. That it is defined is shown first: `LadderExists`
and `FoldReaches` (`FiniteSums`) build the recursion for any step that is given as a function of
pairs, and `SubsetInduction` then shows that a fold stays where its steps stay.
(Induction over an operator is not available, over a set it is.)

- `HoldStaysCovered` from `CreditGood`: no wallet is negative, what an open session
  reserved is in the wallet of its owner, and an owner has one open session, so
  that the sum of the holds is that reservation (`OneHold`, `HoldLeavesRest`). `StartWaits` makes
  it inductive: a START waits for a session that is still pending, and nothing
  else waits about it, so no late START opens a session again after its hold was given back.
- `BooksStayBalanced` from `BookedGood`: besides `Worth`, what each booking has paid, that a
  booking to come has no receipt but its advance's, one that was charged
  is settled once and has no review, a session is on a bay and about a booking that was not
  cancelled, and a command is about a session that has begun. The last is what a START
  answered after the session has ended needs: it may set the session charging
  again, and ending it a second time must find the receipt of the first.
- `NeverPromisedTwice`, another part of `BookedGood`: operations leave the bay and the hours
  of other bookings alone, and a booking does not become due again (`OnceStays`), except
  where `Reserve` and `UpdateBooking` have looked.

## 8. Divergences found

Each is a run expected to be violated, whose counterexample is a behaviour of
the code; `PROJECT.json` quotes both sides.

- `unsafe_reading`, `FaultStopsSession`: section 3.
- `final_lost`, `FinalIsPreserved`: the firmware forgets its session once the
  broker has the final record; the ingress may turn the record away as too old
  and the engine may find it implausible; `docs/MQTT-PROTOCOL.md:113` has it
  preserved and sent again. The hold stays until an administrator acts.
- `blocked`, `DeactivationWaits`: `changeUser` counts open sessions on a snapshot
  taken before it waited for the lock that `start` held, and `start` writes
  nothing in the User row, so a blocked account has a session open, against
  `admin/service.ts:21`.
- `stale_tab`, `SavedStays`: a tab saves its whole copy outside the lock when it
  finishes loading (credit-store.ts:34-36) and when it signs in or out (15-22). In
  the run one tab reads the snapshot, the other commits a transaction, the first
  finishes loading, and the transaction is gone, against
  `src/frontend/README.md:135`; signing in before the storage event has come does the same.
- `replayed`, `CompletedStaysOff`: a START whose answer was lost stays pending
  when a final reading settles its session, and is sent again (engine.ts:124-143
  looks at the command only). The firmware remembers one completed session
  (main.cpp:91); after another session has run, it switches the relay on
  for the settled one, against `docs/MQTT-PROTOCOL.md:100`,
  "Never [...] re-energize a completed session when START is replayed".

Two more that no document speaks against, and that no run reports: samples of a
station with the same second, of which the later may count again what the earlier has
counted (energy/service.ts:11; `StationEnergy`), and the row of an hour that the
fast demo gives more than an hour of time (adapter.ts:34; `EnergyDispatch`), as
`adapter.ts:25` intends.

## 9. What is only model-checked, and what is not modelled

Proved for every value of the constants: what the proof parts of sections 3 to 7
list. Checked by TLC only:

- All liveness, `StartResolves`, `StopResolves`, `OvertimeStops` and `TakenIsSettled`:
  fairness and ENABLED are out of the prover's reach.
- `PowerIsPaidFor` and `KeepsRelayContract` with several sessions are proved on the
  condition of section 5 only, because without it they are false.

Not modelled, by component:

- Ingress: the deletion of old samples (`prune`); what is turned away before the
  transaction. Engine: audit, receipt and notification rows.
- Administration: tariffs, notes and reads. Energy accounting: its policy and reports.
- Realtime: how many sockets an address may have.
- Demos: creating stations and bays, notifications, profiles, reassigning devices,
  removing vehicles, discounts, warnings and maintenance notes; of the energy
  history, costs, rounding to milliwatt-hours and trimming.
- Sign-in, session: password resets; which of two versions of data is shown.
- Presentation, parsing, signatures and schemas; Firebase, Google and
  SSLCOMMERZ are external, modelled by what the code may hear of them.

PostgreSQL is taken at its word: a row lock serialises the transactions that take
it, a unique index holds, a failed transaction leaves nothing, Serializable
transactions are ordered, and of two that deadlock one is aborted. The trigger
that posts ledger rows is taken to agree with `postLedger`.
