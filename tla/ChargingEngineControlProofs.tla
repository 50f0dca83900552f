--------------------- MODULE ChargingEngineControlProofs ---------------------
(***************************************************************************)
(* More proofs about ChargingEngine, on top of the invariant of             *)
(* ChargingEngineProofs: what a session has to do with its commands and     *)
(* with its postings, and what a step may never do to it.                   *)
(*                                                                         *)
(* CInv is the inductive invariant.  Its heart is Controlled, which reads   *)
(* the row of an open session together with its commands: the stop reason,  *)
(* the status and the STOP commands speak of the same stop.  Again a step   *)
(* leaves every session alone (LEMMA Beside), rewrites one open row (LEMMA  *)
(* Moves), opens a session (LEMMA StartMoves) or settles one (LEMMA         *)
(* FinishMoves).                                                            *)
(*                                                                         *)
(* The last part is the last safety invariant: the balance of a wallet is   *)
(* what its ledger says it is.  Posting one entry moves the balance by the  *)
(* amount of that entry, because postLedger() posts a key once; the rest is *)
(* that the sum over a finite ledger grows by what is added (FiniteSums).   *)
(***************************************************************************)
EXTENDS ChargingEngineProofs, FiniteSums

StopsIn(commands) == {k \in CommandIds \ {0} : commands[k].status # "NONE"}

\* What the row of an open session says and what its commands say agree, and it
\* is not charged more than its meter explains.
Controlled(row, commands) ==
    /\ row.reason # "none" <=> StopsIn(commands) # {}
    /\ row.status \in {"STOP_PENDING", "INTERRUPTED"} <=> StopsIn(commands) # {}
    /\ row.status = "INTERRUPTED" => row.recon
    /\ row.status = "CHARGING" => commands[0].status = "ACKNOWLEDGED"
    /\ row.cost <= CappedCost(row.energy, row.reserved)

OpenIsControlled == \A s \in Sessions : Open(s) => Controlled(session[s], command[s])

UnusedIsSilent ==
    \A s \in Sessions : session[s].status = "NONE" => \A k \in CommandIds : command[s][k] = NoCommand

ClosedIsDone ==
    \A s \in Sessions : session[s].status \in {"COMPLETED", "FAILED"} => session[s].completed

CInv ==
    /\ OpenIsControlled
    /\ UnusedIsSilent
    /\ ClosedIsDone
    /\ SettledOnce

-----------------------------------------------------------------------------
(* What a step may do to one session *)

Advances(row, before) ==
    /\ row.energy >= before.energy /\ row.cost >= before.cost /\ row.at >= before.at
    /\ before.reason # "none" => row.reason = before.reason

Posts(s) == {e \in ledger : e.ref = s}

\* Only an acknowledgement in time, of a START that no STOP has followed, charges.
ChargesInTime(s) ==
    session[s].status # "CHARGING" /\ session'[s].status = "CHARGING" =>
        Stops(s) = {} /\ command[s][0].age = 0

\* A settled session stays as it is, and no command is issued for a session that is not open.
ReceiptStays(s) ==
    /\ session[s].completed =>
           session'[s] = session[s] /\ hold'[s] = hold[s] /\ Posts(s)' = Posts(s)
    /\ ~Open(s) /\ ~Open(s)' =>
           \A k \in CommandIds : command'[s][k].status = "PENDING" => command[s][k].status = "PENDING"

Orderly ==
    \A s \in Sessions : Advances(session'[s], session[s]) /\ ChargesInTime(s) /\ ReceiptStays(s)

-----------------------------------------------------------------------------
(* Money *)

LEMMA DivIsMonotone ==
    ASSUME NEW a \in Nat, NEW b \in Nat, a <= b, NEW n \in Nat \ {0}
    PROVE  a \div n <= b \div n
<1> DEFINE p == a \div n
           q == b \div n
<1>1. p \in Int /\ q \in Int /\ n * p <= a /\ b < n * q + n
  <2>1. a = n * (a \div n) + (a % n) /\ a % n >= 0 /\ a \div n \in Int
    OBVIOUS
  <2>2. b = n * (b \div n) + (b % n) /\ b % n < n /\ b \div n \in Int
    OBVIOUS
  <2>3. n * (a \div n) \in Int /\ n * (b \div n) \in Int /\ a % n \in Int /\ b % n \in Int
    BY <2>1, <2>2
  <2> QED
    BY <2>1, <2>2, <2>3
<1> HIDE DEF p, q
<1>2. ASSUME q < p PROVE FALSE
  <2>1. q + 1 <= p
    BY <1>1, <1>2
  <2>2. n * (q + 1) <= n * p
    BY <1>1, <2>1
  <2>3. n * (q + 1) = n * q + n
    BY <1>1
  <2> QED
    BY <1>1, <2>2, <2>3
<1> USE DEF p, q
<1> QED
  BY <1>1, <1>2

LEMMA CostIsMonotone ==
    ASSUME NEW less \in Nat, NEW more \in Nat, less <= more, NEW reserved \in Nat
    PROVE  CappedCost(less, reserved) <= CappedCost(more, reserved)
<1> DEFINE a == less * Tariff + Unit - 1
           b == more * Tariff + Unit - 1
<1>1. a \in Nat /\ b \in Nat /\ a <= b /\ Unit \in Nat \ {0}
  <2>1. less * Tariff \in Nat /\ more * Tariff \in Nat /\ less * Tariff <= more * Tariff
    BY EngineAssumption
  <2> QED
    BY <2>1, EngineAssumption
<1> HIDE DEF a, b
<1>2. a \div Unit <= b \div Unit
  BY <1>1, DivIsMonotone
<1> USE DEF a, b
<1>3. CostOf(less) <= CostOf(more)
  BY <1>2 DEF CostOf
<1> QED
  BY <1>3, CostIsNat DEF CappedCost

LEMMA NothingCostsNothing == ASSUME NEW reserved \in Nat PROVE CappedCost(0, reserved) = 0
<1>1. 0 * Tariff + Unit - 1 = Unit - 1
  BY EngineAssumption
<1>2. (Unit - 1) \div Unit = 0
  BY EngineAssumption
<1> QED
  BY <1>1, <1>2 DEF CappedCost, CostOf

-----------------------------------------------------------------------------
(* Rows *)

LEMMA StopIds == 0 \in CommandIds /\ 1 \in CommandIds /\ \A s : StopsIn(command[s]) = Stops(s)
BY EngineAssumption DEF CommandIds, StopsIn, Stops

LEMMA AdvancesAgain ==
    ASSUME NEW last \in SessionRow, NEW row \in SessionRow, NEW before \in SessionRow,
           Advances(last, row), Advances(row, before)
    PROVE  Advances(last, before)
BY DEF Advances, SessionRow

\* Answering or timing out a command neither issues one nor withdraws one.
LEMMA StopsAreKept ==
    ASSUME NEW commands \in [CommandIds -> CommandRow], NEW k \in CommandIds,
           commands[k].status # "NONE", NEW status \in {"ACKNOWLEDGED", "FAILED", "TIMED_OUT"}
    PROVE  StopsIn([commands EXCEPT ![k].status = status]) = StopsIn(commands)
<1> DEFINE next == [commands EXCEPT ![k].status = status]
<1>1. \A j \in CommandIds : next[j].status # "NONE" <=> commands[j].status # "NONE"
  BY DEF CommandRow
<1> HIDE DEF next
<1>2. StopsIn(next) = StopsIn(commands)
  BY <1>1 DEF StopsIn
<1> USE DEF next
<1> QED
  BY <1>2

\* queueStop() leaves a session whose row, reason and commands speak of one stop.
LEMMA StopRowControlled ==
    ASSUME NEW s \in Sessions, NEW row, Running(row), NEW reason \in Reasons,
           NEW commands \in [CommandIds -> CommandRow], StopsIn(commands) = Stops(s),
           Controlled(row, command[s])
    PROVE  /\ Controlled(StopRow(s, row, reason), StopCommand(s, commands))
           /\ StopRow(s, row, reason).status \in {"STOP_PENDING", "INTERRUPTED"}
           /\ Advances(StopRow(s, row, reason), row)
           /\ StopsIn(StopCommand(s, commands)) # {}
<1>0. row \in SessionRow /\ row.status \in OpenStatuses
  BY DEF Running
<1>1. CASE Stops(s) # {}
  <2>1. StopRow(s, row, reason) = row /\ StopCommand(s, commands) = commands
    BY <1>1 DEF StopRow, StopCommand
  <2>2. Advances(row, row)
    BY <1>0 DEF Advances, SessionRow
  <2>3. row.reason # "none" /\ row.status \in {"STOP_PENDING", "INTERRUPTED"}
    BY <1>1, StopIds DEF Controlled
  <2> QED
    BY <1>1, <2>1, <2>2, <2>3 DEF Controlled
<1>2. CASE Stops(s) = {}
  <2> DEFINE next == [row EXCEPT !.status = "STOP_PENDING", !.reason = reason,
                                 !.quiet = FALSE, !.overtime = FALSE]
             issued == [commands EXCEPT ![1] = Issued]
  <2>1. row.reason = "none" /\ Transition(row.status, "STOP_PENDING") = "STOP_PENDING"
    BY <1>0, <1>2, StopIds, OpenTransitions DEF Controlled
  <2>2. StopRow(s, row, reason) = next /\ StopCommand(s, commands) = issued
    BY <1>2, <2>1 DEF StopRow, StopCommand
  <2>3. 1 \in StopsIn(issued)
    BY StopIds DEF StopsIn, Issued
  <2>4. /\ next.status = "STOP_PENDING" /\ next.reason = reason /\ reason # "none"
        /\ next.cost = row.cost /\ next.energy = row.energy /\ next.at = row.at
        /\ next.reserved = row.reserved
    BY <1>0 DEF SessionRow, Reasons
  <2>5. Advances(next, row)
    BY <1>0, <2>1, <2>4 DEF Advances, SessionRow
  <2>6. Controlled(next, issued)
    BY <2>3, <2>4 DEF Controlled
  <2> QED
    BY <2>2, <2>3, <2>4, <2>5, <2>6
<1> QED
  BY <1>1, <1>2

\* A stop and an interruption in one transaction: the operator is asked for.
LEMMA InterruptedControlled ==
    ASSUME NEW s \in Sessions, Running(session[s]), NEW reason \in Reasons,
           NEW commands \in [CommandIds -> CommandRow], StopsIn(commands) = Stops(s),
           Controlled(session[s], command[s])
    PROVE  /\ Controlled(Interrupted(s, reason), StopCommand(s, commands))
           /\ Interrupted(s, reason).status = "INTERRUPTED"
           /\ Advances(Interrupted(s, reason), session[s])
<1> DEFINE row == StopRow(s, session[s], reason)
           next == [row EXCEPT !.status = "INTERRUPTED", !.recon = TRUE]
<1>1. /\ Controlled(row, StopCommand(s, commands))
      /\ Advances(row, session[s])
      /\ StopsIn(StopCommand(s, commands)) # {}
  BY StopRowControlled
<1>2. Running(row)
  BY StopRowContinues DEF Continues
<1>3. row.status \in OpenStatuses /\ row \in SessionRow
  BY <1>2 DEF Running
<1> HIDE DEF row
<1>4. /\ next.status = "INTERRUPTED" /\ next.recon = TRUE /\ next.reason = row.reason
      /\ next.cost = row.cost /\ next.energy = row.energy /\ next.at = row.at
      /\ next.reserved = row.reserved
  BY <1>3 DEF SessionRow
<1>5. Controlled(next, StopCommand(s, commands)) /\ Advances(next, session[s])
  BY <1>1, <1>4 DEF Controlled, Advances
<1>6. Transition(row.status, "INTERRUPTED") = "INTERRUPTED"
  BY <1>3, OpenTransitions
<1>7. Interrupted(s, reason) = [row EXCEPT !.status = Transition(@, "INTERRUPTED"), !.recon = TRUE]
  BY DEF Interrupted, row
<1> QED
  BY <1>4, <1>5, <1>6, <1>7

\* An accepted reading moves the meter forward and never past the reservation.
LEMMA MeteredControlled ==
    ASSUME NEW s \in Sessions, Running(session[s]), Controlled(session[s], command[s]),
           NEW energy \in Nat, NEW at \in Nat,
           energy >= session[s].energy, at >= session[s].at
    PROVE  /\ Controlled(Metered(s, energy, at), command[s])
           /\ Advances(Metered(s, energy, at), session[s])
<1> DEFINE row == session[s]
           cost == CappedCost(energy, row.reserved)
           next == Metered(s, energy, at)
<1>1. row \in SessionRow /\ row.reserved \in Nat /\ row.energy \in Nat /\ row.cost \in Nat
  BY DEF Running, SessionRow
<1>2. cost \in Nat /\ cost >= row.cost
  <2>1. CappedCost(row.energy, row.reserved) <= cost
    BY <1>1, CostIsMonotone
  <2>2. cost \in Nat /\ CappedCost(row.energy, row.reserved) \in Nat
    BY <1>1, CostIsCapped
  <2>3. row.cost <= CappedCost(row.energy, row.reserved)
    BY DEF Controlled
  <2> QED
    BY <1>1, <2>1, <2>2, <2>3
<1> HIDE DEF cost
<1>3. /\ next.status = row.status /\ next.reason = row.reason /\ next.recon = row.recon
      /\ next.energy = energy /\ next.at = at /\ next.cost = cost
      /\ next.reserved = row.reserved
  BY <1>1 DEF Metered, SessionRow, cost
<1> HIDE DEF next
<1>4. Controlled(next, command[s])
  BY <1>2, <1>3 DEF Controlled, cost
<1>5. Advances(next, session[s])
  BY <1>2, <1>3 DEF Advances
<1> USE DEF next
<1> QED
  BY <1>4, <1>5

LEMMA JudgedControlled ==
    ASSUME NEW s \in Sessions, Running(session[s]), Controlled(session[s], command[s]),
           command[s] \in [CommandIds -> CommandRow],
           NEW energy \in Nat, NEW at \in Nat, NEW trouble,
           energy >= session[s].energy, at >= session[s].at
    PROVE  /\ Controlled(Judged(s, energy, at, trouble),
                         IF Stopping(s, energy, trouble) THEN StopCommand(s, command[s])
                         ELSE command[s])
           /\ Advances(Judged(s, energy, at, trouble), session[s])
           /\ Judged(s, energy, at, trouble).status = "CHARGING" => session[s].status = "CHARGING"
           /\ Judged(s, energy, at, trouble).reserved = session[s].reserved
           /\ Stopping(s, energy, trouble) =>
                  Judged(s, energy, at, trouble).status \in {"STOP_PENDING", "INTERRUPTED"}
           /\ ~Stopping(s, energy, trouble) =>
                  Judged(s, energy, at, trouble) = Metered(s, energy, at)
<1> DEFINE row == Metered(s, energy, at)
           cause == StopCause(s, energy, trouble)
<1>1. Controlled(row, command[s]) /\ Advances(row, session[s])
  BY MeteredControlled
<1>2. Continues(row, session[s])
  BY MeteredContinues
<1>3. row.reason = session[s].reason /\ row.status = session[s].status
  BY DEF Metered, Running, SessionRow
<1>4. cause \in Reasons \cup {"none"}
  BY DEF StopCause, Reasons
<1>5. StopsIn(command[s]) = Stops(s)
  BY StopIds
<1>6. CASE Stopping(s, energy, trouble)
  <2>1. Judged(s, energy, at, trouble) = StopRow(s, row, cause) /\ cause \in Reasons
    BY <1>3, <1>4, <1>6 DEF Judged, Stopping
  <2> HIDE DEF row, cause
  <2>2. /\ Controlled(StopRow(s, row, cause), StopCommand(s, command[s]))
        /\ StopRow(s, row, cause).status \in {"STOP_PENDING", "INTERRUPTED"}
        /\ Advances(StopRow(s, row, cause), row)
    BY <1>1, <1>2, <1>5, <2>1, StopRowControlled DEF Continues
  <2>3. Continues(StopRow(s, row, cause), session[s])
    BY <1>2, <2>1, StopRowContinues
  <2>4. Advances(StopRow(s, row, cause), session[s])
    BY <1>1, <1>2, <2>2, <2>3, AdvancesAgain DEF Continues, Running
  <2> QED
    BY <1>6, <2>1, <2>2, <2>3, <2>4 DEF Continues
<1>7. CASE ~Stopping(s, energy, trouble)
  <2>1. Judged(s, energy, at, trouble) = row
    BY <1>3, <1>7 DEF Judged, Stopping
  <2> QED
    BY <1>1, <1>2, <1>3, <1>7, <2>1 DEF Continues
<1> QED
  BY <1>6, <1>7

-----------------------------------------------------------------------------
(* The shapes of a step *)

SettledRow(s) ==
    LET debit == IF session[s].cost = 0 THEN {}
                 ELSE {Entry("CHARGING_DEBIT", s, OwnerOf[s], -session[s].cost)}
        release == Entry("RESERVATION_RELEASE", s, OwnerOf[s], session[s].reserved)
    IN  /\ Settlement(s) = (IF session[s].completed THEN debit \cup {release} ELSE {})
        /\ session[s].cost <= session[s].reserved
        /\ hold[s] = "RELEASED" => session[s].cost = 0 /\ session[s].status = "FAILED"

LEMMA SettledRows == SettledOnce <=> \A s \in Sessions : SettledRow(s)
BY DEF SettledOnce, SettledRow

LEMMA SettledRowsNext == SettledOnce' <=> \A s \in Sessions : SettledRow(s)'
BY DEF SettledOnce, SettledRow, Settlement

\* Posting for something else, or opening a session, settles none.
LEMMA SettlementOfPosts ==
    ASSUME NEW s \in Sessions, Posts(s)' = Posts(s)
    PROVE  Settlement(s)' = Settlement(s)
<1>1. Settlement(s) = {e \in Posts(s) : e.kind \in {"CHARGING_DEBIT", "RESERVATION_RELEASE"}}
  BY DEF Settlement, Posts
<1>2. Settlement(s)' = {e \in Posts(s)' : e.kind \in {"CHARGING_DEBIT", "RESERVATION_RELEASE"}}
  BY DEF Settlement, Posts
<1> QED
  BY <1>1, <1>2

\* What a step leaves of a session it does not concern.
Untouched(s) ==
    /\ session'[s] = session[s] /\ hold'[s] = hold[s] /\ command'[s] = command[s]
    /\ Posts(s)' = Posts(s)

LEMMA UntouchedIsSound ==
    ASSUME IInv, CInv, NEW s \in Sessions, Untouched(s)
    PROVE  /\ Open(s)' => Controlled(session'[s], command'[s])
           /\ session'[s].status = "NONE" => \A k \in CommandIds : command'[s][k] = NoCommand
           /\ session'[s].status \in {"COMPLETED", "FAILED"} => session'[s].completed
           /\ SettledRow(s)'
           /\ Advances(session'[s], session[s]) /\ ChargesInTime(s) /\ ReceiptStays(s)
<1>1. session[s] \in SessionRow
  BY DEF IInv, TypeOK
<1>2. Open(s)' <=> Open(s)
  BY DEF Open, Untouched
<1>3. SettledRow(s)'
  <2>1. SettledRow(s)
    BY SettledRows DEF CInv
  <2>2. Settlement(s)' = Settlement(s)
    BY SettlementOfPosts DEF Untouched
  <2> QED
    BY <2>1, <2>2 DEF SettledRow, Untouched
<1>4. Advances(session'[s], session[s])
  BY <1>1 DEF Advances, Untouched, SessionRow
<1>5. ChargesInTime(s) /\ ReceiptStays(s)
  BY DEF ChargesInTime, ReceiptStays, Untouched
<1> QED
  BY <1>2, <1>3, <1>4, <1>5
     DEF CInv, OpenIsControlled, UnusedIsSilent, ClosedIsDone, Untouched

\* The step concerns one session; that one is shown to be sound.
LEMMA OneSession ==
    ASSUME IInv, CInv, NEW s \in Sessions, \A t \in Sessions \ {s} : Untouched(t),
           Open(s)' => Controlled(session'[s], command'[s]),
           session'[s].status # "NONE",
           session'[s].status \in {"COMPLETED", "FAILED"} => session'[s].completed,
           SettledRow(s)',
           Advances(session'[s], session[s]), ChargesInTime(s), ReceiptStays(s)
    PROVE  CInv' /\ Orderly
<1>1. ASSUME NEW t \in Sessions
      PROVE  /\ Open(t)' => Controlled(session'[t], command'[t])
             /\ session'[t].status = "NONE" => \A k \in CommandIds : command'[t][k] = NoCommand
             /\ session'[t].status \in {"COMPLETED", "FAILED"} => session'[t].completed
             /\ SettledRow(t)'
             /\ Advances(session'[t], session[t]) /\ ChargesInTime(t) /\ ReceiptStays(t)
  <2>1. CASE t = s
    BY <2>1
  <2>2. CASE t # s
    BY <2>2, UntouchedIsSound
  <2> QED
    BY <2>1, <2>2
<1>2. OpenIsControlled' /\ UnusedIsSilent' /\ ClosedIsDone'
  BY <1>1 DEF OpenIsControlled, UnusedIsSilent, ClosedIsDone, Controlled, StopsIn
<1>3. SettledOnce'
  BY <1>1, SettledRowsNext
<1> QED
  BY <1>1, <1>2, <1>3 DEF CInv, Orderly

\* A step that leaves all sessions and their commands alone.
LEMMA Beside ==
    ASSUME IInv, CInv, UNCHANGED <<session, command, hold>>,
           \A s \in Sessions : Posts(s)' = Posts(s)
    PROVE  CInv' /\ Orderly
<1>1. \A s \in Sessions : Untouched(s)
  BY DEF Untouched
<1>2. OpenIsControlled' /\ UnusedIsSilent' /\ ClosedIsDone'
  BY <1>1, UntouchedIsSound
     DEF OpenIsControlled, UnusedIsSilent, ClosedIsDone, Controlled, StopsIn
<1>3. SettledOnce'
  BY <1>1, UntouchedIsSound, SettledRowsNext
<1> QED
  BY <1>1, <1>2, <1>3, UntouchedIsSound DEF CInv, Orderly

\* A step that rewrites the row and the commands of one open session.
LEMMA Moves ==
    ASSUME IInv, CInv, NEW s \in Sessions, Open(s),
           NEW row, Continues(row, session[s]), Advances(row, session[s]),
           NEW commands, Controlled(row, commands),
           row.status = "CHARGING" =>
               session[s].status = "CHARGING" \/ (Stops(s) = {} /\ command[s][0].age = 0),
           session' = [session EXCEPT ![s] = row],
           command' = [command EXCEPT ![s] = commands],
           UNCHANGED <<hold, ledger>>
    PROVE  CInv' /\ Orderly
<1>1. session \in [Sessions -> SessionRow] /\ DOMAIN command = Sessions
  BY DEF IInv, TypeOK
<1>2. /\ session'[s] = row /\ command'[s] = commands
      /\ \A t \in Sessions \ {s} : session'[t] = session[t] /\ command'[t] = command[t]
  BY <1>1
<1>3. \A t \in Sessions : hold'[t] = hold[t] /\ Posts(t)' = Posts(t)
  BY DEF Posts
<1>4. \A t \in Sessions \ {s} : Untouched(t)
  BY <1>2, <1>3 DEF Untouched
<1>5. /\ row.status \in OpenStatuses /\ ~row.completed /\ ~session[s].completed
      /\ row.reserved = session[s].reserved /\ row \in SessionRow
  BY DEF Continues, Running, Open
<1>6. SettledRow(s)'
  <2>1. Settlement(s) = {} /\ hold[s] # "RELEASED"
    BY <1>5, SettledRows DEF CInv, SettledRow, IInv, HoldWhileOpen
  <2>2. Settlement(s)' = {}
    BY <1>3, <2>1, SettlementOfPosts
  <2>3. row.cost <= row.reserved
    <3>1. row.cost \in Nat /\ row.energy \in Nat /\ row.reserved \in Nat
      BY <1>5 DEF SessionRow
    <3>2. /\ CappedCost(row.energy, row.reserved) \in Nat
          /\ CappedCost(row.energy, row.reserved) <= row.reserved
      BY <3>1, CostIsCapped
    <3>3. row.cost <= CappedCost(row.energy, row.reserved)
      BY DEF Controlled
    <3> QED
      BY <3>1, <3>2, <3>3
  <2> QED
    BY <1>2, <1>3, <1>5, <2>1, <2>2, <2>3 DEF SettledRow
<1>7. ChargesInTime(s) /\ ReceiptStays(s)
  BY <1>2, <1>5 DEF ChargesInTime, ReceiptStays
<1> QED
  BY <1>2, <1>4, <1>5, <1>6, <1>7, OneSession DEF OpenStatuses

\* A step that moves a command of a session that is open or was, but not its row.
LEMMA CommandMoves ==
    ASSUME IInv, CInv, NEW s \in Sessions, NEW commands,
           session[s].status # "NONE", UNCHANGED <<session, hold, ledger>>,
           command' = [command EXCEPT ![s] = commands],
           Open(s) => /\ StopsIn(commands) = Stops(s)
                      /\ session[s].status = "CHARGING" => commands[0].status = command[s][0].status,
           \A k \in CommandIds : commands[k].status = "PENDING" => command[s][k].status = "PENDING"
    PROVE  CInv' /\ Orderly
<1>1. session \in [Sessions -> SessionRow] /\ DOMAIN command = Sessions
  BY DEF IInv, TypeOK
<1>2. /\ session'[s] = session[s] /\ command'[s] = commands
      /\ \A t \in Sessions \ {s} : command'[t] = command[t]
  BY <1>1
<1>3. \A t \in Sessions : hold'[t] = hold[t] /\ Posts(t)' = Posts(t) /\ session'[t] = session[t]
  BY DEF Posts
<1>4. \A t \in Sessions \ {s} : Untouched(t)
  BY <1>2, <1>3 DEF Untouched
<1>5. Open(s)' => Controlled(session'[s], command'[s])
  <2>1. Open(s)' => Open(s) /\ Controlled(session[s], command[s])
    BY <1>3 DEF Open, CInv, OpenIsControlled
  <2> QED
    BY <1>2, <2>1, StopIds DEF Controlled
<1>6. SettledRow(s)'
  <2>1. SettledRow(s) /\ Settlement(s)' = Settlement(s)
    BY <1>3, SettledRows, SettlementOfPosts DEF CInv
  <2> QED
    BY <1>3, <2>1 DEF SettledRow
<1>7. Advances(session'[s], session[s]) /\ ChargesInTime(s) /\ ReceiptStays(s)
  <2>1. session[s] \in SessionRow
    BY <1>1
  <2> QED
    BY <1>2, <1>3, <2>1 DEF Advances, SessionRow, ChargesInTime, ReceiptStays
<1>8. session'[s].status \in {"COMPLETED", "FAILED"} => session'[s].completed
  BY <1>3 DEF CInv, ClosedIsDone
<1> QED
  BY <1>2, <1>4, <1>5, <1>6, <1>7, <1>8, OneSession

-----------------------------------------------------------------------------
(* The steps that post *)

LEMMA StartMoves ==
    ASSUME IInv, CInv, NEW s \in Sessions, NEW b \in Bays, Start(s, b), IInv'
    PROVE  CInv' /\ Orderly
<1> DEFINE reserved == wallet[OwnerOf[s]] - Held(OwnerOf[s])
           row == [Unused EXCEPT !.status = "START_PENDING", !.bay = b, !.reserved = reserved]
<1>1. session[s].status = "NONE" /\ session[s] = Unused /\ hold[s] = "NONE"
  BY DEF Start, Startable, IInv, UnusedIsClean
<1>2. /\ session' = [session EXCEPT ![s] = row] /\ hold' = [hold EXCEPT ![s] = "HELD"]
      /\ ledger' = ledger \cup {Entry("RESERVATION", s, OwnerOf[s], -reserved)}
      /\ command' = [command EXCEPT ![s][0] = Issued]
  BY DEF Start
<1> HIDE DEF reserved
<1>3. /\ session'[s] = row /\ hold'[s] = "HELD"
      /\ command'[s] = [command[s] EXCEPT ![0] = Issued]
      /\ \A t \in Sessions \ {s} : /\ session'[t] = session[t] /\ hold'[t] = hold[t]
                                   /\ command'[t] = command[t]
  BY <1>2 DEF IInv, TypeOK
<1>4. \A t \in Sessions \ {s} : Untouched(t)
  BY <1>2, <1>3 DEF Untouched, Posts, Entry
<1>5. /\ row.status = "START_PENDING" /\ row.reason = "none" /\ row.reserved = reserved
      /\ row.energy = 0 /\ row.cost = 0 /\ row.at = 0 /\ row.completed = FALSE
  BY DEF Unused
<1> HIDE DEF row
<1>6. reserved \in Nat
  <2>1. session'[s] \in SessionRow
    BY DEF IInv, TypeOK
  <2>2. row.reserved \in Nat
    BY <1>3, <2>1 DEF SessionRow
  <2> QED
    BY <1>5, <2>2
<1>7. Controlled(session'[s], command'[s])
  <2>1. \A k \in CommandIds \ {0} : command'[s][k] = NoCommand
    BY <1>1, <1>3 DEF CInv, UnusedIsSilent
  <2>2. StopsIn(command'[s]) = {}
    BY <2>1 DEF StopsIn, NoCommand
  <2>3. CappedCost(0, reserved) \in Nat
    BY <1>6, CostIsCapped
  <2> QED
    BY <1>3, <1>5, <2>2, <2>3 DEF Controlled
<1>8. SettledRow(s)'
  <2>1. Settlement(s) = {}
    BY <1>1, SettledRows DEF CInv, SettledRow, Unused
  <2>2. Settlement(s)' = {}
    BY <1>2, <2>1 DEF Settlement, Entry
  <2> QED
    BY <1>3, <1>5, <1>6, <2>2 DEF SettledRow
<1>9. Advances(session'[s], session[s]) /\ ChargesInTime(s) /\ ReceiptStays(s)
  BY <1>1, <1>3, <1>5 DEF Advances, ChargesInTime, ReceiptStays, Unused, Open
<1> QED
  BY <1>3, <1>4, <1>5, <1>7, <1>8, <1>9, OneSession

\* finish(): the one debit and the one release of a session, and its last row.
LEMMA FinishMoves ==
    ASSUME IInv, CInv, NEW s \in Sessions, Open(s), NEW energy \in Nat, NEW failed \in BOOLEAN,
           NEW row, Continues(row, session[s]), Advances(row, session[s]),
           failed => row.status = "START_PENDING" /\ session[s].cost = 0,
           energy >= session[s].energy,
           Finish(s, row, energy, failed),
           \A t \in Sessions \ {s} : command'[t] = command[t]
    PROVE  CInv' /\ Orderly
<1> DEFINE u == OwnerOf[s]
           cost == IF failed THEN 0 ELSE CappedCost(energy, row.reserved)
           closed == IF failed THEN "RELEASED" ELSE "SETTLED"
           reason == IF row.reason = "none" THEN "SAFETY_FAULT" ELSE row.reason
           final == [row EXCEPT !.status = Outcome(row, failed), !.energy = energy,
                                !.cost = cost, !.completed = TRUE, !.recon = FALSE,
                                !.quiet = FALSE, !.overtime = FALSE, !.reason = reason]
<1>1. /\ row \in SessionRow /\ row.reserved = session[s].reserved /\ row.reserved \in Nat
      /\ row.at \in Nat /\ session[s] \in SessionRow
  BY OpenIsRunning DEF Continues, Running, SessionRow
<1>2. cost \in Nat /\ cost <= row.reserved /\ cost >= session[s].cost
  <2>1. CappedCost(energy, row.reserved) \in Nat /\ CappedCost(energy, row.reserved) <= row.reserved
    BY <1>1, CostIsCapped
  <2>2. session[s].energy \in Nat /\ session[s].cost \in Nat /\ session[s].reserved \in Nat
    BY <1>1 DEF SessionRow
  <2>3. CappedCost(session[s].energy, row.reserved) <= CappedCost(energy, row.reserved)
    BY <1>1, <2>2, CostIsMonotone
  <2>4. session[s].cost <= CappedCost(session[s].energy, row.reserved)
    BY <1>1 DEF CInv, OpenIsControlled, Controlled
  <2>5. CappedCost(session[s].energy, row.reserved) \in Nat
    BY <1>1, <2>2, CostIsCapped
  <2> QED
    BY <1>1, <2>1, <2>2, <2>3, <2>4, <2>5
<1>3. ~Posted("CHARGING_DEBIT", s) /\ ~session[s].completed /\ Settlement(s) = {}
  BY SettledRows DEF IInv, DebitIsFinal, Open, CInv, SettledRow
<1> HIDE DEF cost
<1>4. /\ hold' = [hold EXCEPT ![s] = closed]
      /\ session' = [session EXCEPT ![s] = final]
      /\ ledger' = ledger
             \cup (IF cost > 0 THEN {Entry("CHARGING_DEBIT", s, u, -cost)} ELSE {})
             \cup {Entry("RESERVATION_RELEASE", s, u, row.reserved)}
  BY <1>3 DEF Finish, cost
<1>5. Outcome(row, failed) \in {"COMPLETED", "FAILED", "INTERRUPTED"}
  BY OutcomeIsFinal DEF Continues
<1>6. failed => Outcome(row, failed) = "FAILED"
  BY OpenTransitions DEF Outcome, OpenStatuses
<1>7. /\ final.status = Outcome(row, failed) /\ final.energy = energy /\ final.cost = cost
      /\ final.completed = TRUE /\ final.reserved = row.reserved /\ final.at = row.at
      /\ final.reason = reason
  BY <1>1 DEF SessionRow
<1> HIDE DEF final
<1>8. /\ session'[s] = final /\ hold'[s] = closed
      /\ \A t \in Sessions \ {s} : session'[t] = session[t] /\ hold'[t] = hold[t]
  BY <1>4 DEF IInv, TypeOK
<1>9. \A t \in Sessions \ {s} : Untouched(t)
  <2>1. \A t \in Sessions \ {s} : Posts(t)' = Posts(t)
    BY <1>4 DEF Posts, Entry
  <2> QED
    BY <1>8, <2>1 DEF Untouched
<1>10. SettledRow(s)'
  <2>1. Settlement(s)' = (IF cost = 0 THEN {} ELSE {Entry("CHARGING_DEBIT", s, u, -cost)})
                             \cup {Entry("RESERVATION_RELEASE", s, u, row.reserved)}
    <3>1. cost > 0 <=> cost # 0
      BY <1>2
    <3> QED
      BY <1>3, <1>4, <3>1 DEF Settlement, Entry
  <2>2. hold'[s] = "RELEASED" => cost = 0 /\ final.status = "FAILED"
    BY <1>6, <1>7, <1>8 DEF cost
  <2> QED
    BY <1>2, <1>7, <1>8, <2>1, <2>2 DEF SettledRow
<1>11. Advances(session'[s], session[s])
  BY <1>1, <1>2, <1>7, <1>8 DEF Advances
<1>12. /\ ChargesInTime(s) /\ ReceiptStays(s) /\ ~Open(s)' /\ session'[s].status # "NONE"
       /\ session'[s].completed
  BY <1>3, <1>5, <1>7, <1>8 DEF ChargesInTime, ReceiptStays, Open
<1> QED
  BY <1>9, <1>10, <1>11, <1>12, OneSession

-----------------------------------------------------------------------------
(* One lemma for each group of actions *)

Good == CInv' /\ Orderly

\* What is known of an open session and its commands.
LEMMA OpenIsKnown ==
    ASSUME IInv, CInv, NEW s \in Sessions, Open(s)
    PROVE  /\ Running(session[s]) /\ session[s] \in SessionRow
           /\ command[s] \in [CommandIds -> CommandRow]
           /\ Controlled(session[s], command[s]) /\ StopsIn(command[s]) = Stops(s)
           /\ session[s].energy \in Nat /\ session[s].at \in Nat /\ session[s].cost \in Nat
           /\ session[s].reserved \in Nat /\ session[s].status \in OpenStatuses
           /\ ~session[s].completed
<1>1. Running(session[s]) /\ command[s] \in [CommandIds -> CommandRow]
  BY OpenIsRunning
<1>2. session[s] \in SessionRow /\ Controlled(session[s], command[s])
  BY <1>1 DEF Running, CInv, OpenIsControlled
<1> QED
  BY <1>1, <1>2, StopIds DEF SessionRow, Running

LEMMA QueueStopMoves ==
    ASSUME IInv, CInv, NEW s \in Sessions, Open(s), NEW reason \in Reasons,
           QueueStop(s, reason), UNCHANGED <<hold, ledger>>
    PROVE  Good
<1> DEFINE row == StopRow(s, session[s], reason)
           commands == StopCommand(s, command[s])
<1>1. /\ Controlled(row, commands) /\ Advances(row, session[s])
      /\ row.status \in {"STOP_PENDING", "INTERRUPTED"}
  BY OpenIsKnown, StopRowControlled
<1>2. Continues(row, session[s])
  BY OpenIsRunning, StopRowContinues DEF Continues
<1>3. session' = [session EXCEPT ![s] = row] /\ command' = [command EXCEPT ![s] = commands]
  BY DEF QueueStop
<1> HIDE DEF row, commands
<1> QED
  BY <1>1, <1>2, <1>3, Moves DEF Good

LEMMA RequestMoves ==
    ASSUME IInv, CInv, NEW s \in Sessions, StopRequest(s) \/ Reconcile(s)
    PROVE  Good
<1>1. CASE StopRequest(s)
  BY <1>1, QueueStopMoves DEF StopRequest, Reasons
<1>2. CASE Reconcile(s)
  <2> DEFINE r == IF session[s].reason = "none" THEN "REQUESTED" ELSE session[s].reason
             row == [session[s] EXCEPT !.status = "STOP_PENDING", !.reason = r,
                                       !.quiet = FALSE, !.overtime = FALSE]
             next == CHOOSE i \in CommandIds \ {0} :
                         i \notin Stops(s) /\ \A j \in CommandIds \ {0} : j < i => j \in Stops(s)
             commands == [command[s] EXCEPT ![next] = Issued]
  <2>1. /\ Open(s) /\ command' = [command EXCEPT ![s][next] = Issued]
        /\ UNCHANGED <<hold, ledger>>
    BY <1>2 DEF Reconcile
  <2>2. /\ session[s] \in SessionRow /\ Running(session[s]) /\ Controlled(session[s], command[s])
        /\ command[s] \in [CommandIds -> CommandRow]
    BY <2>1, OpenIsKnown
  <2>3. Transition(session[s].status, "STOP_PENDING") = "STOP_PENDING"
    BY <2>2, OpenTransitions DEF Running
  <2>4. session' = [session EXCEPT ![s] = row] /\ command' = [command EXCEPT ![s] = commands]
    BY <1>2, <2>1, <2>3 DEF Reconcile
  <2>5. next \in CommandIds \ {0}
    <3>1. \E i \in CommandIds \ {0} :
              i \notin Stops(s) /\ \A j \in CommandIds \ {0} : j < i => j \in Stops(s)
      <4> DEFINE free == (CommandIds \ {0}) \ Stops(s)
      <4>1. free # {} /\ free \subseteq Nat
        BY <1>2 DEF Reconcile, Stops, CommandIds
      <4>2. \E i \in free : \A j \in free : i <= j
        BY <4>1, LeastNumber
      <4>3. PICK i \in free : \A j \in free : i <= j
        BY <4>2
      <4>4. \A j \in CommandIds \ {0} : j < i => j \in Stops(s)
        BY <4>1, <4>3 DEF CommandIds
      <4> QED
        BY <4>3, <4>4
    <3> QED
      BY <3>1
  <2>6. r \in Reasons /\ r # "none" /\ (session[s].reason # "none" => r = session[s].reason)
    BY <2>2 DEF SessionRow, Reasons
  <2>7. StopsIn(commands) # {}
    BY <2>2, <2>5 DEF StopsIn, Issued
  <2> HIDE DEF r, next, commands
  <2>8. /\ row.status = "STOP_PENDING" /\ row.reason = r /\ row.energy = session[s].energy
        /\ row.cost = session[s].cost /\ row.at = session[s].at
        /\ row.reserved = session[s].reserved
    BY <2>2 DEF SessionRow
  <2>9. Continues(row, session[s])
    BY <2>2, <2>6 DEF Continues, Running, SessionRow, OpenStatuses, Statuses
  <2> HIDE DEF row
  <2>10. Controlled(row, commands) /\ Advances(row, session[s])
    BY <2>2, <2>6, <2>7, <2>8 DEF Controlled, Advances, SessionRow
  <2> QED
    BY <2>1, <2>4, <2>8, <2>9, <2>10, Moves DEF Good
<1> QED
  BY <1>1, <1>2

LEMMA DispatchMoves ==
    ASSUME IInv, CInv, NEW s \in Sessions, NEW k \in CommandIds, Dispatch(s, k) \/ Expire(s, k)
    PROVE  Good
<1> DEFINE sent == [command[s] EXCEPT ![k].sent = TRUE]
           aged == [command[s] EXCEPT ![k].age = command[s][k].age + 1]
<1>1. command[s] \in [CommandIds -> CommandRow] /\ DOMAIN command = Sessions
  BY DEF IInv, TypeOK
<1>2. session[s].status # "NONE"
  <2>1. command[s][k].status # "NONE"
    BY DEF Dispatch, Expire
  <2> QED
    BY <2>1 DEF CInv, UnusedIsSilent, NoCommand
<1>3. \A j \in CommandIds : /\ sent[j].status = command[s][j].status
                            /\ aged[j].status = command[s][j].status
  BY <1>1 DEF CommandRow
<1>4. /\ command' = [command EXCEPT ![s] = sent] \/ command' = [command EXCEPT ![s] = aged]
      /\ UNCHANGED <<session, hold, ledger>>
  BY DEF Dispatch, Expire
<1> HIDE DEF sent, aged
<1>5. /\ StopsIn(sent) = Stops(s) /\ StopsIn(aged) = Stops(s)
      /\ sent[0].status = command[s][0].status /\ aged[0].status = command[s][0].status
  BY <1>3, StopIds DEF StopsIn, Stops
<1> QED
  BY <1>2, <1>3, <1>4, <1>5, CommandMoves DEF Good

\* acknowledge(), except the refusal that settles.
LEMMA AcknowledgeMoves ==
    ASSUME IInv, CInv, NEW s \in Sessions,
           \/ StartAccepted(s)
           \/ \E accepted, relay, metered \in BOOLEAN : StartUnclear(s, accepted, relay, metered)
           \/ \E k \in CommandIds, accepted \in BOOLEAN : StopAnswered(s, k, accepted)
    PROVE  Good
<1>1. Open(s)
  BY DEF StartAccepted, StartUnclear, StopAnswered, Answerable
<1>2. /\ Running(session[s]) /\ session[s] \in SessionRow /\ Controlled(session[s], command[s])
      /\ command[s] \in [CommandIds -> CommandRow] /\ StopsIn(command[s]) = Stops(s)
      /\ session[s].status \in OpenStatuses
  BY <1>1, OpenIsKnown
<1>3. \A k \in CommandIds, accepted \in BOOLEAN :
          Answerable(s, k) => StopsIn(Answer(command[s], k, accepted)) = Stops(s)
  <2>1. ASSUME NEW k \in CommandIds, NEW accepted \in BOOLEAN, Answerable(s, k)
        PROVE  StopsIn(Answer(command[s], k, accepted)) = Stops(s)
    <3>1. command[s][k].status # "NONE"
      BY <2>1 DEF Answerable
    <3>2. CASE accepted
      BY <1>2, <3>1, <3>2, StopsAreKept DEF Answer
    <3>3. CASE ~accepted
      BY <1>2, <3>1, <3>3, StopsAreKept DEF Answer
    <3> QED
      BY <3>2, <3>3
  <2> QED
    BY <2>1
<1>4. CASE StartAccepted(s)
  <2> DEFINE row == [session[s] EXCEPT !.status = "CHARGING", !.quiet = FALSE]
             commands == Answer(command[s], 0, TRUE)
  <2>1. /\ Answerable(s, 0) /\ session[s].status = "START_PENDING" /\ ~Late(s, 0)
        /\ session' = [session EXCEPT ![s].status = Transition(@, "CHARGING"), ![s].quiet = FALSE]
        /\ command' = [command EXCEPT ![s] = commands]
        /\ UNCHANGED <<hold, ledger>>
    BY <1>4 DEF StartAccepted, StartConfirmed
  <2>2. Transition(session[s].status, "CHARGING") = "CHARGING"
    BY <1>2, <2>1, OpenTransitions
  <2>3. session' = [session EXCEPT ![s] = row]
    BY <2>1, <2>2
  <2>4. StopsIn(commands) = Stops(s) /\ commands[0].status = "ACKNOWLEDGED"
    BY <1>2, <1>3, <2>1, StopIds DEF Answer, CommandRow
  <2>5. Stops(s) = {} /\ command[s][0].age = 0
    <3>1. command[s][0].age \in 0..2
      BY <1>2, StopIds DEF CommandRow
    <3> QED
      BY <1>2, <2>1, <3>1 DEF Controlled, Late
  <2>6. /\ row.status = "CHARGING" /\ row.reason = session[s].reason
        /\ row.energy = session[s].energy /\ row.cost = session[s].cost
        /\ row.at = session[s].at /\ row.reserved = session[s].reserved
    BY <1>2 DEF SessionRow
  <2>7. Continues(row, session[s])
    BY <1>2 DEF Continues, Running, SessionRow, OpenStatuses, Statuses
  <2> HIDE DEF row, commands
  <2>8. Controlled(row, commands)
    BY <1>2, <2>4, <2>5, <2>6 DEF Controlled
  <2>9. Advances(row, session[s])
    BY <1>2, <2>6 DEF Advances, SessionRow
  <2> QED
    BY <1>1, <2>1, <2>3, <2>5, <2>7, <2>8, <2>9, Moves DEF Good
<1>5. CASE \E accepted, relay, metered \in BOOLEAN : StartUnclear(s, accepted, relay, metered)
  <2>1. PICK accepted \in BOOLEAN, relay \in BOOLEAN, metered \in BOOLEAN :
            StartUnclear(s, accepted, relay, metered)
    BY <1>5
  <2> DEFINE row == StopRow(s, session[s], "SAFETY_FAULT")
             answered == Answer(command[s], 0, accepted)
             commands == StopCommand(s, answered)
  <2>2. /\ session' = [session EXCEPT ![s] = row] /\ command' = [command EXCEPT ![s] = commands]
        /\ Answerable(s, 0) /\ UNCHANGED <<hold, ledger>>
    BY <2>1 DEF StartUnclear
  <2>3. answered \in [CommandIds -> CommandRow] /\ StopsIn(answered) = Stops(s)
    BY <1>2, <1>3, <2>2, StopIds, AnswerTyping
  <2> HIDE DEF answered
  <2>4. /\ Controlled(row, commands) /\ Advances(row, session[s])
        /\ row.status \in {"STOP_PENDING", "INTERRUPTED"}
    BY <1>2, <2>3, StopRowControlled DEF Reasons
  <2>5. Continues(row, session[s])
    BY <1>2, StopRowContinues DEF Continues, Reasons
  <2> HIDE DEF row, commands
  <2> QED
    BY <1>1, <2>2, <2>4, <2>5, Moves DEF Good
<1>6. CASE \E k \in CommandIds, accepted \in BOOLEAN : StopAnswered(s, k, accepted)
  <2>1. PICK k \in CommandIds, accepted \in BOOLEAN : StopAnswered(s, k, accepted)
    BY <1>6
  <2> DEFINE commands == Answer(command[s], k, accepted)
  <2>2. /\ k # 0 /\ Answerable(s, k) /\ command' = [command EXCEPT ![s] = commands]
        /\ UNCHANGED <<hold, ledger>>
    BY <2>1 DEF StopAnswered
  <2>3. StopsIn(commands) = Stops(s) /\ commands[0].status = command[s][0].status
    BY <1>2, <1>3, <2>2, StopIds DEF Answer, CommandRow
  <2>4. Stops(s) # {}
    BY <2>2 DEF Answerable, Stops
  <2>5. \A j \in CommandIds : commands[j].status = "PENDING" => command[s][j].status = "PENDING"
    BY <1>2 DEF Answer, CommandRow
  <2> HIDE DEF commands
  <2>6. CASE accepted
    <3>1. UNCHANGED session /\ session[s].status # "NONE"
      BY <1>1, <2>1, <2>6 DEF StopAnswered, Open
    <3> QED
      BY <2>2, <2>3, <2>5, <3>1, CommandMoves DEF Good
  <2>7. CASE ~accepted
    <3> DEFINE row == [session[s] EXCEPT !.status = "INTERRUPTED", !.recon = TRUE]
    <3>1. Transition(session[s].status, "INTERRUPTED") = "INTERRUPTED"
      BY <1>2, OpenTransitions
    <3>2. session' = [session EXCEPT ![s] = row]
      BY <2>1, <2>7, <3>1 DEF StopAnswered
    <3>3. Continues(row, session[s])
      BY <1>2 DEF Continues, Running, SessionRow, OpenStatuses, Statuses
    <3>4. /\ row.status = "INTERRUPTED" /\ row.recon = TRUE /\ row.reason = session[s].reason
          /\ row.energy = session[s].energy /\ row.cost = session[s].cost
          /\ row.at = session[s].at /\ row.reserved = session[s].reserved
      BY <1>2 DEF SessionRow
    <3> HIDE DEF row
    <3>5. Controlled(row, commands) /\ Advances(row, session[s])
      BY <1>2, <2>3, <2>4, <3>4 DEF Controlled, Advances, SessionRow
    <3> QED
      BY <1>1, <2>2, <3>2, <3>3, <3>4, <3>5, Moves DEF Good
  <2> QED
    BY <2>6, <2>7
<1> QED
  BY <1>4, <1>5, <1>6

\* A refused START never metered anything and had no stop reason to lose.
LEMMA StartRefusedMoves ==
    ASSUME IInv, CInv, NEW s \in Sessions, StartRefused(s)
    PROVE  Good
<1> DEFINE row == [session[s] EXCEPT !.reason = "SAFETY_FAULT"]
<1>1. /\ Open(s) /\ session[s].status = "START_PENDING" /\ session[s].energy = 0
      /\ Finish(s, row, 0, TRUE) /\ command' = [command EXCEPT ![s] = Answer(@, 0, FALSE)]
  BY DEF StartRefused, Answerable, RefusalProvesIdle
<1>2. /\ session[s] \in SessionRow /\ Running(session[s]) /\ Controlled(session[s], command[s])
      /\ session[s].cost \in Nat /\ session[s].reserved \in Nat
  BY <1>1, OpenIsKnown
<1>3. session[s].cost = 0
  BY <1>1, <1>2, NothingCostsNothing DEF Controlled
<1>4. session[s].reason = "none"
  BY <1>1, <1>2 DEF Controlled
<1>5. Continues(row, session[s]) /\ row.status = "START_PENDING"
  BY <1>1, <1>2 DEF Continues, Running, SessionRow, Reasons
<1>6. Advances(row, session[s])
  BY <1>2, <1>4 DEF Advances, SessionRow
<1>7. \A t \in Sessions \ {s} : command'[t] = command[t]
  BY <1>1 DEF IInv, TypeOK
<1>8. 0 \in Nat /\ 0 >= session[s].energy /\ TRUE \in BOOLEAN
  BY <1>1
<1> HIDE DEF row
<1>9. TRUE => row.status = "START_PENDING" /\ session[s].cost = 0
  BY <1>3, <1>5
<1> QED
  BY <1>1, <1>5, <1>6, <1>7, <1>8, <1>9, FinishMoves DEF Good

LEMMA HandleMoves ==
    ASSUME IInv, CInv, NEW b \in Bays,
           \/ \E kind \in {"telemetry", "event"} : HandleFault(b, kind)
           \/ IgnoredReading(b)
           \/ \E reason \in {"REQUESTED", "SAFETY_FAULT"} : EventStop(b, reason)
    PROVE  Good
<1>1. CASE UNCHANGED <<session, command, hold, ledger>>
  BY <1>1, Beside DEF Posts, Good
<1>2. CASE \E reason \in {"REQUESTED", "SAFETY_FAULT"} : EventStop(b, reason)
  <2>1. PICK reason \in Reasons : EventStop(b, reason)
    BY <1>2 DEF Reasons
  <2>2. CASE \E s \in OpenOn(b) : QueueStop(s, reason)
    <3>1. PICK s \in Sessions : Open(s) /\ QueueStop(s, reason)
      BY <2>2 DEF OpenOn
    <3> QED
      BY <2>1, <3>1, QueueStopMoves DEF EventStop
  <2> QED
    BY <1>1, <2>1, <2>2 DEF EventStop
<1> QED
  BY <1>1, <1>2 DEF HandleFault, IgnoredReading

LEMMA StrayMoves ==
    ASSUME IInv, CInv, NEW s \in Sessions, NEW named, NEW relay, NEW unsafe, NEW started,
           StrayReading(s, named, relay, unsafe, started)
    PROVE  Good
BY QueueStopMoves DEF StrayReading, Reasons

LEMMA ImplausibleMoves ==
    ASSUME IInv, CInv, NEW s \in Sessions, NEW energy, NEW at, NEW final, NEW surge, NEW unsafe,
           ImplausibleReading(s, energy, at, final, surge, unsafe)
    PROVE  Good
<1> DEFINE row == StopRow(s, session[s], "SAFETY_FAULT")
           commands == StopCommand(s, command[s])
<1>1. /\ Open(s) /\ session' = [session EXCEPT ![s] = row]
      /\ command' = [command EXCEPT ![s] = commands] /\ UNCHANGED <<hold, ledger>>
  BY DEF ImplausibleReading
<1>2. /\ Controlled(row, commands) /\ Advances(row, session[s])
      /\ row.status \in {"STOP_PENDING", "INTERRUPTED"}
  BY <1>1, OpenIsKnown, StopRowControlled DEF Reasons
<1>3. Continues(row, session[s])
  BY <1>1, OpenIsRunning, StopRowContinues DEF Continues, Reasons
<1> HIDE DEF row, commands
<1> QED
  BY <1>1, <1>2, <1>3, Moves DEF Good

LEMMA RunningReadingMoves ==
    ASSUME IInv, CInv, NEW s \in Sessions, NEW energy \in Nat, NEW at \in Nat,
           NEW relay \in BOOLEAN, NEW final \in BOOLEAN, NEW trouble \in Troubles,
           RunningReading(s, energy, at, relay, final, trouble)
    PROVE  Good
<1> DEFINE judged == Judged(s, energy, at, trouble)
           dropped == ~relay /\ judged.status = "CHARGING" /\ judged.reason = "none"
           stop == Stopping(s, energy, trouble)
           row == IF dropped THEN StopRow(s, judged, "SAFETY_FAULT") ELSE judged
           commands == IF stop \/ dropped THEN StopCommand(s, command[s]) ELSE command[s]
<1>1. /\ Open(s) /\ InOrder(s, at, final) /\ ~Backwards(s, energy)
      /\ session' = [session EXCEPT ![s] = row] /\ command' = [command EXCEPT ![s] = commands]
      /\ UNCHANGED <<hold, ledger>>
  BY DEF RunningReading
<1>2. /\ session[s] \in SessionRow /\ Running(session[s]) /\ Controlled(session[s], command[s])
      /\ command[s] \in [CommandIds -> CommandRow] /\ StopsIn(command[s]) = Stops(s)
      /\ session[s].energy \in Nat /\ session[s].at \in Nat
  BY <1>1, OpenIsKnown
<1>3. energy >= session[s].energy /\ at >= session[s].at
  BY <1>1, <1>2 DEF InOrder, Backwards
<1>4. /\ Controlled(judged, IF stop THEN StopCommand(s, command[s]) ELSE command[s])
      /\ Advances(judged, session[s])
      /\ judged.status = "CHARGING" => session[s].status = "CHARGING"
      /\ stop => judged.status \in {"STOP_PENDING", "INTERRUPTED"}
  BY <1>2, <1>3, JudgedControlled
<1>5. Continues(judged, session[s])
  BY <1>2, JudgedContinues
<1> HIDE DEF judged, stop
<1>6. CASE dropped
  <2>1. ~stop
    BY <1>4, <1>6
  <2>2. Controlled(judged, command[s]) /\ Running(judged)
    BY <1>4, <1>5, <2>1 DEF Continues
  <2>3. row = StopRow(s, judged, "SAFETY_FAULT") /\ commands = StopCommand(s, command[s])
    BY <1>6
  <2>4. /\ Controlled(row, commands) /\ Advances(row, judged)
        /\ row.status \in {"STOP_PENDING", "INTERRUPTED"}
    BY <1>2, <2>2, <2>3, StopRowControlled DEF Reasons
  <2>5. Continues(row, session[s])
    BY <1>5, <2>3, StopRowContinues DEF Reasons
  <2> HIDE DEF row, commands
  <2>6. Advances(row, session[s])
    BY <1>2, <1>4, <1>5, <2>4, <2>5, AdvancesAgain DEF Continues, Running
  <2> QED
    BY <1>1, <2>4, <2>5, <2>6, Moves DEF Good
<1>7. CASE ~dropped
  <2>1. row = judged /\ commands = IF stop THEN StopCommand(s, command[s]) ELSE command[s]
    BY <1>7
  <2> HIDE DEF row, commands, dropped
  <2>2. Controlled(row, commands)
    BY <1>4, <2>1
  <2> QED
    BY <1>1, <1>4, <1>5, <2>1, <2>2, Moves DEF Good
<1> QED
  BY <1>6, <1>7

LEMMA FinalReadingMoves ==
    ASSUME IInv, CInv, NEW s \in Sessions, NEW energy \in Nat, NEW at \in Nat,
           NEW trouble \in Troubles, FinalReading(s, energy, at, trouble)
    PROVE  Good
<1> DEFINE row == Judged(s, energy, at, trouble)
<1>1. /\ Open(s) /\ InOrder(s, at, TRUE) /\ ~Backwards(s, energy)
      /\ Finish(s, row, energy, FALSE)
      /\ command' = [command EXCEPT ![s] =
             IF Stopping(s, energy, trouble) THEN StopCommand(s, @) ELSE @]
  BY DEF FinalReading
<1>2. /\ session[s] \in SessionRow /\ Running(session[s]) /\ Controlled(session[s], command[s])
      /\ command[s] \in [CommandIds -> CommandRow]
      /\ session[s].energy \in Nat /\ session[s].at \in Nat
  BY <1>1, OpenIsKnown
<1>3. energy >= session[s].energy /\ at >= session[s].at
  BY <1>1, <1>2 DEF InOrder, Backwards
<1>4. Continues(row, session[s]) /\ Advances(row, session[s])
  BY <1>2, <1>3, JudgedContinues, JudgedControlled
<1>5. \A t \in Sessions \ {s} : command'[t] = command[t]
  BY <1>1 DEF IInv, TypeOK
<1> HIDE DEF row
<1> QED
  BY <1>1, <1>3, <1>4, <1>5, FinishMoves DEF Good

LEMMA InterruptOfflineMoves ==
    ASSUME IInv, CInv, NEW s \in Sessions, Open(s), InterruptOffline(s),
           NEW commands \in [CommandIds -> CommandRow], StopsIn(commands) = Stops(s),
           command' = [command EXCEPT ![s] = StopCommand(s, commands)],
           UNCHANGED <<hold, ledger>>
    PROVE  Good
<1> DEFINE row == Interrupted(s, "DEVICE_OFFLINE")
<1>1. Running(session[s]) /\ Controlled(session[s], command[s])
  BY OpenIsKnown
<1>2. /\ Controlled(row, StopCommand(s, commands)) /\ row.status = "INTERRUPTED"
      /\ Advances(row, session[s])
  BY <1>1, InterruptedControlled DEF Reasons
<1>3. Continues(row, session[s])
  BY <1>1, InterruptedContinues DEF Reasons
<1>4. session' = [session EXCEPT ![s] = row]
  BY DEF InterruptOffline
<1> HIDE DEF row
<1> QED
  BY <1>2, <1>3, <1>4, Moves DEF Good

LEMMA TimeOutMoves ==
    ASSUME IInv, CInv, NEW s \in Sessions, NEW k \in CommandIds, TimeOut(s, k)
    PROVE  Good
<1> DEFINE commands == [command[s] EXCEPT ![k].status = "TIMED_OUT"]
<1>1. command[s] \in [CommandIds -> CommandRow] /\ command[s][k].status = "PENDING"
  BY DEF IInv, TypeOK, TimeOut
<1>2. StopsIn(commands) = Stops(s)
  BY <1>1, StopsAreKept, StopIds
<1>3. commands \in [CommandIds -> CommandRow]
  <2>1. [command[s][k] EXCEPT !.status = "TIMED_OUT"] \in CommandRow
    BY <1>1 DEF CommandRow
  <2> QED
    BY <1>1, <2>1
<1>4. session[s].status # "NONE"
  BY <1>1 DEF CInv, UnusedIsSilent, NoCommand
<1>5. \/ /\ Open(s) /\ InterruptOffline(s)
         /\ command' = [command EXCEPT ![s] = StopCommand(s, commands)]
      \/ /\ ~Open(s) /\ command' = [command EXCEPT ![s] = commands]
         /\ UNCHANGED session
  BY DEF TimeOut
<1>6. UNCHANGED <<hold, ledger>>
  BY DEF TimeOut
<1>7. \A j \in CommandIds : commands[j].status = "PENDING" => command[s][j].status = "PENDING"
  BY <1>1 DEF CommandRow
<1> HIDE DEF commands
<1> QED
  BY <1>2, <1>3, <1>4, <1>5, <1>6, <1>7, InterruptOfflineMoves, CommandMoves DEF Good

LEMMA SweepSessionMoves ==
    ASSUME IInv, CInv, NEW s \in Sessions,
           \/ SweepSession(s)
           \/ SweepOverdue(s)
           \/ \E reason \in {"DEVICE_OFFLINE", "LIMIT_REACHED"} : SweepStop(s, reason)
    PROVE  Good
<1>1. CASE UNCHANGED <<session, command, hold, ledger>>
  BY <1>1, Beside DEF Posts, Good
<1>2. CASE SweepSession(s)
  <2>1. CASE /\ Open(s) /\ InterruptOffline(s)
             /\ command' = [command EXCEPT ![s] = StopCommand(s, @)]
    <3>1. command[s] \in [CommandIds -> CommandRow] /\ StopsIn(command[s]) = Stops(s)
      BY <2>1, OpenIsKnown
    <3>2. UNCHANGED <<hold, ledger>>
      BY <1>2 DEF SweepSession
    <3> QED
      BY <2>1, <3>1, <3>2, InterruptOfflineMoves
  <2> QED
    BY <1>1, <1>2, <2>1 DEF SweepSession
<1>3. CASE SweepOverdue(s)
  <2>1. CASE Open(s) /\ session[s].status = "STOP_PENDING"
    <3> DEFINE row == [session[s] EXCEPT !.status = "INTERRUPTED", !.recon = TRUE]
    <3>1. /\ session[s] \in SessionRow /\ Running(session[s]) /\ Controlled(session[s], command[s])
          /\ session[s].status \in OpenStatuses
      BY <2>1, OpenIsKnown
    <3>2. Transition(session[s].status, "INTERRUPTED") = "INTERRUPTED"
      BY <3>1, OpenTransitions
    <3>3. session' = [session EXCEPT ![s] = row] /\ UNCHANGED <<command, hold, ledger>>
      BY <1>3, <2>1, <3>2 DEF SweepOverdue
    <3>4. Continues(row, session[s])
      BY <3>1 DEF Continues, Running, SessionRow, OpenStatuses, Statuses
    <3>5. /\ row.status = "INTERRUPTED" /\ row.recon = TRUE /\ row.reason = session[s].reason
          /\ row.energy = session[s].energy /\ row.cost = session[s].cost
          /\ row.at = session[s].at /\ row.reserved = session[s].reserved
      BY <3>1 DEF SessionRow
    <3> HIDE DEF row
    <3>6. Controlled(row, command[s]) /\ Advances(row, session[s])
      BY <2>1, <3>1, <3>5 DEF Controlled, Advances, SessionRow
    <3>7. command' = [command EXCEPT ![s] = command[s]]
      BY <3>3 DEF IInv, TypeOK
    <3> QED
      BY <2>1, <3>3, <3>4, <3>5, <3>6, <3>7, Moves DEF Good
  <2> QED
    BY <1>1, <1>3, <2>1 DEF SweepOverdue
<1>4. CASE \E reason \in {"DEVICE_OFFLINE", "LIMIT_REACHED"} : SweepStop(s, reason)
  <2>1. PICK reason \in Reasons : SweepStop(s, reason)
    BY <1>4 DEF Reasons
  <2> QED
    BY <1>1, <2>1, QueueStopMoves DEF SweepStop
<1> QED
  BY <1>2, <1>3, <1>4

LEMMA SessionClockMoves ==
    ASSUME IInv, CInv, NEW s \in Sessions, SessionQuiet(s) \/ Overtime(s)
    PROVE  Good
<1>1. Open(s) /\ UNCHANGED <<command, hold, ledger>>
  BY DEF SessionQuiet, Overtime
<1>2. session[s] \in SessionRow /\ Running(session[s]) /\ Controlled(session[s], command[s])
  BY <1>1, OpenIsKnown
<1>3. PICK row : /\ row = [session[s] EXCEPT !.quiet = TRUE] \/ row = [session[s] EXCEPT !.overtime = TRUE]
                 /\ session' = [session EXCEPT ![s] = row]
  BY DEF SessionQuiet, Overtime
<1>4. Continues(row, session[s])
  BY <1>2, <1>3 DEF Continues, Running, SessionRow
<1>5. /\ row.status = session[s].status /\ row.recon = session[s].recon
      /\ row.reason = session[s].reason /\ row.energy = session[s].energy
      /\ row.cost = session[s].cost /\ row.at = session[s].at
      /\ row.reserved = session[s].reserved
  BY <1>2, <1>3 DEF SessionRow
<1>6. Controlled(row, command[s]) /\ Advances(row, session[s])
  BY <1>2, <1>5 DEF Controlled, Advances, SessionRow
<1>7. command' = [command EXCEPT ![s] = command[s]]
  BY <1>1 DEF IInv, TypeOK
<1> QED
  BY <1>1, <1>3, <1>4, <1>5, <1>6, <1>7, Moves DEF Good

-----------------------------------------------------------------------------
(* Every step *)

LEMMA InitIsControlled == Init => CInv
<1> SUFFICES ASSUME Init PROVE CInv
  OBVIOUS
<1>1. \A s \in Sessions : session[s] = Unused /\ hold[s] = "NONE" /\ ~Open(s) /\ Settlement(s) = {}
  BY DEF Init, Open, Unused, Settlement
<1>2. \A s \in Sessions : session[s].cost = 0 /\ session[s].reserved = 0 /\ ~session[s].completed
  BY <1>1 DEF Unused
<1>3. SettledOnce
  BY <1>1, <1>2, SettledRows DEF SettledRow
<1>4. OpenIsControlled /\ UnusedIsSilent /\ ClosedIsDone
  BY <1>1 DEF OpenIsControlled, UnusedIsSilent, ClosedIsDone, Init, Unused
<1> QED
  BY <1>3, <1>4 DEF CInv

LEMMA StepIsOrderly == IInv /\ IInv' /\ CInv /\ [Next]_vars => CInv' /\ [Orderly]_vars
<1> SUFFICES ASSUME IInv, IInv', CInv, [Next]_vars PROVE Good
  BY DEF Good
<1>1. CASE UNCHANGED <<session, command, hold, ledger>>
  BY <1>1, Beside DEF Posts, Good
<1>2. CASE Request
  BY <1>2, StartMoves, RequestMoves DEF Request, Good
<1>3. CASE Acknowledge
  <2>1. PICK s \in Sessions :
            \/ StartRefused(s)
            \/ StartAccepted(s)
            \/ \E accepted, relay, metered \in BOOLEAN : StartUnclear(s, accepted, relay, metered)
            \/ \E k \in CommandIds, accepted \in BOOLEAN : StopAnswered(s, k, accepted)
    BY <1>3 DEF Acknowledge
  <2> QED
    BY <2>1, StartRefusedMoves, AcknowledgeMoves
<1>4. CASE Telemetry
  <2>1. Readings \subseteq Nat /\ 1..MaxAt \subseteq Nat
    BY EngineAssumption
  <2> QED
    BY <1>4, <2>1, StrayMoves, ImplausibleMoves, RunningReadingMoves, FinalReadingMoves
       DEF Telemetry
<1>5. CASE Handle
  BY <1>5, HandleMoves DEF Handle
<1>6. CASE Dispatches \/ TimeOuts
  BY <1>6, DispatchMoves, TimeOutMoves DEF Dispatches, TimeOuts
<1>7. CASE SweepRows
  <2>1. CASE \E d \in Devices : SweepDevice(d)
    BY <1>1, <2>1 DEF SweepDevice
  <2>2. CASE \E s \in Sessions :
                 \/ SweepSession(s)
                 \/ SweepOverdue(s)
                 \/ \E reason \in {"DEVICE_OFFLINE", "LIMIT_REACHED"} : SweepStop(s, reason)
    BY <2>2, SweepSessionMoves
  <2> QED
    BY <1>7, <2>1, <2>2 DEF SweepRows
<1>8. CASE SweepLists \/ Restart \/ Ingress
  BY <1>1, <1>8 DEF SweepLists, SweepDevices, SweepWaiting, SweepActive, Listed, Restart,
                    Ingress, Report, Heartbeat, LastWill
<1>9. CASE Outside
  <2>1. CASE \E b \in Bays : ResolveFault(b)
    BY <1>1, <2>1 DEF ResolveFault
  <2>2. CASE \E u \in Users, p \in Postings, amount \in Amounts :
                 PostExternal(u, p, amount) \/ PostExternal(u, p, -amount)
    <3>1. PICK u \in Users, p \in Postings, amount \in Amounts :
              PostExternal(u, p, amount) \/ PostExternal(u, p, -amount)
      BY <2>2
    <3>2. p \notin Sessions
      BY EngineAssumption
    <3>3. \A s \in Sessions : Posts(s)' = Posts(s)
      BY <3>1, <3>2 DEF PostExternal, Posts, Entry
    <3> QED
      BY <3>1, <3>3, Beside DEF PostExternal, Good
  <2> QED
    BY <1>9, <2>1, <2>2 DEF Outside
<1>10. CASE Clock
  <2>1. CASE \E s \in Sessions, k \in CommandIds : Expire(s, k)
    BY <2>1, DispatchMoves
  <2>2. CASE \E s \in Sessions : SessionQuiet(s) \/ Overtime(s)
    BY <2>2, SessionClockMoves
  <2>3. CASE \E d \in Devices : DeviceQuiet(d)
    BY <1>1, <2>3 DEF DeviceQuiet
  <2> QED
    BY <1>10, <2>1, <2>2, <2>3 DEF Clock
<1>11. CASE UNCHANGED vars
  BY <1>1, <1>11 DEF vars
<1> QED
  BY <1>2, <1>3, <1>4, <1>5, <1>6, <1>7, <1>8, <1>9, <1>10, <1>11 DEF Next

-----------------------------------------------------------------------------
(* Theorems *)

\* The two invariants together are inductive.
THEOREM ControlInvariance == Spec => [](IInv /\ CInv)
<1>1. Init => IInv /\ CInv
  BY InitIsSound, InitIsControlled
<1>2. (IInv /\ CInv) /\ [Next]_vars => (IInv /\ CInv)'
  BY StepIsSound, StepIsOrderly
<1> QED
  BY <1>1, <1>2, PTL DEF Spec

\* Of all the answers, readings, events, sweeps and operators that may settle a
\* session, one does: one release, at most one debit, none for a refused START.
THEOREM SettlesOnce == Spec => []SettledOnce
<1>1. CInv => SettledOnce
  BY DEF CInv
<1> QED
  BY <1>1, ControlInvariance, PTL

\* A charging session has an acknowledged START and no STOP.
THEOREM ChargesOnlyAuthorised == Spec => []ChargingIsAuthorised
<1>1. CInv => ChargingIsAuthorised
  BY StopIds DEF CInv, OpenIsControlled, Controlled, ChargingIsAuthorised
<1> QED
  BY <1>1, ControlInvariance, PTL

\* Whoever gives up on a session issues a STOP and leaves a reason, and a session
\* waits to be stopped, or for an operator, exactly when somebody did.
THEOREM EveryStopIsPursued == Spec => []StopIsPursued
<1>1. CInv => StopIsPursued
  BY StopIds DEF CInv, OpenIsControlled, Controlled, StopIsPursued
<1> QED
  BY <1>1, ControlInvariance, PTL

\* Every step is orderly: the lemma behind the four theorems that follow.
LEMMA StepsAreOrderly == Spec => [][Orderly]_vars
<1>1. (IInv /\ CInv) /\ (IInv /\ CInv)' /\ [Next]_vars => [Orderly]_vars
  BY StepIsOrderly
<1> QED
  BY <1>1, ControlInvariance, PTL DEF Spec

\* No later stop, refusal, timeout or settlement rewrites the recorded reason.
THEOREM FirstReasonStays == Spec => FirstReasonWins
<1>1. [Orderly]_vars => [\A s \in Sessions :
          session[s].reason # "none" => session'[s].reason = session[s].reason]_vars
  BY DEF Orderly, Advances
<1> QED
  BY <1>1, StepsAreOrderly, PTL DEF FirstReasonWins

\* No reading, in whatever order and however often it comes, takes back energy,
\* cost or time already counted, and settling does not either.
THEOREM MeterGrows == Spec => MeterNeverGoesBack
<1>1. [Orderly]_vars => [\A s \in Sessions : /\ session'[s].energy >= session[s].energy
                                             /\ session'[s].cost >= session[s].cost
                                             /\ session'[s].at >= session[s].at]_vars
  BY DEF Orderly, Advances
<1> QED
  BY <1>1, StepsAreOrderly, PTL DEF MeterNeverGoesBack

\* Nothing that arrives after the settlement changes the receipt or posts again.
THEOREM ReceiptIsFinal == Spec => ClosedIsFinal
<1>1. [Orderly]_vars => [\A s \in Sessions :
           session[s].completed =>
               /\ session'[s] = session[s] /\ hold'[s] = hold[s]
               /\ {e \in ledger' : e.ref = s} = {e \in ledger : e.ref = s}]_vars
  BY DEF Orderly, ReceiptStays, Posts
<1> QED
  BY <1>1, StepsAreOrderly, PTL DEF ClosedIsFinal

\* Charging begins once, by an acknowledgement in time of a START not yet stopped.
THEOREM ChargingBeginsInTime == Spec => StoppedNeverCharges
<1>1. [Orderly]_vars => [\A s \in Sessions :
           session[s].status # "CHARGING" /\ session'[s].status = "CHARGING" =>
               Stops(s) = {} /\ command[s][0].age = 0]_vars
  BY DEF Orderly, ChargesInTime
<1> QED
  BY <1>1, StepsAreOrderly, PTL DEF StoppedNeverCharges

-----------------------------------------------------------------------------
(* The ledger and the balances *)

\* The postings a balance consists of.
Mine(u) == {e \in ledger : e.user = u /\ e.kind \in {"CHARGING_DEBIT", "EXTERNAL"}}
Balance(u) == MapThenSumSet(LAMBDA e : e.amount, Mine(u))

\* The ledger is finite and each entry has an amount, so that it has a sum.
LedgerOK == IsFiniteSet(ledger) /\ \A e \in ledger : e.amount \in Int

LInv == LedgerOK /\ LedgerExplainsBalance

-----------------------------------------------------------------------------
(* Sums of amounts *)

Total(S) == MapThenSumSet(LAMBDA e : e.amount, S)
AmountIn(S) == [e \in S |-> e.amount]

\* MapThenSumSet is the recursion FiniteSums speaks of.
LEMMA TotalAccumulates ==
    ASSUME NEW S, IsFiniteSet(S), \A e \in S : e.amount \in Int
    PROVE  \E g : Accumulates(g, AmountIn(S), S) /\ Total(S) = g[S]
<1> DEFINE B(g) == [R \in SUBSET S |->
                       IF R = {} THEN 0
                       ELSE LET x == CHOOSE x \in R : TRUE
                            IN  x.amount + g[R \ {x}]]
<1>1. AmountIn(S) \in [S -> Int]
  BY DEF AmountIn
<1>2. PICK g : Accumulates(g, AmountIn(S), S)
  BY <1>1, SumExists
<1>3. g = B(g)
  <2>1. ASSUME NEW R \in SUBSET S PROVE g[R] = B(g)[R]
    BY <1>2, FirstIsOne DEF Accumulates, Follows, Summed, First, AmountIn
  <2> QED
    BY <1>2, <2>1 DEF Accumulates
<1>4. \A h : h = B(h) => h[S] = g[S]
  <2> SUFFICES ASSUME NEW h, h = B(h) PROVE h[S] = g[S]
    OBVIOUS
  <2>1. Follows(h, AmountIn(S), S)
    <3>1. ASSUME NEW R \in SUBSET S PROVE h[R] = Summed(h, AmountIn(S), R)
      BY FirstIsOne DEF Summed, First, AmountIn
    <3> QED
      BY <3>1 DEF Follows
  <2> QED
    BY <1>2, <2>1, SumUnique DEF Accumulates
<1>5. Total(S) = g[S]
  BY <1>3, <1>4 DEF Total, MapThenSumSet, MapThenFoldSet
<1> QED
  BY <1>2, <1>5

LEMMA TotalOfNone == Total({}) = 0
<1>1. PICK g : Accumulates(g, AmountIn({}), {}) /\ Total({}) = g[{}]
  BY FS_EmptySet, TotalAccumulates
<1> QED
  BY <1>1 DEF Accumulates, Follows, Summed

LEMMA TotalAddsOne ==
    ASSUME NEW S, IsFiniteSet(S), \A e \in S : e.amount \in Int,
           NEW a, a \notin S, a.amount \in Int
    PROVE  Total(S) \in Int /\ Total(S \cup {a}) = Total(S) + a.amount
<1> DEFINE T == S \cup {a}
<1>1. IsFiniteSet(T) /\ \A e \in T : e.amount \in Int
  BY FS_AddElement
<1>2. PICK h : Accumulates(h, AmountIn(S), S) /\ Total(S) = h[S]
  BY TotalAccumulates
<1>3. PICK g : Accumulates(g, AmountIn(T), T) /\ Total(T) = g[T]
  BY <1>1, TotalAccumulates
<1> DEFINE e == AmountIn(S)
           f == AmountIn(T)
<1>4. /\ e \in [S -> Int] /\ f \in [T -> Int] /\ f[a] = a.amount
      /\ \A x \in S : e[x] = f[x]
  BY <1>1 DEF AmountIn
<1>5. T = S \cup {a} /\ Accumulates(h, e, S) /\ Accumulates(g, f, T)
  BY <1>2, <1>3
<1> HIDE DEF T, e, f
<1>6. h[S] \in Int /\ g[T] = h[S] + f[a]
  BY <1>4, <1>5, SumAddsOne
<1> QED
  BY <1>2, <1>3, <1>4, <1>5, <1>6

-----------------------------------------------------------------------------
(* Steps *)

LEMMA BalanceIsTotal == LedgerExplainsBalance <=> \A u \in Users : wallet[u] = OpeningCredit + Total(Mine(u))
BY DEF LedgerExplainsBalance, Total, Mine

LEMMA BalanceIsTotalNext ==
    LedgerExplainsBalance' <=> \A u \in Users : wallet'[u] = OpeningCredit + Total(Mine(u))'
BY DEF LedgerExplainsBalance, Total, Mine

\* Entries of other kinds, or none, change no balance.
LEMMA PostsNoMoney ==
    ASSUME LInv, UNCHANGED wallet, \A u \in Users : Mine(u)' = Mine(u), LedgerOK'
    PROVE  LInv'
<1>1. \A u \in Users : Total(Mine(u))' = Total(Mine(u))
  OBVIOUS
<1>2. LedgerExplainsBalance'
  BY <1>1, BalanceIsTotal, BalanceIsTotalNext DEF LInv
<1> QED
  BY <1>2 DEF LInv

\* One new entry of one user moves that user's balance by its amount.
LEMMA PostsOne ==
    ASSUME IInv, LInv, NEW u \in Users, NEW kind \in {"CHARGING_DEBIT", "EXTERNAL"}, NEW ref,
           NEW amount \in Int, ~Posted(kind, ref),
           wallet' = [wallet EXCEPT ![u] = wallet[u] + amount],
           \A v \in Users : Mine(v)' = IF v = u THEN Mine(u) \cup {Entry(kind, ref, u, amount)}
                                       ELSE Mine(v),
           LedgerOK'
    PROVE  LInv'
<1> DEFINE a == Entry(kind, ref, u, amount)
<1>1. IsFiniteSet(Mine(u)) /\ \A e \in Mine(u) : e.amount \in Int
  <2>1. Mine(u) \in SUBSET ledger
    BY DEF Mine
  <2> QED
    BY <2>1, FS_Subset DEF LInv, LedgerOK
<1>2. a.amount = amount /\ a \notin Mine(u)
  BY DEF Posted, Entry, Mine
<1> HIDE DEF a
<1>3. Total(Mine(u)) \in Int /\ Total(Mine(u) \cup {a}) = Total(Mine(u)) + amount
  BY <1>1, <1>2, TotalAddsOne
<1>4. ASSUME NEW v \in Users PROVE wallet'[v] = OpeningCredit + Total(Mine(v))'
  <2>1. wallet[v] = OpeningCredit + Total(Mine(v))
    BY BalanceIsTotal DEF LInv
  <2>2. CASE v = u
    <3>1. Total(Mine(u))' = Total(Mine(u) \cup {a})
      BY DEF a
    <3>2. wallet'[u] = wallet[u] + amount
      BY DEF IInv, TypeOK
    <3> QED
      BY <1>3, <2>1, <2>2, <3>1, <3>2, EngineAssumption
  <2>3. CASE v # u
    <3>1. Total(Mine(v))' = Total(Mine(v))
      BY <2>3
    <3>2. wallet'[v] = wallet[v]
      BY <2>3 DEF IInv, TypeOK
    <3> QED
      BY <2>1, <3>1, <3>2
  <2> QED
    BY <2>2, <2>3
<1>5. LedgerExplainsBalance'
  BY <1>4, BalanceIsTotalNext
<1> QED
  BY <1>5 DEF LInv

LEMMA FinishPosts ==
    ASSUME IInv, LInv, NEW s \in Sessions, Open(s), NEW energy \in Nat, NEW failed \in BOOLEAN,
           NEW row, Continues(row, session[s]), Finish(s, row, energy, failed)
    PROVE  LInv'
<1> DEFINE u == OwnerOf[s]
           cost == IF failed THEN 0 ELSE CappedCost(energy, row.reserved)
           debit == Entry("CHARGING_DEBIT", s, u, -cost)
           release == Entry("RESERVATION_RELEASE", s, u, row.reserved)
<1>1. u \in Users /\ row.reserved \in Nat /\ cost \in Nat /\ wallet[u] \in Nat
  <2>1. row.reserved \in Nat /\ u \in Users
    BY EngineAssumption DEF Continues, Running, SessionRow
  <2>2. CappedCost(energy, row.reserved) \in Nat
    BY <2>1, CostIsCapped
  <2> QED
    BY <2>1, <2>2 DEF IInv, TypeOK
<1>2. ~Posted("CHARGING_DEBIT", s)
  BY DEF IInv, DebitIsFinal, Open
<1> HIDE DEF cost
<1>3. /\ wallet' = [wallet EXCEPT ![u] = IF cost > 0 THEN wallet[u] - cost ELSE wallet[u]]
      /\ ledger' = ledger \cup (IF cost > 0 THEN {debit} ELSE {}) \cup {release}
  BY <1>2 DEF Finish, cost
<1>4. debit.amount = -cost /\ release.amount = row.reserved
  BY DEF Entry
<1>5. LedgerOK'
  <2>1. IsFiniteSet(ledger \cup (IF cost > 0 THEN {debit} ELSE {}))
    BY FS_AddElement DEF LInv, LedgerOK
  <2>2. IsFiniteSet(ledger')
    BY <1>3, <2>1, FS_AddElement
  <2> HIDE DEF debit, release
  <2>3. \A e \in ledger' : e.amount \in Int
    BY <1>1, <1>3, <1>4 DEF LInv, LedgerOK
  <2> QED
    BY <2>2, <2>3 DEF LedgerOK
<1>6. CASE cost > 0
  <2>1. wallet' = [wallet EXCEPT ![u] = wallet[u] + (-cost)] /\ -cost \in Int
    <3>1. wallet[u] - cost = wallet[u] + (-cost) /\ -cost \in Int
      BY <1>1
    <3> QED
      BY <1>3, <1>6, <3>1
  <2>2. \A v \in Users : Mine(v)' = IF v = u THEN Mine(u) \cup {debit} ELSE Mine(v)
    BY <1>3, <1>6 DEF Mine, Entry
  <2> QED
    BY <1>1, <1>2, <1>5, <2>1, <2>2, PostsOne
<1>7. CASE ~(cost > 0)
  <2>1. UNCHANGED wallet
    BY <1>3, <1>7 DEF IInv, TypeOK
  <2>2. \A v \in Users : Mine(v)' = Mine(v)
    BY <1>3, <1>7 DEF Mine, Entry
  <2> QED
    BY <1>5, <2>1, <2>2, PostsNoMoney
<1> QED
  BY <1>6, <1>7

LEMMA PostExternalPosts ==
    ASSUME IInv, LInv, NEW u \in Users, NEW p \in Postings, NEW amount \in Int,
           PostExternal(u, p, amount)
    PROVE  LInv'
<1> DEFINE a == Entry("EXTERNAL", p, u, amount)
<1>1. /\ ~Posted("EXTERNAL", p) /\ wallet' = [wallet EXCEPT ![u] = wallet[u] + amount]
      /\ ledger' = ledger \cup {a} /\ a.amount = amount
  BY DEF PostExternal, Entry
<1>2. \A v \in Users : Mine(v)' = IF v = u THEN Mine(u) \cup {a} ELSE Mine(v)
  BY <1>1 DEF Mine, Entry
<1> HIDE DEF a
<1>3. LedgerOK'
  BY <1>1, FS_AddElement DEF LInv, LedgerOK
<1> USE DEF a
<1> QED
  BY <1>1, <1>2, <1>3, PostsOne

LEMMA StartPosts ==
    ASSUME IInv, LInv, NEW s \in Sessions, NEW b \in Bays, Start(s, b)
    PROVE  LInv'
<1> DEFINE u == OwnerOf[s]
           a == Entry("RESERVATION", s, u, -(wallet[u] - Held(u)))
<1>1. ledger' = ledger \cup {a} /\ UNCHANGED wallet
  BY DEF Start
<1>2. a.amount \in Int
  <2>1. u \in Users
    BY EngineAssumption
  <2>2. wallet[u] \in Int /\ Held(u) \in Int
    BY <2>1, HeldIsCovered DEF IInv, TypeOK
  <2> QED
    BY <2>2 DEF Entry
<1>3. \A v \in Users : Mine(v)' = Mine(v)
  BY <1>1 DEF Mine, Entry
<1> HIDE DEF a
<1>4. LedgerOK'
  BY <1>1, <1>2, FS_AddElement DEF LInv, LedgerOK
<1> QED
  BY <1>1, <1>3, <1>4, PostsNoMoney

-----------------------------------------------------------------------------
(* Every step *)

LEMMA InitIsExplained == Init => LInv
<1> SUFFICES ASSUME Init PROVE LInv
  OBVIOUS
<1>1. LedgerOK
  BY FS_EmptySet DEF Init, LedgerOK
<1>2. \A u \in Users : Mine(u) = {}
  BY DEF Init, Mine
<1>3. \A u \in Users : wallet[u] = OpeningCredit + Total(Mine(u))
  <2>1. \A u \in Users : wallet[u] = OpeningCredit + 0
    BY EngineAssumption DEF Init
  <2> QED
    BY <1>2, <2>1, TotalOfNone
<1>4. LedgerExplainsBalance
  BY <1>3, BalanceIsTotal
<1> QED
  BY <1>1, <1>4 DEF LInv

LEMMA StepIsExplained == IInv /\ LInv /\ [Next]_vars => LInv'
<1> SUFFICES ASSUME IInv, LInv, [Next]_vars PROVE LInv'
  OBVIOUS
<1>1. CASE UNCHANGED <<wallet, ledger>>
  <2>1. LedgerOK' /\ \A u \in Users : Mine(u)' = Mine(u)
    BY <1>1 DEF LInv, LedgerOK, Mine
  <2> QED
    BY <1>1, <2>1, PostsNoMoney
<1>2. CASE Request
  BY <1>1, <1>2, StartPosts DEF Request, StopRequest, Reconcile
<1>3. ASSUME NEW s \in Sessions, StartRefused(s) PROVE LInv'
  <2> DEFINE row == [session[s] EXCEPT !.reason = "SAFETY_FAULT"]
  <2>1. Open(s) /\ Finish(s, row, 0, TRUE)
    BY <1>3 DEF StartRefused, Answerable
  <2>2. Continues(row, session[s])
    BY <2>1, OpenIsRunning DEF Continues, Running, SessionRow, Reasons
  <2> HIDE DEF row
  <2> QED
    BY <2>1, <2>2, FinishPosts
<1>4. CASE Acknowledge
  BY <1>1, <1>3, <1>4 DEF Acknowledge, StartAccepted, StartUnclear, StopAnswered
<1>5. CASE Telemetry
  <2>1. PICK s \in Sessions :
            \/ \E named, relay, unsafe, started \in BOOLEAN :
                   StrayReading(s, named, relay, unsafe, started)
            \/ \E energy \in Readings, at \in 1..MaxAt :
                   \/ \E final, surge, unsafe \in BOOLEAN :
                          ImplausibleReading(s, energy, at, final, surge, unsafe)
                   \/ \E relay, final \in BOOLEAN, trouble \in Troubles :
                          RunningReading(s, energy, at, relay, final, trouble)
                   \/ \E trouble \in Troubles : FinalReading(s, energy, at, trouble)
    BY <1>5 DEF Telemetry
  <2>2. ASSUME NEW energy \in Readings, NEW at \in 1..MaxAt, NEW trouble \in Troubles,
               FinalReading(s, energy, at, trouble)
        PROVE  LInv'
    <3>1. energy \in Nat /\ at \in Nat
      BY EngineAssumption
    <3>2. Open(s) /\ Finish(s, Judged(s, energy, at, trouble), energy, FALSE)
      BY <2>2 DEF FinalReading
    <3>3. Continues(Judged(s, energy, at, trouble), session[s])
      BY <3>1, <3>2, OpenIsRunning, JudgedContinues
    <3> QED
      BY <3>1, <3>2, <3>3, FinishPosts
  <2> QED
    BY <1>1, <2>1, <2>2 DEF StrayReading, ImplausibleReading, RunningReading
<1>6. CASE Outside
  <2>1. CASE \E b \in Bays : ResolveFault(b)
    BY <1>1, <2>1 DEF ResolveFault
  <2>2. ASSUME NEW u \in Users, NEW p \in Postings, NEW amount \in Amounts,
               PostExternal(u, p, amount) \/ PostExternal(u, p, -amount)
        PROVE  LInv'
    <3>1. amount \in Int /\ -amount \in Int
      BY EngineAssumption
    <3> QED
      BY <2>2, <3>1, PostExternalPosts
  <2> QED
    BY <1>6, <2>1, <2>2 DEF Outside
<1>7. CASE Handle \/ Dispatches \/ TimeOuts
  BY <1>1, <1>7 DEF Handle, HandleFault, IgnoredReading, EventStop, Dispatches, Dispatch,
                    TimeOuts, TimeOut
<1>8. CASE SweepLists \/ SweepRows \/ Restart
  BY <1>1, <1>8 DEF SweepLists, SweepDevices, SweepWaiting, SweepActive, Listed, SweepRows,
                    SweepDevice, SweepSession, SweepOverdue, SweepStop, Restart
<1>9. CASE Ingress \/ Clock
  BY <1>1, <1>9 DEF Ingress, Report, Heartbeat, LastWill, Clock, Expire, SessionQuiet,
                    Overtime, DeviceQuiet
<1>10. CASE UNCHANGED vars
  BY <1>1, <1>10 DEF vars
<1> QED
  BY <1>2, <1>4, <1>5, <1>6, <1>7, <1>8, <1>9, <1>10 DEF Next

-----------------------------------------------------------------------------
(* Theorem *)

\* No interleaving of settlements, refusals, top-ups and reversals loses a posting
\* or makes one twice: each balance is the opening credit and its own entries.
THEOREM LedgerIsTheBalance == Spec => []LedgerExplainsBalance
<1>1. Init => LInv
  BY InitIsExplained
<1>2. IInv /\ LInv /\ [Next]_vars => LInv'
  BY StepIsExplained
<1>3. LInv => LedgerExplainsBalance
  BY DEF LInv
<1> QED
  BY <1>1, <1>2, <1>3, Invariance, PTL DEF Spec

=============================================================================
