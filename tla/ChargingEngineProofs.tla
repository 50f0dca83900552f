------------------------ MODULE ChargingEngineProofs ------------------------
(***************************************************************************)
(* Proofs about ChargingEngine for any number of users, bays, sessions and  *)
(* commands and any tariff: the rows keep their shape, credit is on hold    *)
(* exactly while a session is open, a user and a bay have one open session, *)
(* a wallet covers its holds, and the engine keeps the promise CreditHold.  *)
(*                                                                         *)
(* IInv is the inductive invariant.  Nearly every action either leaves the  *)
(* sessions alone (LEMMA Apart) or rewrites one open session's row without  *)
(* closing it (LEMMA Rewrite); Start, Finish and PostExternal move credit.  *)
(***************************************************************************)
EXTENDS ChargingEngine, TLAPS

OpenStatuses == {"START_PENDING", "CHARGING", "STOP_PENDING", "INTERRUPTED"}

Running(row) ==
    row \in SessionRow /\ row.status \in OpenStatuses /\ row.bay \in Bays /\ ~row.completed

\* The row after a step that neither closes the session nor moves it.
Continues(row, before) ==
    Running(row) /\ row.bay = before.bay /\ row.reserved = before.reserved

ControlOK ==
    /\ command \in [Sessions -> [CommandIds -> CommandRow]]
    /\ bay \in [Bays -> BayStatuses]
    /\ fault \subseteq Bays
    /\ device \in [Devices -> {"ONLINE", "QUIET", "OFFLINE"}]

OpenRuns == \A s \in Sessions : Open(s) => Running(session[s])

UnusedIsClean ==
    \A s \in Sessions : session[s].status = "NONE" => session[s] = Unused /\ hold[s] = "NONE"

DebitIsFinal == \A s \in Sessions : Posted("CHARGING_DEBIT", s) => session[s].completed

Covered == \A s \in Sessions : Open(s) => session[s].reserved <= wallet[OwnerOf[s]]

IInv ==
    /\ TypeOK
    /\ HoldWhileOpen
    /\ OneOpenSession
    /\ OpenRuns
    /\ UnusedIsClean
    /\ DebitIsFinal
    /\ Covered

-----------------------------------------------------------------------------
(* Money *)

\* Nothing is held over no session, and over one session what it reserved.
LEMMA HeldOverNone == HeldOver({}) = 0
<1> DEFINE h == [R \in SUBSET {} |-> 0]
           B(g) == [R \in SUBSET {} |->
                       IF R = {} THEN 0
                       ELSE session[CHOOSE x \in R : TRUE].reserved + g[R \ {CHOOSE x \in R : TRUE}]]
<1>1. h = B(h)
  OBVIOUS
<1>2. QED
  BY <1>1 DEF HeldOver, MapThenSumSet, MapThenFoldSet

LEMMA HeldOverOne ==
    ASSUME NEW a, session[a].reserved \in Int
    PROVE  HeldOver({a}) = session[a].reserved
<1> DEFINE v == session[a].reserved
           h == [R \in SUBSET {a} |-> IF R = {} THEN 0 ELSE v]
           B(g) == [R \in SUBSET {a} |->
                       IF R = {} THEN 0
                       ELSE LET x == CHOOSE x \in R : TRUE
                            IN  session[x].reserved + g[R \ {x}]]
<1>1. h = B(h)
  <2>1. ASSUME NEW R \in SUBSET {a} PROVE h[R] = B(h)[R]
    <3>1. CASE R = {}
      BY <3>1
    <3>2. CASE R = {a}
      <4>1. (CHOOSE x \in R : TRUE) = a
        BY <3>2
      <4>2. R \ {a} = {}
        BY <3>2
      <4> QED
        BY <3>2, <4>1, <4>2
    <3> QED
      BY <3>1, <3>2
  <2> QED
    BY <2>1
<1>2. \A g : g = B(g) => g[{a}] = session[a].reserved
  <2> SUFFICES ASSUME NEW g, g = B(g) PROVE g[{a}] = session[a].reserved
    OBVIOUS
  <2>1. g[{}] = 0
    OBVIOUS
  <2>2. (CHOOSE x \in {a} : TRUE) = a
    OBVIOUS
  <2>3. {a} \ {a} = {}
    OBVIOUS
  <2> QED
    BY <2>1, <2>2, <2>3
<1>3. QED
  BY <1>1, <1>2 DEF HeldOver, MapThenSumSet, MapThenFoldSet

\* A wallet has at most one hold: none, or that of its owner's open session.
LEMMA OneHold ==
    ASSUME IInv, NEW u \in Users
    PROVE  \/ HeldSessions(u) = {}
           \/ \E s \in Sessions : Open(s) /\ OwnerOf[s] = u /\ HeldSessions(u) = {s}
BY DEF IInv, HoldWhileOpen, OneOpenSession, HeldSessions

LEMMA HeldIsCovered ==
    ASSUME IInv, NEW u \in Users
    PROVE  Held(u) \in Nat /\ Held(u) <= wallet[u]
<1>1. CASE HeldSessions(u) = {}
  BY <1>1, HeldOverNone DEF Held, IInv, TypeOK
<1>2. CASE \E s \in Sessions : Open(s) /\ OwnerOf[s] = u /\ HeldSessions(u) = {s}
  <2>1. PICK s \in Sessions : Open(s) /\ OwnerOf[s] = u /\ HeldSessions(u) = {s}
    BY <1>2
  <2>2. session[s].reserved \in Nat
    BY <2>1 DEF IInv, OpenRuns, Running, SessionRow
  <2>3. HeldOver({s}) = session[s].reserved
    BY <2>2, HeldOverOne
  <2>4. Held(u) = session[s].reserved
    BY <2>1, <2>3 DEF Held
  <2> QED
    BY <2>1, <2>2, <2>4 DEF IInv, Covered
<1> QED
  BY <1>1, <1>2, OneHold

LEMMA CostIsNat == ASSUME NEW energy \in Nat PROVE CostOf(energy) \in Nat
<1>1. energy * Tariff \in Nat
  BY EngineAssumption
<1>2. energy * Tariff + Unit - 1 \in Nat
  BY <1>1, EngineAssumption
<1> QED
  BY <1>2, EngineAssumption DEF CostOf

\* The cap: what a session is charged never exceeds what it reserved.
LEMMA CostIsCapped ==
    ASSUME NEW energy \in Nat, NEW reserved \in Nat
    PROVE  CappedCost(energy, reserved) \in Nat /\ CappedCost(energy, reserved) <= reserved
BY CostIsNat DEF CappedCost

-----------------------------------------------------------------------------
(* Rows *)

\* From every open status a session may stop, be interrupted or stay.
LEMMA OpenTransitions ==
    ASSUME NEW from \in OpenStatuses
    PROVE  /\ Transition(from, "STOP_PENDING") = "STOP_PENDING"
           /\ Transition(from, "INTERRUPTED") = "INTERRUPTED"
           /\ from = "START_PENDING" => Transition(from, "CHARGING") = "CHARGING"
           /\ from = "START_PENDING" => Transition(from, "FAILED") = "FAILED"
           /\ from \in {"STOP_PENDING", "INTERRUPTED"} =>
                  Transition(from, "COMPLETED") = "COMPLETED"
BY DEF Transition, Allowed, OpenStatuses, Statuses

LEMMA StopRowContinues ==
    ASSUME NEW s, NEW row, NEW before, Continues(row, before), NEW reason \in Reasons
    PROVE  Continues(StopRow(s, row, reason), before)
<1>1. row.status \in OpenStatuses
  BY DEF Continues, Running
<1>2. Transition(row.status, "STOP_PENDING") = "STOP_PENDING"
  BY <1>1, OpenTransitions
<1>3. (IF row.reason = "none" THEN reason ELSE row.reason) \in Reasons \cup {"none"}
  BY DEF Continues, Running, SessionRow
<1>4. ASSUME NEW r \in Reasons \cup {"none"}
      PROVE  Continues([row EXCEPT !.status = "STOP_PENDING", !.reason = r,
                                   !.quiet = FALSE, !.overtime = FALSE], before)
  BY DEF Continues, Running, SessionRow, OpenStatuses, Statuses
<1> QED
  BY <1>2, <1>3, <1>4 DEF StopRow

LEMMA InterruptedContinues ==
    ASSUME NEW s, Running(session[s]), NEW reason \in Reasons
    PROVE  Continues(Interrupted(s, reason), session[s])
<1> DEFINE row == StopRow(s, session[s], reason)
<1>1. Continues(row, session[s])
  BY StopRowContinues DEF Continues
<1>2. Transition(row.status, "INTERRUPTED") = "INTERRUPTED"
  BY <1>1, OpenTransitions DEF Continues, Running
<1> HIDE DEF row
<1>3. Continues([row EXCEPT !.status = "INTERRUPTED", !.recon = TRUE], session[s])
  BY <1>1 DEF Continues, Running, SessionRow, OpenStatuses, Statuses
<1> USE DEF row
<1> QED
  BY <1>2, <1>3 DEF Interrupted

LEMMA MeteredContinues ==
    ASSUME NEW s, Running(session[s]), NEW energy \in Nat, NEW at \in Nat
    PROVE  Continues(Metered(s, energy, at), session[s])
<1>1. session[s].reserved \in Nat
  BY DEF Running, SessionRow
<1>2. CappedCost(energy, session[s].reserved) \in Nat
  BY <1>1, CostIsCapped
<1> QED
  BY <1>2 DEF Metered, Continues, Running, SessionRow, OpenStatuses

LEMMA JudgedContinues ==
    ASSUME NEW s, Running(session[s]), NEW energy \in Nat, NEW at \in Nat, NEW trouble
    PROVE  Continues(Judged(s, energy, at, trouble), session[s])
<1>1. StopCause(s, energy, trouble) \in Reasons \cup {"none"}
  BY DEF StopCause, Reasons
<1>2. Continues(Metered(s, energy, at), session[s])
  BY MeteredContinues
<1>3. CASE StopCause(s, energy, trouble) = "none"
  BY <1>2, <1>3 DEF Judged
<1>4. CASE StopCause(s, energy, trouble) # "none"
  BY <1>1, <1>2, <1>4, StopRowContinues DEF Judged
<1> QED
  BY <1>3, <1>4

\* Where a session that is settled ends up; no refused transition on the way.
LEMMA OutcomeIsFinal ==
    ASSUME NEW row, Running(row), NEW failed \in BOOLEAN,
           failed => row.status = "START_PENDING"
    PROVE  Outcome(row, failed) \in {"COMPLETED", "FAILED", "INTERRUPTED"}
BY OpenTransitions DEF Outcome, Running, OpenStatuses

-----------------------------------------------------------------------------
(* The two shapes of a step that moves no credit *)

\* A step that touches neither sessions nor credit.
LEMMA Apart ==
    ASSUME IInv, UNCHANGED <<session, hold, wallet, ledger>>, ControlOK'
    PROVE  IInv' /\ UNCHANGED Promise!vars
<1>1. TypeOK'
  BY DEF IInv, TypeOK, ControlOK
<1>2. \A s : Open(s)' <=> Open(s)
  BY DEF Open
<1>3. (HoldWhileOpen /\ OneOpenSession /\ OpenRuns /\ UnusedIsClean /\ DebitIsFinal /\ Covered)'
  BY <1>2 DEF IInv, HoldWhileOpen, OneOpenSession, OpenRuns, UnusedIsClean, DebitIsFinal,
              Covered, Posted
<1>4. UNCHANGED Promise!vars
  BY DEF Promise!vars
<1> QED
  BY <1>1, <1>3, <1>4 DEF IInv

\* A step that rewrites the row of one open session, which stays open.
LEMMA Rewrite ==
    ASSUME IInv, NEW s \in Sessions, Open(s), NEW row, Continues(row, session[s]),
           session' = [session EXCEPT ![s] = row],
           UNCHANGED <<hold, wallet, ledger>>, ControlOK'
    PROVE  IInv' /\ UNCHANGED Promise!vars
<1>1. /\ session \in [Sessions -> SessionRow]
      /\ session' \in [Sessions -> SessionRow]
  BY DEF IInv, TypeOK, Continues, Running
<1>2. TypeOK'
  BY <1>1 DEF IInv, TypeOK, ControlOK
<1>3. /\ session'[s] = row
      /\ \A t \in Sessions \ {s} : session'[t] = session[t]
  BY <1>1
<1>4. /\ row.status \in OpenStatuses /\ ~row.completed
      /\ session[s].status # "NONE" /\ ~session[s].completed
  BY DEF Continues, Running, Open
<1>5. \A t \in Sessions : /\ Open(t)' <=> Open(t)
                          /\ session'[t].bay = session[t].bay
                          /\ session'[t].reserved = session[t].reserved
                          /\ session'[t].completed = session[t].completed
                          /\ session'[t].status = "NONE" => session'[t] = session[t]
                          /\ session'[t].completed => session'[t] = session[t]
  <2>1. ASSUME NEW t \in Sessions, t # s
        PROVE  session'[t] = session[t] /\ (Open(t)' <=> Open(t))
    BY <1>3, <2>1 DEF Open
  <2>2. /\ Open(s)'
        /\ session'[s].bay = session[s].bay
        /\ session'[s].reserved = session[s].reserved
        /\ session'[s].completed = FALSE /\ session[s].completed = FALSE
        /\ session'[s].status # "NONE"
    BY <1>1, <1>3, <1>4 DEF Open, OpenStatuses, Continues, SessionRow
  <2> QED
    BY <2>1, <2>2
<1>6. (HoldWhileOpen /\ OneOpenSession /\ UnusedIsClean /\ DebitIsFinal /\ Covered)'
  BY <1>5 DEF IInv, HoldWhileOpen, OneOpenSession, UnusedIsClean, DebitIsFinal, Covered, Posted
<1>7. OpenRuns'
  BY <1>3, <1>5 DEF IInv, OpenRuns, Continues, Running
<1>8. UNCHANGED Promise!vars
  BY <1>5 DEF Promise!vars
<1> QED
  BY <1>2, <1>6, <1>7, <1>8 DEF IInv

-----------------------------------------------------------------------------
(* What the parts of a step do to commands and bays *)

LEMMA IssuedTyping == Issued \in CommandRow
BY DEF Issued, CommandRow

LEMMA StopCommandTyping ==
    ASSUME NEW s, NEW commands \in [CommandIds -> CommandRow]
    PROVE  StopCommand(s, commands) \in [CommandIds -> CommandRow]
BY IssuedTyping DEF StopCommand

LEMMA StopBayTyping ==
    ASSUME NEW s, NEW status \in BayStatuses
    PROVE  StopBay(s, status) \in BayStatuses
BY DEF StopBay, BayStatuses

LEMMA AnswerTyping ==
    ASSUME NEW commands \in [CommandIds -> CommandRow], NEW k \in CommandIds,
           NEW accepted \in BOOLEAN
    PROVE  Answer(commands, k, accepted) \in [CommandIds -> CommandRow]
BY DEF Answer, CommandRow

\* What is known of an open session.
LEMMA OpenIsRunning ==
    ASSUME IInv, NEW s \in Sessions, Open(s)
    PROVE  /\ Running(session[s]) /\ session[s].bay \in Bays /\ session[s].status \in OpenStatuses
           /\ session[s].reserved \in Nat /\ session[s].energy \in Nat
           /\ command[s] \in [CommandIds -> CommandRow]
           /\ bay[session[s].bay] \in BayStatuses
<1>1. Running(session[s]) /\ command[s] \in [CommandIds -> CommandRow]
  BY DEF IInv, OpenRuns, TypeOK
<1>2. session[s].bay \in Bays
  BY <1>1 DEF Running
<1> QED
  BY <1>1, <1>2 DEF IInv, TypeOK, Running, SessionRow

\* queueStop() for an open session, by whomever.
LEMMA QueueStopStep ==
    ASSUME IInv, NEW s \in Sessions, Open(s), NEW reason \in Reasons, QueueStop(s, reason),
           UNCHANGED <<hold, wallet, ledger, fault, device>>
    PROVE  IInv' /\ UNCHANGED Promise!vars
<1>1. Continues(StopRow(s, session[s], reason), session[s])
  BY OpenIsRunning, StopRowContinues DEF Continues
<1>2. session' = [session EXCEPT ![s] = StopRow(s, session[s], reason)]
  BY DEF QueueStop
<1>3. StopCommand(s, command[s]) \in [CommandIds -> CommandRow]
  BY OpenIsRunning, StopCommandTyping
<1>4. StopBay(s, bay[session[s].bay]) \in BayStatuses
  BY OpenIsRunning, StopBayTyping
<1>5. ControlOK'
  BY <1>3, <1>4, OpenIsRunning DEF QueueStop, IInv, TypeOK, ControlOK
<1> QED
  BY <1>1, <1>2, <1>5, Rewrite

-----------------------------------------------------------------------------
(* The steps that move credit *)

LEMMA StartStep ==
    ASSUME IInv, NEW s \in Sessions, NEW b \in Bays, Start(s, b)
    PROVE  IInv' /\ Promise!Reserve(s)
<1> DEFINE u == OwnerOf[s]
           row == [Unused EXCEPT !.status = "START_PENDING", !.bay = b, !.reserved = wallet[u]]
<1>1. u \in Users /\ wallet[u] \in Nat
  BY EngineAssumption DEF IInv, TypeOK
<1>2. /\ \A t \in Sessions : Open(t) => OwnerOf[t] # u /\ session[t].bay # b
      /\ session[s].status = "NONE" /\ session[s] = Unused /\ hold[s] = "NONE"
  BY DEF Start, Startable, OpenOn, IInv, UnusedIsClean
<1>3. wallet[u] - Held(u) = wallet[u]
  <2>1. HeldSessions(u) = {}
    BY <1>2 DEF HeldSessions, IInv, HoldWhileOpen
  <2>2. Held(u) = 0
    BY <2>1, HeldOverNone DEF Held
  <2> QED
    BY <1>1, <2>2
<1>4. /\ wallet[u] > 0
      /\ session' = [session EXCEPT ![s] = row]
      /\ hold' = [hold EXCEPT ![s] = "HELD"]
      /\ ledger' = ledger \cup {Entry("RESERVATION", s, u, -wallet[u])}
      /\ command' = [command EXCEPT ![s][0] = Issued]
      /\ bay' = [bay EXCEPT ![b] = "STARTING"]
      /\ UNCHANGED <<wallet, fault, device>>
  BY <1>3 DEF Start
<1>5. /\ Running(row) /\ row \in SessionRow /\ row.bay = b /\ row.reserved = wallet[u]
      /\ row.status = "START_PENDING" /\ row.completed = FALSE
  BY <1>1 DEF Running, Unused, SessionRow, OpenStatuses, Statuses
<1> HIDE DEF row
<1>6. /\ session'[s] = row /\ hold'[s] = "HELD"
      /\ \A t \in Sessions \ {s} : session'[t] = session[t] /\ hold'[t] = hold[t]
  BY <1>4 DEF IInv, TypeOK
<1>7. /\ Open(s)'
      /\ ~Open(s)
      /\ \A t \in Sessions \ {s} : Open(t)' <=> Open(t)
  BY <1>2, <1>5, <1>6 DEF Open
<1>8. TypeOK'
  <2>1. session' \in [Sessions -> SessionRow]
    BY <1>4, <1>5 DEF IInv, TypeOK
  <2>2. command' \in [Sessions -> [CommandIds -> CommandRow]]
    <3>1. [command[s] EXCEPT ![0] = Issued] \in [CommandIds -> CommandRow]
      BY IssuedTyping DEF IInv, TypeOK
    <3> QED
      BY <1>4, <3>1 DEF IInv, TypeOK
  <2>3. bay' \in [Bays -> BayStatuses]
    BY <1>4 DEF IInv, TypeOK, BayStatuses
  <2> QED
    BY <1>4, <2>1, <2>2, <2>3 DEF IInv, TypeOK
<1>9. HoldWhileOpen'
  BY <1>6, <1>7 DEF IInv, HoldWhileOpen
<1>10. OneOpenSession'
  BY <1>2, <1>5, <1>6, <1>7 DEF IInv, OneOpenSession
<1>11. OpenRuns' /\ UnusedIsClean'
  BY <1>5, <1>6, <1>7 DEF IInv, OpenRuns, UnusedIsClean, Running
<1>12. DebitIsFinal'
  <2>1. \A t \in Sessions : Posted("CHARGING_DEBIT", t)' => Posted("CHARGING_DEBIT", t)
    BY <1>4 DEF Posted, Entry
  <2>2. session[s].completed = FALSE
    BY <1>2 DEF Unused
  <2> QED
    BY <1>6, <2>1, <2>2 DEF IInv, DebitIsFinal
<1>13. Covered'
  BY <1>4, <1>5, <1>6, <1>7, <1>1 DEF IInv, Covered
<1>14. Promise!Reserve(s)
  <2> DEFINE phase == [t \in Sessions |-> CASE hold[t] = "NONE" -> "none"
                                            [] hold[t] = "HELD" -> "open"
                                            [] OTHER            -> "closed"]
             amount == [t \in Sessions |-> session[t].reserved]
             charged == [t \in Sessions |-> IF session[t].completed THEN session[t].cost ELSE 0]
  <2>1. phase[s] = "none" /\ phase'[s] = "open"
    BY <1>2, <1>6
  <2>2. phase' = [phase EXCEPT ![s] = "open"]
    BY <1>6
  <2>3. amount' = [amount EXCEPT ![s] = wallet[u]]
    BY <1>5, <1>6
  <2>4. charged' = charged
    BY <1>2, <1>5, <1>6 DEF Unused
  <2>5. {t \in Sessions : phase[t] = "open" /\ OwnerOf[t] = u} = {}
    BY <1>2 DEF IInv, HoldWhileOpen
  <2> QED
    BY <1>4, <2>1, <2>2, <2>3, <2>4, <2>5 DEF Promise!Reserve, Promise!OpenOf
<1> QED
  BY <1>8, <1>9, <1>10, <1>11, <1>12, <1>13, <1>14 DEF IInv

LEMMA FinishStep ==
    ASSUME IInv, NEW s \in Sessions, Open(s), NEW row, Continues(row, session[s]),
           NEW energy \in Nat, NEW failed \in BOOLEAN,
           failed => row.status = "START_PENDING",
           Finish(s, row, energy, failed), ControlOK'
    PROVE  IInv' /\ Promise!Close(s)
<1> DEFINE u == OwnerOf[s]
           cost == IF failed THEN 0 ELSE CappedCost(energy, row.reserved)
           closed == IF failed THEN "RELEASED" ELSE "SETTLED"
           final == [row EXCEPT !.status = Outcome(row, failed), !.energy = energy,
                                !.cost = cost, !.completed = TRUE, !.recon = FALSE,
                                !.quiet = FALSE, !.overtime = FALSE,
                                !.reason = IF @ = "none" THEN "SAFETY_FAULT" ELSE @]
<1>1. u \in Users /\ wallet[u] \in Nat
  BY EngineAssumption DEF IInv, TypeOK
<1>2. row \in SessionRow /\ row.reserved = session[s].reserved /\ row.reserved \in Nat
  BY DEF Continues, Running, SessionRow
<1>3. cost \in Nat /\ cost <= session[s].reserved
  <2>1. CappedCost(energy, row.reserved) \in Nat /\ CappedCost(energy, row.reserved) <= row.reserved
    BY <1>2, CostIsCapped
  <2> QED
    BY <1>2, <2>1
<1>4. ~Posted("CHARGING_DEBIT", s)
  BY DEF IInv, DebitIsFinal, Open
<1>5. HeldOver(HeldSessions(u) \ {s}) = 0
  <2>1. HeldSessions(u) \ {s} = {}
    BY DEF HeldSessions, IInv, HoldWhileOpen, OneOpenSession
  <2> QED
    BY <2>1, HeldOverNone
<1> HIDE DEF cost
<1>6. /\ hold' = [hold EXCEPT ![s] = closed]
      /\ wallet[u] - (IF cost > 0 THEN cost ELSE 0) >= 0
      /\ wallet' = [wallet EXCEPT ![u] = IF cost > 0 THEN wallet[u] - cost ELSE wallet[u]]
      /\ ledger' = ledger
             \cup (IF cost > 0 THEN {Entry("CHARGING_DEBIT", s, u, -cost)} ELSE {})
             \cup {Entry("RESERVATION_RELEASE", s, u, row.reserved)}
      /\ session' = [session EXCEPT ![s] = final]
  BY <1>4, <1>5 DEF Finish, cost
<1>7. final \in SessionRow /\ final.completed = TRUE /\ final.status # "NONE"
      /\ final.reserved = session[s].reserved /\ final.cost = cost
  <2>1. Outcome(row, failed) \in {"COMPLETED", "FAILED", "INTERRUPTED"}
    BY OutcomeIsFinal DEF Continues
  <2> DEFINE reason == IF row.reason = "none" THEN "SAFETY_FAULT" ELSE row.reason
             f(st, r) == [row EXCEPT !.status = st, !.energy = energy, !.cost = cost,
                                     !.completed = TRUE, !.recon = FALSE, !.quiet = FALSE,
                                     !.overtime = FALSE, !.reason = r]
  <2>2. reason \in Reasons \cup {"none"}
    BY <1>2 DEF SessionRow, Reasons
  <2>3. ASSUME NEW st \in {"COMPLETED", "FAILED", "INTERRUPTED"},
               NEW r \in Reasons \cup {"none"}
        PROVE  /\ f(st, r) \in SessionRow /\ f(st, r).completed = TRUE
               /\ f(st, r).status # "NONE"
               /\ f(st, r).reserved = row.reserved /\ f(st, r).cost = cost
    BY <1>2, <1>3 DEF SessionRow, Statuses
  <2>4. final = f(Outcome(row, failed), reason)
    OBVIOUS
  <2> HIDE DEF final, f, reason
  <2> QED
    BY <1>2, <2>1, <2>2, <2>3, <2>4
<1> HIDE DEF final
<1>8. /\ session'[s] = final /\ hold'[s] = closed
      /\ \A t \in Sessions \ {s} : session'[t] = session[t] /\ hold'[t] = hold[t]
  BY <1>6 DEF IInv, TypeOK
<1>9. /\ ~Open(s)'
      /\ \A t \in Sessions \ {s} : Open(t)' <=> Open(t)
  BY <1>7, <1>8 DEF Open
<1>10. (IF cost > 0 THEN wallet[u] - cost ELSE wallet[u]) = wallet[u] - cost
  BY <1>1, <1>3
<1>11. wallet[u] - cost \in Nat
  BY <1>1, <1>3, <1>6
<1>12. /\ wallet' \in [Users -> Nat]
       /\ wallet' = [wallet EXCEPT ![u] = wallet[u] - cost]
       /\ \A v \in Users \ {u} : wallet'[v] = wallet[v]
  BY <1>6, <1>10, <1>11 DEF IInv, TypeOK
<1>13. TypeOK'
  BY <1>6, <1>7, <1>12 DEF IInv, TypeOK, ControlOK
<1>14. HoldWhileOpen'
  BY <1>8, <1>9 DEF IInv, HoldWhileOpen
<1>15. OneOpenSession'
  BY <1>8, <1>9 DEF IInv, OneOpenSession
<1>16. OpenRuns' /\ UnusedIsClean'
  BY <1>7, <1>8, <1>9 DEF IInv, OpenRuns, UnusedIsClean, Running
<1>17. DebitIsFinal'
  <2>1. \A t \in Sessions \ {s} :
            Posted("CHARGING_DEBIT", t)' => Posted("CHARGING_DEBIT", t)
    BY <1>6 DEF Posted, Entry
  <2> QED
    BY <1>7, <1>8, <2>1 DEF IInv, DebitIsFinal
<1>18. Covered'
  <2>1. ASSUME NEW t \in Sessions, Open(t)'
        PROVE  session'[t].reserved <= wallet'[OwnerOf[t]]
    <3>1. t # s /\ Open(t) /\ session'[t] = session[t]
      BY <1>8, <1>9, <2>1
    <3>2. OwnerOf[t] # u /\ OwnerOf[t] \in Users
      BY <3>1, EngineAssumption DEF IInv, OneOpenSession
    <3> QED
      BY <1>12, <3>1, <3>2 DEF IInv, Covered
  <2> QED
    BY <2>1 DEF Covered
<1>19. Promise!Close(s)
  <2> DEFINE phase == [t \in Sessions |-> CASE hold[t] = "NONE" -> "none"
                                            [] hold[t] = "HELD" -> "open"
                                            [] OTHER            -> "closed"]
             amount == [t \in Sessions |-> session[t].reserved]
             charged == [t \in Sessions |-> IF session[t].completed THEN session[t].cost ELSE 0]
  <2>1. phase[s] = "open" /\ phase'[s] = "closed"
    BY <1>8 DEF IInv, HoldWhileOpen
  <2>2. phase' = [phase EXCEPT ![s] = "closed"]
    BY <1>8
  <2>3. amount' = amount
    BY <1>7, <1>8
  <2>4. charged' = [charged EXCEPT ![s] = cost]
    BY <1>7, <1>8
  <2>5. cost \in 0..amount[s]
    BY <1>2, <1>3
  <2> QED
    BY <1>12, <2>1, <2>2, <2>3, <2>4, <2>5 DEF Promise!Close
<1> QED
  BY <1>13, <1>14, <1>15, <1>16, <1>17, <1>18, <1>19 DEF IInv

LEMMA PostExternalStep ==
    ASSUME IInv, NEW u \in Users, NEW p \in Postings, NEW amount \in Int,
           PostExternal(u, p, amount)
    PROVE  IInv' /\ Promise!Post(u)
<1>1. Held(u) \in Nat /\ wallet[u] \in Nat
  BY HeldIsCovered DEF IInv, TypeOK
<1>2. /\ wallet' = [wallet EXCEPT ![u] = wallet[u] + amount]
      /\ wallet[u] + amount >= Held(u)
      /\ ledger' = ledger \cup {Entry("EXTERNAL", p, u, amount)}
      /\ UNCHANGED <<session, command, hold, bay, fault, device>>
  BY DEF PostExternal
<1>3. wallet'[u] = wallet[u] + amount /\ wallet' \in [Users -> Nat]
  BY <1>1, <1>2 DEF IInv, TypeOK
<1>4. \A s \in Sessions : Open(s)' <=> Open(s)
  BY <1>2 DEF Open
<1>5. \A s \in Sessions : Open(s) /\ OwnerOf[s] = u => session[s].reserved = Held(u)
  <2>1. ASSUME NEW s \in Sessions, Open(s), OwnerOf[s] = u
        PROVE  session[s].reserved = Held(u)
    <3>1. HeldSessions(u) = {s}
      BY <2>1 DEF HeldSessions, IInv, HoldWhileOpen, OneOpenSession
    <3>2. session[s].reserved \in Int
      BY <2>1, OpenIsRunning
    <3>3. HeldOver({s}) = session[s].reserved
      BY <3>2, HeldOverOne
    <3> QED
      BY <3>1, <3>3 DEF Held
  <2> QED
    BY <2>1
<1>6. TypeOK'
  BY <1>2, <1>3 DEF IInv, TypeOK
<1>7. (HoldWhileOpen /\ OneOpenSession /\ OpenRuns /\ UnusedIsClean)'
  BY <1>2, <1>4 DEF IInv, HoldWhileOpen, OneOpenSession, OpenRuns, UnusedIsClean
<1>8. DebitIsFinal'
  BY <1>2 DEF IInv, DebitIsFinal, Posted, Entry
<1>9. Covered'
  <2>1. ASSUME NEW s \in Sessions, Open(s) PROVE session[s].reserved <= wallet'[OwnerOf[s]]
    <3>1. CASE OwnerOf[s] = u
      BY <1>2, <1>3, <1>5, <2>1, <3>1
    <3>2. CASE OwnerOf[s] # u
      <4>1. wallet'[OwnerOf[s]] = wallet[OwnerOf[s]]
        BY <1>2, <3>2, EngineAssumption DEF IInv, TypeOK
      <4> QED
        BY <2>1, <4>1 DEF IInv, Covered
    <3> QED
      BY <3>1, <3>2
  <2> QED
    BY <1>2, <1>4, <2>1 DEF Covered
<1>10. Promise!Post(u)
  <2>1. \A s \in Sessions :
            (CASE hold[s] = "NONE" -> "none" [] hold[s] = "HELD" -> "open" [] OTHER -> "closed")
                = "open" => Open(s)
    BY DEF IInv, HoldWhileOpen
  <2>2. wallet'[u] >= Held(u)
    BY <1>1, <1>2, <1>3
  <2>3. \A s \in Promise!OpenOf(u) : wallet'[u] >= session[s].reserved
    BY <1>5, <2>1, <2>2 DEF Promise!OpenOf
  <2>4. \A s \in Promise!OpenOf(u) : s \in Sessions
    BY DEF Promise!OpenOf
  <2> QED
    BY <1>1, <1>2, <1>3, <2>3, <2>4 DEF Promise!Post
<1> QED
  BY <1>6, <1>7, <1>8, <1>9, <1>10 DEF IInv

-----------------------------------------------------------------------------
(* One lemma for each group of actions *)

Kept == IInv' /\ UNCHANGED Promise!vars

LEMMA RequestStep ==
    ASSUME IInv, NEW s \in Sessions, StopRequest(s) \/ Reconcile(s)
    PROVE  Kept
<1>1. CASE StopRequest(s)
  BY <1>1, QueueStopStep DEF StopRequest, Kept, Reasons
<1>2. CASE Reconcile(s)
  <2> DEFINE r == IF session[s].reason = "none" THEN "REQUESTED" ELSE session[s].reason
             row == [session[s] EXCEPT !.status = "STOP_PENDING", !.reason = r,
                                       !.quiet = FALSE, !.overtime = FALSE]
  <2>1. Open(s) /\ Running(session[s]) /\ session[s].bay \in Bays
    BY <1>2, OpenIsRunning DEF Reconcile
  <2>2. Transition(session[s].status, "STOP_PENDING") = "STOP_PENDING"
    BY <2>1, OpenTransitions DEF Running
  <2>3. r \in Reasons \cup {"none"}
    BY <2>1 DEF Running, SessionRow, Reasons
  <2>4. session' = [session EXCEPT ![s] = row]
    BY <1>2, <2>2 DEF Reconcile
  <2> HIDE DEF r
  <2>5. Continues(row, session[s])
    BY <2>1, <2>3 DEF Continues, Running, SessionRow, OpenStatuses, Statuses
  <2> HIDE DEF row
  <2>6. ControlOK'
    <3>1. PICK k : command' = [command EXCEPT ![s][k] = Issued]
      BY <1>2 DEF Reconcile
    <3>2. [command[s] EXCEPT ![k] = Issued] \in [CommandIds -> CommandRow]
      BY <2>1, OpenIsRunning, IssuedTyping
    <3>3. command' \in [Sessions -> [CommandIds -> CommandRow]]
      BY <3>1, <3>2 DEF IInv, TypeOK
    <3>4. bay' \in [Bays -> BayStatuses] /\ UNCHANGED <<fault, device>>
      BY <1>2 DEF Reconcile, IInv, TypeOK, BayStatuses
    <3> QED
      BY <3>3, <3>4 DEF ControlOK, IInv, TypeOK
  <2> QED
    BY <1>2, <2>1, <2>4, <2>5, <2>6, Rewrite DEF Reconcile, Kept
<1> QED
  BY <1>1, <1>2

LEMMA DispatchStep ==
    ASSUME IInv, NEW s \in Sessions, NEW k \in CommandIds, Dispatch(s, k) \/ Expire(s, k)
    PROVE  Kept
<1>1. command[s] \in [CommandIds -> CommandRow] /\ command[s][k] \in CommandRow
  BY DEF IInv, TypeOK
<1>2. PICK c \in CommandRow : command' = [command EXCEPT ![s][k] = c]
  <2>1. CASE Dispatch(s, k)
    <3>1. [command[s][k] EXCEPT !.sent = TRUE] \in CommandRow
      BY <1>1 DEF CommandRow
    <3> QED
      BY <2>1, <3>1 DEF Dispatch
  <2>2. CASE Expire(s, k)
    <3>1. command[s][k].age \in {0, 1}
      BY <2>2 DEF Expire
    <3>2. [command[s][k] EXCEPT !.age = @ + 1] \in CommandRow
      BY <1>1, <3>1 DEF CommandRow
    <3> QED
      BY <2>2, <3>2 DEF Expire
  <2> QED
    BY <2>1, <2>2
<1>3. [command[s] EXCEPT ![k] = c] \in [CommandIds -> CommandRow]
  BY <1>1
<1>4. command' \in [Sessions -> [CommandIds -> CommandRow]]
  BY <1>2, <1>3 DEF IInv, TypeOK
<1>5. UNCHANGED <<session, hold, wallet, ledger, bay, fault, device>>
  BY DEF Dispatch, Expire
<1> QED
  BY <1>4, <1>5, Apart DEF ControlOK, IInv, TypeOK, Kept

LEMMA AcknowledgeStep ==
    ASSUME IInv, NEW s \in Sessions,
           \/ StartAccepted(s)
           \/ \E accepted, relay, metered \in BOOLEAN : StartUnclear(s, accepted, relay, metered)
           \/ \E k \in CommandIds, accepted \in BOOLEAN : StopAnswered(s, k, accepted)
    PROVE  Kept
<1>0. 0 \in CommandIds
  BY EngineAssumption DEF CommandIds
<1>1. Open(s)
  BY DEF StartAccepted, StartUnclear, StopAnswered, Answerable
<1>2. /\ Running(session[s]) /\ session[s].bay \in Bays
      /\ command[s] \in [CommandIds -> CommandRow] /\ bay[session[s].bay] \in BayStatuses
  BY <1>1, OpenIsRunning
<1>3. CASE StartAccepted(s)
  <2> DEFINE row == [session[s] EXCEPT !.status = "CHARGING", !.quiet = FALSE]
  <2>1. session' = [session EXCEPT ![s] = row]
    <3>1. Transition(session[s].status, "CHARGING") = "CHARGING"
      BY <1>3 DEF StartAccepted, StartConfirmed, Transition, Allowed, Statuses
    <3> QED
      BY <1>3, <3>1 DEF StartAccepted
  <2>2. Continues(row, session[s])
    BY <1>2 DEF Continues, Running, SessionRow, OpenStatuses, Statuses
  <2> HIDE DEF row
  <2>3. ControlOK'
    <3>1. Answer(command[s], 0, TRUE) \in [CommandIds -> CommandRow]
      BY <1>0, <1>2, AnswerTyping
    <3> QED
      BY <1>3, <3>1 DEF StartAccepted, ControlOK, IInv, TypeOK, BayStatuses
  <2> QED
    BY <1>1, <1>3, <2>1, <2>2, <2>3, Rewrite DEF StartAccepted, Kept
<1>4. CASE \E accepted, relay, metered \in BOOLEAN : StartUnclear(s, accepted, relay, metered)
  <2>1. PICK accepted \in BOOLEAN, relay \in BOOLEAN, metered \in BOOLEAN :
            StartUnclear(s, accepted, relay, metered)
    BY <1>4
  <2>2. Continues(StopRow(s, session[s], "SAFETY_FAULT"), session[s])
    BY <1>2, StopRowContinues DEF Continues, Reasons
  <2>3. session' = [session EXCEPT ![s] = StopRow(s, session[s], "SAFETY_FAULT")]
    BY <2>1 DEF StartUnclear
  <2>4. ControlOK'
    <3>1. Answer(command[s], 0, accepted) \in [CommandIds -> CommandRow]
      BY <1>0, <1>2, AnswerTyping
    <3>2. StopCommand(s, Answer(command[s], 0, accepted)) \in [CommandIds -> CommandRow]
      BY <3>1, <1>2, StopCommandTyping
    <3>3. StopBay(s, bay[session[s].bay]) \in BayStatuses
      BY <1>2, StopBayTyping
    <3> QED
      BY <2>1, <3>2, <3>3 DEF StartUnclear, ControlOK, IInv, TypeOK
  <2> QED
    BY <1>1, <2>1, <2>2, <2>3, <2>4, Rewrite DEF StartUnclear, Kept
<1>5. CASE \E k \in CommandIds, accepted \in BOOLEAN : StopAnswered(s, k, accepted)
  <2>1. PICK k \in CommandIds, accepted \in BOOLEAN : StopAnswered(s, k, accepted)
    BY <1>5
  <2>2. ControlOK'
    <3>1. Answer(command[s], k, accepted) \in [CommandIds -> CommandRow]
      BY <1>2, AnswerTyping
    <3> QED
      BY <2>1, <3>1 DEF StopAnswered, ControlOK, IInv, TypeOK
  <2>3. CASE accepted
    BY <2>1, <2>2, <2>3, Apart DEF StopAnswered, Kept
  <2>4. CASE ~accepted
    <3> DEFINE row == [session[s] EXCEPT !.status = "INTERRUPTED", !.recon = TRUE]
    <3>1. Transition(session[s].status, "INTERRUPTED") = "INTERRUPTED"
      BY <1>2, OpenTransitions DEF Running
    <3>2. session' = [session EXCEPT ![s] = row]
      BY <2>1, <2>4, <3>1 DEF StopAnswered
    <3>3. Continues(row, session[s])
      BY <1>2 DEF Continues, Running, SessionRow, OpenStatuses, Statuses
    <3> HIDE DEF row
    <3> QED
      BY <1>1, <2>1, <2>2, <3>2, <3>3, Rewrite DEF StopAnswered, Kept
  <2> QED
    BY <2>3, <2>4
<1> QED
  BY <1>3, <1>4, <1>5

LEMMA StartRefusedStep ==
    ASSUME IInv, NEW s \in Sessions, StartRefused(s)
    PROVE  IInv' /\ Promise!Close(s)
<1> DEFINE row == [session[s] EXCEPT !.reason = "SAFETY_FAULT"]
<1>1. Open(s) /\ session[s].status = "START_PENDING" /\ 0 \in CommandIds
  BY EngineAssumption DEF StartRefused, Answerable, RefusalProvesIdle, CommandIds
<1>2. /\ Running(session[s]) /\ session[s].bay \in Bays
      /\ command[s] \in [CommandIds -> CommandRow]
  BY <1>1, OpenIsRunning
<1>3. Continues(row, session[s]) /\ row.status = "START_PENDING"
  BY <1>1, <1>2 DEF Continues, Running, SessionRow, Reasons
<1>4. Finish(s, row, 0, TRUE)
  BY DEF StartRefused
<1>5. ControlOK'
  <2>1. Answer(command[s], 0, FALSE) \in [CommandIds -> CommandRow]
    BY <1>1, <1>2, AnswerTyping
  <2> QED
    BY <2>1 DEF StartRefused, FreeBay, ControlOK, IInv, TypeOK, BayStatuses
<1> HIDE DEF row
<1> QED
  BY <1>1, <1>3, <1>4, <1>5, FinishStep

LEMMA HandleStep ==
    ASSUME IInv, NEW b \in Bays,
           \/ \E kind \in {"telemetry", "event"} : HandleFault(b, kind)
           \/ IgnoredReading(b)
           \/ \E reason \in {"REQUESTED", "SAFETY_FAULT"} : EventStop(b, reason)
    PROVE  Kept
<1>1. CASE \E kind \in {"telemetry", "event"} : HandleFault(b, kind)
  <2>1. ControlOK'
    BY <1>1 DEF HandleFault, ControlOK, IInv, TypeOK, BayStatuses
  <2> QED
    BY <1>1, <2>1, Apart DEF HandleFault, Kept
<1>2. CASE IgnoredReading(b)
  <2>1. ControlOK'
    BY <1>2 DEF IgnoredReading, ControlOK, IInv, TypeOK
  <2> QED
    BY <1>2, <2>1, Apart DEF IgnoredReading, Kept
<1>3. CASE \E reason \in {"REQUESTED", "SAFETY_FAULT"} : EventStop(b, reason)
  <2>1. PICK reason \in {"REQUESTED", "SAFETY_FAULT"} : EventStop(b, reason)
    BY <1>3
  <2>2. CASE \E s \in OpenOn(b) : QueueStop(s, reason)
    <3>1. PICK s \in OpenOn(b) : QueueStop(s, reason)
      BY <2>2
    <3>2. s \in Sessions /\ Open(s)
      BY DEF OpenOn
    <3> QED
      BY <2>1, <3>1, <3>2, QueueStopStep DEF EventStop, Reasons, Kept
  <2>3. CASE UNCHANGED <<session, command, bay>>
    <3>1. ControlOK'
      BY <2>1, <2>3 DEF EventStop, ControlOK, IInv, TypeOK
    <3> QED
      BY <2>1, <2>3, <3>1, Apart DEF EventStop, Kept
  <2> QED
    BY <2>1, <2>2, <2>3 DEF EventStop
<1> QED
  BY <1>1, <1>2, <1>3

LEMMA StrayStep ==
    ASSUME IInv, NEW s \in Sessions, NEW named, NEW relay, NEW unsafe, NEW started,
           StrayReading(s, named, relay, unsafe, started)
    PROVE  Kept
BY QueueStopStep DEF StrayReading, Reasons, Kept

LEMMA ImplausibleStep ==
    ASSUME IInv, NEW s \in Sessions, NEW energy, NEW at, NEW final, NEW surge, NEW unsafe,
           ImplausibleReading(s, energy, at, final, surge, unsafe)
    PROVE  Kept
<1> DEFINE row == StopRow(s, session[s], "SAFETY_FAULT")
<1>1. Open(s)
  BY DEF ImplausibleReading
<1>2. /\ Running(session[s]) /\ session[s].bay \in Bays
      /\ command[s] \in [CommandIds -> CommandRow]
  BY <1>1, OpenIsRunning
<1>3. Continues(row, session[s])
  BY <1>2, StopRowContinues DEF Continues, Reasons
<1>4. session' = [session EXCEPT ![s] = row] /\ UNCHANGED <<hold, wallet, ledger>>
  BY DEF ImplausibleReading
<1>5. ControlOK'
  <2>1. StopCommand(s, command[s]) \in [CommandIds -> CommandRow]
    BY <1>2, StopCommandTyping
  <2>2. StopBay(s, "FAULT") \in BayStatuses
    BY <1>2, StopBayTyping DEF BayStatuses
  <2> QED
    BY <1>2, <2>1, <2>2 DEF ImplausibleReading, ControlOK, IInv, TypeOK
<1> HIDE DEF row
<1> QED
  BY <1>1, <1>3, <1>4, <1>5, Rewrite DEF Kept

LEMMA RunningReadingStep ==
    ASSUME IInv, NEW s \in Sessions, NEW energy \in Nat, NEW at \in Nat,
           NEW relay \in BOOLEAN, NEW final \in BOOLEAN, NEW trouble \in Troubles,
           RunningReading(s, energy, at, relay, final, trouble)
    PROVE  Kept
<1> DEFINE b == session[s].bay
           judged == Judged(s, energy, at, trouble)
           dropped == ~relay /\ judged.status = "CHARGING" /\ judged.reason = "none"
           stop == Stopping(s, energy, trouble) \/ dropped
           status == IF trouble = "unsafe" THEN "FAULT" ELSE bay[b]
           row == IF dropped THEN StopRow(s, judged, "SAFETY_FAULT") ELSE judged
<1>1. Open(s)
  BY DEF RunningReading
<1>2. /\ Running(session[s]) /\ b \in Bays /\ bay[b] \in BayStatuses
      /\ command[s] \in [CommandIds -> CommandRow]
  BY <1>1, OpenIsRunning
<1>3. Continues(judged, session[s])
  BY <1>2, JudgedContinues
<1>4. /\ session' = [session EXCEPT ![s] = row]
      /\ command' = [command EXCEPT ![s] = IF stop THEN StopCommand(s, command[s]) ELSE command[s]]
      /\ bay' = [bay EXCEPT ![b] = IF stop THEN StopBay(s, status) ELSE status]
      /\ fault' = IF trouble = "unsafe" THEN fault \cup {b} ELSE fault
      /\ UNCHANGED <<hold, wallet, ledger, device>>
  BY DEF RunningReading
<1> HIDE DEF judged, stop
<1>5. Continues(row, session[s])
  <2>1. Continues(StopRow(s, judged, "SAFETY_FAULT"), session[s])
    BY <1>3, StopRowContinues DEF Reasons
  <2> QED
    BY <1>3, <2>1
<1> HIDE DEF row
<1>6. ControlOK'
  <2>1. status \in BayStatuses
    BY <1>2 DEF BayStatuses
  <2>2. StopCommand(s, command[s]) \in [CommandIds -> CommandRow] /\ StopBay(s, status) \in BayStatuses
    BY <1>2, <2>1, StopCommandTyping, StopBayTyping
  <2> QED
    BY <1>2, <1>4, <2>1, <2>2 DEF ControlOK, IInv, TypeOK
<1> QED
  BY <1>1, <1>4, <1>5, <1>6, Rewrite DEF Kept

LEMMA FinalReadingStep ==
    ASSUME IInv, NEW s \in Sessions, NEW energy \in Nat, NEW at \in Nat, NEW trouble \in Troubles,
           FinalReading(s, energy, at, trouble)
    PROVE  IInv' /\ Promise!Close(s)
<1> DEFINE row == Judged(s, energy, at, trouble)
<1>1. Open(s) /\ Finish(s, row, energy, FALSE)
  BY DEF FinalReading
<1>2. /\ Running(session[s]) /\ session[s].bay \in Bays
      /\ command[s] \in [CommandIds -> CommandRow]
  BY <1>1, OpenIsRunning
<1>3. Continues(row, session[s])
  BY <1>2, JudgedContinues
<1>4. ControlOK'
  <2>1. StopCommand(s, command[s]) \in [CommandIds -> CommandRow]
    BY <1>2, StopCommandTyping
  <2>2. command' \in [Sessions -> [CommandIds -> CommandRow]]
    BY <1>2, <2>1 DEF FinalReading, IInv, TypeOK
  <2>3. bay' \in [Bays -> BayStatuses] /\ fault' \subseteq Bays /\ UNCHANGED device
    BY <1>2 DEF FinalReading, FreeBay, IInv, TypeOK, BayStatuses
  <2> QED
    BY <2>2, <2>3 DEF ControlOK, IInv, TypeOK
<1> HIDE DEF row
<1> QED
  BY <1>1, <1>3, <1>4, FinishStep

\* An interruption of an open session: by the sweep or by a timeout.
LEMMA InterruptOfflineStep ==
    ASSUME IInv, NEW s \in Sessions, Open(s), InterruptOffline(s), command' \in
           [Sessions -> [CommandIds -> CommandRow]],
           UNCHANGED <<hold, wallet, ledger, fault, device>>
    PROVE  Kept
<1>1. Running(session[s])
  BY OpenIsRunning
<1>2. Continues(Interrupted(s, "DEVICE_OFFLINE"), session[s])
  BY <1>1, InterruptedContinues DEF Reasons
<1>3. session' = [session EXCEPT ![s] = Interrupted(s, "DEVICE_OFFLINE")]
  BY DEF InterruptOffline
<1>4. ControlOK'
  BY DEF InterruptOffline, ControlOK, IInv, TypeOK, BayStatuses
<1> QED
  BY <1>2, <1>3, <1>4, Rewrite DEF Kept

LEMMA TimeOutStep ==
    ASSUME IInv, NEW s \in Sessions, NEW k \in CommandIds, TimeOut(s, k)
    PROVE  Kept
<1> DEFINE commands == [command[s] EXCEPT ![k].status = "TIMED_OUT"]
<1>1. /\ commands \in [CommandIds -> CommandRow]
      /\ StopCommand(s, commands) \in [CommandIds -> CommandRow]
  <2>1. command[s] \in [CommandIds -> CommandRow] /\ command[s][k] \in CommandRow
    BY DEF IInv, TypeOK
  <2>2. [command[s][k] EXCEPT !.status = "TIMED_OUT"] \in CommandRow
    BY <2>1 DEF CommandRow
  <2>3. commands \in [CommandIds -> CommandRow]
    BY <2>1, <2>2
  <2> HIDE DEF commands
  <2> QED
    BY <2>3, StopCommandTyping
<1>2. CASE Open(s)
  <2>1. InterruptOffline(s) /\ command' = [command EXCEPT ![s] = StopCommand(s, commands)]
    BY <1>2 DEF TimeOut
  <2> HIDE DEF commands
  <2>2. command' \in [Sessions -> [CommandIds -> CommandRow]]
    BY <1>1, <2>1 DEF IInv, TypeOK
  <2> QED
    BY <1>2, <2>1, <2>2, InterruptOfflineStep DEF TimeOut
<1>3. CASE ~Open(s)
  <2>1. command' = [command EXCEPT ![s] = commands] /\ UNCHANGED <<session, bay>>
    BY <1>3 DEF TimeOut
  <2> HIDE DEF commands
  <2>2. ControlOK'
    BY <1>1, <2>1 DEF TimeOut, ControlOK, IInv, TypeOK
  <2> QED
    BY <2>1, <2>2, Apart DEF TimeOut, Kept
<1> QED
  BY <1>2, <1>3

LEMMA SweepSessionStep ==
    ASSUME IInv, NEW s \in Sessions,
           \/ SweepSession(s)
           \/ SweepOverdue(s)
           \/ \E reason \in {"DEVICE_OFFLINE", "LIMIT_REACHED"} : SweepStop(s, reason)
    PROVE  Kept
<1>1. CASE SweepSession(s)
  <2>1. CASE Open(s) /\ InterruptOffline(s) /\ command' = [command EXCEPT ![s] = StopCommand(s, @)]
    <3>1. StopCommand(s, command[s]) \in [CommandIds -> CommandRow]
      BY <2>1, OpenIsRunning, StopCommandTyping
    <3>2. command' \in [Sessions -> [CommandIds -> CommandRow]]
      BY <2>1, <3>1 DEF IInv, TypeOK
    <3> QED
      BY <1>1, <2>1, <3>2, InterruptOfflineStep DEF SweepSession
  <2>2. CASE UNCHANGED <<session, command, bay>>
    <3>1. ControlOK'
      BY <1>1, <2>2 DEF SweepSession, ControlOK, IInv, TypeOK
    <3> QED
      BY <1>1, <2>2, <3>1, Apart DEF SweepSession, Kept
  <2> QED
    BY <1>1, <2>1, <2>2 DEF SweepSession
<1>2. CASE SweepOverdue(s)
  <2>1. ControlOK'
    BY <1>2 DEF SweepOverdue, ControlOK, IInv, TypeOK
  <2>2. CASE Open(s) /\ session[s].status = "STOP_PENDING"
    <3> DEFINE row == [session[s] EXCEPT !.status = "INTERRUPTED", !.recon = TRUE]
    <3>1. Running(session[s])
      BY <2>2, OpenIsRunning
    <3>2. Transition(session[s].status, "INTERRUPTED") = "INTERRUPTED"
      BY <3>1, OpenTransitions DEF Running
    <3>3. session' = [session EXCEPT ![s] = row]
      BY <1>2, <2>2, <3>2 DEF SweepOverdue
    <3>4. Continues(row, session[s])
      BY <3>1 DEF Continues, Running, SessionRow, OpenStatuses, Statuses
    <3> HIDE DEF row
    <3> QED
      BY <1>2, <2>1, <2>2, <3>3, <3>4, Rewrite DEF SweepOverdue, Kept
  <2>3. CASE ~(Open(s) /\ session[s].status = "STOP_PENDING")
    BY <1>2, <2>1, <2>3, Apart DEF SweepOverdue, Kept
  <2> QED
    BY <2>2, <2>3
<1>3. CASE \E reason \in {"DEVICE_OFFLINE", "LIMIT_REACHED"} : SweepStop(s, reason)
  <2>1. PICK reason \in {"DEVICE_OFFLINE", "LIMIT_REACHED"} : SweepStop(s, reason)
    BY <1>3
  <2>2. CASE Open(s) /\ QueueStop(s, reason)
    BY <2>1, <2>2, QueueStopStep DEF SweepStop, Reasons, Kept
  <2>3. CASE UNCHANGED <<session, command, bay>>
    <3>1. ControlOK'
      BY <2>1, <2>3 DEF SweepStop, ControlOK, IInv, TypeOK
    <3> QED
      BY <2>1, <2>3, <3>1, Apart DEF SweepStop, Kept
  <2> QED
    BY <2>1, <2>2, <2>3 DEF SweepStop
<1> QED
  BY <1>1, <1>2, <1>3

\* The steps that only look, and those that concern devices and bays only.
LEMMA SurroundingStep ==
    ASSUME IInv,
           \/ SweepLists \/ Restart \/ Ingress
           \/ \E d \in Devices : SweepDevice(d) \/ DeviceQuiet(d)
           \/ \E b \in Bays : ResolveFault(b)
    PROVE  Kept
<1>1. CASE SweepLists \/ Restart
  <2>1. ControlOK' /\ UNCHANGED <<session, hold, wallet, ledger>>
    BY <1>1 DEF SweepLists, SweepDevices, SweepWaiting, SweepActive, Listed, Restart,
                ControlOK, IInv, TypeOK
  <2> QED
    BY <2>1, Apart DEF Kept
<1>2. CASE Ingress
  <2>1. ASSUME NEW b \in Bays, NEW plug \in BOOLEAN, NEW online \in BOOLEAN,
               NEW unsafe \in BOOLEAN, Report(b, plug, online, unsafe)
        PROVE  Kept
    <3> DEFINE status == CASE ~online                           -> "OFFLINE"
                           [] online /\ (unsafe \/ b \in fault) -> "FAULT"
                           [] OTHER                 -> IF plug THEN "PLUGGED" ELSE "AVAILABLE"
    <3>1. status \in BayStatuses
      BY DEF BayStatuses
    <3>2. bay' = IF OpenOn(b) = {} THEN [bay EXCEPT ![b] = status] ELSE bay
      BY <2>1 DEF Report
    <3> HIDE DEF status
    <3>3. ControlOK' /\ UNCHANGED <<session, hold, wallet, ledger>>
      BY <2>1, <3>1, <3>2 DEF Report, ControlOK, IInv, TypeOK
    <3> QED
      BY <3>3, Apart DEF Kept
  <2>2. ASSUME NEW d \in Devices, Heartbeat(d) \/ LastWill(d) PROVE Kept
    <3>1. ControlOK' /\ UNCHANGED <<session, hold, wallet, ledger>>
      BY <2>2 DEF Heartbeat, LastWill, ControlOK, IInv, TypeOK
    <3> QED
      BY <3>1, Apart DEF Kept
  <2> QED
    BY <1>2, <2>1, <2>2 DEF Ingress
<1>3. ASSUME NEW d \in Devices, SweepDevice(d) \/ DeviceQuiet(d) PROVE Kept
  <2>1. bay' \in [Bays -> BayStatuses]
    BY <1>3 DEF SweepDevice, DeviceQuiet, BayStatuses, IInv, TypeOK
  <2>2. ControlOK' /\ UNCHANGED <<session, hold, wallet, ledger>>
    BY <1>3, <2>1 DEF SweepDevice, DeviceQuiet, ControlOK, IInv, TypeOK
  <2> QED
    BY <2>2, Apart DEF Kept
<1>4. ASSUME NEW b \in Bays, ResolveFault(b) PROVE Kept
  <2>1. ControlOK' /\ UNCHANGED <<session, hold, wallet, ledger>>
    BY <1>4 DEF ResolveFault, ControlOK, IInv, TypeOK
  <2> QED
    BY <2>1, Apart DEF Kept
<1> QED
  BY <1>1, <1>2, <1>3, <1>4

LEMMA SessionClockStep ==
    ASSUME IInv, NEW s \in Sessions, SessionQuiet(s) \/ Overtime(s)
    PROVE  Kept
<1>1. Open(s) /\ Running(session[s])
  BY OpenIsRunning DEF SessionQuiet, Overtime
<1>2. PICK row : Continues(row, session[s]) /\ session' = [session EXCEPT ![s] = row]
  <2>1. CASE SessionQuiet(s)
    <3>1. Continues([session[s] EXCEPT !.quiet = TRUE], session[s])
      BY <1>1 DEF Continues, Running, SessionRow
    <3> QED
      BY <2>1, <3>1 DEF SessionQuiet
  <2>2. CASE Overtime(s)
    <3>1. Continues([session[s] EXCEPT !.overtime = TRUE], session[s])
      BY <1>1 DEF Continues, Running, SessionRow
    <3> QED
      BY <2>2, <3>1 DEF Overtime
  <2> QED
    BY <2>1, <2>2
<1>3. ControlOK' /\ UNCHANGED <<hold, wallet, ledger>>
  BY DEF SessionQuiet, Overtime, ControlOK, IInv, TypeOK
<1> QED
  BY <1>1, <1>2, <1>3, Rewrite DEF Kept

-----------------------------------------------------------------------------
(* Every step *)

LEMMA InitIsSound == Init => IInv /\ Promise!Init
<1> SUFFICES ASSUME Init PROVE IInv /\ Promise!Init
  OBVIOUS
<1>1. Unused \in SessionRow /\ NoCommand \in CommandRow
  BY DEF Unused, SessionRow, NoCommand, CommandRow
<1>2. TypeOK
  BY <1>1, EngineAssumption DEF Init, TypeOK, BayStatuses
<1>3. \A s \in Sessions : session[s] = Unused /\ hold[s] = "NONE" /\ ~Open(s)
  BY DEF Init, Open, Unused
<1>4. DebitIsFinal
  BY DEF Init, DebitIsFinal, Posted
<1>5. IInv
  BY <1>2, <1>3, <1>4 DEF IInv, HoldWhileOpen, OneOpenSession, OpenRuns, UnusedIsClean, Covered
<1>6. Promise!Init
  BY <1>3 DEF Init, Promise!Init, Unused
<1> QED
  BY <1>5, <1>6

LEMMA StepIsSound == IInv /\ [Next]_vars => IInv' /\ [Promise!Next]_(Promise!vars)
<1> SUFFICES ASSUME IInv, [Next]_vars PROVE IInv' /\ [Promise!Next]_(Promise!vars)
  OBVIOUS
<1>1. CASE Kept
  BY <1>1 DEF Kept
<1>2. ASSUME NEW s \in Sessions, IInv' /\ (Promise!Reserve(s) \/ Promise!Close(s))
      PROVE  IInv' /\ [Promise!Next]_(Promise!vars)
  BY <1>2 DEF Promise!Next
<1>3. CASE Request
  BY <1>1, <1>2, <1>3, StartStep, RequestStep DEF Request
<1>4. CASE Acknowledge
  <2>1. PICK s \in Sessions :
            \/ StartRefused(s)
            \/ StartAccepted(s)
            \/ \E accepted, relay, metered \in BOOLEAN : StartUnclear(s, accepted, relay, metered)
            \/ \E k \in CommandIds, accepted \in BOOLEAN : StopAnswered(s, k, accepted)
    BY <1>4 DEF Acknowledge
  <2> QED
    BY <1>1, <1>2, <2>1, StartRefusedStep, AcknowledgeStep
<1>5. CASE Telemetry
  <2>1. Readings \subseteq Nat /\ 1..MaxAt \subseteq Nat
    BY EngineAssumption
  <2> QED
    BY <1>1, <1>2, <1>5, <2>1, StrayStep, ImplausibleStep, RunningReadingStep, FinalReadingStep
       DEF Telemetry
<1>6. CASE Handle
  BY <1>1, <1>6, HandleStep DEF Handle
<1>7. CASE Dispatches \/ TimeOuts
  BY <1>1, <1>7, DispatchStep, TimeOutStep DEF Dispatches, TimeOuts
<1>8. CASE SweepRows
  <2>1. CASE \E d \in Devices : SweepDevice(d)
    BY <1>1, <2>1, SurroundingStep
  <2>2. CASE \E s \in Sessions :
                 \/ SweepSession(s)
                 \/ SweepOverdue(s)
                 \/ \E reason \in {"DEVICE_OFFLINE", "LIMIT_REACHED"} : SweepStop(s, reason)
    BY <1>1, <2>2, SweepSessionStep
  <2> QED
    BY <1>8, <2>1, <2>2 DEF SweepRows
<1>9. CASE SweepLists \/ Restart \/ Ingress
  BY <1>1, <1>9, SurroundingStep
<1>10. CASE Outside
  <2>1. CASE \E b \in Bays : ResolveFault(b)
    BY <1>1, <2>1, SurroundingStep
  <2>2. CASE \E u \in Users, p \in Postings, amount \in Amounts :
                 PostExternal(u, p, amount) \/ PostExternal(u, p, -amount)
    <3>1. PICK u \in Users, p \in Postings, amount \in Amounts :
              PostExternal(u, p, amount) \/ PostExternal(u, p, -amount)
      BY <2>2
    <3>2. amount \in Int /\ -amount \in Int
      BY EngineAssumption
    <3>3. IInv' /\ Promise!Post(u)
      BY <3>1, <3>2, PostExternalStep
    <3> QED
      BY <3>3 DEF Promise!Next
  <2> QED
    BY <1>10, <2>1, <2>2 DEF Outside
<1>11. CASE Clock
  <2>1. CASE \E s \in Sessions, k \in CommandIds : Expire(s, k)
    BY <1>1, <2>1, DispatchStep
  <2>2. CASE \E s \in Sessions : SessionQuiet(s) \/ Overtime(s)
    BY <1>1, <2>2, SessionClockStep
  <2>3. CASE \E d \in Devices : DeviceQuiet(d)
    BY <1>1, <2>3, SurroundingStep
  <2> QED
    BY <1>11, <2>1, <2>2, <2>3 DEF Clock
<1>12. CASE UNCHANGED vars
  <2>1. ControlOK' /\ UNCHANGED <<session, hold, wallet, ledger>>
    BY <1>12 DEF vars, ControlOK, IInv, TypeOK
  <2> QED
    BY <1>1, <2>1, Apart DEF Kept
<1> QED
  BY <1>3, <1>4, <1>5, <1>6, <1>7, <1>8, <1>9, <1>10, <1>11, <1>12 DEF Next

-----------------------------------------------------------------------------
(* Theorems *)

\* The inductive invariant holds in every reachable state of every instance.
THEOREM Invariance == Spec => []IInv
<1>1. Init => IInv
  BY InitIsSound
<1>2. IInv /\ [Next]_vars => IInv'
  BY StepIsSound
<1> QED
  BY <1>1, <1>2, PTL DEF Spec

\* Rows keep their shape, balances never go below zero, and no handler attempts
\* a transition that state.ts refuses.
THEOREM TypeCorrect == Spec => []TypeOK
<1>1. IInv => TypeOK
  BY DEF IInv
<1> QED
  BY <1>1, Invariance, PTL

\* Credit is held exactly while its session is open: no refusal, stop, timeout or
\* settlement releases it early or forgets to.
THEOREM HoldExactlyWhileOpen == Spec => []HoldWhileOpen
<1>1. IInv => HoldWhileOpen
  BY DEF IInv
<1> QED
  BY <1>1, Invariance, PTL

\* A user and a bay never have two unfinished sessions.
THEOREM OneSessionPerUserAndBay == Spec => []OneOpenSession
<1>1. IInv => OneOpenSession
  BY DEF IInv
<1> QED
  BY <1>1, Invariance, PTL

\* No debit, reversal or adjustment takes a wallet below what is on hold.
THEOREM HoldsStayCovered == Spec => []BalanceCoversHolds
<1>1. IInv => BalanceCoversHolds
  BY HeldIsCovered DEF BalanceCoversHolds
<1> QED
  BY <1>1, Invariance, PTL

\* The engine implements the credit contract: opening a session reserves the
\* whole balance of a user without another, closing it charges at most that.
THEOREM EngineKeepsCreditPromise == Spec => KeepsCreditPromise
<1>1. Init => Promise!Init
  BY InitIsSound
<1>2. IInv /\ [Next]_vars => [Promise!Next]_(Promise!vars)
  BY StepIsSound
<1> QED
  BY <1>1, <1>2, Invariance, PTL DEF Spec, KeepsCreditPromise, Promise!Spec
=============================================================================
