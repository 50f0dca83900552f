----------------------- MODULE PaymentSettlementProofs -----------------------
(***************************************************************************)
(* Proofs about PaymentSettlement for any number of users, payments,       *)
(* attempts and handlers: a payment's status agrees with the ledger, gateway*)
(* credit is confirmed, holds stay covered, and TopUp is implemented.      *)
(*                                                                         *)
(* What makes these inductive is WorkIsSound: whatever happens between the *)
(* steps of a handler, what it was told of the gateway's attempt stays     *)
(* true, because a successful attempt is final, while what it read of the  *)
(* payment may not be, which is why Settle and Fail look again.            *)
(***************************************************************************)
EXTENDS PaymentSettlement, TLAPS

\* What a handler at w has learnt and may rely on: of a payment in pay that it
\* exists, of an attempt in att that it was a success.
Sound(w, pay, att) ==
    w.at # "idle" =>
        /\ w.payment \in Payments /\ pay[w.payment] # "NONE"
        /\ w.at \in {"mark", "validate", "settle", "read"} => w.attempt \in Attempts
        /\ w.at = "settle" => /\ AttemptOf[w.attempt] = w.payment
                              /\ att[w.attempt] = w.outcome /\ w.outcome \in Successful
        /\ w.at = "fail" => w.outcome \in {"FAILED", "CANCELLED"}

WorkIsSound == \A h \in Handlers : Sound(handler[h], payment, attempt)

IInv ==
    /\ TypeOK
    /\ PaidMatchesLedger
    /\ PaidIsConfirmed
    /\ HeldIsCovered
    /\ WorkIsSound

Standing == [p \in Payments |-> StandingOf(payment[p])]
Paid == [u \in Users |-> balance[u] + spent[u]]

-----------------------------------------------------------------------------
(* Kinds of steps *)

\* A payment that is not settled gets another status that is not.
LEMMA Restate ==
    ASSUME IInv, NEW p \in Payments, NEW s \in Uncredited,
           payment[p] \notin Settled,
           payment' = [payment EXCEPT ![p] = s],
           UNCHANGED <<ledger, balance, held, spent, attempt>>
    PROVE  /\ payment' \in [Payments -> Uncredited \cup Settled \cup {"NONE"}]
           /\ \A q \in Payments : payment[q] # "NONE" => payment'[q] # "NONE"
           /\ PaidMatchesLedger' /\ PaidIsConfirmed' /\ HeldIsCovered'
           /\ UNCHANGED <<Standing, Paid>>
<1> USE DEF IInv, TypeOK, Uncredited, Settled, Credited
<1>1. payment' \in [Payments -> Uncredited \cup Settled \cup {"NONE"}]
  OBVIOUS
<1>2. \A q \in Payments : payment[q] # "NONE" => payment'[q] # "NONE"
  OBVIOUS
<1>3. PaidMatchesLedger'
  BY DEF PaidMatchesLedger, ToppedUp, Reversed, ReversalEntry
<1>4. PaidIsConfirmed' /\ HeldIsCovered'
  BY DEF PaidIsConfirmed, HeldIsCovered, ToppedUp, AttemptsOf
<1>5. ASSUME NEW q \in Payments PROVE StandingOf(payment'[q]) = StandingOf(payment[q])
  BY DEF StandingOf
<1>6. UNCHANGED <<Standing, Paid>>
  BY <1>5 DEF Standing, Paid
<1>7. QED
  BY <1>1, <1>2, <1>3, <1>4, <1>6

\* No payment and no wallet is touched.
LEMMA Aside ==
    ASSUME IInv, UNCHANGED <<payment, ledger, balance, held, spent>>,
           \A v \in Attempts : attempt[v] = "SAFE" => attempt'[v] = "SAFE"
    PROVE  /\ PaidMatchesLedger' /\ PaidIsConfirmed' /\ HeldIsCovered'
           /\ UNCHANGED <<Standing, Paid>>
<1>1. PaidMatchesLedger' /\ HeldIsCovered'
  BY DEF IInv, PaidMatchesLedger, HeldIsCovered, ToppedUp, Reversed, ReversalEntry
<1>2. PaidIsConfirmed'
  BY DEF IInv, PaidIsConfirmed, ToppedUp, AttemptsOf
<1>3. UNCHANGED <<Standing, Paid>>
  BY DEF Standing, Paid, StandingOf
<1>4. QED
  BY <1>1, <1>2, <1>3

\* What a handler knows stays true while payments do not disappear and a
\* successful attempt stays what it is.
LEMMA SoundStays ==
    ASSUME NEW w, Sound(w, payment, attempt),
           \A q \in Payments : payment[q] # "NONE" => payment'[q] # "NONE",
           \A v \in Attempts : attempt[v] \in Successful => attempt'[v] = attempt[v]
    PROVE  Sound(w, payment', attempt')
BY DEF Sound

\* One handler goes on and the others keep what they know.
LEMMA OneProceeds ==
    ASSUME IInv, NEW h \in Handlers, NEW w \in HandlerRow,
           handler' = [handler EXCEPT ![h] = w], Sound(w, payment', attempt'),
           \A q \in Payments : payment[q] # "NONE" => payment'[q] # "NONE",
           UNCHANGED attempt
    PROVE  handler' \in [Handlers -> HandlerRow] /\ WorkIsSound'
<1>1. handler \in [Handlers -> HandlerRow]
  BY DEF IInv, TypeOK
<1>2. ASSUME NEW g \in Handlers PROVE Sound(handler'[g], payment', attempt')
  <2>1. CASE g = h
    BY <1>1, <2>1
  <2>2. CASE g # h
    <3>1. handler'[g] = handler[g] /\ Sound(handler[g], payment, attempt)
      BY <1>1, <2>2 DEF IInv, WorkIsSound
    <3>2. Sound(handler[g], payment', attempt')
      BY <3>1, SoundStays
    <3> QED
      BY <3>1, <3>2
  <2> QED
    BY <2>1, <2>2
<1>3. QED
  BY <1>1, <1>2 DEF WorkIsSound

\* All the handlers keep what they know.
LEMMA NoneProceeds ==
    ASSUME IInv, UNCHANGED handler,
           \A q \in Payments : payment[q] # "NONE" => payment'[q] # "NONE",
           \A v \in Attempts : attempt[v] \in Successful => attempt'[v] = attempt[v]
    PROVE  handler' \in [Handlers -> HandlerRow] /\ WorkIsSound'
<1>1. \A h \in Handlers : Sound(handler[h], payment', attempt')
  BY SoundStays DEF IInv, WorkIsSound
<1>2. QED
  BY <1>1 DEF IInv, TypeOK, WorkIsSound

LEMMA IdleIsSound == Idle \in HandlerRow /\ Sound(Idle, payment', attempt')
BY DEF Idle, HandlerRow, Sound
-----------------------------------------------------------------------------
(* Steps that settle a payment or move money *)

\* A TOP_UP is posted with the status that says so, in the same transaction.
LEMMA CreditStep ==
    ASSUME IInv, NEW p \in Payments, NEW key \in {"gateway", "local"},
           payment[p] \in Uncredited, payment' = [payment EXCEPT ![p] = "PAID"],
           PostTopUp(p, key), UNCHANGED <<held, spent, attempt>>,
           p \in Local \/ AttemptsOf(p, {"SAFE"}) # {}
    PROVE  /\ payment' \in [Payments -> Uncredited \cup Settled \cup {"NONE"}]
           /\ \A q \in Payments : payment[q] # "NONE" => payment'[q] # "NONE"
           /\ ledger' \subseteq Entries /\ balance' \in [Users -> Nat]
           /\ PaidMatchesLedger' /\ PaidIsConfirmed' /\ HeldIsCovered'
           /\ Promise!Credit(p)
<1> USE DEF Uncredited, Settled, Credited
<1>1. ~ToppedUp(p) /\ ~Reversed(p)
  BY DEF IInv, PaidMatchesLedger
<1>2. /\ ledger' = ledger \cup {TopUpEntry(p, key)}
      /\ balance' = [balance EXCEPT ![PayerOf[p]] = @ + AmountOf[p]]
  BY <1>1 DEF PostTopUp, ToppedUp, TopUpEntry
<1>3. /\ payment' \in [Payments -> Uncredited \cup Settled \cup {"NONE"}]
      /\ \A q \in Payments : payment[q] # "NONE" => payment'[q] # "NONE"
  BY DEF IInv, TypeOK
<1>4. ledger' \subseteq Entries
  BY <1>2 DEF IInv, TypeOK, Entries, TopUpEntry
<1>5. PayerOf[p] \in Users /\ AmountOf[p] \in Nat \ {0}
  BY PaymentAssumption
<1>6. balance \in [Users -> Nat] /\ balance' \in [Users -> Nat]
  BY <1>2, <1>5 DEF IInv, TypeOK
<1>7. HeldIsCovered'
  BY <1>2, <1>5, <1>6 DEF IInv, TypeOK, HeldIsCovered
<1>8. ASSUME NEW q \in Payments PROVE ToppedUp(q)' <=> q = p \/ ToppedUp(q)
  <2>1. TopUpEntry(p, key).kind = "TOP_UP" /\ TopUpEntry(p, key).payment = p
    BY DEF TopUpEntry
  <2>2. ToppedUp(q)' <=> \E e \in ledger' : e.kind = "TOP_UP" /\ e.payment = q
    BY DEF ToppedUp
  <2>3. QED
    BY <1>2, <2>1, <2>2 DEF ToppedUp
<1>9. \A q \in Payments : Reversed(q)' <=> Reversed(q)
  BY <1>2 DEF Reversed, ReversalEntry, TopUpEntry
<1>10. PaidMatchesLedger'
  BY <1>1, <1>8, <1>9 DEF IInv, TypeOK, PaidMatchesLedger
<1>11. PaidIsConfirmed'
  BY <1>8 DEF IInv, PaidIsConfirmed, AttemptsOf
<1>12. Promise!Credit(p)
  <2>1. Standing[p] = "open"
    BY DEF Standing, StandingOf
  <2>2. Standing' = [Standing EXCEPT ![p] = "credited"]
    BY DEF Standing, StandingOf, IInv, TypeOK
  <2>3. Paid' = [Paid EXCEPT ![PayerOf[p]] = @ + AmountOf[p]]
    BY <1>2, <1>5, <1>6 DEF Paid, IInv, TypeOK
  <2>4. QED
    BY <2>1, <2>2, <2>3 DEF Promise!Credit, Standing, Paid
<1>13. QED
  BY <1>3, <1>4, <1>6, <1>7, <1>10, <1>11, <1>12

\* A risky success is put aside for review.
LEMMA ReviewStep ==
    ASSUME IInv, NEW p \in Payments, payment[p] \in Uncredited,
           payment' = [payment EXCEPT ![p] = "RISK_REVIEW"],
           UNCHANGED <<ledger, balance, held, spent, attempt>>
    PROVE  /\ payment' \in [Payments -> Uncredited \cup Settled \cup {"NONE"}]
           /\ \A q \in Payments : payment[q] # "NONE" => payment'[q] # "NONE"
           /\ PaidMatchesLedger' /\ PaidIsConfirmed' /\ HeldIsCovered'
           /\ Promise!Review(p)
<1> USE DEF Uncredited, Settled, Credited
<1>1. /\ payment' \in [Payments -> Uncredited \cup Settled \cup {"NONE"}]
      /\ \A q \in Payments : payment[q] # "NONE" => payment'[q] # "NONE"
  BY DEF IInv, TypeOK
<1>2. PaidMatchesLedger'
  BY DEF IInv, TypeOK, PaidMatchesLedger, ToppedUp, Reversed, ReversalEntry
<1>3. PaidIsConfirmed' /\ HeldIsCovered'
  BY DEF IInv, PaidIsConfirmed, HeldIsCovered, ToppedUp, AttemptsOf
<1>4. Standing[p] = "open" /\ Standing' = [Standing EXCEPT ![p] = "review"]
  BY DEF Standing, StandingOf, IInv, TypeOK
<1>5. QED
  BY <1>1, <1>2, <1>3, <1>4 DEF Promise!Review, Standing

\* The administrator's reversal finds the payment PAID, because the ledger has
\* its TOP_UP and not yet its REVERSAL.
LEMMA ReverseStep ==
    ASSUME IInv, NEW p \in Payments, Reverse(p)
    PROVE  IInv' /\ Promise!Reverse(p)
<1> USE DEF Uncredited, Settled, Credited
<1>1. /\ balance' = [balance EXCEPT ![PayerOf[p]] = @ - AmountOf[p]]
      /\ ledger' = ledger \cup {ReversalEntry(p)}
      /\ payment' = [payment EXCEPT ![p] = "REVERSED"]
      /\ balance[PayerOf[p]] - AmountOf[p] >= held[PayerOf[p]]
      /\ UNCHANGED <<age, held, spent, attempt, handler, provider>>
  BY DEF Reverse
<1>2. payment[p] = "PAID"
  BY DEF Reverse, IInv, PaidMatchesLedger
<1>3. PayerOf[p] \in Users /\ AmountOf[p] \in Nat \ {0}
  BY PaymentAssumption
<1>4. balance' \in [Users -> Nat] /\ HeldIsCovered'
  BY <1>1, <1>3 DEF IInv, TypeOK, HeldIsCovered
<1>5. /\ payment' \in [Payments -> Uncredited \cup Settled \cup {"NONE"}]
      /\ \A q \in Payments : payment[q] # "NONE" => payment'[q] # "NONE"
  BY <1>1 DEF IInv, TypeOK
<1>6. ledger' \subseteq Entries
  BY <1>1 DEF IInv, TypeOK, Entries, ReversalEntry
<1>7. handler' \in [Handlers -> HandlerRow] /\ WorkIsSound'
  BY <1>1, <1>5, NoneProceeds
<1>8. TypeOK'
  BY <1>1, <1>4, <1>5, <1>6, <1>7 DEF IInv, TypeOK
<1>9. \A q \in Payments : ToppedUp(q)' <=> ToppedUp(q)
  BY <1>1 DEF ToppedUp, ReversalEntry
<1>10. \A q \in Payments : Reversed(q)' <=> q = p \/ Reversed(q)
  BY <1>1 DEF Reversed, ReversalEntry
<1>11. PaidMatchesLedger'
  BY <1>1, <1>2, <1>9, <1>10 DEF IInv, TypeOK, PaidMatchesLedger
<1>12. PaidIsConfirmed'
  BY <1>1, <1>9 DEF IInv, PaidIsConfirmed, AttemptsOf
<1>13. Promise!Reverse(p)
  <2>1. Standing[p] = "credited" /\ Standing' = [Standing EXCEPT ![p] = "reversed"]
    BY <1>1, <1>2 DEF Standing, StandingOf, IInv, TypeOK
  <2>2. Paid' = [Paid EXCEPT ![PayerOf[p]] = @ - AmountOf[p]]
    BY <1>1, <1>3 DEF Paid, IInv, TypeOK
  <2>3. QED
    BY <2>1, <2>2 DEF Promise!Reverse, Standing, Paid
<1>14. QED
  BY <1>4, <1>7, <1>8, <1>11, <1>12, <1>13 DEF IInv
-----------------------------------------------------------------------------
(* Every step: the invariant is kept and the promise too *)

\* Steps that leave TopUp's state alone may be any of these.
Quiet == UNCHANGED <<Standing, Paid>>

\* A payment whose status is rewritten while no handler moves.
LEMMA ServiceStep ==
    ASSUME IInv, NEW p \in Payments, NEW s \in Uncredited, payment[p] \notin Settled,
           payment' = [payment EXCEPT ![p] = s],
           UNCHANGED <<age, ledger, balance, held, spent, attempt, handler, provider>>
    PROVE  IInv' /\ Quiet
<1>1. /\ payment' \in [Payments -> Uncredited \cup Settled \cup {"NONE"}]
      /\ \A q \in Payments : payment[q] # "NONE" => payment'[q] # "NONE"
      /\ PaidMatchesLedger' /\ PaidIsConfirmed' /\ HeldIsCovered' /\ Quiet
  BY Restate DEF Quiet
<1>2. handler' \in [Handlers -> HandlerRow] /\ WorkIsSound'
  BY <1>1, NoneProceeds
<1>3. TypeOK'
  BY <1>1, <1>2 DEF IInv, TypeOK
<1>4. QED
  BY <1>1, <1>2, <1>3 DEF IInv

\* A handler moves on and nothing else does.
LEMMA HandlerStep ==
    ASSUME IInv, NEW h \in Handlers, NEW w \in HandlerRow,
           handler' = [handler EXCEPT ![h] = w], Sound(w, payment, attempt),
           UNCHANGED <<payment, age, ledger, balance, held, spent, attempt, provider>>
    PROVE  IInv' /\ Quiet
<1>1. PaidMatchesLedger' /\ PaidIsConfirmed' /\ HeldIsCovered' /\ Quiet
  BY Aside DEF Quiet
<1>2. Sound(w, payment', attempt')
  BY DEF Sound
<1>3. handler' \in [Handlers -> HandlerRow] /\ WorkIsSound'
  BY <1>2, OneProceeds
<1>4. TypeOK'
  BY <1>3 DEF IInv, TypeOK
<1>5. QED
  BY <1>1, <1>3, <1>4 DEF IInv

\* A handler moves on and gives the payment it works on another status.
LEMMA RestatingStep ==
    ASSUME IInv, NEW h \in Handlers, NEW w \in HandlerRow,
           handler' = [handler EXCEPT ![h] = w], Sound(w, payment', attempt'),
           NEW p \in Payments, NEW s \in Uncredited, payment[p] \notin Settled,
           payment' = [payment EXCEPT ![p] = s],
           UNCHANGED <<age, ledger, balance, held, spent, attempt, provider>>
    PROVE  IInv' /\ Quiet
<1>1. /\ payment' \in [Payments -> Uncredited \cup Settled \cup {"NONE"}]
      /\ \A q \in Payments : payment[q] # "NONE" => payment'[q] # "NONE"
      /\ PaidMatchesLedger' /\ PaidIsConfirmed' /\ HeldIsCovered' /\ Quiet
  BY Restate DEF Quiet
<1>2. handler' \in [Handlers -> HandlerRow] /\ WorkIsSound'
  BY <1>1, OneProceeds
<1>3. TypeOK'
  BY <1>1, <1>2 DEF IInv, TypeOK
<1>4. QED
  BY <1>1, <1>2, <1>3 DEF IInv

\* The handler at work on a payment, as the proofs of its steps use it.
LEMMA AtWork ==
    ASSUME IInv, NEW h \in Handlers, handler[h].at # "idle"
    PROVE  /\ handler[h] \in HandlerRow /\ Sound(handler[h], payment, attempt)
           /\ handler[h].payment \in Payments
           /\ payment[handler[h].payment] \in Uncredited \cup Settled
BY DEF IInv, TypeOK, WorkIsSound, Sound

LEMMA ServiceIsSound ==
    ASSUME IInv, Service
    PROVE  IInv' /\ (Quiet \/ Promise!Next)
<1>1. PICK p \in Payments :
          \/ Initiate(p) \/ Expire(p)
          \/ \E outcome \in {"PAID", "FAILED", "CANCELLED"} : CompleteLocal(p, outcome)
  BY DEF Service
<1>2. CASE Initiate(p)
  BY <1>2, ServiceStep DEF Initiate, Uncredited, Settled, Credited
<1>3. CASE Expire(p)
  BY <1>3, ServiceStep DEF Expire, Lapsed, Uncredited, Settled, Credited
<1>4. ASSUME NEW outcome \in {"FAILED", "CANCELLED"}, CompleteLocal(p, outcome)
      PROVE  IInv' /\ Quiet
  BY <1>4, ServiceStep DEF CompleteLocal, Uncredited, Settled, Credited
<1>5. CASE CompleteLocal(p, "PAID")
  <2>1. /\ payment' \in [Payments -> Uncredited \cup Settled \cup {"NONE"}]
        /\ \A q \in Payments : payment[q] # "NONE" => payment'[q] # "NONE"
        /\ ledger' \subseteq Entries /\ balance' \in [Users -> Nat]
        /\ PaidMatchesLedger' /\ PaidIsConfirmed' /\ HeldIsCovered'
        /\ Promise!Credit(p)
    BY <1>5, CreditStep DEF CompleteLocal, Uncredited
  <2>2. handler' \in [Handlers -> HandlerRow] /\ WorkIsSound'
    BY <1>5, <2>1, NoneProceeds DEF CompleteLocal
  <2>3. TypeOK'
    BY <1>5, <2>1, <2>2 DEF IInv, TypeOK, CompleteLocal
  <2>4. QED
    BY <2>1, <2>2, <2>3 DEF IInv, Promise!Next
<1>6. QED
  BY <1>1, <1>2, <1>3, <1>4, <1>5

LEMMA ArriveIsSound ==
    ASSUME IInv, Arrive
    PROVE  IInv' /\ Quiet
<1> USE DEF Uncredited, Settled, Credited
<1>1. ASSUME NEW p \in Payments, NEW h \in Handlers, Reconcile(h, p) PROVE IInv' /\ Quiet
  <2>1. Working("lookup", p, Nothing, "none") \in HandlerRow
    BY DEF Working, HandlerRow
  <2>2. Sound(Working("lookup", p, Nothing, "none"), payment, attempt)
    BY <1>1 DEF Sound, Working, Reconcile
  <2>3. QED
    BY <1>1, <2>1, <2>2, HandlerStep DEF Reconcile
<1>2. ASSUME NEW p \in Payments, NEW h \in Handlers, NEW v \in Attempts, Callback(h, p, v)
      PROVE  IInv' /\ Quiet
  <2>1. Working("mark", p, v, "none") \in HandlerRow
    BY DEF Working, HandlerRow
  <2>2. Sound(Working("mark", p, v, "none"), payment, attempt)
    BY <1>2 DEF Sound, Working, Callback
  <2>3. QED
    BY <1>2, <2>1, <2>2, HandlerStep DEF Callback
<1>3. QED
  BY <1>1, <1>2 DEF Arrive, Batch, Handlers
LEMMA MarkIsSound ==
    ASSUME IInv, NEW h \in Handlers, Mark(h)
    PROVE  IInv' /\ Quiet
<1> DEFINE p == handler[h].payment
           w == [handler[h] EXCEPT !.at = "validate"]
<1>1. /\ handler[h] \in HandlerRow /\ Sound(handler[h], payment, attempt)
      /\ p \in Payments /\ payment[p] \in Uncredited \cup Settled /\ handler[h].at = "mark"
  BY AtWork DEF Mark
<1>2. w \in HandlerRow /\ Sound(w, payment, attempt)
  BY <1>1 DEF HandlerRow, Sound
<1>3. handler' = [handler EXCEPT ![h] = w]
  BY DEF Mark
<1>4. CASE payment' = payment
  BY <1>2, <1>3, <1>4, HandlerStep DEF Mark
<1>5. CASE /\ payment[p] \in {"PENDING", "FAILED", "CANCELLED", "EXPIRED"}
           /\ payment' = [payment EXCEPT ![p] = "VALIDATING"]
  <2>1. Sound(w, payment', attempt')
    BY <1>1, <1>2, <1>5 DEF Sound, Mark, IInv, TypeOK
  <2>2. payment[p] \notin Settled /\ "VALIDATING" \in Uncredited
    BY <1>5 DEF Settled, Credited, Uncredited
  <2>3. QED
    BY <1>1, <1>2, <1>3, <1>5, <2>1, <2>2, RestatingStep DEF Mark
<1>6. QED
  BY <1>4, <1>5 DEF Mark

LEMMA ValidateIsSound ==
    ASSUME IInv, NEW h \in Handlers, Validate(h)
    PROVE  IInv' /\ Quiet
<1> DEFINE r == handler[h]
           w == Working("settle", r.payment, r.attempt, attempt[r.attempt])
<1>1. /\ r \in HandlerRow /\ Sound(r, payment, attempt) /\ r.at = "validate"
      /\ r.payment \in Payments /\ r.attempt \in Attempts
  BY AtWork DEF Validate, Sound
<1>2. CASE Confirms(r.attempt, r.payment)
  <2>1. w \in HandlerRow /\ Sound(w, payment, attempt)
    BY <1>1, <1>2 DEF Confirms, Working, HandlerRow, Sound, Successful
  <2>2. handler' = [handler EXCEPT ![h] = w]
    BY <1>2 DEF Validate
  <2>3. QED
    BY <2>1, <2>2, HandlerStep DEF Validate
<1>3. CASE ~Confirms(r.attempt, r.payment)
  <2>1. Idle \in HandlerRow /\ Sound(Idle, payment, attempt)
    BY DEF Idle, HandlerRow, Sound
  <2>2. QED
    BY <1>3, <2>1, HandlerStep DEF Validate
<1>4. QED
  BY <1>2, <1>3

\* The answer of the gateway still holds, and the payment is read again.
LEMMA SettleIsSound ==
    ASSUME IInv, NEW h \in Handlers, Settle(h)
    PROVE  IInv' /\ (Quiet \/ Promise!Next)
<1> DEFINE r == handler[h]
<1>0. PICK p \in Payments : p = r.payment
  BY AtWork DEF Settle
<1>1. /\ payment[p] \in Uncredited \cup Settled
      /\ r.attempt \in Attempts /\ AttemptOf[r.attempt] = p
      /\ attempt[r.attempt] = r.outcome /\ r.outcome \in Successful
  BY <1>0, AtWork DEF Settle, Sound
<1>2. /\ handler' = [handler EXCEPT ![h] = Idle]
      /\ UNCHANGED <<age, held, spent, attempt, provider>>
  BY DEF Settle
<1>3. Idle \in HandlerRow /\ Sound(Idle, payment, attempt)
  BY DEF Idle, HandlerRow, Sound
<1>4. CASE payment[p] \in Settled
  BY <1>0, <1>2, <1>3, <1>4, HandlerStep DEF Settle
<1>5. CASE payment[p] \notin Settled
  <2>1. payment[p] \in Uncredited
    BY <1>1, <1>5
  <2>2. CASE r.outcome = "SAFE"
    <3>1. payment' = [payment EXCEPT ![p] = "PAID"] /\ PostTopUp(p, "gateway")
      BY <1>0, <1>5, <2>2 DEF Settle
    <3>2. AttemptsOf(p, {"SAFE"}) # {}
      BY <1>1, <2>2 DEF AttemptsOf
    <3>3. /\ payment' \in [Payments -> Uncredited \cup Settled \cup {"NONE"}]
          /\ \A q \in Payments : payment[q] # "NONE" => payment'[q] # "NONE"
          /\ ledger' \subseteq Entries /\ balance' \in [Users -> Nat]
          /\ PaidMatchesLedger' /\ PaidIsConfirmed' /\ HeldIsCovered'
          /\ Promise!Credit(p)
      BY <1>2, <2>1, <3>1, <3>2, CreditStep
    <3>4. handler' \in [Handlers -> HandlerRow] /\ WorkIsSound'
      BY <1>2, <3>3, IdleIsSound, OneProceeds
    <3>5. TypeOK'
      BY <1>2, <3>3, <3>4 DEF IInv, TypeOK
    <3>6. IInv'
      BY <3>3, <3>4, <3>5 DEF IInv
    <3>7. Promise!Next
      BY <3>3 DEF Promise!Next
    <3>8. QED
      BY <3>6, <3>7
  <2>3. CASE r.outcome # "SAFE"
    <3>1. payment' = [payment EXCEPT ![p] = "RISK_REVIEW"] /\ UNCHANGED <<ledger, balance>>
      BY <1>0, <1>5, <2>3 DEF Settle
    <3>2. /\ payment' \in [Payments -> Uncredited \cup Settled \cup {"NONE"}]
          /\ \A q \in Payments : payment[q] # "NONE" => payment'[q] # "NONE"
          /\ PaidMatchesLedger' /\ PaidIsConfirmed' /\ HeldIsCovered'
          /\ Promise!Review(p)
      BY <1>2, <2>1, <3>1, ReviewStep
    <3>3. handler' \in [Handlers -> HandlerRow] /\ WorkIsSound'
      BY <1>2, <3>2, IdleIsSound, OneProceeds
    <3>4. TypeOK'
      BY <1>2, <3>1, <3>2, <3>3 DEF IInv, TypeOK
    <3>5. IInv'
      BY <3>2, <3>3, <3>4 DEF IInv
    <3>6. Promise!Next
      BY <3>2 DEF Promise!Next
    <3>7. QED
      BY <3>5, <3>6
  <2>4. QED
    BY <2>2, <2>3
<1>6. QED
  BY <1>4, <1>5

LEMMA LookUpIsSound ==
    ASSUME IInv, NEW h \in Handlers, LookUp(h)
    PROVE  IInv' /\ Quiet
<1> DEFINE p == handler[h].payment
<1>1. Sound(handler[h], payment, attempt) /\ p \in Payments /\ payment[p] # "NONE"
  BY AtWork DEF LookUp, Sound
<1>2. ASSUME NEW v \in Attempts, handler' = [handler EXCEPT ![h] = Working("read", p, v, "none")]
      PROVE  IInv' /\ Quiet
  <2>1. /\ Working("read", p, v, "none") \in HandlerRow
        /\ Sound(Working("read", p, v, "none"), payment, attempt)
    BY <1>1 DEF Working, HandlerRow, Sound
  <2>2. QED
    BY <1>2, <2>1, HandlerStep DEF LookUp
<1>3. ASSUME NEW v \in Attempts, attempt[v] \in {"FAILED", "CANCELLED"},
             handler' = [handler EXCEPT ![h] = Working("fail", p, v, attempt[v])]
      PROVE  IInv' /\ Quiet
  <2>1. /\ Working("fail", p, v, attempt[v]) \in HandlerRow
        /\ Sound(Working("fail", p, v, attempt[v]), payment, attempt)
    BY <1>1, <1>3 DEF Working, HandlerRow, Sound
  <2>2. QED
    BY <1>3, <2>1, HandlerStep DEF LookUp
<1>4. ASSUME handler' = [handler EXCEPT ![h] = Working("expire", p, Nothing, "none")]
      PROVE  IInv' /\ Quiet
  <2>1. /\ Working("expire", p, Nothing, "none") \in HandlerRow
        /\ Sound(Working("expire", p, Nothing, "none"), payment, attempt)
    BY <1>1 DEF Working, HandlerRow, Sound
  <2>2. QED
    BY <1>4, <2>1, HandlerStep DEF LookUp
<1>5. QED
  BY <1>2, <1>3, <1>4 DEF LookUp, AttemptsOf

LEMMA ReadIsSound ==
    ASSUME IInv, NEW h \in Handlers, Read(h)
    PROVE  IInv' /\ Quiet
<1> DEFINE w == IF payment[handler[h].payment] \in Settled THEN Idle
                ELSE [handler[h] EXCEPT !.at = "mark"]
<1>1. handler[h] \in HandlerRow /\ Sound(handler[h], payment, attempt) /\ handler[h].at = "read"
  BY AtWork DEF Read
<1>2. w \in HandlerRow /\ Sound(w, payment, attempt)
  BY <1>1 DEF HandlerRow, Sound, Idle
<1>3. handler' = [handler EXCEPT ![h] = w]
  BY DEF Read
<1>4. QED
  BY <1>2, <1>3, HandlerStep DEF Read
LEMMA FailIsSound ==
    ASSUME IInv, NEW h \in Handlers, Fail(h)
    PROVE  IInv' /\ Quiet
<1> DEFINE p == handler[h].payment
           w == Working("expire", p, Nothing, "none")
<1>1. /\ p \in Payments /\ payment[p] # "NONE" /\ payment[p] \in Uncredited \cup Settled
      /\ handler[h].outcome \in {"FAILED", "CANCELLED"}
  BY AtWork DEF Fail, Sound
<1>2. w \in HandlerRow /\ Sound(w, payment, attempt)
  BY <1>1 DEF Working, HandlerRow, Sound
<1>3. handler' = [handler EXCEPT ![h] = w]
  BY DEF Fail
<1>4. CASE payment[p] \notin Uncredited
  BY <1>2, <1>3, <1>4, HandlerStep DEF Fail
<1>5. CASE payment[p] \in Uncredited
  <2>1. /\ payment' = [payment EXCEPT ![p] = handler[h].outcome]
        /\ handler[h].outcome \in Uncredited /\ payment[p] \notin Settled
    BY <1>1, <1>5 DEF Fail, Uncredited, Settled, Credited
  <2>2. Sound(w, payment', attempt')
    BY <1>1, <2>1 DEF Sound, Working, IInv, TypeOK
  <2>3. QED
    BY <1>1, <1>2, <1>3, <2>1, <2>2, RestatingStep DEF Fail
<1>6. QED
  BY <1>4, <1>5

LEMMA LapseIsSound ==
    ASSUME IInv, NEW h \in Handlers, Lapse(h)
    PROVE  IInv' /\ Quiet
<1> DEFINE p == handler[h].payment
<1>1. /\ p \in Payments /\ payment[p] # "NONE" /\ payment[p] \in Uncredited \cup Settled
  BY AtWork DEF Lapse, Sound
<1>2. /\ handler' = [handler EXCEPT ![h] = Idle] /\ payment' = [payment EXCEPT ![p] = Lapsed(p)]
      /\ UNCHANGED <<age, ledger, balance, held, spent, attempt, provider>>
  BY DEF Lapse
<1>3. CASE payment[p] \in Settled
  <2>1. payment' = payment
    BY <1>1, <1>2, <1>3 DEF Lapsed, Settled, Credited, IInv, TypeOK
  <2>2. Idle \in HandlerRow /\ Sound(Idle, payment, attempt)
    BY DEF Idle, HandlerRow, Sound
  <2>3. QED
    BY <1>2, <2>1, <2>2, HandlerStep
<1>4. CASE payment[p] \notin Settled
  <2>1. Lapsed(p) \in Uncredited
    BY <1>1, <1>4 DEF Lapsed, Uncredited
  <2>2. QED
    BY <1>1, <1>2, <1>4, <2>1, IdleIsSound, RestatingStep
<1>5. QED
  BY <1>3, <1>4

LEMMA FailsIsSound ==
    ASSUME IInv, Fails
    PROVE  IInv' /\ Quiet
<1>1. Idle \in HandlerRow /\ Sound(Idle, payment, attempt)
  BY DEF Idle, HandlerRow, Sound
<1>2. ASSUME NEW h \in Handlers, Unanswered(h) \/ Crash(h) PROVE IInv' /\ Quiet
  BY <1>1, <1>2, HandlerStep DEF Unanswered, Crash
<1>3. QED
  BY <1>2 DEF Fails

\* The gateway never forgets a success.
LEMMA GatewayIsSound ==
    ASSUME IInv, Gateway
    PROVE  IInv' /\ Quiet
<1>1. /\ \A v \in Attempts : attempt[v] \in Successful => attempt'[v] = attempt[v]
      /\ attempt' \in [Attempts -> {"NONE", "PENDING", "FAILED", "CANCELLED"} \cup Successful]
      /\ UNCHANGED <<payment, age, ledger, balance, held, spent, handler, provider>>
  BY DEF Gateway, Pay, Complete, Successful, IInv, TypeOK
<1>2. PaidMatchesLedger' /\ PaidIsConfirmed' /\ HeldIsCovered' /\ Quiet
  BY <1>1, Aside DEF Successful, Quiet
<1>3. handler' \in [Handlers -> HandlerRow] /\ WorkIsSound'
  BY <1>1, NoneProceeds
<1>4. TypeOK'
  BY <1>1, <1>3 DEF IInv, TypeOK
<1>5. QED
  BY <1>2, <1>3, <1>4 DEF IInv

LEMMA WalletsIsSound ==
    ASSUME IInv, Wallets
    PROVE  IInv' /\ (Quiet \/ Promise!Next)
<1>1. ASSUME NEW p \in Payments, Reverse(p) PROVE IInv' /\ Promise!Next
  BY <1>1, ReverseStep DEF Promise!Next
<1>2. ASSUME NEW u \in Users,
             Hold(u) \/ \E cost \in 0..balance[u] : Charge(u, cost)
      PROVE  IInv' /\ Quiet
  <2>1. /\ UNCHANGED <<payment, age, ledger, attempt, handler, provider>>
        /\ balance' \in [Users -> Nat] /\ held' \in [Users -> Nat] /\ spent' \in [Users -> Nat]
        /\ HeldIsCovered'
        /\ \A x \in Users : balance'[x] + spent'[x] = balance[x] + spent[x]
    BY <1>2 DEF Hold, Charge, IInv, TypeOK, HeldIsCovered
  <2>2. handler' \in [Handlers -> HandlerRow] /\ WorkIsSound'
    BY <2>1, NoneProceeds
  <2>3. PaidMatchesLedger' /\ PaidIsConfirmed'
    BY <2>1 DEF IInv, PaidMatchesLedger, PaidIsConfirmed, ToppedUp, Reversed, ReversalEntry,
                AttemptsOf
  <2>4. TypeOK'
    BY <2>1, <2>2 DEF IInv, TypeOK
  <2>5. Quiet
    BY <2>1 DEF Quiet, Standing, Paid, StandingOf
  <2>6. QED
    BY <2>1, <2>2, <2>3, <2>4, <2>5 DEF IInv
<1>3. QED
  BY <1>1, <1>2 DEF Wallets

LEMMA OthersAreSound ==
    ASSUME IInv, (\E p \in Payments : Tick(p)) \/ (\E to \in Providers : Redeploy(to))
    PROVE  IInv' /\ Quiet
<1>1. /\ UNCHANGED <<payment, ledger, balance, held, spent, attempt, handler>>
      /\ age' \in [Payments -> 0..2] /\ provider' \in Providers
  BY DEF Tick, Redeploy, IInv, TypeOK
<1>2. PaidMatchesLedger' /\ PaidIsConfirmed' /\ HeldIsCovered' /\ Quiet
  BY <1>1, Aside DEF Quiet
<1>3. handler' \in [Handlers -> HandlerRow] /\ WorkIsSound'
  BY <1>1, NoneProceeds
<1>4. QED
  BY <1>1, <1>2, <1>3 DEF IInv, TypeOK

-----------------------------------------------------------------------------
LEMMA InitIsSound == Init => IInv /\ Promise!Init
<1> SUFFICES ASSUME Init PROVE IInv /\ Promise!Init
  OBVIOUS
<1>1. TypeOK /\ WorkIsSound
  BY PaymentAssumption DEF Init, TypeOK, WorkIsSound, Sound, Idle, HandlerRow, Entries
<1>2. PaidMatchesLedger /\ PaidIsConfirmed /\ HeldIsCovered
  BY PaymentAssumption
     DEF Init, PaidMatchesLedger, PaidIsConfirmed, HeldIsCovered, ToppedUp, Reversed, Credited
<1>3. Promise!Init
  BY PaymentAssumption DEF Init, Promise!Init, StandingOf
<1>4. QED
  BY <1>1, <1>2, <1>3 DEF IInv

LEMMA StepIsSound == IInv /\ [Next]_vars => IInv' /\ [Promise!Next]_(Promise!topUpVars)
<1> SUFFICES ASSUME IInv, [Next]_vars PROVE IInv' /\ (Quiet \/ Promise!Next)
  BY DEF Quiet, Standing, Paid, Promise!topUpVars
<1>1. CASE Service
  BY <1>1, ServiceIsSound
<1>2. CASE Arrive
  BY <1>2, ArriveIsSound
<1>3. ASSUME NEW h \in Handlers, Proceed(h) PROVE IInv' /\ (Quiet \/ Promise!Next)
  BY <1>3, MarkIsSound, ValidateIsSound, SettleIsSound, LookUpIsSound, ReadIsSound,
     FailIsSound, LapseIsSound DEF Proceed
<1>4. CASE Fails
  BY <1>4, FailsIsSound
<1>5. CASE Gateway
  BY <1>5, GatewayIsSound
<1>6. CASE Wallets
  BY <1>6, WalletsIsSound
<1>7. CASE (\E p \in Payments : Tick(p)) \/ (\E to \in Providers : Redeploy(to))
  BY <1>7, OthersAreSound
<1>8. CASE UNCHANGED vars
  <2>1. UNCHANGED <<payment, age, ledger, balance, held, spent, attempt, handler, provider>>
    BY <1>8 DEF vars
  <2>2. PaidMatchesLedger' /\ PaidIsConfirmed' /\ HeldIsCovered' /\ Quiet
    BY <2>1, Aside DEF Quiet
  <2>3. handler' \in [Handlers -> HandlerRow] /\ WorkIsSound'
    BY <2>1, NoneProceeds
  <2>4. QED
    BY <2>1, <2>2, <2>3 DEF IInv, TypeOK
<1>9. QED
  BY <1>1, <1>2, <1>3, <1>4, <1>5, <1>6, <1>7, <1>8 DEF Next

-----------------------------------------------------------------------------
(* Theorems *)

\* The inductive invariant, for any payments, attempts and handlers.
THEOREM SettlementInvariance == Spec => []IInv
<1>1. IInv /\ [Next]_vars => IInv'
  BY StepIsSound
<1>2. Init => IInv
  BY InitIsSound
<1>3. QED
  BY <1>1, <1>2, PTL DEF Spec

\* Rows keep their shape and no balance goes below zero.
THEOREM SettlementTypeCorrect == Spec => []TypeOK
<1>1. IInv => TypeOK
  BY DEF IInv
<1>2. QED
  BY <1>1, SettlementInvariance, PTL

\* A payment is PAID exactly while its TOP_UP stands in the ledger.
THEOREM StatusMatchesLedger == Spec => []PaidMatchesLedger
<1>1. IInv => PaidMatchesLedger
  BY DEF IInv
<1>2. QED
  BY <1>1, SettlementInvariance, PTL

\* No credit of a gateway payment without a success the gateway confirmed.
THEOREM CreditIsConfirmed == Spec => []PaidIsConfirmed
<1>1. IInv => PaidIsConfirmed
  BY DEF IInv
<1>2. QED
  BY <1>1, SettlementInvariance, PTL

\* Reversals leave what charging sessions hold.
THEOREM ReversalsLeaveHolds == Spec => []HeldIsCovered
<1>1. IInv => HeldIsCovered
  BY DEF IInv
<1>2. QED
  BY <1>1, SettlementInvariance, PTL

\* Every behaviour credits, reviews and reverses a payment as TopUp allows.
THEOREM SettlementKeepsTopUpPromise == Spec => KeepsTopUpPromise
<1>1. Init => Promise!Init
  BY InitIsSound
<1>2. IInv /\ [Next]_vars => [Promise!Next]_(Promise!topUpVars)
  BY StepIsSound
<1>3. QED
  BY <1>1, <1>2, SettlementInvariance, PTL DEF Spec, KeepsTopUpPromise, Promise!Spec
=============================================================================
