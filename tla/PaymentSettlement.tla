-------------------------- MODULE PaymentSettlement --------------------------
(***************************************************************************)
(* Top-ups (modules/payments): a payment is initiated, the gateway takes   *)
(* the money in one of several attempts, and browser returns, IPNs, the    *)
(* reconciliation job and expiry all report on it at the same time.  Each  *)
(* of them is a handler that reads the payment, calls the gateway and      *)
(* writes, with everything else running between those steps; handler keeps *)
(* what one has read or been told and not yet acted on.                    *)
(*                                                                         *)
(* The gateway is external: attempt is what it knows, and it answers with  *)
(* that or not at all.  A payment is named by its (user, Idempotency-Key)  *)
(* pair, so a repeated initiation finds the payment it made before.        *)
(***************************************************************************)
EXTENDS Integers

CONSTANTS
    Users, Payments,
    PayerOf, AmountOf,  \* of each payment
    Local,              \* the payments made with the local sandbox
    Attempts,           \* val_ids of the gateway
    AttemptOf,          \* the payment each is made for, Nothing for one of another shop
    Requests,           \* callbacks being served
    Job,                \* the reconciliation job
    Providers,          \* what PAYMENT_PROVIDER may be set to: "gateway", "local"
    OpeningCredit,
    Nothing

ASSUME PaymentAssumption ==
    /\ PayerOf \in [Payments -> Users]
    /\ AmountOf \in [Payments -> Nat \ {0}]
    /\ Local \subseteq Payments
    /\ AttemptOf \in [Attempts -> (Payments \ Local) \cup {Nothing}]
    /\ Providers \subseteq {"gateway", "local"} /\ Providers # {}
    /\ OpeningCredit \in Nat
    /\ Nothing \notin Payments \cup Attempts

VARIABLES
    payment,   \* PaymentTransaction.status
    age,       \* 1: past expiresAt, 2: past the seven days the job looks back
    ledger,    \* WalletLedger rows of payments
    balance,   \* Wallet.balanceMinor
    held,      \* what charging sessions hold of it
    spent,     \* the sum of the CHARGING_DEBIT rows of each user
    attempt,   \* external: what the gateway knows of each attempt
    handler,   \* the requests and the job under way
    provider   \* PAYMENT_PROVIDER of the running processes

vars == <<payment, age, ledger, balance, held, spent, attempt, handler, provider>>

-----------------------------------------------------------------------------
Uncredited == {"PENDING", "VALIDATING", "FAILED", "CANCELLED", "EXPIRED"}
Credited == {"PAID", "REVERSED"}
Settled == Credited \cup {"RISK_REVIEW"}

\* An attempt is SAFE when it is VALID or VALIDATED with risk level 0, and RISKY
\* when it is that with any other or no risk level.
Successful == {"SAFE", "RISKY"}

Handlers == Requests \cup {Job}
Idle == [at |-> "idle", payment |-> Nothing, attempt |-> Nothing, outcome |-> "none"]
Working(at, p, v, outcome) == [at |-> at, payment |-> p, attempt |-> v, outcome |-> outcome]

TopUpEntry(p, key) == [kind |-> "TOP_UP", payment |-> p, key |-> key]
ReversalEntry(p) == [kind |-> "REVERSAL", payment |-> p, key |-> "admin"]
ToppedUp(p) == \E e \in ledger : e.kind = "TOP_UP" /\ e.payment = p
Reversed(p) == ReversalEntry(p) \in ledger

Init ==
    /\ payment = [p \in Payments |-> "NONE"]
    /\ age = [p \in Payments |-> 0]
    /\ ledger = {}
    /\ balance = [u \in Users |-> OpeningCredit]
    /\ held = [u \in Users |-> 0]
    /\ spent = [u \in Users |-> 0]
    /\ attempt = [v \in Attempts |-> "NONE"]
    /\ handler = [h \in Handlers |-> Idle]
    /\ provider \in Providers

-----------------------------------------------------------------------------
(* service.ts: initiation, expiry and the local sandbox *)

\* The gateway is told of the payment after it is stored; if that fails the
\* payment stays PENDING all the same.
Initiate(p) ==
    /\ payment[p] = "NONE"
    /\ p \in Local <=> provider = "local"
    /\ payment' = [payment EXCEPT ![p] = "PENDING"]
    /\ UNCHANGED <<age, ledger, balance, held, spent, attempt, handler, provider>>

\* expire(): only a checkout that is still waiting lapses.
Lapsed(p) == IF age[p] > 0 /\ payment[p] \in {"PENDING", "VALIDATING"} THEN "EXPIRED" ELSE payment[p]

\* get(), or an initiation repeated under its key.
Expire(p) ==
    /\ payment[p] # "NONE" /\ Lapsed(p) # payment[p]
    /\ payment' = [payment EXCEPT ![p] = Lapsed(p)]
    /\ UNCHANGED <<age, ledger, balance, held, spent, attempt, handler, provider>>

\* postLedger() of a TOP_UP: a key posts once, and so does a payment.
PostTopUp(p, key) ==
    IF TopUpEntry(p, key) \in ledger THEN UNCHANGED <<ledger, balance>>
    ELSE /\ ~ToppedUp(p)
         /\ ledger' = ledger \cup {TopUpEntry(p, key)}
         /\ balance' = [balance EXCEPT ![PayerOf[p]] = @ + AmountOf[p]]

CompleteLocal(p, outcome) ==
    /\ provider = "local" /\ p \in Local
    /\ payment[p] \in {"PENDING", "FAILED", "CANCELLED"}
    /\ payment' = [payment EXCEPT ![p] = outcome]
    /\ IF outcome = "PAID" THEN PostTopUp(p, "local") ELSE UNCHANGED <<ledger, balance>>
    /\ UNCHANGED <<age, held, spent, attempt, handler, provider>>

-----------------------------------------------------------------------------
(* settlement.ts: validate().  The payment is read, marked, validated with  *)
(* the gateway, and settled under the row lock after it is read again.      *)

\* A success or IPN callback: tran_id and val_id are what the client says.
Callback(h, p, v) ==
    /\ provider = "gateway" /\ handler[h] = Idle
    /\ payment[p] \in Uncredited
    /\ handler' = [handler EXCEPT ![h] = Working("mark", p, v, "none")]
    /\ UNCHANGED <<payment, age, ledger, balance, held, spent, attempt, provider>>

Mark(h) ==
    LET p == handler[h].payment
    IN  /\ handler[h].at = "mark"
        /\ payment' = IF payment[p] \in {"PENDING", "FAILED", "CANCELLED", "EXPIRED"}
                      THEN [payment EXCEPT ![p] = "VALIDATING"] ELSE payment
        /\ handler' = [handler EXCEPT ![h].at = "validate"]
        /\ UNCHANGED <<age, ledger, balance, held, spent, attempt, provider>>

\* Mutant of Confirms: the transaction of the answer is not compared.
ConfirmsAny(v, p) == attempt[v] \in Successful

\* verifyIdentity() and valid(): the answer is about this payment and a success.
Confirms(v, p) == AttemptOf[v] = p /\ attempt[v] \in Successful

\* The gateway answers.  Otherwise the payment is left VALIDATING.
Validate(h) ==
    LET w == handler[h]
    IN  /\ w.at = "validate"
        /\ handler' = [handler EXCEPT ![h] =
               IF Confirms(w.attempt, w.payment)
               THEN Working("settle", w.payment, w.attempt, attempt[w.attempt]) ELSE Idle]
        /\ UNCHANGED <<payment, age, ledger, balance, held, spent, attempt, provider>>

\* Mutants of Settle: not read again under the lock, or only a credited payment is left alone.
SettleUnread(h) ==
    LET w == handler[h]
        p == w.payment
    IN  /\ w.at = "settle"
        /\ handler' = [handler EXCEPT ![h] = Idle]
        /\ payment' = [payment EXCEPT ![p] = IF w.outcome = "SAFE" THEN "PAID" ELSE "RISK_REVIEW"]
        /\ IF w.outcome = "SAFE" THEN PostTopUp(p, "gateway") ELSE UNCHANGED <<ledger, balance>>
        /\ UNCHANGED <<age, held, spent, attempt, provider>>
SettleOverReview(h) ==
    LET w == handler[h]
        p == w.payment
    IN  /\ w.at = "settle"
        /\ handler' = [handler EXCEPT ![h] = Idle]
        /\ IF payment[p] \in Credited
           THEN UNCHANGED <<payment, ledger, balance>>
           ELSE /\ payment' = [payment EXCEPT ![p] = IF w.outcome = "SAFE" THEN "PAID" ELSE "RISK_REVIEW"]
                /\ IF w.outcome = "SAFE" THEN PostTopUp(p, "gateway") ELSE UNCHANGED <<ledger, balance>>
        /\ UNCHANGED <<age, held, spent, attempt, provider>>

Settle(h) ==
    LET w == handler[h]
        p == w.payment
    IN  /\ w.at = "settle"
        /\ handler' = [handler EXCEPT ![h] = Idle]
        /\ IF payment[p] \in Settled
           THEN UNCHANGED <<payment, ledger, balance>>
           ELSE /\ payment' = [payment EXCEPT ![p] = IF w.outcome = "SAFE" THEN "PAID" ELSE "RISK_REVIEW"]
                /\ IF w.outcome = "SAFE" THEN PostTopUp(p, "gateway") ELSE UNCHANGED <<ledger, balance>>
        /\ UNCHANGED <<age, held, spent, attempt, provider>>

-----------------------------------------------------------------------------
(* settlement.ts: reconcile(), from a callback without val_id, of a failure  *)
(* or a cancellation, or from the job                                       *)

Reconcile(h, p) ==
    /\ provider = "gateway" /\ handler[h] = Idle
    /\ payment[p] \in Uncredited
    /\ handler' = [handler EXCEPT ![h] = Working("lookup", p, Nothing, "none")]
    /\ UNCHANGED <<payment, age, ledger, balance, held, spent, attempt, provider>>

\* Mutant of Candidate: expired payments are not looked at again.
CandidateUnexpired(p) == payment[p] \in Uncredited \ {"EXPIRED"} /\ age[p] < 2

\* reconcileBatch(): the unsettled payments of the last seven days.
Candidate(p) == payment[p] \in Uncredited /\ age[p] < 2

Batch(p) == Candidate(p) /\ Reconcile(Job, p)

AttemptsOf(p, outcomes) == {v \in Attempts : AttemptOf[v] = p /\ attempt[v] \in outcomes}

\* A risky success is looked into before a safe one, a success before a failure;
\* a failure counts only when no attempt is still pending.
LookUp(h) ==
    LET p == handler[h].payment
        success == IF AttemptsOf(p, {"RISKY"}) # {} THEN AttemptsOf(p, {"RISKY"})
                   ELSE AttemptsOf(p, {"SAFE"})
        failure == IF AttemptsOf(p, {"PENDING"}) # {} THEN {}
                   ELSE AttemptsOf(p, {"FAILED", "CANCELLED"})
    IN  /\ handler[h].at = "lookup"
        /\ \/ \E v \in success :
                  handler' = [handler EXCEPT ![h] = Working("read", p, v, "none")]
           \/ /\ success = {}
              /\ \E v \in failure :
                  handler' = [handler EXCEPT ![h] = Working("fail", p, v, attempt[v])]
           \/ /\ success = {} /\ failure = {}
              /\ handler' = [handler EXCEPT ![h] = Working("expire", p, Nothing, "none")]
        /\ UNCHANGED <<payment, age, ledger, balance, held, spent, attempt, provider>>

\* validate() is called with the attempt found and reads the payment afresh.
Read(h) ==
    /\ handler[h].at = "read"
    /\ handler' = [handler EXCEPT ![h] =
           IF payment[handler[h].payment] \in Settled THEN Idle ELSE [@ EXCEPT !.at = "mark"]]
    /\ UNCHANGED <<payment, age, ledger, balance, held, spent, attempt, provider>>

Fail(h) ==
    LET p == handler[h].payment
    IN  /\ handler[h].at = "fail"
        /\ payment' = IF payment[p] \in Uncredited
                      THEN [payment EXCEPT ![p] = handler[h].outcome] ELSE payment
        /\ handler' = [handler EXCEPT ![h] = Working("expire", p, Nothing, "none")]
        /\ UNCHANGED <<age, ledger, balance, held, spent, attempt, provider>>

Lapse(h) ==
    LET p == handler[h].payment
    IN  /\ handler[h].at = "expire"
        /\ payment' = [payment EXCEPT ![p] = Lapsed(p)]
        /\ handler' = [handler EXCEPT ![h] = Idle]
        /\ UNCHANGED <<age, ledger, balance, held, spent, attempt, provider>>

-----------------------------------------------------------------------------
(* What goes wrong: the gateway does not answer, a process stops *)

Unanswered(h) ==
    /\ handler[h].at \in {"validate", "lookup"}
    /\ handler' = [handler EXCEPT ![h] = Idle]
    /\ UNCHANGED <<payment, age, ledger, balance, held, spent, attempt, provider>>

Crash(h) ==
    /\ handler[h] # Idle
    /\ handler' = [handler EXCEPT ![h] = Idle]
    /\ UNCHANGED <<payment, age, ledger, balance, held, spent, attempt, provider>>

\* The processes are started again with another PAYMENT_PROVIDER.
Redeploy(to) ==
    /\ to # provider /\ \A h \in Handlers : handler[h] = Idle
    /\ provider' = to
    /\ UNCHANGED <<payment, age, ledger, balance, held, spent, attempt, handler>>

-----------------------------------------------------------------------------
(* The gateway, the clock and the other writers of the wallet *)

\* The customer tries to pay, as often as he likes and however late.
Pay(v) ==
    /\ attempt[v] = "NONE"
    /\ AttemptOf[v] # Nothing => payment[AttemptOf[v]] # "NONE"
    /\ attempt' = [attempt EXCEPT ![v] = "PENDING"]
    /\ UNCHANGED <<payment, age, ledger, balance, held, spent, handler, provider>>

Complete(v, outcome) ==
    /\ attempt[v] = "PENDING"
    /\ attempt' = [attempt EXCEPT ![v] = outcome]
    /\ UNCHANGED <<payment, age, ledger, balance, held, spent, handler, provider>>

Tick(p) ==
    /\ payment[p] # "NONE" /\ age[p] < 2
    /\ age' = [age EXCEPT ![p] = @ + 1]
    /\ UNCHANGED <<payment, ledger, balance, held, spent, attempt, handler, provider>>

\* Mutant of Reverse: what is held is not looked at.
ReverseHeld(p) ==
    /\ ToppedUp(p) /\ ~Reversed(p)
    /\ balance[PayerOf[p]] >= AmountOf[p]
    /\ balance' = [balance EXCEPT ![PayerOf[p]] = @ - AmountOf[p]]
    /\ ledger' = ledger \cup {ReversalEntry(p)}
    /\ payment' = [payment EXCEPT ![p] = "REVERSED"]
    /\ UNCHANGED <<age, held, spent, attempt, handler, provider>>

\* An administrator reverses a TOP_UP: once, and not below what is held.
Reverse(p) ==
    /\ ToppedUp(p) /\ ~Reversed(p)
    /\ balance[PayerOf[p]] - AmountOf[p] >= held[PayerOf[p]]
    /\ balance' = [balance EXCEPT ![PayerOf[p]] = @ - AmountOf[p]]
    /\ ledger' = ledger \cup {ReversalEntry(p)}
    /\ payment' = [payment EXCEPT ![p] = "REVERSED"]
    /\ UNCHANGED <<age, held, spent, attempt, handler, provider>>

\* A charging session holds everything available, and takes some of it at the end.
Hold(u) ==
    /\ held[u] = 0 /\ balance[u] > 0
    /\ held' = [held EXCEPT ![u] = balance[u]]
    /\ UNCHANGED <<payment, age, ledger, balance, spent, attempt, handler, provider>>

Charge(u, cost) ==
    /\ held[u] > 0 /\ cost <= held[u]
    /\ balance' = [balance EXCEPT ![u] = @ - cost]
    /\ spent' = [spent EXCEPT ![u] = @ + cost]
    /\ held' = [held EXCEPT ![u] = 0]
    /\ UNCHANGED <<payment, age, ledger, attempt, handler, provider>>

-----------------------------------------------------------------------------
Service ==
    \E p \in Payments :
        \/ Initiate(p) \/ Expire(p)
        \/ \E outcome \in {"PAID", "FAILED", "CANCELLED"} : CompleteLocal(p, outcome)

Arrive ==
    \E p \in Payments :
        \/ \E h \in Requests :
               Reconcile(h, p) \/ \E v \in Attempts : Callback(h, p, v)
        \/ Batch(p)

Proceed(h) ==
    Mark(h) \/ Validate(h) \/ Settle(h) \/ LookUp(h) \/ Read(h) \/ Fail(h) \/ Lapse(h)

Fails == \E h \in Handlers : Unanswered(h) \/ Crash(h)

Gateway ==
    \E v \in Attempts :
        Pay(v) \/ \E outcome \in Successful \cup {"FAILED", "CANCELLED"} : Complete(v, outcome)

Wallets ==
    \/ \E p \in Payments : Reverse(p)
    \/ \E u \in Users : Hold(u) \/ \E cost \in 0..balance[u] : Charge(u, cost)

Next ==
    \/ Service \/ Arrive \/ (\E h \in Handlers : Proceed(h)) \/ Fails \/ Gateway \/ Wallets
    \/ (\E p \in Payments : Tick(p)) \/ (\E to \in Providers : Redeploy(to))

Spec == Init /\ [][Next]_vars

\* The job is scheduled again and again and takes the payment checked longest ago
\* first; in the end its runs are not cut short, the gateway answers it, and the
\* deployment is one with a gateway.
Fairness ==
    /\ \A p \in Payments : SF_vars(Batch(p))
    /\ WF_vars(Proceed(Job))
    /\ <>[][~(Unanswered(Job) \/ Crash(Job))]_vars
    /\ <>[](provider = "gateway")

LiveSpec == Spec /\ Fairness

-----------------------------------------------------------------------------
HandlerRow ==
    [at : {"idle", "mark", "validate", "settle", "lookup", "read", "fail", "expire"},
     payment : Payments \cup {Nothing}, attempt : Attempts \cup {Nothing},
     outcome : {"none", "SAFE", "RISKY", "FAILED", "CANCELLED"}]

Entries ==
    [kind : {"TOP_UP"}, payment : Payments, key : {"gateway", "local"}]
        \cup [kind : {"REVERSAL"}, payment : Payments, key : {"admin"}]

TypeOK ==
    /\ payment \in [Payments -> Uncredited \cup Settled \cup {"NONE"}]
    /\ age \in [Payments -> 0..2]
    /\ ledger \subseteq Entries
    /\ balance \in [Users -> Nat]
    /\ held \in [Users -> Nat]
    /\ spent \in [Users -> Nat]
    /\ attempt \in [Attempts -> {"NONE", "PENDING", "FAILED", "CANCELLED"} \cup Successful]
    /\ handler \in [Handlers -> HandlerRow]
    /\ provider \in Providers

-----------------------------------------------------------------------------
(* Safety *)

\* A payment says PAID exactly while its credit is in the ledger, and REVERSED
\* once that was taken back, whatever callbacks were under way at the time.
PaidMatchesLedger ==
    \A p \in Payments :
        /\ payment[p] \in Credited <=> ToppedUp(p)
        /\ payment[p] = "REVERSED" <=> Reversed(p)

\* Credit of a gateway payment was confirmed by the gateway: an attempt made for
\* that payment, with no risk; what a callback claims, or pays for, is not enough.
PaidIsConfirmed ==
    \A p \in Payments \ Local : ToppedUp(p) => AttemptsOf(p, {"SAFE"}) # {}

\* No reversal takes credit that a charging session was given to spend.
HeldIsCovered == \A u \in Users : held[u] <= balance[u]

StandingOf(status) ==
    CASE status = "PAID"        -> "credited"
      [] status = "REVERSED"    -> "reversed"
      [] status = "RISK_REVIEW" -> "review"
      [] OTHER                  -> "open"

Promise == INSTANCE TopUp WITH
    standing <- [p \in Payments |-> StandingOf(payment[p])],
    toppedUp <- [u \in Users |-> balance[u] + spent[u]]

\* Each payment is credited once and taken back once at most; PAID, REVERSED and
\* RISK_REVIEW are not left for anything a late report says.
KeepsTopUpPromise == Promise!Spec

-----------------------------------------------------------------------------
(* Liveness *)

\* Money the gateway took is found out about, even if every callback is lost and
\* the payment has expired or failed here, unless that takes the job seven days.
TakenIsSettled ==
    \A v \in {v \in Attempts : AttemptOf[v] # Nothing} :
        attempt[v] \in Successful
            ~> payment[AttemptOf[v]] \in Settled \/ age[AttemptOf[v]] = 2

=============================================================================
