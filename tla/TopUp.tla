-------------------------------- MODULE TopUp --------------------------------
(***************************************************************************)
(* What a top-up promises, whoever reports on it and how often: each       *)
(* payment is credited once at most, an administrator can take the credit  *)
(* back once, and neither that nor a payment held for review is undone.    *)
(***************************************************************************)
EXTENDS Integers

CONSTANTS
    Users, Payments,
    PayerOf,        \* who makes a payment
    AmountOf,       \* and of how much
    OpeningCredit

VARIABLES
    standing,       \* "open", "credited", "reversed" or "review" of each payment
    toppedUp        \* what each user has paid in and kept

topUpVars == <<standing, toppedUp>>

Init ==
    /\ standing = [p \in Payments |-> "open"]
    /\ toppedUp = [u \in Users |-> OpeningCredit]

Credit(p) ==
    /\ standing[p] = "open"
    /\ standing' = [standing EXCEPT ![p] = "credited"]
    /\ toppedUp' = [toppedUp EXCEPT ![PayerOf[p]] = @ + AmountOf[p]]

Review(p) ==
    /\ standing[p] = "open"
    /\ standing' = [standing EXCEPT ![p] = "review"]
    /\ UNCHANGED toppedUp

Reverse(p) ==
    /\ standing[p] = "credited"
    /\ standing' = [standing EXCEPT ![p] = "reversed"]
    /\ toppedUp' = [toppedUp EXCEPT ![PayerOf[p]] = @ - AmountOf[p]]

Next == \E p \in Payments : Credit(p) \/ Review(p) \/ Reverse(p)

Spec == Init /\ [][Next]_topUpVars
=============================================================================
