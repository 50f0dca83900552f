------------------------- MODULE MCPaymentSettlement -------------------------
(* Small instances of PaymentSettlement for TLC. *)
EXTENDS PaymentSettlement, TLC

CONSTANTS u1, p1, p2, v1, v2, v3, r1

OneUser == {u1}
TwoPayments == {p1, p2}
OneLocal == {p2}
ThreeAttempts == {v1, v2, v3}
OneRequest == {r1}

AllPaidByOne == [p \in Payments |-> u1]
AllOfOne == [p \in Payments |-> 1]

\* Two attempts of one payment and one that belongs to another shop.
TwoForFirst == [v \in Attempts |-> IF v = v3 THEN Nothing ELSE p1]

\* A payment with the gateway or one with the local sandbox; the theorems are of any
\* number of both.  No step that fairness speaks of initiates a payment.
OneAtATime == \E p \in Payments : \A q \in Payments \ {p} : payment[q] = "NONE"
=============================================================================
