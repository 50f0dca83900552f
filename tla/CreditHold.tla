----------------------------- MODULE CreditHold -----------------------------
(***************************************************************************)
(* What the backend promises about prepaid credit, without saying how a     *)
(* session is run: starting one puts the user's whole balance on hold, and  *)
(* closing it takes at most the hold, once.  Until then nothing else may    *)
(* take the balance below the hold.  ChargingEngine implements this.        *)
(***************************************************************************)
EXTENDS Integers

CONSTANTS Users, Sessions, OwnerOf, OpeningCredit

VARIABLES
    balance,   \* the credit of each user
    phase,     \* "none", "open" or "closed", for the hold of each session
    amount,    \* the credit each session has, or had, on hold
    charged    \* what each session took when it closed

vars == <<balance, phase, amount, charged>>

OpenOf(u) == {s \in Sessions : phase[s] = "open" /\ OwnerOf[s] = u}

Init ==
    /\ balance = [u \in Users |-> OpeningCredit]
    /\ phase = [s \in Sessions |-> "none"]
    /\ amount = [s \in Sessions |-> 0]
    /\ charged = [s \in Sessions |-> 0]

Reserve(s) ==
    /\ phase[s] = "none" /\ OpenOf(OwnerOf[s]) = {} /\ balance[OwnerOf[s]] > 0
    /\ phase' = [phase EXCEPT ![s] = "open"]
    /\ amount' = [amount EXCEPT ![s] = balance[OwnerOf[s]]]
    /\ UNCHANGED <<balance, charged>>

Close(s) ==
    /\ phase[s] = "open"
    /\ phase' = [phase EXCEPT ![s] = "closed"]
    /\ \E charge \in 0..amount[s] :
           /\ charged' = [charged EXCEPT ![s] = charge]
           /\ balance' = [balance EXCEPT ![OwnerOf[s]] = @ - charge]
    /\ UNCHANGED amount

\* A top-up or an adjustment, of any amount that leaves what is on hold.
Post(u) ==
    /\ balance'[u] \in Nat
    /\ balance' = [balance EXCEPT ![u] = balance'[u]]
    /\ \A s \in OpenOf(u) : balance'[u] >= amount[s]
    /\ UNCHANGED <<phase, amount, charged>>

Next ==
    \/ \E s \in Sessions : Reserve(s) \/ Close(s)
    \/ \E u \in Users : Post(u)

Spec == Init /\ [][Next]_vars
=============================================================================
