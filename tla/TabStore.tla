------------------------------ MODULE TabStore ------------------------------
(***************************************************************************)
(* The store behind the browser demo (store/credit-store): every tab works *)
(* on a copy of the snapshot in localStorage.  A transaction takes a lock, *)
(* reads the saved snapshot and saves it again with its change; but every  *)
(* other write to the store saves the tab's copy as it is, because the     *)
(* persistence of zustand (external) writes on each set.                   *)
(*                                                                         *)
(* Of a snapshot the model keeps which transactions are in it, and whose   *)
(* first sign-in; the seed has the demo identities from the start.         *)
(***************************************************************************)
EXTENDS FiniteSets

CONSTANTS
    Tabs,
    Transactions,   \* every transaction that is ever made
    Demo,           \* the demo identities, which a tab remembers over a reload
    Others,         \* accounts of Firebase, which it does not
    Locks,          \* whether the browser has Web Locks
    Nobody          \* in no tab, signed in as no one

VARIABLES
    saved,     \* what is in localStorage
    copy,      \* and in each tab's copy of it
    tab,       \* "closed", "loading", "ready" or "locked": in a transaction
    account    \* who is signed in, in each tab, or remembered until it loads again

vars == <<saved, copy, tab, account>>

Welcome(a) == <<"welcome", a>>

Init ==
    /\ saved = {}
    /\ copy = [t \in Tabs |-> {}]
    /\ tab = [t \in Tabs |-> "closed"]
    /\ account = [t \in Tabs |-> Nobody]

\* Saving is part of every set: what t's copy becomes is what is saved.
Set(t, snapshot) ==
    /\ copy' = [copy EXCEPT ![t] = snapshot]
    /\ saved' = snapshot

Rehydrate(t) == copy' = [copy EXCEPT ![t] = saved]

\* hydrateCredits() begins: the snapshot is read, then the tab's identity.
Load(t) ==
    /\ tab[t] = "closed"
    /\ Rehydrate(t)
    /\ tab' = [tab EXCEPT ![t] = "loading"]
    /\ UNCHANGED <<saved, account>>

\* It ends by setting that identity, a demo one or none, and then ready: each
\* saves the copy.
FinishLoading(t) ==
    /\ tab[t] = "loading"
    /\ Set(t, copy[t])
    /\ tab' = [tab EXCEPT ![t] = "ready"]
    /\ UNCHANGED account

\* A sign-in or a sign-out.  The first sign-in of an account makes its wallet.
SetAccount(t, a) ==
    /\ tab[t] = "ready"
    /\ Set(t, IF a \in Others THEN copy[t] \cup {Welcome(a)} ELSE copy[t])
    /\ account' = [account EXCEPT ![t] = a]
    /\ UNCHANGED tab

Begin(t) ==
    /\ tab[t] = "ready"
    /\ Locks => \A x \in Tabs : tab[x] # "locked"
    /\ Rehydrate(t)
    /\ tab' = [tab EXCEPT ![t] = "locked"]
    /\ UNCHANGED <<saved, account>>

Commit(t, transaction) ==
    /\ tab[t] = "locked" /\ \A x \in Tabs : transaction \notin saved \cup copy[x]
    /\ Set(t, copy[t] \cup {transaction})
    /\ tab' = [tab EXCEPT ![t] = "ready"]
    /\ UNCHANGED account

\* The operation throws: nothing is saved.
Abandon(t) ==
    /\ tab[t] = "locked"
    /\ tab' = [tab EXCEPT ![t] = "ready"]
    /\ UNCHANGED <<saved, copy, account>>

\* A storage event comes from another tab, some time after its write.
Synchronise(t) ==
    /\ tab[t] = "ready"
    /\ Rehydrate(t)
    /\ UNCHANGED <<saved, tab, account>>

\* Only a reload keeps the session storage, and only a demo identity is in it.
Close(t) ==
    /\ tab[t] # "closed"
    /\ tab' = [tab EXCEPT ![t] = "closed"]
    /\ \E a \in {Nobody} \cup ({account[t]} \cap Demo) : account' = [account EXCEPT ![t] = a]
    /\ UNCHANGED <<saved, copy>>

Next ==
    \E t \in Tabs :
        \/ Load(t) \/ FinishLoading(t) \/ Close(t)
        \/ Begin(t) \/ Abandon(t) \/ Synchronise(t)
        \/ \E a \in Demo \cup Others \cup {Nobody} : SetAccount(t, a)
        \/ \E transaction \in Transactions : Commit(t, transaction)

Spec == Init /\ [][Next]_vars

-----------------------------------------------------------------------------
\* What a transaction has saved stays saved: the tabs do not undo each other's
\* charges and payments.  First sign-ins, made outside any transaction, do not
\* count.
SavedStays == [][saved \cap Transactions \subseteq saved']_vars
=============================================================================
