--------------------------- MODULE ClientSession ---------------------------
(***************************************************************************)
(* Who is signed in to a page in API mode, and whose data it shows.        *)
(* Firebase (external) says which user is signed in, and may change it     *)
(* from another tab or by signing in over another; the page asks the       *)
(* backend for the account (components/shared/providers), and loads the    *)
(* account's data with several requests (lib/credit/services), each with   *)
(* the token of whoever is signed in when it is sent (lib/api/client).     *)
(*                                                                         *)
(* Of the data the model keeps whose they are.                             *)
(***************************************************************************)
EXTENDS Integers, FiniteSets

CONSTANTS
    Accounts, Nobody,
    MaxChanges,     \* bound on the changes of user
    MaxRefreshes,   \* and on the refreshes
    MaxLoads        \* and on the loads at a time

VARIABLES
    user,           \* Firebase's
    generation,     \* of the handlers of a change
    handlers,       \* that wait for the backend to answer /me
    account,        \* the page's
    shown,          \* the accounts whose data the page shows
    loads,          \* that have begun and not ended
    refreshSequence,    \* the number of refreshes that have begun
    since           \* who has been signed in since an account was first the page's (history)

vars == <<user, generation, handlers, account, shown, loads, refreshSequence, since>>

Init ==
    /\ user = Nobody /\ generation = 0 /\ handlers = {}
    /\ account = Nobody /\ shown = {} /\ loads = {} /\ refreshSequence = 0
    /\ since = [a \in Accounts |-> {}]

-----------------------------------------------------------------------------
\* A change of account empties the page.
SetAccount(a) ==
    /\ account' = a
    /\ shown' = IF a = account THEN shown ELSE {}
    /\ since' = [x \in Accounts |-> IF since[x] # {} \/ x = a THEN since[x] \cup {user'} ELSE {}]

\* Firebase tells the page of a user, or of a user's new token.
TokenChanged(u) ==
    /\ generation < MaxChanges
    /\ user' = u /\ generation' = generation + 1
    /\ IF u = Nobody
       THEN SetAccount(Nobody) /\ UNCHANGED handlers
       ELSE /\ handlers' = handlers \cup {[generation |-> generation', of |-> u]}
            /\ since' = [x \in Accounts |-> IF since[x] # {} THEN since[x] \cup {u} ELSE {}]
            /\ UNCHANGED <<account, shown>>
    /\ UNCHANGED <<loads, refreshSequence>>

\* Mutant of Latest: an answer counts whatever has happened since.
LatestAny(h) == TRUE

Latest(h) == h.generation = generation

Answered(h, a) ==
    /\ handlers' = handlers \ {h}
    /\ UNCHANGED <<user, generation, loads, refreshSequence>>
    /\ IF Latest(h) THEN SetAccount(a) ELSE UNCHANGED <<account, shown, since>>

SignedIn(h) == h \in handlers /\ Answered(h, h.of)
Failed(h) == h \in handlers /\ Answered(h, Nobody)

\* The handlers of before are disposed of.
Retry ==
    /\ account = Nobody /\ user # Nobody /\ generation < MaxChanges
    /\ generation' = generation + 1
    /\ handlers' = {[generation |-> generation', of |-> user]}
    /\ UNCHANGED <<user, account, shown, loads, refreshSequence, since>>

-----------------------------------------------------------------------------
\* Loads everything.
Refresh ==
    /\ account # Nobody
    /\ refreshSequence < MaxRefreshes /\ Cardinality(loads) < MaxLoads
    /\ refreshSequence' = refreshSequence + 1
    /\ loads' = loads \cup {[kind |-> "refresh", identity |-> account, sequence |-> refreshSequence', of |-> {}]}
    /\ UNCHANGED <<user, generation, handlers, account, shown, since>>

\* Loads one session.
Sync ==
    /\ account # Nobody /\ Cardinality(loads) < MaxLoads
    /\ loads' = loads \cup {[kind |-> "sync", identity |-> account, sequence |-> 0, of |-> {}]}
    /\ UNCHANGED <<user, generation, handlers, account, shown, refreshSequence, since>>

\* One of its requests, or its only retry, is sent and answered.
Fetch(l) ==
    /\ l \in loads /\ user # Nobody
    /\ loads' = (loads \ {l}) \cup {[l EXCEPT !.of = @ \cup {user}]}
    /\ UNCHANGED <<user, generation, handlers, account, shown, refreshSequence, since>>

\* A sync is not compared with what has come since.
MayShow(l) ==
    /\ l.identity = account
    /\ l.kind = "refresh" => l.sequence = refreshSequence

Arrive(l) ==
    /\ l \in loads /\ l.of # {}
    /\ loads' = loads \ {l}
    /\ shown' = IF ~MayShow(l) THEN shown ELSE IF l.kind = "refresh" THEN l.of ELSE shown \cup l.of
    /\ UNCHANGED <<user, generation, handlers, account, refreshSequence, since>>

\* A time limit, no connection, or the page has given it up.
Abandon(l) ==
    /\ l \in loads /\ loads' = loads \ {l}
    /\ UNCHANGED <<user, generation, handlers, account, shown, refreshSequence, since>>

\* The backend no longer knows the token, or there was none: whoever is signed
\* in now is signed out, unless that fails too.
Expired(l) ==
    /\ l \in loads /\ loads' = loads \ {l}
    /\ \E signedOut \in BOOLEAN :
        /\ signedOut => generation < MaxChanges
        /\ user' = IF signedOut THEN Nobody ELSE user
        /\ generation' = IF signedOut /\ user # Nobody THEN generation + 1 ELSE generation
    /\ SetAccount(Nobody)
    /\ UNCHANGED <<handlers, refreshSequence>>

Next ==
    \/ \E u \in Accounts \cup {Nobody} : TokenChanged(u)
    \/ \E h \in handlers : SignedIn(h) \/ Failed(h)
    \/ Retry
    \/ Refresh \/ Sync
    \/ \E l \in loads : Fetch(l) \/ Arrive(l) \/ Abandon(l) \/ Expired(l)

Spec == Init /\ [][Next]_vars

-----------------------------------------------------------------------------
\* Once Firebase's last change has been handled, the page's account is
\* Firebase's user; and the page never shows what belongs to somebody who was
\* signed in only before its account came.  (Who was signed in between two
\* times of the same account may be shown: an answer is compared by account.)
ShownIsOwn ==
    /\ account # Nobody /\ handlers = {} => account = user
    /\ account = Nobody => shown = {}
    /\ account # Nobody => shown \subseteq {account} \cup since[account]
=============================================================================
