------------------------------ MODULE FormRequests ------------------------------
(***************************************************************************)
(* A form whose confirmation must take effect once: starting a session,    *)
(* a top-up, an administrator's adjustment of a wallet (components/credit) *)
(* and, in the demo of bookings, a reservation (components/stations).  The *)
(* form sends a key that it keeps while its answer may be lost; the client *)
(* gives up after some seconds whatever the backend does; the backend      *)
(* finds again what it has done under a key.                               *)
(*                                                                         *)
(* What a form contains is one choice.  An intention of its user lasts     *)
(* until the choice is changed by hand or confirmed with success.          *)
(***************************************************************************)
EXTENDS Integers

CONSTANTS
    Kinds, Choices,
    MaxIntentions, MaxKeys,     \* bounds
    MaxCalls

VARIABLES
    kind,           \* of the form
    draft,          \* what is on the page
    issued,         \* how many keys have been made
    intention,      \* of the user (history)
    call,           \* requests by their number
    effects,        \* what the backend has done, by key
    answers         \* what the form has reported as done (history)

vars == <<kind, draft, issued, intention, call, effects, answers>>

Calls == 1..MaxCalls
NoCall == [at |-> "none", key |-> 0, choice |-> "none", of |-> 0, heard |-> FALSE, found |-> {}]

Init ==
    /\ kind \in Kinds
    /\ \E c \in Choices : draft = [key |-> 1, choice |-> c, dialog |-> FALSE, busy |-> FALSE]
    /\ issued = 1 /\ intention = 1
    /\ call = [n \in Calls |-> NoCall]
    /\ effects = {} /\ answers = {}

-----------------------------------------------------------------------------
(* The form. *)

\* Whether there is something to review in a dialog, which covers the form
\* and stays while the request is on its way.
Reviewed == kind # "start"

Renewed(f) == issued' = issued + 1 /\ issued < MaxKeys /\ draft' = [f EXCEPT !.key = issued + 1]
NewIntention == intention' = intention + 1 /\ intention < MaxIntentions

Change(c) ==
    /\ ~draft.dialog /\ NewIntention
    /\ IF kind = "reserve" THEN draft' = [draft EXCEPT !.choice = c] /\ UNCHANGED issued
                           ELSE Renewed([draft EXCEPT !.choice = c])
    /\ UNCHANGED <<kind, call, effects, answers>>

\* How a reservation is paid, and its promotion code, are chosen in the dialog,
\* also while it is on its way.
ChangePayment(c) ==
    /\ kind = "reserve" /\ draft.dialog /\ NewIntention
    /\ draft' = [draft EXCEPT !.choice = c]
    /\ UNCHANGED <<kind, issued, call, effects, answers>>

\* Where nothing has been chosen, the first station, bay or vehicle there is.
Drift(c) ==
    /\ kind \in {"start", "reserve"}
    /\ draft' = [draft EXCEPT !.choice = c]
    /\ UNCHANGED <<kind, issued, intention, call, effects, answers>>

Review ==
    /\ Reviewed /\ ~draft.dialog
    /\ IF kind = "reserve" THEN Renewed([draft EXCEPT !.dialog = TRUE])
                           ELSE draft' = [draft EXCEPT !.dialog = TRUE] /\ UNCHANGED issued
    /\ UNCHANGED <<kind, intention, call, effects, answers>>

Keep ==
    /\ draft.dialog /\ ~draft.busy
    /\ draft' = [draft EXCEPT !.dialog = FALSE]
    /\ UNCHANGED <<kind, issued, intention, call, effects, answers>>

\* Mutant of Confirm: as mutation() does by default, every request has a new key.
ConfirmAfresh(n) ==
    /\ ~draft.busy /\ (Reviewed => draft.dialog)
    /\ call[n] = NoCall /\ (n > 1 => call[n - 1] # NoCall)
    /\ call' = [call EXCEPT ![n] = [at |-> "sent", key |-> issued + 1, choice |-> draft.choice,
                                    of |-> intention, heard |-> TRUE, found |-> {}]]
    /\ issued' = issued + 1 /\ draft' = [draft EXCEPT !.busy = TRUE]
    /\ UNCHANGED <<kind, intention, effects, answers>>

Confirm(n) ==
    /\ ~draft.busy /\ (Reviewed => draft.dialog)
    /\ call[n] = NoCall /\ (n > 1 => call[n - 1] # NoCall)
    /\ call' = [call EXCEPT ![n] = [at |-> "sent", key |-> draft.key, choice |-> draft.choice,
                                    of |-> intention, heard |-> TRUE, found |-> {}]]
    /\ draft' = [draft EXCEPT !.busy = TRUE]
    /\ UNCHANGED <<kind, issued, intention, effects, answers>>

\* The page is left, and the form opened again.
Leave ==
    /\ Renewed([draft EXCEPT !.dialog = FALSE, !.busy = FALSE])
    /\ NewIntention
    /\ call' = [n \in Calls |-> [call[n] EXCEPT !.heard = FALSE]]
    /\ UNCHANGED <<kind, effects, answers>>

-----------------------------------------------------------------------------
(* The client of the API. *)

\* Eight seconds have passed, or the connection is broken; the demo has none.
GiveUp(n) ==
    /\ kind # "reserve" /\ call[n].heard
    /\ call' = [call EXCEPT ![n].heard = FALSE]
    /\ draft' = [draft EXCEPT !.busy = FALSE]
    /\ UNCHANGED <<kind, issued, intention, effects, answers>>

\* Such a request may never arrive.
Lost(n) ==
    /\ call[n].at = "sent" /\ ~call[n].heard
    /\ call' = [call EXCEPT ![n].at = "over"]
    /\ UNCHANGED <<kind, draft, issued, intention, effects, answers>>

Fail(n) ==
    /\ call' = [call EXCEPT ![n].at = "over", ![n].heard = FALSE]
    /\ draft' = [draft EXCEPT !.busy = FALSE]
    /\ UNCHANGED <<kind, issued, intention, effects, answers>>

Refused(n) == call[n].heard /\ call[n].at = "refused" /\ Fail(n)

\* A success counts only when the data could be loaded again.
NotRefreshed(n) ==
    /\ kind \in {"start", "adjust"}
    /\ call[n].heard /\ call[n].at = "done" /\ Fail(n)

\* It takes the user to another page, or, for an adjustment, closes the dialog.
Succeeded(n) ==
    /\ call[n].heard /\ call[n].at = "done"
    /\ Renewed([draft EXCEPT !.dialog = FALSE, !.busy = FALSE])
    /\ NewIntention
    /\ answers' = answers \cup {[call |-> n, effect |-> e] : e \in call[n].found}
    /\ call' = [call EXCEPT ![n].at = "over", ![n].heard = FALSE]
    /\ UNCHANGED <<kind, effects>>

-----------------------------------------------------------------------------
(* The backend. *)

Stored(key) == {e \in effects : e.key = key}

Answer(n, at, found) == call' = [call EXCEPT ![n].at = at, ![n].found = found]

\* The same request is answered as before, another one under its key refused;
\* so is a top-up whose checkout the gateway has not confirmed.
Repeat(n, e) ==
    IF (kind = "reserve" \/ e.choice = call[n].choice) /\ e.usable
    THEN Answer(n, "done", {e}) ELSE Answer(n, "refused", {})

\* Too many requests, another origin, nobody signed in or a blocked account.
TurnedAway(n) ==
    /\ kind # "reserve" /\ call[n].at = "sent"
    /\ Answer(n, "refused", {})
    /\ UNCHANGED <<kind, draft, issued, intention, effects, answers>>

\* What the handler checks before it writes: the bay, the vehicle, the gateway, a test failure.
Refuse(n) ==
    /\ call[n].at = (IF kind = "start" THEN "looked" ELSE "sent")
    /\ Stored(call[n].key) = {} \/ kind = "start"
    /\ Answer(n, "refused", {})
    /\ UNCHANGED <<kind, draft, issued, intention, effects, answers>>

\* A start is looked for before its transaction and again within.
Look(n) ==
    /\ kind = "start" /\ call[n].at = "sent"
    /\ IF Stored(call[n].key) = {} THEN Answer(n, "looked", {})
                                   ELSE \E e \in Stored(call[n].key) : Repeat(n, e)
    /\ UNCHANGED <<kind, draft, issued, intention, effects, answers>>

\* An owner has one open session, and a vehicle one reservation at a time.
Excluded(c) == \E e \in effects : e.open /\ (kind = "start" \/ (kind = "reserve" /\ e.choice = c))

Perform(n) ==
    /\ call[n].at = (IF kind = "start" THEN "looked" ELSE "sent")
    /\ IF Stored(call[n].key) # {}
       THEN (\E e \in Stored(call[n].key) : Repeat(n, e)) /\ UNCHANGED effects
       ELSE /\ ~Excluded(call[n].choice)
            /\ \E usable \in IF kind = "topup" THEN BOOLEAN ELSE {TRUE} :
                LET e == [key |-> call[n].key, choice |-> call[n].choice, by |-> n, usable |-> usable, open |-> TRUE] IN
                /\ effects' = effects \cup {e}
                /\ IF usable THEN Answer(n, "done", {e}) ELSE Answer(n, "refused", {})
    /\ UNCHANGED <<kind, draft, issued, intention, answers>>

\* A session, or a reservation, ends.
End(e) ==
    /\ kind \in {"start", "reserve"} /\ e.open
    /\ effects' = (effects \ {e}) \cup {[e EXCEPT !.open = FALSE]}
    /\ UNCHANGED <<kind, draft, issued, intention, call, answers>>

Next ==
    \/ \E c \in Choices : Change(c) \/ ChangePayment(c) \/ Drift(c)
    \/ Review \/ Keep \/ Leave
    \/ \E n \in Calls :
        \/ Confirm(n) \/ GiveUp(n) \/ Lost(n)
        \/ Refused(n) \/ NotRefreshed(n) \/ Succeeded(n)
        \/ TurnedAway(n) \/ Refuse(n) \/ Look(n) \/ Perform(n)
    \/ \E e \in effects : End(e)

Spec == Init /\ [][Next]_vars

-----------------------------------------------------------------------------
\* What a user has intended once takes effect at most once, however often it
\* was confirmed and whatever was lost; and what a form reports as done was
\* done for this intention, with the choice that was confirmed.
OncePerIntention ==
    /\ \A e, f \in effects : call[e.by].of = call[f.by].of => e.by = f.by
    /\ \A a \in answers : /\ call[a.effect.by].of = call[a.call].of
                          /\ a.effect.choice = call[a.call].choice
=============================================================================
