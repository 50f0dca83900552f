------------------------------- MODULE SignIn -------------------------------
(***************************************************************************)
(* Getting from the sign-in form to a protected page: with Google, which   *)
(* takes the whole document away and brings it back                        *)
(* (lib/firebase/google-flow, redirect-state), with a password, or with a  *)
(* demo account (components/auth/auth-form, lib/services/auth).            *)
(*                                                                         *)
(* One tab.  Firebase and Google are external.  The provider of accounts   *)
(* is always answered here; ClientSession has what else may happen to it.  *)
(* Firebase is configured and the site's origin is its own auth domain:    *)
(* otherwise the form only shows an error.  A password reset changes       *)
(* nothing.                                                                *)
(***************************************************************************)
EXTENDS Integers, Sequences

CONSTANTS
    Owner, Admin, Nobody,   \* accounts, or none
    Demo,                   \* the account of the demo
    MaxAttempts,            \* bound on the attempts with Google
    MaxLogins               \* and on those with a password

VARIABLES
    demoEnabled,    \* the mode of the deployment
    firebase,       \* who is signed in, as Firebase knows
    provider,       \* who is signed in, as the pages know
    page, path,     \* "form" or "protected", and which protected page
    away,           \* the attempt for which Google's pages are shown, if not 0
    form,           \* of the form that is, or was last, on the page
    marker,         \* what sessionStorage keeps of an attempt
    completions,    \* attempts whose results Firebase is asked for
    redirecting,    \* the attempt that is about to take the document away
    submitted,      \* forms with a password that wait for Firebase
    logins,         \* how many there have been
    attempt,        \* (history)
    arrived         \* whether Google has brought the user here who is still signed in (history)

vars == <<demoEnabled, firebase, provider, page, path, away, form, marker, completions,
          redirecting, submitted, logins, attempt, arrived>>

Attempts == 1..MaxAttempts
Destinations == {"/dashboard", "/admin"}

\* lib/firebase/auth-routing: a destination that is not a path of this site.
SafeDestination(next) == IF next \in Destinations THEN next ELSE "/dashboard"

NoMarker == [of |-> 0, old |-> FALSE]
NewForm(role, next) ==
    [role |-> role, next |-> next, pending |-> 0, busy |-> FALSE, checking |-> TRUE, destination |-> "none"]

User == IF provider.demo THEN Demo ELSE provider.user

-----------------------------------------------------------------------------
(* Finding out, when a form appears, what has become of an attempt. *)

\* Nobody on the page listens any more.
Unheard(asked) == [i \in DOMAIN asked |-> [asked[i] EXCEPT !.heard = FALSE]]

\* Mutant of Shared: everyone asks Firebase again.
SharedNot(asked, n) == Append(Unheard(asked), [of |-> n, heard |-> TRUE])

\* Firebase, which tells a result once, is asked once.
Shared(asked, n) ==
    IF asked = <<>> THEN <<[of |-> n, heard |-> TRUE]>> ELSE <<[asked[1] EXCEPT !.heard = TRUE]>>

\* React's Strict Mode runs an effect, disposes of it and runs it again.
Restored(f, asked) ==
    IF marker.of = 0 \/ marker.old
    THEN /\ form' = [f EXCEPT !.checking = FALSE]
         /\ marker' = NoMarker /\ completions' = asked
    ELSE /\ form' = [f EXCEPT !.checking = TRUE]
         /\ \E twice \in BOOLEAN :
                LET once == Shared(asked, marker.of) IN
                completions' = IF twice THEN Shared(Unheard(once), marker.of) ELSE once
         /\ UNCHANGED marker

Mounted(role, next) == page' = "form" /\ Restored(NewForm(role, next), Unheard(completions))

\* Back from Google to the document as it was left.
Resume ==
    /\ away # 0
    /\ away' = 0
    /\ attempt' = [attempt EXCEPT ![away].outcome = "cancelled"]
    /\ IF page = "form" THEN Restored([form EXCEPT !.pending = 0, !.busy = FALSE], completions)
                        ELSE UNCHANGED <<form, marker, completions>>
    /\ UNCHANGED <<demoEnabled, firebase, provider, page, path, redirecting, submitted, logins, arrived>>

\* Firebase tells a success once: afterwards, and if there is none, it tells
\* nothing, which the form shows as a failure.
Complete ==
    /\ away = 0 /\ completions # <<>>
    /\ LET c == Head(completions)
           success == attempt[c.of].outcome = "success" /\ ~attempt[c.of].read
           says == IF success THEN "success" ELSE "failure"
       IN  /\ completions' = Tail(completions)
           /\ marker' = NoMarker
           /\ form' = IF ~c.heard THEN form
                      ELSE [form EXCEPT !.checking = FALSE,
                                        !.destination = IF success THEN attempt[c.of].asked ELSE @]
           /\ attempt' = [attempt EXCEPT
                ![c.of].read = @ \/ success,
                ![c.of].told = IF c.heard THEN @ \cup {<<says, attempt[c.of].outcome>>} ELSE @]
    /\ UNCHANGED <<demoEnabled, firebase, provider, page, path, away, redirecting, submitted, logins, arrived>>

-----------------------------------------------------------------------------
(* The form. *)

\* A link leads to it, also from another form.
Visit(role, next) ==
    /\ away = 0 /\ page = "form"
    /\ Mounted(role, next)
    /\ UNCHANGED <<demoEnabled, firebase, provider, path, away, redirecting, submitted, logins, attempt, arrived>>

\* The attempt is remembered before the document is sent away; the button
\* stays locked until it is.
Google(n) ==
    /\ away = 0 /\ page = "form" /\ form.role = "owner"
    /\ form.pending = 0 /\ ~form.busy /\ ~form.checking /\ provider.ready
    /\ attempt[n].outcome = "none" /\ (n > 1 => attempt[n - 1].outcome # "none")
    /\ marker' = [of |-> n, old |-> FALSE]
    /\ redirecting' = n
    /\ form' = [form EXCEPT !.pending = n, !.busy = TRUE]
    /\ attempt' = [attempt EXCEPT ![n].outcome = "begun", ![n].asked = SafeDestination(form.next)]
    /\ UNCHANGED <<demoEnabled, firebase, provider, page, path, away, completions, submitted, logins, arrived>>

\* It is forgotten and its form unlocked.
RedirectFails ==
    /\ away = 0 /\ redirecting # 0
    /\ redirecting' = 0
    /\ marker' = NoMarker
    /\ form' = IF form.pending = redirecting THEN [form EXCEPT !.pending = 0, !.busy = FALSE] ELSE form
    /\ attempt' = [attempt EXCEPT ![redirecting].outcome = "cancelled"]
    /\ UNCHANGED <<demoEnabled, firebase, provider, page, path, away, completions, submitted, logins, arrived>>

Redirect ==
    /\ away = 0 /\ redirecting # 0
    /\ away' = redirecting /\ redirecting' = 0
    /\ UNCHANGED <<demoEnabled, firebase, provider, page, path, form, marker, completions,
                   submitted, logins, attempt, arrived>>

\* A new document with the form: after Google has signed someone in, or not.
Return(u) ==
    /\ away # 0
    /\ away' = 0
    /\ firebase' = IF u = Nobody THEN firebase ELSE u
    /\ provider' = [provider EXCEPT !.user = Nobody, !.ready = FALSE]
    /\ attempt' = [attempt EXCEPT ![away].outcome = IF u = Nobody THEN "cancelled" ELSE "success"]
    /\ page' = "form" /\ Restored(NewForm("owner", form.next), <<>>)
    /\ redirecting' = 0 /\ submitted' = {} /\ arrived' = FALSE
    /\ UNCHANGED <<demoEnabled, path, logins>>

Submit ==
    /\ away = 0 /\ page = "form" /\ ~form.busy /\ logins < MaxLogins
    /\ logins' = logins + 1
    /\ form' = [form EXCEPT !.busy = TRUE]
    /\ submitted' = submitted \cup {[role |-> form.role, next |-> form.next]}
    /\ UNCHANGED <<demoEnabled, firebase, provider, page, path, away, marker, completions,
                   redirecting, attempt, arrived>>

Enter(destination) == page' = "protected" /\ path' = destination /\ completions' = Unheard(completions)

\* The page is left at once, whether or not the provider has heard of it, and
\* also when another form is on the page by now.
LoggedIn(s, u) ==
    /\ away = 0 /\ s \in submitted
    /\ submitted' = submitted \ {s}
    /\ firebase' = u /\ arrived' = FALSE
    /\ Enter(IF s.role = "admin" THEN "/admin" ELSE SafeDestination(s.next))
    /\ UNCHANGED <<demoEnabled, provider, away, form, marker, redirecting, logins, attempt>>

LoginFails(s) ==
    /\ away = 0 /\ s \in submitted
    /\ submitted' = submitted \ {s}
    /\ form' = IF form.pending = 0 THEN [form EXCEPT !.busy = FALSE] ELSE form
    /\ UNCHANGED <<demoEnabled, firebase, provider, page, path, away, marker, completions,
                   redirecting, logins, attempt, arrived>>

StartDemo ==
    /\ demoEnabled /\ away = 0 /\ page = "form"
    /\ provider' = [provider EXCEPT !.demo = TRUE]
    /\ arrived' = FALSE
    /\ Enter(IF form.role = "admin" THEN "/admin" ELSE SafeDestination(form.next))
    /\ UNCHANGED <<demoEnabled, firebase, away, form, marker, redirecting, submitted, logins, attempt>>

RedirectTo ==
    /\ away = 0 /\ page = "form" /\ form.destination # "none"
    /\ provider.ready /\ User \notin {Nobody, Demo}
    /\ arrived' = (firebase # Nobody)
    /\ Enter(form.destination)
    /\ UNCHANGED <<demoEnabled, firebase, provider, away, form, marker, redirecting, submitted, logins, attempt>>

-----------------------------------------------------------------------------
(* The pages around it. *)

\* components/shared/providers.  Demo mode has only owners.
Publish ==
    /\ away = 0 /\ (~provider.ready \/ provider.user # firebase)
    /\ provider' = [user |-> firebase, ready |-> TRUE, demo |-> provider.demo /\ firebase = Nobody]
    /\ UNCHANGED <<demoEnabled, firebase, page, path, away, form, marker, completions,
                   redirecting, submitted, logins, attempt, arrived>>

\* components/credit/shell.
Guard ==
    /\ away = 0 /\ page = "protected" /\ provider.ready
    /\ \/ /\ User = Nobody
          /\ arrived' = FALSE
          /\ Mounted(IF path = "/admin" THEN "admin" ELSE "owner", path)
          /\ UNCHANGED path
       \/ /\ User = Admin /\ path = "/dashboard"
          /\ path' = "/admin"
          /\ UNCHANGED <<page, form, marker, completions, arrived>>
    /\ UNCHANGED <<demoEnabled, firebase, provider, away, redirecting, submitted, logins, attempt>>

\* Here or in another tab.
SignOut ==
    /\ away = 0 /\ (firebase # Nobody \/ provider.demo)
    /\ firebase' = Nobody /\ provider' = [provider EXCEPT !.demo = FALSE]
    /\ arrived' = FALSE
    /\ UNCHANGED <<demoEnabled, page, path, away, form, marker, completions, redirecting, submitted, logins, attempt>>

\* Fifteen minutes.
Age ==
    /\ marker.of # 0 /\ marker' = [marker EXCEPT !.old = TRUE]
    /\ UNCHANGED <<demoEnabled, firebase, provider, page, path, away, form, completions,
                   redirecting, submitted, logins, attempt, arrived>>

Known == IF demoEnabled THEN {Owner} ELSE {Owner, Admin}

Init ==
    /\ demoEnabled \in BOOLEAN
    /\ firebase = Nobody /\ provider = [user |-> Nobody, ready |-> FALSE, demo |-> FALSE]
    /\ page = "form" /\ path = "/dashboard" /\ away = 0
    /\ form = [NewForm("owner", "/dashboard") EXCEPT !.checking = FALSE]
    /\ marker = NoMarker /\ completions = <<>> /\ redirecting = 0
    /\ submitted = {} /\ logins = 0
    /\ attempt = [n \in Attempts |-> [outcome |-> "none", asked |-> "none", read |-> FALSE, told |-> {}]]
    /\ arrived = FALSE

Next ==
    \/ \E role \in {"owner", "admin"}, next \in Destinations \cup {"elsewhere"} : Visit(role, next)
    \/ \E n \in Attempts : Google(n)
    \/ RedirectFails \/ Redirect \/ Resume \/ Complete \/ RedirectTo
    \/ \E u \in Known \cup {Nobody} : Return(u)
    \/ Submit \/ StartDemo
    \/ \E s \in submitted : LoginFails(s) \/ \E u \in Known : LoggedIn(s, u)
    \/ Publish \/ Guard \/ SignOut \/ Age

Spec == Init /\ [][Next]_vars

-----------------------------------------------------------------------------
\* A form never tells a user that an attempt has failed which has succeeded,
\* and tells of each attempt once; it does not stay locked, or on the point of
\* telling, with nothing left that would unlock it; and who has come with Google
\* is not sent back to sign in.
AttemptIsAnswered ==
    /\ \A n \in Attempts : attempt[n].told \subseteq {<<"success", "success">>}
                        \/ attempt[n].told \subseteq {<<"failure", "begun">>, <<"failure", "cancelled">>}
    /\ page = "form" /\ form.checking => \E i \in DOMAIN completions : completions[i].heard
    /\ page = "form" /\ form.pending # 0 => form.pending \in {redirecting, away}
    /\ page = "protected" /\ arrived => provider.ready /\ User # Nobody
=============================================================================
